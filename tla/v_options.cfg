CONSTANTS
    MaxKnob = 0
    Width = 1
SPECIFICATION Spec
CONSTRAINT Explored
INVARIANTS MountOptionsTakeEffect
