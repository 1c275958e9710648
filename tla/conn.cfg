CONSTANTS
    MaxKnob = 2
    Width = 1
SPECIFICATION Spec
CONSTRAINT Explored
INVARIANTS GrantedIsAskedAndOffered TuningIsNeverZero
