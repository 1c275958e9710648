-------------------------- MODULE MCLibfuseLoader --------------------------
(* Two paths, one of a broken library that lacks the last symbol. *)
EXTENDS LibfuseLoader

CONSTANTS t1, t2, good, std, broken, pgood, pbroken, nolib, nopath, freed

TwoThreads == {t1, t2}
OneThread  == {t1}
AllLibs    == {good, std, broken}
AllPaths   == {pgood, pbroken}
OnlyGood   == {pgood}
LibAt      == [p \in AllPaths |-> IF p = pgood THEN good ELSE broken]
LibAtGood  == [p \in OnlyGood |-> good]
TwoSyms    == [l \in AllLibs |-> IF l = broken THEN {1} ELSE {1, 2}]
=============================================================================
