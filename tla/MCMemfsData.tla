---------------------------- MODULE MCMemfsData ----------------------------
(***************************************************************************)
(* What a node of memfs holds, in one run: its contents (MemfsData), its   *)
(* extended attributes (MemfsXattr) and its attributes (MemfsAttrs).  part *)
(* says which of the three a behavior is about; the variables of the other *)
(* two stay as they are.                                                   *)
(***************************************************************************)
EXTENDS MemfsData, MemfsXattr

CONSTANTS f, g, Types, Perms, Ids, Flags, MaxTime

VARIABLES part, now, node, born, mixed

\* One file is explored up to the largest array, the other up to SmallSize.
SmallSize == 1
Explored  == size[g] <= SmallSize

\* Attributes of different lengths, and values of one length and of another;
\* one thread reads, while the others' changes come in between.
Lengths    == [x \in Names |-> IF x = "a" THEN 1 ELSE 2]
SomeValues == {<<0, 0>>, <<1, 1>>, <<1>>}

A == INSTANCE MemfsAttrs

ASSUME AAssumption == A!AttrsAssumption

attrsVars == <<now, node, born, mixed>>

SumInit ==
    /\ part \in {"data", "xattr", "attrs"}
    /\ Init /\ XattrInit /\ A!Init
    /\ part # "attrs" => now = 0 /\ node = A!New("reg", 1, 0, 0, 0)

SumNext ==
    /\ \/ part = "data" /\ Next /\ UNCHANGED <<xattrVars, attrsVars>>
       \/ part = "xattr" /\ XattrNext /\ UNCHANGED <<vars, attrsVars>>
       \/ part = "attrs" /\ A!Next /\ UNCHANGED <<vars, xattrVars>>
    /\ UNCHANGED part

SumSpec == SumInit /\ [][SumNext]_<<part, vars, xattrVars, attrsVars>>

-----------------------------------------------------------------------------
\* MemfsAttrs: a node keeps its type and its times are times
\* (dispatch.go:590-618, memfs.go:197-242).
AttributesMakeSense == A!AttributesMakeSense
=============================================================================
