------------------------------ MODULE MCDispatch ------------------------------
(* Instances of Dispatch for TLC: file systems that differ in what they    *)
(* offer, and the operations that a run asks for.                          *)
EXTENDS Dispatch

Full == [optional |-> Optional, inherits |-> {}]
Bare == [optional |-> {}, inherits |-> Methods]
(* implements the required interface only, as Memfs without memfs3.go      *)
Basic == [optional |-> {}, inherits |-> {}]
(* leaves creation to Mknod and Open, as hostCreate provides for, and does not   *)
(* open directories                                                        *)
Minimal == [optional |-> {}, inherits |-> {"Create", "Opendir", "Releasedir"}]
MinimalEx == [optional |-> {"OpenEx"}, inherits |-> {"CreateEx"}]

SomeFileSystems == {Full, Bare, Basic, Minimal, MinimalEx}
BothTables == {"fuse3", "winfsp"}
AllOps == CommonOps \cup Fuse2Only \cup Fuse3Only \cup WinFspOnly

(* Every operation is explored alone, and those that open, close, make and *)
(* remove two at a time, about one file.  The other file, Target, is there *)
(* to be the second file of CopyFileRange, where that is offered: it       *)
(* exists, and while it is in use either file is only opened, copied from  *)
(* or to and released, two requests at a time as well.                     *)
CONSTANT Target

SharedOps ==
    {"Open", "Create", "Getattr", "Release", "Unlink", "Opendir", "Releasedir"}
CopyOps == {"Open", "CopyFileRange", "Release"}

Busies == {t \in Threads : req[t] # Idle}
TargetInUse ==
    \/ \E h \in Handles : opened[h] = Target
    \/ \E t \in Busies : req[t].file = Target

Explored ==
    /\ Target \in nodes
    /\ IF TargetInUse
       THEN /\ build = "fuse3" /\ Offers("CopyFileRange")
            /\ \A t \in Busies : req[t].op \in CopyOps
       ELSE \A t, u \in Busies : t # u => req[t].op \in SharedOps
===============================================================================
