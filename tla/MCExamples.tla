----------------------------- MODULE MCExamples -----------------------------
(***************************************************************************)
(* The examples passthrough (Passthrough) and notifyfs (Notifyfs), in one  *)
(* run.  example says which of the two a behavior is about; the variables  *)
(* of the other stay as they are.                                          *)
(***************************************************************************)
EXTENDS Passthrough, Sequences

CONSTANTS Peak, MaxTicks

VARIABLES example, ticks, hasNotify, mount, tpc, event, watching, queue, listed, view

TwoCallers == {<<1, 1>>, <<2, 2>>}

\* The ids and the descriptors do not depend on one another: a process that was
\* started as root is explored with no descriptor in the kernel's hands.
Explored == start <= 1 /\ (start = 0 => \A d \in Fds : held[d] = None)

N == INSTANCE Notifyfs

ASSUME NAssumption == N!NotifyfsAssumption

notifyVars == <<ticks, hasNotify, mount, tpc, event, watching, queue, listed, view>>

SumInit ==
    /\ example \in {"passthrough", "notifyfs"}
    /\ Init /\ N!Init
    /\ IF example = "notifyfs" THEN start = 0 ELSE hasNotify

SumNext ==
    /\ \/ example = "passthrough" /\ Next /\ UNCHANGED notifyVars
       \/ example = "notifyfs" /\ N!Next /\ UNCHANGED vars
    /\ UNCHANGED example

SumSpec == SumInit /\ [][SumNext]_<<example, vars, notifyVars>>

-----------------------------------------------------------------------------
\* Notifyfs: the view of a client that watches catches up with the files there
\* are (notifyfs.go:85-127, host.go:248-264).
ViewCatchesUp == N!ViewCatchesUp
=============================================================================
