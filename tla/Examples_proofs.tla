-------------------------- MODULE Examples_proofs --------------------------
(***************************************************************************)
(* The examples: passthrough, for any number of threads, users, files and  *)
(* descriptors, and notifyfs, for any number of files and ticks.  The ids  *)
(* and the descriptors of passthrough do not meet: each half has an        *)
(* invariant of its own.                                                   *)
(***************************************************************************)
EXTENDS MCExamples, Integers, TLAPS

ControlTypes ==
    /\ pc \in [Threads -> PCs] /\ op \in [Threads -> Ops]
    /\ \A t \in Threads :
          /\ pc[t] \in {"geteuid", "getegid", "setregid", "setreuid", "uidback", "gidback"}
                => op[t] \in Switching
          /\ pc[t] = "idle" => op[t] = "ByPath"
          /\ pc[t] = "list" => op[t] = "Readdir"

-----------------------------------------------------------------------------
(* The ids *)

IdTypes ==
    /\ euid0 \in [Threads -> Ids] /\ egid0 \in [Threads -> Ids]
    /\ {start, euid, suid, egid, sgid} \subseteq Ids
    /\ caller \in [Threads -> Ids \X Ids] /\ acted \in [Threads -> Ids \X Ids]
    /\ alone \in [Threads -> BOOLEAN] /\ overlapped \in BOOLEAN

\* A thread that has found the process privileged and has yet to put back the
\* user id, or the group id, that it has switched.
OwesUser(t)  == op[t] \in Switching /\ pc[t] \in {"call", "uidback"} /\ euid0[t] = 0
OwesGroup(t) == /\ op[t] \in Switching /\ pc[t] \in {"setreuid", "call", "uidback", "gidback"}
                /\ euid0[t] = 0 /\ egid0[t] = 0

\* A process that was not started as root never switches.
PlainInv ==
    start # 0 =>
        /\ euid = start /\ egid = start
        /\ \A t \in Threads :
              /\ pc[t] \notin {"getegid", "setregid", "setreuid", "gidback"}
              /\ op[t] \in Switching /\ pc[t] \in {"call", "uidback"} => euid0[t] # 0

\* In one that was, whenever the user id is not root's somebody is to put it
\* back, and so the group id, unless operations have overlapped.
RootInv ==
    start = 0 =>
        /\ \A t \in Threads : pc[t] \in {"getegid", "setregid", "setreuid", "gidback"} =>
              euid0[t] = 0
        /\ euid # 0 => \E t \in Threads : OwesUser(t)
        /\ ~overlapped =>
              /\ egid # 0 => \E t \in Threads : OwesGroup(t)
              /\ \A t \in Threads :
                    op[t] \in Switching /\ euid0[t] = 0 /\
                    pc[t] \in {"setregid", "setreuid", "call", "uidback", "gidback"} =>
                        egid0[t] = 0

\* Overlaps are seen, by the history of the process and by that of each thread.
OverlapInv ==
    \A s, t \in Threads : s # t /\ Inside(s) /\ Inside(t) => overlapped /\ ~alone[s]

\* One that nothing overlaps has put on its caller's ids when it makes its call.
AloneInv ==
    \A t \in Threads : start = 0 /\ alone[t] /\ op[t] \in Switching =>
        /\ pc[t] \in {"setreuid", "call"} => egid = caller[t][2]
        /\ pc[t] = "call" => euid = caller[t][1]
        /\ pc[t] \in {"uidback", "gidback", "reply"} => acted[t] = caller[t]

IdInv == ControlTypes /\ IdTypes /\ PlainInv /\ RootInv /\ OverlapInv /\ AloneInv

USE PtfsAssumption

LEMMA InitIdInv == Init => IdInv
<1> SUFFICES ASSUME Init PROVE IdInv
  OBVIOUS
<1>1. ControlTypes /\ IdTypes
  BY DEF Init, Each, ControlTypes, IdTypes, PCs, Ops, Openers, OnHandle, Switching, Closers
<1>2. PlainInv /\ RootInv /\ OverlapInv /\ AloneInv
  BY DEF Init, Each, PlainInv, RootInv, OverlapInv, AloneInv, Inside, OwesUser, OwesGroup
<1> QED
  BY <1>1, <1>2 DEF IdInv

\* Among several that switch ids none is alone, so one that is has nobody to
\* find its ids changed by.
LEMMA AloneIsAlone ==
    ASSUME IdInv, NEW t \in Threads, Inside(t), alone[t] \/ ~overlapped
    PROVE  \A s \in Threads \ {t} : ~Inside(s)
BY DEF IdInv, OverlapInv

\* One that is alone and has not switched yet finds a privileged process.
LEMMA AloneIsPrivileged ==
    ASSUME IdInv, NEW t \in Threads, Inside(t), alone[t] \/ ~overlapped, start = 0,
           pc[t] \in {"geteuid", "getegid", "setregid", "setreuid"}
    PROVE  euid = 0
<1> SUFFICES ASSUME euid # 0 PROVE FALSE
  OBVIOUS
<1>1. PICK s \in Threads : OwesUser(s)
  BY DEF IdInv, RootInv
<1>2. Inside(s) /\ s # t
  BY <1>1 DEF Inside, OwesUser
<1> QED
  BY <1>2, AloneIsAlone

LEMMA RequestKeepsIdInv ==
    ASSUME IdInv, NEW t \in Threads, NEW c \in Callers, Request(t, c)
    PROVE  IdInv'
<1>0. PICK o \in Ops : \E f, h : Arrive(t, o, f, h, c)
  BY DEF Request, Ops, Openers, OnHandle, Switching, Closers
<1>1. PICK f, h : Arrive(t, o, f, h, c)
  BY <1>0
<1> DEFINE others == IF o \in Switching THEN {s \in Threads \ {t} : Inside(s)} ELSE {}
           q == IF o \in Switching THEN "geteuid" ELSE "call"
<1>2. /\ pc[t] = "idle" /\ pc' = [pc EXCEPT ![t] = q]
      /\ op' = [op EXCEPT ![t] = o]
      /\ caller' = [caller EXCEPT ![t] = c]
      /\ alone' = [s \in Threads |-> IF s = t THEN others = {} ELSE alone[s] /\ s \notin others]
      /\ overlapped' = (overlapped \/ others # {})
      /\ UNCHANGED <<start, euid, suid, egid, sgid, euid0, egid0, acted>>
  BY <1>1 DEF Arrive, Goto, procVars
<1>3. ControlTypes'
  BY <1>2 DEF IdInv, ControlTypes, PCs, Switching
<1>4. IdTypes'
  BY <1>2 DEF IdInv, IdTypes
<1>5. \A s \in Threads \ {t} : pc'[s] = pc[s] /\ op'[s] = op[s] /\ caller'[s] = caller[s]
                               /\ (alone'[s] => alone[s])
  BY <1>2 DEF IdInv, ControlTypes, IdTypes
<1>6. pc'[t] = q /\ op'[t] = o
  BY <1>2 DEF IdInv, ControlTypes
<1>7. op[t] \notin Switching /\ (overlapped => overlapped')
  BY <1>2 DEF IdInv, ControlTypes, Switching
<1>8. PlainInv'
  BY <1>2, <1>5, <1>6 DEF IdInv, PlainInv, Switching
<1>9. RootInv'
  <2>1. \A s \in Threads : (OwesUser(s) => OwesUser(s)') /\ (OwesGroup(s) => OwesGroup(s)')
    BY <1>2, <1>5, <1>7 DEF OwesUser, OwesGroup
  <2>2. \A s \in Threads : /\ pc'[s] \in {"getegid", "setregid", "setreuid", "gidback"} =>
                                pc[s] = pc'[s]
                           /\ op'[s] \in Switching /\
                              pc'[s] \in {"setregid", "setreuid", "call", "uidback", "gidback"} =>
                                pc[s] = pc'[s] /\ op[s] = op'[s]
    BY <1>5, <1>6
  <2> QED
    BY ONLY <1>2, <1>7, <2>1, <2>2, IdInv DEF IdInv, RootInv
<1>10. \A s \in Threads \ {t} : Inside(s)' = Inside(s)
  BY <1>5 DEF Inside
<1>11. OverlapInv'
  <2> SUFFICES ASSUME NEW r \in Threads, NEW s \in Threads, r # s, Inside(r)', Inside(s)'
               PROVE  overlapped' /\ ~alone'[r]
    BY DEF OverlapInv
  <2>1. CASE r # t /\ s # t
    <3>1. overlapped /\ ~alone[r]
      BY <1>10, <2>1 DEF IdInv, OverlapInv
    <3> QED
      BY <1>5, <1>7, <2>1, <3>1
  <2>2. CASE r = t
    <3>1. o \in Switching /\ s \in others
      BY <1>6, <1>10, <2>2 DEF Inside
    <3> QED
      BY <1>2, <2>2, <3>1
  <2>3. CASE s = t
    <3>1. o \in Switching /\ r \in others
      BY <1>6, <1>10, <2>3 DEF Inside
    <3> QED
      BY <1>2, <2>3, <3>1
  <2> QED
    BY <2>1, <2>2, <2>3
<1>12. AloneInv'
  <2> SUFFICES ASSUME NEW s \in Threads, start' = 0, alone'[s], op'[s] \in Switching
               PROVE  /\ pc'[s] \in {"setreuid", "call"} => egid' = caller'[s][2]
                      /\ pc'[s] = "call" => euid' = caller'[s][1]
                      /\ pc'[s] \in {"uidback", "gidback", "reply"} => acted'[s] = caller'[s]
    BY DEF AloneInv
  <2>1. CASE s = t
    BY <1>6, <2>1
  <2>2. CASE s # t
    BY <1>2, <1>5, <2>2 DEF IdInv, AloneInv
  <2> QED
    BY <2>1, <2>2
<1> QED
  BY <1>3, <1>4, <1>8, <1>9, <1>11, <1>12 DEF IdInv

\* A step inside an operation neither begins nor hides an overlap.
LEMMA StepKeepsOverlapInv ==
    ASSUME IdInv, NEW t \in Threads, NEW q, pc[t] \notin {"idle", "reply"},
           pc' = [pc EXCEPT ![t] = q], UNCHANGED <<op, alone, overlapped>>
    PROVE  OverlapInv'
<1>1. \A s \in Threads : Inside(s)' => Inside(s)
  BY DEF Inside, IdInv, ControlTypes
<1> QED
  BY <1>1 DEF IdInv, OverlapInv

LEMMA GeteuidKeepsIdInv ==
    ASSUME IdInv, NEW t \in Threads, Geteuid(t)
    PROVE  IdInv'
<1> DEFINE q == IF euid = 0 THEN "getegid" ELSE "call"
<1>1. /\ pc[t] = "geteuid" /\ pc' = [pc EXCEPT ![t] = q]
      /\ euid0' = [euid0 EXCEPT ![t] = euid]
      /\ UNCHANGED <<start, euid, suid, egid, sgid, egid0, op, caller, acted, alone, overlapped>>
  BY DEF Geteuid, Goto, procVars, reqVars, hist
<1>2. op[t] \in Switching /\ Inside(t)
  BY <1>1 DEF IdInv, ControlTypes, Inside
<1>3. ControlTypes'
  BY <1>1, <1>2 DEF IdInv, ControlTypes, PCs, Switching
<1>4. IdTypes'
  BY <1>1 DEF IdInv, IdTypes
<1>5. PlainInv'
  BY <1>1 DEF IdInv, ControlTypes, IdTypes, PlainInv
<1>6. RootInv'
  <2>1. \A s \in Threads : (OwesUser(s) => OwesUser(s)') /\ (OwesGroup(s) => OwesGroup(s)')
    BY <1>1 DEF IdInv, ControlTypes, OwesUser, OwesGroup
  <2>2. /\ pc'[t] = "getegid" => euid0'[t] = 0
        /\ pc'[t] = "call" => euid0'[t] # 0
        /\ pc'[t] \in {"getegid", "call"}
    BY <1>1 DEF IdInv, ControlTypes, IdTypes
  <2>3. \A s \in Threads \ {t} : pc'[s] = pc[s] /\ euid0'[s] = euid0[s]
    BY <1>1 DEF IdInv, ControlTypes, IdTypes
  <2> QED
    BY ONLY <1>1, <2>1, <2>2, <2>3, IdInv DEF IdInv, RootInv
<1>7. OverlapInv'
  BY <1>1, StepKeepsOverlapInv
<1>8. AloneInv'
  <2>1. start = 0 /\ alone[t] => pc'[t] = "getegid"
    BY <1>1, <1>2, AloneIsPrivileged DEF IdInv, ControlTypes
  <2>2. \A s \in Threads \ {t} : pc'[s] = pc[s]
    BY <1>1 DEF IdInv, ControlTypes
  <2> QED
    BY <1>1, <2>1, <2>2 DEF IdInv, AloneInv
<1> QED
  BY <1>3, <1>4, <1>5, <1>6, <1>7, <1>8 DEF IdInv

LEMMA GetegidKeepsIdInv ==
    ASSUME IdInv, NEW t \in Threads, Getegid(t)
    PROVE  IdInv'
<1>1. /\ pc[t] = "getegid" /\ pc' = [pc EXCEPT ![t] = "setregid"]
      /\ egid0' = [egid0 EXCEPT ![t] = egid]
      /\ UNCHANGED <<start, euid, suid, egid, sgid, euid0, op, caller, acted, alone, overlapped>>
  BY DEF Getegid, Goto, procVars, reqVars, hist
<1>2. op[t] \in Switching /\ Inside(t) /\ start = 0
  BY <1>1 DEF IdInv, ControlTypes, Inside, PlainInv
<1>3. ControlTypes'
  BY <1>1, <1>2 DEF IdInv, ControlTypes, PCs, Switching
<1>4. IdTypes'
  BY <1>1 DEF IdInv, IdTypes
<1>5. PlainInv'
  BY <1>1, <1>2 DEF PlainInv
<1>6. RootInv'
  <2>1. \A s \in Threads : (OwesUser(s) => OwesUser(s)') /\ (OwesGroup(s) => OwesGroup(s)')
    BY <1>1 DEF IdInv, ControlTypes, OwesUser, OwesGroup
  <2>2. ~overlapped => egid0'[t] = 0
    <3> SUFFICES ASSUME ~overlapped PROVE egid = 0
      BY <1>1 DEF IdInv, IdTypes
    <3>1. \A s \in Threads \ {t} : ~Inside(s)
      BY <1>2, AloneIsAlone
    <3>2. \A s \in Threads : ~OwesGroup(s)
      BY <1>1, <3>1 DEF OwesGroup, Inside
    <3> QED
      BY <1>2, <3>2 DEF IdInv, RootInv
  <2>3. pc'[t] = "setregid" /\ euid0[t] = 0
    BY <1>1, <1>2 DEF IdInv, ControlTypes, RootInv
  <2>4. \A s \in Threads \ {t} : pc'[s] = pc[s] /\ egid0'[s] = egid0[s]
    BY <1>1 DEF IdInv, ControlTypes, IdTypes
  <2> QED
    BY ONLY <1>1, <2>1, <2>2, <2>3, <2>4, IdInv DEF IdInv, RootInv
<1>7. OverlapInv'
  BY <1>1, StepKeepsOverlapInv
<1>8. AloneInv'
  BY <1>1 DEF IdInv, ControlTypes, AloneInv
<1> QED
  BY <1>3, <1>4, <1>5, <1>6, <1>7, <1>8 DEF IdInv

LEMMA SwitchGroupKeepsIdInv ==
    ASSUME IdInv, NEW t \in Threads, SwitchGroup(t)
    PROVE  IdInv'
<1>1. /\ pc[t] = "setregid" /\ pc' = [pc EXCEPT ![t] = "setreuid"]
      /\ Setregid(caller[t][2])
      /\ UNCHANGED <<start, euid, suid, euid0, egid0, op, caller, acted, alone, overlapped>>
  BY DEF SwitchGroup, Goto, reqVars, hist
<1>2. op[t] \in Switching /\ Inside(t) /\ start = 0
  BY <1>1 DEF IdInv, ControlTypes, Inside, PlainInv
<1>3. ControlTypes'
  BY <1>1, <1>2 DEF IdInv, ControlTypes, PCs, Switching
<1>4. IdTypes'
  BY <1>1 DEF IdInv, IdTypes, Setregid
<1>5. PlainInv'
  BY <1>1, <1>2 DEF PlainInv
<1>6. RootInv'
  <2>1. \A s \in Threads : OwesUser(s) => OwesUser(s)'
    BY <1>1 DEF IdInv, ControlTypes, OwesUser
  <2>2. pc'[t] = "setreuid" /\ euid0[t] = 0 /\ (~overlapped => egid0[t] = 0)
    BY <1>1, <1>2 DEF IdInv, ControlTypes, RootInv
  <2>3. ~overlapped => OwesGroup(t)'
    BY <1>1, <1>2, <2>2 DEF OwesGroup
  <2>4. \A s \in Threads \ {t} : pc'[s] = pc[s]
    BY <1>1 DEF IdInv, ControlTypes
  <2> QED
    BY ONLY <1>1, <2>1, <2>2, <2>3, <2>4, IdInv DEF IdInv, RootInv
<1>7. OverlapInv'
  BY <1>1, StepKeepsOverlapInv
<1>8. AloneInv'
  <2>1. alone[t] => egid' = caller[t][2]
    BY <1>1, <1>2, AloneIsPrivileged DEF Setregid, Privileged
  <2>2. pc'[t] = "setreuid" /\ \A s \in Threads \ {t} : pc'[s] = pc[s]
    BY <1>1 DEF IdInv, ControlTypes
  <2>3. \A s \in Threads \ {t} : alone[s] => ~Inside(s)
    BY <1>2 DEF IdInv, OverlapInv
  <2> QED
    BY <1>1, <2>1, <2>2, <2>3 DEF IdInv, AloneInv, Inside
<1> QED
  BY <1>3, <1>4, <1>5, <1>6, <1>7, <1>8 DEF IdInv

LEMMA SwitchUserKeepsIdInv ==
    ASSUME IdInv, NEW t \in Threads, SwitchUser(t)
    PROVE  IdInv'
<1>1. /\ pc[t] = "setreuid" /\ pc' = [pc EXCEPT ![t] = "call"]
      /\ Setreuid(caller[t][1])
      /\ UNCHANGED <<start, egid, sgid, euid0, egid0, op, caller, acted, alone, overlapped>>
  BY DEF SwitchUser, Goto, reqVars, hist
<1>2. op[t] \in Switching /\ Inside(t) /\ start = 0
  BY <1>1 DEF IdInv, ControlTypes, Inside, PlainInv
<1>3. ControlTypes'
  BY <1>1, <1>2 DEF IdInv, ControlTypes, PCs, Switching
<1>4. IdTypes'
  BY <1>1 DEF IdInv, IdTypes, Setreuid
<1>5. PlainInv'
  BY <1>1, <1>2 DEF PlainInv
<1>6. RootInv'
  <2>1. \A s \in Threads : OwesGroup(s) => OwesGroup(s)'
    BY <1>1 DEF IdInv, ControlTypes, OwesGroup
  <2>2. pc'[t] = "call" /\ euid0[t] = 0 /\ (~overlapped => egid0[t] = 0)
    BY <1>1, <1>2 DEF IdInv, ControlTypes, RootInv
  <2>3. OwesUser(t)'
    BY <1>1, <1>2, <2>2 DEF OwesUser
  <2>4. \A s \in Threads \ {t} : pc'[s] = pc[s]
    BY <1>1 DEF IdInv, ControlTypes
  <2> QED
    BY ONLY <1>1, <2>1, <2>2, <2>3, <2>4, IdInv DEF IdInv, RootInv
<1>7. OverlapInv'
  BY <1>1, StepKeepsOverlapInv
<1>8. AloneInv'
  <2>1. alone[t] => euid' = caller[t][1] /\ egid' = caller[t][2]
    BY <1>1, <1>2, AloneIsPrivileged DEF Setreuid, Privileged, IdInv, AloneInv
  <2>2. pc'[t] = "call" /\ \A s \in Threads \ {t} : pc'[s] = pc[s]
    BY <1>1 DEF IdInv, ControlTypes
  <2>3. \A s \in Threads \ {t} : alone[s] => ~Inside(s)
    BY <1>2 DEF IdInv, OverlapInv
  <2> QED
    BY <1>1, <2>1, <2>2, <2>3 DEF IdInv, AloneInv, Inside
<1> QED
  BY <1>3, <1>4, <1>5, <1>6, <1>7, <1>8 DEF IdInv

\* Where a system call leads to.
LEMMA CallMoves ==
    ASSUME NEW t \in Threads, Call(t)
    PROVE  /\ pc[t] = "call"
           /\ \E q \in {"uidback", "list", "reply"} :
                 /\ pc' = [pc EXCEPT ![t] = q]
                 /\ q = "uidback" <=> op[t] \in Switching
                 /\ q = "list" <=> op[t] = "Readdir" /\ fd'[t] # None
<1>1. AfterCall(t) \in {"uidback", "list", "reply"} /\ op' = op
  BY DEF AfterCall, Call, reqVars
<1>2. /\ AfterCall(t) = "uidback" <=> op[t] \in Switching
      /\ AfterCall(t) = "list" <=> op[t] = "Readdir" /\ fd'[t] # None
  BY DEF AfterCall, Switching
<1>3. Goto(t, "call", AfterCall(t))
  BY DEF Call
<1> QED
  BY <1>1, <1>2, <1>3 DEF Goto

LEMMA CallKeepsIdInv ==
    ASSUME IdInv, NEW t \in Threads, Call(t)
    PROVE  IdInv'
<1>1. PICK q \in {"uidback", "list", "reply"} :
         /\ pc[t] = "call" /\ pc' = [pc EXCEPT ![t] = q]
         /\ q = "uidback" <=> op[t] \in Switching
         /\ q = "list" => op[t] = "Readdir"
  BY CallMoves
<1>2. /\ acted' = [acted EXCEPT ![t] = <<euid, egid>>]
      /\ UNCHANGED <<start, euid, suid, egid, sgid, euid0, egid0, op, caller, alone, overlapped>>
  BY DEF Call, procVars, reqVars
<1>3. ControlTypes'
  BY <1>1, <1>2 DEF IdInv, ControlTypes, PCs, Switching
<1>4. IdTypes'
  BY <1>2 DEF IdInv, IdTypes
<1>5. PlainInv'
  BY <1>1, <1>2 DEF IdInv, ControlTypes, PlainInv
<1>6. RootInv'
  <2>1. \A s \in Threads : (OwesUser(s) => OwesUser(s)') /\ (OwesGroup(s) => OwesGroup(s)')
    BY <1>1, <1>2 DEF IdInv, ControlTypes, OwesUser, OwesGroup
  <2>2. pc'[t] = q /\ \A s \in Threads \ {t} : pc'[s] = pc[s]
    BY <1>1 DEF IdInv, ControlTypes
  <2> QED
    BY ONLY <1>1, <1>2, <2>1, <2>2, IdInv DEF IdInv, RootInv
<1>7. OverlapInv'
  BY <1>1, <1>2, StepKeepsOverlapInv
<1>8. AloneInv'
  <2>1. start = 0 /\ alone[t] /\ op[t] \in Switching => acted'[t] = caller[t]
    <3>1. acted'[t] = <<euid, egid>>
      BY <1>2 DEF IdInv, IdTypes
    <3>2. caller[t] = <<caller[t][1], caller[t][2]>>
      BY DEF IdInv, IdTypes
    <3>3. start = 0 /\ alone[t] /\ op[t] \in Switching =>
             euid = caller[t][1] /\ egid = caller[t][2]
      BY <1>1 DEF IdInv, AloneInv
    <3> QED
      BY <3>1, <3>2, <3>3
  <2>2. pc'[t] = q /\ \A s \in Threads \ {t} : pc'[s] = pc[s] /\ acted'[s] = acted[s]
    BY <1>1, <1>2 DEF IdInv, ControlTypes, IdTypes
  <2> QED
    BY ONLY <1>1, <1>2, <2>1, <2>2, IdInv DEF IdInv, AloneInv
<1> QED
  BY <1>3, <1>4, <1>5, <1>6, <1>7, <1>8 DEF IdInv

LEMMA UserBackKeepsIdInv ==
    ASSUME IdInv, NEW t \in Threads, UserBack(t)
    PROVE  IdInv'
<1> DEFINE q == IF euid0[t] = 0 THEN "gidback" ELSE "reply"
<1>1. /\ pc[t] = "uidback" /\ pc' = [pc EXCEPT ![t] = q]
      /\ IF euid0[t] = 0 THEN Setreuid(0) ELSE UNCHANGED <<euid, suid>>
      /\ UNCHANGED <<start, egid, sgid, euid0, egid0, op, caller, acted, alone, overlapped>>
  BY DEF UserBack, Goto, reqVars, hist
<1>2. op[t] \in Switching /\ Inside(t) /\ (start # 0 => euid0[t] # 0)
  BY <1>1 DEF IdInv, ControlTypes, Inside, PlainInv
<1>3. ControlTypes'
  BY <1>1, <1>2 DEF IdInv, ControlTypes, PCs, Switching
<1>4. IdTypes'
  BY <1>1 DEF IdInv, IdTypes, Setreuid
<1>5. PlainInv'
  BY <1>1, <1>2 DEF IdInv, ControlTypes, PlainInv
<1>6. RootInv'
  <2> SUFFICES ASSUME start = 0 PROVE RootInv'
    BY <1>1 DEF RootInv
  <2>1. /\ \A s \in Threads \ {t} : OwesUser(s) => OwesUser(s)'
        /\ \A s \in Threads : OwesGroup(s) => OwesGroup(s)'
    BY <1>1 DEF IdInv, ControlTypes, OwesUser, OwesGroup
  <2>2. euid' # 0 => \E s \in Threads : OwesUser(s)'
    <3>1. CASE euid0[t] = 0
      BY <1>1, <3>1 DEF Setreuid
    <3>2. CASE euid0[t] # 0
      BY <1>1, <2>1, <3>2 DEF IdInv, RootInv, OwesUser
    <3> QED
      BY <3>1, <3>2
  <2>3. pc'[t] = q /\ \A s \in Threads \ {t} : pc'[s] = pc[s]
    BY <1>1 DEF IdInv, ControlTypes
  <2> QED
    BY ONLY <1>1, <2>1, <2>2, <2>3, IdInv DEF IdInv, RootInv
<1>7. OverlapInv'
  BY <1>1, StepKeepsOverlapInv
<1>8. AloneInv'
  <2>1. pc'[t] = q /\ \A s \in Threads \ {t} : pc'[s] = pc[s]
    BY <1>1 DEF IdInv, ControlTypes
  <2>2. \A s \in Threads \ {t} : alone[s] => ~Inside(s)
    BY <1>2 DEF IdInv, OverlapInv
  <2> QED
    BY <1>1, <2>1, <2>2 DEF IdInv, AloneInv, Inside
<1> QED
  BY <1>3, <1>4, <1>5, <1>6, <1>7, <1>8 DEF IdInv

LEMMA GroupBackKeepsIdInv ==
    ASSUME IdInv, NEW t \in Threads, GroupBack(t)
    PROVE  IdInv'
<1>1. /\ pc[t] = "gidback" /\ pc' = [pc EXCEPT ![t] = "reply"]
      /\ Setregid(egid0[t])
      /\ UNCHANGED <<start, euid, suid, euid0, egid0, op, caller, acted, alone, overlapped>>
  BY DEF GroupBack, Goto, reqVars, hist
<1>2. op[t] \in Switching /\ Inside(t) /\ start = 0
  BY <1>1 DEF IdInv, ControlTypes, Inside, PlainInv
<1>3. ControlTypes'
  BY <1>1, <1>2 DEF IdInv, ControlTypes, PCs, Switching
<1>4. IdTypes'
  BY <1>1 DEF IdInv, IdTypes, Setregid
<1>5. PlainInv'
  BY <1>1, <1>2 DEF PlainInv
<1>6. RootInv'
  <2>1. \A s \in Threads : OwesUser(s) => OwesUser(s)'
    BY <1>1 DEF IdInv, ControlTypes, OwesUser
  <2>2. ~overlapped => egid' = 0
    <3> SUFFICES ASSUME ~overlapped PROVE egid' = 0
      OBVIOUS
    <3>1. egid0[t] = 0
      BY <1>1, <1>2 DEF IdInv, RootInv
    <3> QED
      BY <1>1, <1>2, <3>1 DEF Setregid
  <2>3. pc'[t] = "reply" /\ \A s \in Threads \ {t} : pc'[s] = pc[s]
    BY <1>1 DEF IdInv, ControlTypes
  <2> QED
    BY ONLY <1>1, <2>1, <2>2, <2>3, IdInv DEF IdInv, RootInv
<1>7. OverlapInv'
  BY <1>1, StepKeepsOverlapInv
<1>8. AloneInv'
  <2>1. pc'[t] = "reply" /\ \A s \in Threads \ {t} : pc'[s] = pc[s]
    BY <1>1 DEF IdInv, ControlTypes
  <2>2. \A s \in Threads \ {t} : alone[s] => ~Inside(s)
    BY <1>2 DEF IdInv, OverlapInv
  <2> QED
    BY <1>1, <2>1, <2>2 DEF IdInv, AloneInv, Inside
<1> QED
  BY <1>3, <1>4, <1>5, <1>6, <1>7, <1>8 DEF IdInv

\* Listing a directory and answering have nothing to do with the ids.
LEMMA ListKeepsIdInv ==
    ASSUME IdInv, NEW t \in Threads, List(t)
    PROVE  IdInv'
<1>1. /\ pc[t] = "list" /\ pc' = [pc EXCEPT ![t] = "reply"]
      /\ UNCHANGED <<start, euid, suid, egid, sgid, euid0, egid0, op, caller, acted, alone,
                     overlapped>>
  BY DEF List, Goto, procVars, reqVars, hist
<1>2. op[t] \notin Switching
  BY <1>1 DEF IdInv, ControlTypes, Switching
<1>3. pc'[t] = "reply" /\ \A s \in Threads \ {t} : pc'[s] = pc[s]
  BY <1>1 DEF IdInv, ControlTypes
<1>4. ControlTypes' /\ IdTypes'
  BY <1>1, <1>2 DEF IdInv, ControlTypes, IdTypes, PCs
<1>5. PlainInv' /\ AloneInv'
  BY <1>1, <1>2, <1>3 DEF IdInv, PlainInv, AloneInv
<1>6. RootInv'
  <2>1. \A s \in Threads : (OwesUser(s) => OwesUser(s)') /\ (OwesGroup(s) => OwesGroup(s)')
    BY <1>1, <1>2, <1>3 DEF OwesUser, OwesGroup
  <2> QED
    BY ONLY <1>1, <1>2, <1>3, <2>1, IdInv DEF IdInv, RootInv
<1>7. OverlapInv'
  BY <1>1, StepKeepsOverlapInv
<1> QED
  BY <1>4, <1>5, <1>6, <1>7 DEF IdInv

LEMMA ReplyKeepsIdInv ==
    ASSUME IdInv, NEW t \in Threads, Reply(t)
    PROVE  IdInv'
<1>1. /\ pc[t] = "reply" /\ pc' = [pc EXCEPT ![t] = "idle"]
      /\ op' = [op EXCEPT ![t] = "ByPath"] /\ caller' = [caller EXCEPT ![t] = <<0, 0>>]
      /\ euid0' = [euid0 EXCEPT ![t] = 0] /\ egid0' = [egid0 EXCEPT ![t] = 0]
      /\ acted' = [acted EXCEPT ![t] = <<0, 0>>] /\ alone' = [alone EXCEPT ![t] = TRUE]
      /\ UNCHANGED <<start, euid, suid, egid, sgid, overlapped>>
  BY DEF Reply, Goto, procVars
<1>2. \A s \in Threads \ {t} :
         /\ pc'[s] = pc[s] /\ op'[s] = op[s] /\ caller'[s] = caller[s] /\ acted'[s] = acted[s]
         /\ euid0'[s] = euid0[s] /\ egid0'[s] = egid0[s] /\ alone'[s] = alone[s]
  BY <1>1 DEF IdInv, ControlTypes, IdTypes
<1>3. pc'[t] = "idle" /\ op'[t] = "ByPath" /\ op'[t] \notin Switching
  BY <1>1 DEF IdInv, ControlTypes, Switching
<1>4. ControlTypes' /\ IdTypes'
  BY <1>1, <1>3 DEF IdInv, ControlTypes, IdTypes, PCs, Ops
<1>5. PlainInv' /\ AloneInv'
  BY <1>1, <1>2, <1>3 DEF IdInv, PlainInv, AloneInv
<1>6. RootInv'
  <2>1. \A s \in Threads : (OwesUser(s) => OwesUser(s)') /\ (OwesGroup(s) => OwesGroup(s)')
    BY <1>1, <1>2 DEF OwesUser, OwesGroup
  <2> QED
    BY ONLY <1>1, <1>2, <1>3, <2>1, IdInv DEF IdInv, RootInv
<1>7. OverlapInv'
  <2>1. ~Inside(t)' /\ \A s \in Threads \ {t} : Inside(s)' = Inside(s)
    BY <1>2, <1>3 DEF Inside
  <2> QED
    BY <1>1, <1>2, <2>1 DEF IdInv, OverlapInv
<1> QED
  BY <1>4, <1>5, <1>6, <1>7 DEF IdInv

LEMMA IdsInductive == Spec => []IdInv
<1>1. IdInv /\ [Next]_vars => IdInv'
  <2> SUFFICES ASSUME IdInv, [Next]_vars PROVE IdInv'
    OBVIOUS
  <2>1. CASE UNCHANGED vars
    BY <2>1 DEF vars, procVars, fdVars, reqVars, hist, IdInv, ControlTypes, IdTypes, PlainInv,
       RootInv, OverlapInv, AloneInv, Inside, OwesUser, OwesGroup
  <2>2. CASE Next
    <3>1. PICK t \in Threads :
            \/ \E c \in Callers : Request(t, c)
            \/ Geteuid(t) \/ Getegid(t) \/ SwitchGroup(t) \/ SwitchUser(t)
            \/ Call(t) \/ List(t)
            \/ UserBack(t) \/ GroupBack(t) \/ Reply(t)
      BY <2>2 DEF Next
    <3> QED
      BY <3>1, RequestKeepsIdInv, GeteuidKeepsIdInv, GetegidKeepsIdInv, SwitchGroupKeepsIdInv,
         SwitchUserKeepsIdInv, CallKeepsIdInv, ListKeepsIdInv, UserBackKeepsIdInv,
         GroupBackKeepsIdInv, ReplyKeepsIdInv
  <2> QED
    BY <2>1, <2>2
<1> QED
  BY InitIdInv, <1>1, PTL DEF Spec

\* Between operations the process is the user it was started as, though they
\* overlapped, and of the group if they did not (port_linux.go:23-36).
THEOREM IdsAreRestored == Spec => []IdsComeBack
<1>1. IdInv => IdsComeBack
  <2> SUFFICES ASSUME IdInv, \A t \in Threads : ~Inside(t)
               PROVE  euid = start /\ (~overlapped => egid = start)
    BY DEF IdsComeBack
  <2>1. \A t \in Threads : ~OwesUser(t) /\ ~OwesGroup(t)
    BY DEF Inside, OwesUser, OwesGroup
  <2>2. CASE start = 0
    BY <2>1, <2>2 DEF IdInv, RootInv
  <2>3. CASE start # 0
    BY <2>3 DEF IdInv, PlainInv
  <2> QED
    BY <2>2, <2>3
<1> QED
  BY <1>1, IdsInductive, PTL

\* An operation that none overlapped acts as its caller (port_linux.go:28-29).
THEOREM AloneIsAuthorized == Spec => []AloneActsAsCaller
<1>1. IdInv => AloneActsAsCaller
  BY DEF IdInv, AloneInv, AloneActsAsCaller
<1> QED
  BY <1>1, IdsInductive, PTL

-----------------------------------------------------------------------------
(* The descriptors *)

FdTypes ==
    /\ fdtab \in [Fds -> Files \cup {None}] /\ held \in [Fds -> Files \cup {None}]
    /\ fd \in [Threads -> Fds \cup {None}] /\ fh \in [Threads -> Fds \cup {None}]
    /\ file \in [Threads -> Files \cup {None}]
    /\ \A t \in Threads : op[t] \in Openers \cup {"Readdir"} => file[t] \in Files

\* A thread owns the descriptor that it has opened until the kernel takes it,
\* or until Readdir closes it, and the one that it is to close for the kernel.
Opened(t)  == (op[t] \in Openers /\ fd[t] # None) \/ pc[t] = "list"
Closing(t) == op[t] \in Closers /\ pc[t] = "call"

\* What each thread owns is open, and the kernel's no more.
OwnersInv ==
    /\ \A t \in Threads : fd[t] # None => pc[t] \in {"list", "uidback", "gidback", "reply"}
    /\ \A t \in Threads : Opened(t) =>
          fd[t] \in Fds /\ fdtab[fd[t]] # None /\ held[fd[t]] = None
    /\ \A t \in Threads : op[t] \in Openers /\ fd[t] # None => fdtab[fd[t]] = file[t]
    /\ \A t \in Threads : Closing(t) =>
          fh[t] \in Fds /\ fdtab[fh[t]] # None /\ held[fh[t]] = None

\* No two own the same.
ApartInv ==
    \A s, t \in Threads : s # t =>
        /\ Opened(s) /\ Opened(t) => fd[s] # fd[t]
        /\ Closing(s) /\ Closing(t) => fh[s] # fh[t]
        /\ Opened(s) /\ Closing(t) => fd[s] # fh[t]

\* The kernel has a descriptor open, and every other open one has an owner.
TableInv ==
    /\ \A d \in Fds : held[d] # None => fdtab[d] = held[d]
    /\ \A d \in Fds : fdtab[d] # None =>
          \/ held[d] # None
          \/ \E t \in Threads : (Opened(t) /\ fd[t] = d) \/ (Closing(t) /\ fh[t] = d)

FdInv == ControlTypes /\ FdTypes /\ OwnersInv /\ ApartInv /\ TableInv

LEMMA InitFdInv == Init => FdInv
<1> SUFFICES ASSUME Init PROVE FdInv
  OBVIOUS
<1>1. ControlTypes
  BY DEF Init, Each, ControlTypes, PCs, Ops, Openers, OnHandle, Switching, Closers
<1>2. FdTypes
  BY DEF Init, Each, FdTypes, Openers
<1>3. OwnersInv /\ ApartInv /\ TableInv
  BY DEF Init, Each, OwnersInv, ApartInv, TableInv, Opened, Closing, Openers, Closers
<1> QED
  BY <1>1, <1>2, <1>3 DEF FdInv

\* A step inside an operation that opens and closes nothing.
LEMMA MovesKeepFdInv ==
    ASSUME FdInv, NEW t \in Threads,
           Geteuid(t) \/ Getegid(t) \/ SwitchGroup(t) \/ SwitchUser(t)
              \/ UserBack(t) \/ GroupBack(t)
    PROVE  FdInv'
<1>1. PICK from, to :
         /\ pc[t] = from /\ pc' = [pc EXCEPT ![t] = to]
         /\ from \in {"geteuid", "getegid", "setregid", "setreuid", "uidback", "gidback"}
         /\ to \in {"getegid", "setregid", "setreuid", "call", "gidback", "reply"}
         /\ from \in {"uidback", "gidback"} <=> to \in {"gidback", "reply"}
  BY DEF Geteuid, Getegid, SwitchGroup, SwitchUser, UserBack, GroupBack, Goto
<1>2. UNCHANGED <<fdtab, held, fd, fh, file, op>>
  BY DEF Geteuid, Getegid, SwitchGroup, SwitchUser, UserBack, GroupBack, fdVars, reqVars
<1>3. op[t] \in Switching
  BY <1>1 DEF FdInv, ControlTypes
<1>4. ControlTypes'
  BY <1>1, <1>2, <1>3 DEF FdInv, ControlTypes, PCs, Switching
<1>5. FdTypes'
  BY <1>2 DEF FdInv, FdTypes
<1>6. \A s \in Threads : (Opened(s)' <=> Opened(s)) /\ (Closing(s)' <=> Closing(s))
  BY <1>1, <1>2, <1>3 DEF Opened, Closing, FdInv, ControlTypes, Switching, Closers
<1>7. OwnersInv'
  <2>1. \A s \in Threads : fd'[s] # None => pc'[s] \in {"list", "uidback", "gidback", "reply"}
    BY <1>1, <1>2 DEF FdInv, ControlTypes, OwnersInv
  <2> QED
    BY <1>2, <1>6, <2>1 DEF FdInv, OwnersInv
<1>8. ApartInv' /\ TableInv'
  BY <1>2, <1>6 DEF FdInv, ApartInv, TableInv
<1> QED
  BY <1>4, <1>5, <1>7, <1>8 DEF FdInv

\* A request that is no Release leaves the handles to the kernel.
LEMMA ArriveKeepsFdInv ==
    ASSUME FdInv, NEW t \in Threads, NEW c, NEW o \in Ops \ Closers, NEW f \in Files,
           NEW h \in Fds \cup {None}, Arrive(t, o, f, h, c), UNCHANGED held
    PROVE  FdInv'
<1>1. PICK q \in {"geteuid", "call"} :
         /\ pc[t] = "idle" /\ pc' = [pc EXCEPT ![t] = q]
         /\ q = "geteuid" => o \in Switching
         /\ op' = [op EXCEPT ![t] = o] /\ file' = [file EXCEPT ![t] = f]
         /\ fh' = [fh EXCEPT ![t] = h]
         /\ UNCHANGED <<fdtab, held, fd>>
  BY DEF Arrive, Goto
<1>2. ControlTypes'
  BY <1>1 DEF FdInv, ControlTypes, PCs
<1>3. FdTypes'
  BY <1>1 DEF FdInv, ControlTypes, FdTypes
<1>4. fd[t] = None /\ pc'[t] = q /\ op'[t] = o
  BY <1>1 DEF FdInv, ControlTypes, OwnersInv
<1>5. \A s \in Threads \ {t} :
         pc'[s] = pc[s] /\ op'[s] = op[s] /\ fh'[s] = fh[s] /\ file'[s] = file[s]
  BY <1>1 DEF FdInv, ControlTypes, FdTypes
<1>6. /\ ~Opened(t) /\ ~Closing(t) /\ ~Opened(t)' /\ ~Closing(t)'
      /\ \A s \in Threads \ {t} : (Opened(s)' <=> Opened(s)) /\ (Closing(s)' <=> Closing(s))
  BY <1>1, <1>4, <1>5 DEF Opened, Closing
<1>7. OwnersInv'
  BY <1>1, <1>4, <1>5, <1>6 DEF FdInv, OwnersInv
<1>8. ApartInv' /\ TableInv'
  BY <1>1, <1>5, <1>6 DEF FdInv, ApartInv, TableInv
<1> QED
  BY <1>2, <1>3, <1>7, <1>8 DEF FdInv

\* A Release takes the handle from the kernel.
LEMMA ReleaseKeepsFdInv ==
    ASSUME FdInv, NEW t \in Threads, NEW c, NEW h \in Fds, held[h] # None,
           Arrive(t, "Release", held[h], h, c), held' = [held EXCEPT ![h] = None]
    PROVE  FdInv'
<1>1. /\ pc[t] = "idle" /\ pc' = [pc EXCEPT ![t] = "call"]
      /\ op' = [op EXCEPT ![t] = "Release"] /\ file' = [file EXCEPT ![t] = held[h]]
      /\ fh' = [fh EXCEPT ![t] = h]
      /\ UNCHANGED <<fdtab, fd>>
  BY DEF Arrive, Goto, Switching
<1>2. ControlTypes'
  BY <1>1 DEF FdInv, ControlTypes, PCs, Ops, OnHandle, Closers
<1>3. FdTypes'
  BY <1>1 DEF FdInv, ControlTypes, FdTypes, Openers
<1>4. fd[t] = None /\ pc'[t] = "call" /\ op'[t] = "Release" /\ fh'[t] = h /\ fdtab[h] # None
  BY <1>1 DEF FdInv, ControlTypes, FdTypes, OwnersInv, TableInv
<1>5. \A s \in Threads \ {t} :
         pc'[s] = pc[s] /\ op'[s] = op[s] /\ fh'[s] = fh[s] /\ file'[s] = file[s]
  BY <1>1 DEF FdInv, ControlTypes, FdTypes
<1>6. /\ ~Opened(t) /\ ~Closing(t) /\ ~Opened(t)' /\ Closing(t)'
      /\ \A s \in Threads \ {t} : (Opened(s)' <=> Opened(s)) /\ (Closing(s)' <=> Closing(s))
  BY <1>1, <1>4, <1>5 DEF Opened, Closing, Openers, Closers
<1>7. held'[h] = None /\ \A d \in Fds \ {h} : held'[d] = held[d]
  BY DEF FdInv, FdTypes
<1>8. OwnersInv'
  BY <1>1, <1>4, <1>5, <1>6, <1>7 DEF FdInv, OwnersInv, Openers
<1>9. ApartInv'
  <2>1. \A s \in Threads \ {t} : (Opened(s) => fd[s] # h) /\ (Closing(s) => fh[s] # h)
    BY DEF FdInv, OwnersInv
  <2> QED
    BY <1>1, <1>4, <1>5, <1>6, <2>1 DEF FdInv, ApartInv
<1>10. TableInv'
  BY <1>1, <1>4, <1>5, <1>6, <1>7 DEF FdInv, TableInv
<1> QED
  BY <1>2, <1>3, <1>8, <1>9, <1>10 DEF FdInv

LEMMA RequestKeepsFdInv ==
    ASSUME FdInv, NEW t \in Threads, NEW c \in Callers, Request(t, c)
    PROVE  FdInv'
<1>1. {"Make", "Create", "Open", "ByPath", "Use", "Readdir"} \subseteq Ops \ Closers
  BY DEF Ops, Openers, OnHandle, Switching, Closers
<1>2. CASE \E f \in Files, o \in {"Make", "Create", "Open", "ByPath"} :
              Arrive(t, o, f, None, c) /\ UNCHANGED held
  BY <1>1, <1>2, ArriveKeepsFdInv
<1>3. CASE \E h \in Fds : held[h] # None /\
              \E o \in {"Use", "Readdir"} : Arrive(t, o, held[h], h, c) /\ UNCHANGED held
  <2>1. PICK h \in Fds, o \in {"Use", "Readdir"} :
           held[h] # None /\ Arrive(t, o, held[h], h, c) /\ UNCHANGED held
    BY <1>3
  <2>2. held[h] \in Files /\ o \in Ops \ Closers
    BY <1>1, <2>1 DEF FdInv, FdTypes
  <2> QED
    BY <2>1, <2>2, ArriveKeepsFdInv
<1>4. CASE \E h \in Fds : held[h] # None /\ Arrive(t, "Release", held[h], h, c)
                          /\ held' = [held EXCEPT ![h] = None]
  BY <1>4, ReleaseKeepsFdInv
<1> QED
  BY <1>2, <1>3, <1>4 DEF Request

\* A descriptor is opened that is free, so that nobody owns it.
LEMMA OpenKeepsFdInv ==
    ASSUME FdInv, NEW t \in Threads, Call(t), op[t] \in Openers \cup {"Readdir"},
           OpenAt(t, file[t])
    PROVE  FdInv'
<1>1. PICK d \in Fds : /\ fdtab[d] = None
                       /\ fdtab' = [fdtab EXCEPT ![d] = file[t]]
                       /\ fd' = [fd EXCEPT ![t] = d]
  BY DEF OpenAt, Free
<1>2. PICK q \in {"uidback", "list", "reply"} :
         /\ pc[t] = "call" /\ pc' = [pc EXCEPT ![t] = q]
         /\ q = "uidback" <=> op[t] \in Switching
         /\ q = "list" <=> op[t] = "Readdir" /\ fd'[t] # None
  BY CallMoves
<1>3. UNCHANGED <<op, file, fh, held>>
  BY DEF Call, reqVars
<1>4. ControlTypes'
  BY <1>2, <1>3 DEF FdInv, ControlTypes, PCs
<1>5. file[t] \in Files /\ file[t] # None
  BY DEF FdInv, FdTypes
<1>6. FdTypes'
  BY <1>1, <1>3, <1>5 DEF FdInv, FdTypes
<1>7. fd'[t] = d /\ d # None /\ pc'[t] = q /\ fdtab'[d] = file[t]
  BY <1>1, <1>2 DEF FdInv, ControlTypes, FdTypes
<1>8. \A s \in Threads \ {t} : pc'[s] = pc[s] /\ fd'[s] = fd[s]
  BY <1>1, <1>2 DEF FdInv, ControlTypes, FdTypes
<1>9. \A e \in Fds \ {d} : fdtab'[e] = fdtab[e]
  BY <1>1 DEF FdInv, FdTypes
<1>10. /\ ~Opened(t) /\ ~Closing(t) /\ Opened(t)' /\ ~Closing(t)'
       /\ \A s \in Threads \ {t} : (Opened(s)' <=> Opened(s)) /\ (Closing(s)' <=> Closing(s))
  BY <1>2, <1>3, <1>7, <1>8 DEF Opened, Closing, FdInv, OwnersInv, Openers, Closers
<1>11. /\ held[d] = None
       /\ \A s \in Threads : (Opened(s) => fd[s] # d) /\ (Closing(s) => fh[s] # d)
  BY <1>1 DEF FdInv, OwnersInv, TableInv, FdTypes
<1>12. OwnersInv'
  <2>1. fd'[t] # None => pc'[t] \in {"list", "uidback", "gidback", "reply"}
    BY <1>7
  <2>2. \A s \in Threads : Opened(s)' =>
           fd'[s] \in Fds /\ fdtab'[fd'[s]] # None /\ held'[fd'[s]] = None
    <3> SUFFICES ASSUME NEW s \in Threads, Opened(s)'
                 PROVE  fd'[s] \in Fds /\ fdtab'[fd'[s]] # None /\ held'[fd'[s]] = None
      OBVIOUS
    <3>1. CASE s = t
      BY <1>3, <1>5, <1>7, <1>11, <3>1
    <3>2. CASE s # t
      <4>1. Opened(s) /\ fd'[s] = fd[s]
        BY <1>8, <1>10, <3>2
      <4>2. fd[s] \in Fds \ {d} /\ fdtab[fd[s]] # None /\ held[fd[s]] = None
        BY <1>11, <4>1 DEF FdInv, OwnersInv
      <4> QED
        BY <1>3, <1>9, <4>1, <4>2
    <3> QED
      BY <3>1, <3>2
  <2>3. \A s \in Threads : op'[s] \in Openers /\ fd'[s] # None => fdtab'[fd'[s]] = file'[s]
    <3> SUFFICES ASSUME NEW s \in Threads \ {t}, op'[s] \in Openers /\ fd'[s] # None
                 PROVE  fdtab'[fd'[s]] = file'[s]
      BY <1>3, <1>7
    <3>1. Opened(s) /\ fd[s] # None /\ op[s] \in Openers
      BY <1>3, <1>8 DEF Opened
    <3>2. fdtab[fd[s]] = file[s] /\ fd[s] \in Fds \ {d}
      BY <1>11, <3>1 DEF FdInv, OwnersInv
    <3> QED
      BY <1>3, <1>8, <1>9, <3>2
  <2>4. \A s \in Threads : Closing(s)' =>
           fh'[s] \in Fds /\ fdtab'[fh'[s]] # None /\ held'[fh'[s]] = None
    BY <1>3, <1>9, <1>10, <1>11 DEF FdInv, OwnersInv
  <2>5. \A s \in Threads \ {t} : fd'[s] # None =>
           pc'[s] \in {"list", "uidback", "gidback", "reply"}
    BY <1>8 DEF FdInv, OwnersInv
  <2> QED
    BY <2>1, <2>2, <2>3, <2>4, <2>5 DEF OwnersInv
<1>13. ApartInv'
  BY <1>3, <1>7, <1>8, <1>10, <1>11 DEF FdInv, ApartInv
<1>14. TableInv'
  <2>1. \A e \in Fds : held'[e] # None => fdtab'[e] = held'[e]
    BY <1>3, <1>9, <1>11 DEF FdInv, TableInv
  <2>2. \A e \in Fds \ {d} : fdtab'[e] # None =>
          \/ held'[e] # None
          \/ \E s \in Threads : (Opened(s)' /\ fd'[s] = e) \/ (Closing(s)' /\ fh'[s] = e)
    BY <1>3, <1>8, <1>9, <1>10 DEF FdInv, TableInv
  <2>3. Opened(t)' /\ fd'[t] = d
    BY <1>7, <1>10
  <2> QED
    BY <2>1, <2>2, <2>3 DEF TableInv
<1> QED
  BY <1>4, <1>6, <1>12, <1>13, <1>14 DEF FdInv

\* A Release closes what it owns.
LEMMA CloseKeepsFdInv ==
    ASSUME FdInv, NEW t \in Threads, Call(t), op[t] \in Closers
    PROVE  FdInv'
<1>1. /\ fdtab' = [fdtab EXCEPT ![fh[t]] = None]
      /\ UNCHANGED <<op, file, fh, fd, held>>
  BY DEF Call, reqVars, Closers, Openers
<1>2. /\ pc[t] = "call" /\ pc' = [pc EXCEPT ![t] = "reply"]
  <2>1. op[t] # "Readdir" /\ op[t] \notin Switching
    BY DEF Closers, Switching
  <2> QED
    BY <2>1, CallMoves
<1>3. Closing(t) /\ ~Opened(t) /\ op[t] \notin Openers \cup {"Readdir"}
  BY <1>2 DEF Closing, Opened, Closers, Openers
<1>4. fh[t] \in Fds /\ held[fh[t]] = None
  BY <1>3 DEF FdInv, OwnersInv
<1>5. ControlTypes'
  BY <1>1, <1>2, <1>3 DEF FdInv, ControlTypes, PCs
<1>6. FdTypes'
  BY <1>1 DEF FdInv, FdTypes
<1>7. pc'[t] = "reply" /\ \A s \in Threads \ {t} : pc'[s] = pc[s]
  BY <1>2 DEF FdInv, ControlTypes
<1>8. fdtab'[fh[t]] = None /\ \A e \in Fds \ {fh[t]} : fdtab'[e] = fdtab[e]
  BY <1>1, <1>4 DEF FdInv, FdTypes
<1>9. /\ ~Opened(t)' /\ ~Closing(t)'
      /\ \A s \in Threads \ {t} : (Opened(s)' <=> Opened(s)) /\ (Closing(s)' <=> Closing(s))
  BY <1>1, <1>3, <1>7 DEF Opened, Closing
<1>10. \A s \in Threads \ {t} : (Opened(s) => fd[s] # fh[t]) /\ (Closing(s) => fh[s] # fh[t])
  BY <1>3 DEF FdInv, ApartInv
<1>11. OwnersInv'
  <2>1. \A s \in Threads : fd'[s] # None => pc'[s] \in {"list", "uidback", "gidback", "reply"}
    BY <1>1, <1>7 DEF FdInv, OwnersInv
  <2>2. \A s \in Threads : Opened(s)' =>
           fd'[s] \in Fds /\ fdtab'[fd'[s]] # None /\ held'[fd'[s]] = None
    BY <1>1, <1>8, <1>9, <1>10 DEF FdInv, OwnersInv
  <2>3. \A s \in Threads : op'[s] \in Openers /\ fd'[s] # None => fdtab'[fd'[s]] = file'[s]
    <3> SUFFICES ASSUME NEW s \in Threads, op[s] \in Openers, fd[s] # None
                 PROVE  fdtab'[fd[s]] = file[s]
      BY <1>1
    <3>1. s # t /\ Opened(s)
      BY <1>3 DEF Opened
    <3>2. fd[s] \in Fds \ {fh[t]} /\ fdtab[fd[s]] = file[s]
      BY <1>10, <3>1 DEF FdInv, OwnersInv
    <3> QED
      BY <1>8, <3>2
  <2>4. \A s \in Threads : Closing(s)' =>
           fh'[s] \in Fds /\ fdtab'[fh'[s]] # None /\ held'[fh'[s]] = None
    BY <1>1, <1>8, <1>9, <1>10 DEF FdInv, OwnersInv
  <2> QED
    BY <2>1, <2>2, <2>3, <2>4 DEF OwnersInv
<1>12. ApartInv'
  BY <1>1, <1>9 DEF FdInv, ApartInv
<1>13. TableInv'
  BY <1>1, <1>3, <1>4, <1>8, <1>9 DEF FdInv, TableInv
<1> QED
  BY <1>5, <1>6, <1>11, <1>12, <1>13 DEF FdInv

\* A call that opens nothing and closes nothing, or an open that fails.
LEMMA OtherCallsKeepFdInv ==
    ASSUME FdInv, NEW t \in Threads, Call(t), op[t] \notin Closers,
           UNCHANGED <<fdtab, fd>>
    PROVE  FdInv'
<1>1. UNCHANGED <<op, file, fh, held>>
  BY DEF Call, reqVars
<1>2. PICK q \in {"uidback", "list", "reply"} :
         /\ pc[t] = "call" /\ pc' = [pc EXCEPT ![t] = q]
         /\ q = "uidback" <=> op[t] \in Switching
         /\ q = "list" <=> op[t] = "Readdir" /\ fd'[t] # None
  BY CallMoves
<1>3. fd[t] = None /\ q # "list"
  BY <1>2 DEF FdInv, OwnersInv
<1>4. ControlTypes'
  BY <1>1, <1>2 DEF FdInv, ControlTypes, PCs
<1>5. FdTypes'
  BY <1>1 DEF FdInv, FdTypes
<1>6. pc'[t] = q /\ \A s \in Threads \ {t} : pc'[s] = pc[s]
  BY <1>2 DEF FdInv, ControlTypes
<1>7. \A s \in Threads : (Opened(s)' <=> Opened(s)) /\ (Closing(s)' <=> Closing(s))
  BY <1>1, <1>2, <1>3, <1>6 DEF Opened, Closing
<1>8. OwnersInv'
  BY <1>1, <1>3, <1>6, <1>7 DEF FdInv, OwnersInv
<1>9. ApartInv' /\ TableInv'
  BY <1>1, <1>7 DEF FdInv, ApartInv, TableInv
<1> QED
  BY <1>4, <1>5, <1>8, <1>9 DEF FdInv

LEMMA CallKeepsFdInv ==
    ASSUME FdInv, NEW t \in Threads, Call(t)
    PROVE  FdInv'
<1>1. CASE op[t] \in Openers \cup {"Readdir"}
  <2>1. op[t] \notin Closers
    BY <1>1 DEF Openers, Closers
  <2>2. OpenAt(t, file[t]) \/ UNCHANGED <<fdtab, fd>>
    BY <1>1, <2>1 DEF Call
  <2> QED
    BY <1>1, <2>1, <2>2, OpenKeepsFdInv, OtherCallsKeepFdInv
<1>2. CASE op[t] \in Closers
  BY <1>2, CloseKeepsFdInv
<1>3. CASE op[t] \notin Openers \cup {"Readdir"} \cup Closers
  <2>1. UNCHANGED <<fdtab, fd>>
    BY <1>3 DEF Call
  <2> QED
    BY <1>3, <2>1, OtherCallsKeepFdInv
<1> QED
  BY <1>1, <1>2, <1>3

\* Readdir closes what it has opened itself.
LEMMA ListKeepsFdInv ==
    ASSUME FdInv, NEW t \in Threads, List(t)
    PROVE  FdInv'
<1>1. /\ pc[t] = "list" /\ pc' = [pc EXCEPT ![t] = "reply"]
      /\ fdtab' = [fdtab EXCEPT ![fd[t]] = None]
      /\ UNCHANGED <<op, file, fh, fd, held>>
  BY DEF List, Goto, reqVars
<1>2. op[t] = "Readdir" /\ op[t] \notin Openers /\ Opened(t) /\ ~Closing(t)
  BY <1>1 DEF FdInv, ControlTypes, Opened, Closing, Openers
<1>3. fd[t] \in Fds /\ held[fd[t]] = None
  BY <1>2 DEF FdInv, OwnersInv
<1>4. ControlTypes'
  BY <1>1, <1>2 DEF FdInv, ControlTypes, PCs
<1>5. FdTypes'
  BY <1>1 DEF FdInv, FdTypes
<1>6. pc'[t] = "reply" /\ \A s \in Threads \ {t} : pc'[s] = pc[s]
  BY <1>1 DEF FdInv, ControlTypes
<1>7. fdtab'[fd[t]] = None /\ \A e \in Fds \ {fd[t]} : fdtab'[e] = fdtab[e]
  BY <1>1, <1>3 DEF FdInv, FdTypes
<1>8. /\ ~Opened(t)' /\ ~Closing(t)'
      /\ \A s \in Threads \ {t} : (Opened(s)' <=> Opened(s)) /\ (Closing(s)' <=> Closing(s))
  BY <1>1, <1>2, <1>6 DEF Opened, Closing
<1>9. \A s \in Threads \ {t} : (Opened(s) => fd[s] # fd[t]) /\ (Closing(s) => fh[s] # fd[t])
  BY <1>2 DEF FdInv, ApartInv
<1>10. OwnersInv'
  <2>1. \A s \in Threads : fd'[s] # None => pc'[s] \in {"list", "uidback", "gidback", "reply"}
    BY <1>1, <1>6 DEF FdInv, OwnersInv
  <2>2. \A s \in Threads : Opened(s)' =>
           fd'[s] \in Fds /\ fdtab'[fd'[s]] # None /\ held'[fd'[s]] = None
    BY <1>1, <1>7, <1>8, <1>9 DEF FdInv, OwnersInv
  <2>3. \A s \in Threads : op'[s] \in Openers /\ fd'[s] # None => fdtab'[fd'[s]] = file'[s]
    <3> SUFFICES ASSUME NEW s \in Threads, op[s] \in Openers, fd[s] # None
                 PROVE  fdtab'[fd[s]] = file[s]
      BY <1>1
    <3>1. s # t /\ Opened(s)
      BY <1>2 DEF Opened
    <3>2. fd[s] \in Fds \ {fd[t]} /\ fdtab[fd[s]] = file[s]
      BY <1>9, <3>1 DEF FdInv, OwnersInv
    <3> QED
      BY <1>7, <3>2
  <2>4. \A s \in Threads : Closing(s)' =>
           fh'[s] \in Fds /\ fdtab'[fh'[s]] # None /\ held'[fh'[s]] = None
    BY <1>1, <1>7, <1>8, <1>9 DEF FdInv, OwnersInv
  <2> QED
    BY <2>1, <2>2, <2>3, <2>4 DEF OwnersInv
<1>11. ApartInv'
  BY <1>1, <1>8 DEF FdInv, ApartInv
<1>12. TableInv'
  BY <1>1, <1>2, <1>3, <1>7, <1>8 DEF FdInv, TableInv
<1> QED
  BY <1>4, <1>5, <1>10, <1>11, <1>12 DEF FdInv

\* The kernel takes over what an open has returned.
LEMMA ReplyKeepsFdInv ==
    ASSUME FdInv, NEW t \in Threads, Reply(t)
    PROVE  FdInv'
<1> DEFINE hands == op[t] \in Openers /\ fd[t] # None
<1>1. /\ pc[t] = "reply" /\ pc' = [pc EXCEPT ![t] = "idle"]
      /\ held' = IF hands THEN [held EXCEPT ![fd[t]] = file[t]] ELSE held
      /\ op' = [op EXCEPT ![t] = "ByPath"] /\ file' = [file EXCEPT ![t] = None]
      /\ fh' = [fh EXCEPT ![t] = None] /\ fd' = [fd EXCEPT ![t] = None]
      /\ fdtab' = fdtab
  BY DEF Reply, Goto
<1>2. "ByPath" \in Ops /\ "ByPath" \notin Openers \cup {"Readdir"}
  BY DEF Ops, Openers
<1>3. \A s \in Threads \ {t} :
         /\ pc'[s] = pc[s] /\ op'[s] = op[s] /\ fh'[s] = fh[s] /\ fd'[s] = fd[s]
         /\ file'[s] = file[s]
  BY <1>1 DEF FdInv, ControlTypes, FdTypes
<1>4. pc'[t] = "idle" /\ op'[t] = "ByPath" /\ fd'[t] = None
  BY <1>1 DEF FdInv, ControlTypes, FdTypes
<1>5. hands => /\ Opened(t) /\ fd[t] \in Fds /\ file[t] \in Files
               /\ held[fd[t]] = None /\ fdtab[fd[t]] = file[t]
  BY DEF FdInv, FdTypes, OwnersInv, Opened
<1>6. ControlTypes'
  BY <1>1, <1>2 DEF FdInv, ControlTypes, PCs
<1>7. FdTypes'
  BY <1>1, <1>2, <1>3, <1>4, <1>5 DEF FdInv, FdTypes
<1>8. ~Closing(t) /\ (Opened(t) => hands)
  BY <1>1 DEF Closing, Opened
<1>9. /\ ~Opened(t)' /\ ~Closing(t)'
      /\ \A s \in Threads \ {t} : (Opened(s)' <=> Opened(s)) /\ (Closing(s)' <=> Closing(s))
  BY <1>2, <1>3, <1>4 DEF Opened, Closing
<1>10. hands => \A s \in Threads \ {t} : (Opened(s) => fd[s] # fd[t])
                                         /\ (Closing(s) => fh[s] # fd[t])
  BY <1>5 DEF FdInv, ApartInv
<1>11. /\ hands => held'[fd[t]] = file[t] /\ \A e \in Fds \ {fd[t]} : held'[e] = held[e]
       /\ ~hands => held' = held
  BY <1>1, <1>5 DEF FdInv, FdTypes
<1>12. OwnersInv'
  <2>1. \A s \in Threads : fd'[s] # None => pc'[s] \in {"list", "uidback", "gidback", "reply"}
    BY <1>3, <1>4 DEF FdInv, OwnersInv
  <2>2. \A s \in Threads : Opened(s)' =>
           fd'[s] \in Fds /\ fdtab'[fd'[s]] # None /\ held'[fd'[s]] = None
    <3> HIDE DEF hands
    <3> QED
      BY <1>1, <1>3, <1>9, <1>10, <1>11 DEF FdInv, OwnersInv
  <2>3. \A s \in Threads : op'[s] \in Openers /\ fd'[s] # None => fdtab'[fd'[s]] = file'[s]
    BY <1>1, <1>3, <1>4 DEF FdInv, OwnersInv
  <2>4. \A s \in Threads : Closing(s)' =>
           fh'[s] \in Fds /\ fdtab'[fh'[s]] # None /\ held'[fh'[s]] = None
    <3> HIDE DEF hands
    <3> QED
      BY <1>1, <1>3, <1>9, <1>10, <1>11 DEF FdInv, OwnersInv
  <2> QED
    BY <2>1, <2>2, <2>3, <2>4 DEF OwnersInv
<1>13. ApartInv'
  BY <1>3, <1>9 DEF FdInv, ApartInv
<1>14. TableInv'
  <2>1. CASE hands
    <3>1. \A e \in Fds : held'[e] # None => fdtab'[e] = held'[e]
      BY <1>1, <1>5, <1>11, <2>1 DEF FdInv, TableInv
    <3>2. \A e \in Fds \ {fd[t]} : fdtab'[e] # None =>
            \/ held'[e] # None
            \/ \E s \in Threads : (Opened(s)' /\ fd'[s] = e) \/ (Closing(s)' /\ fh'[s] = e)
      BY <1>1, <1>3, <1>8, <1>9, <1>11, <2>1 DEF FdInv, TableInv
    <3>3. held'[fd[t]] # None
      BY <1>5, <1>11, <2>1
    <3> QED
      BY <3>1, <3>2, <3>3 DEF TableInv
  <2>2. CASE ~hands
    BY <1>1, <1>3, <1>8, <1>9, <1>11, <2>2 DEF FdInv, TableInv
  <2> QED
    BY <2>1, <2>2
<1> QED
  BY <1>6, <1>7, <1>12, <1>13, <1>14 DEF FdInv

LEMMA FdsInductive == Spec => []FdInv
<1>1. FdInv /\ [Next]_vars => FdInv'
  <2> SUFFICES ASSUME FdInv, [Next]_vars PROVE FdInv'
    OBVIOUS
  <2>1. CASE UNCHANGED vars
    BY <2>1 DEF vars, procVars, fdVars, reqVars, hist, FdInv, ControlTypes, FdTypes,
       OwnersInv, ApartInv, TableInv, Opened, Closing
  <2>2. CASE Next
    <3>1. PICK t \in Threads :
            \/ \E c \in Callers : Request(t, c)
            \/ Geteuid(t) \/ Getegid(t) \/ SwitchGroup(t) \/ SwitchUser(t)
            \/ Call(t) \/ List(t)
            \/ UserBack(t) \/ GroupBack(t) \/ Reply(t)
      BY <2>2 DEF Next
    <3> QED
      BY <3>1, RequestKeepsFdInv, MovesKeepFdInv, CallKeepsFdInv, ListKeepsFdInv,
         ReplyKeepsFdInv
  <2> QED
    BY <2>1, <2>2
<1> QED
  BY InitFdInv, <1>1, PTL DEF Spec

\* No descriptor is lost or closed twice, and each handle of the kernel is open
\* for its file (passthrough.go:160-167, 229-256).
THEOREM DescriptorSafety == Spec => []DescriptorsAreHandles
<1>1. FdInv => DescriptorsAreHandles
  <2> SUFFICES ASSUME FdInv, NEW d \in Fds, fdtab[d] # None, held[d] = None
               PROVE  \E t \in Threads : fd[t] = d \/ (fh[t] = d /\ op[t] \in Closers)
    BY DEF FdInv, TableInv, DescriptorsAreHandles
  <2> QED
    BY DEF FdInv, TableInv, Closing
<1> QED
  BY <1>1, FdsInductive, PTL
-----------------------------------------------------------------------------
(* Numbers *)

\* n divided by m is q, and leaves r.
Divided(n, m, q, r) == q \in Int /\ r \in 0..(m - 1) /\ n = m * q + r

LEMMA DivMod == ASSUME NEW n \in Nat, NEW m \in Nat \ {0} PROVE Divided(n, m, n \div m, n % m)
BY Z3 DEF Divided

LEMMA Multiple == ASSUME NEW m \in Nat \ {0}, NEW k \in Int, k >= 1 PROVE m * k >= m
BY Z3

LEMMA DivModUnique ==
    ASSUME NEW m \in Nat \ {0}, NEW n, NEW q, NEW r, NEW p, NEW s,
           Divided(n, m, q, r), Divided(n, m, p, s)
    PROVE  q = p /\ r = s
<1> USE DEF Divided
<1>1. m * (q - p) = s - r /\ m * (p - q) = r - s
  BY Z3
<1>2. q - p >= 1 => m * (q - p) >= m
  BY Multiple
<1>3. p - q >= 1 => m * (p - q) >= m
  BY Multiple
<1> QED
  BY <1>1, <1>2, <1>3, Z3

LEMMA ModNext ==
    ASSUME NEW n \in Nat, NEW m \in Nat \ {0}
    PROVE  (n + 1) % m = IF n % m = m - 1 THEN 0 ELSE (n % m) + 1
<1> DEFINE q == n \div m
           r == n % m
           p == (n + 1) \div m
           s == (n + 1) % m
<1>1. Divided(n, m, q, r) /\ Divided(n + 1, m, p, s)
  <2>1. n + 1 \in Nat
    OBVIOUS
  <2>2. Divided(n, m, q, r)
    BY ONLY n \in Nat, m \in Nat \ {0}, DivMod
  <2>3. Divided(n + 1, m, p, s)
    BY ONLY <2>1, m \in Nat \ {0}, DivMod
  <2> QED
    BY <2>2, <2>3
<1> HIDE DEF q, r, p, s
<1>2. CASE r = m - 1
  <2>1. Divided(n + 1, m, q + 1, 0)
    BY <1>1, <1>2, Z3 DEF Divided
  <2>2. s = 0
    BY ONLY <1>1, <2>1, DivModUnique
  <2> QED
    BY <1>2, <2>2 DEF r, s
<1>3. CASE r # m - 1
  <2>1. Divided(n + 1, m, q, r + 1)
    BY <1>1, <1>3, Z3 DEF Divided
  <2>2. s = r + 1
    BY ONLY <1>1, <2>1, DivModUnique
  <2> QED
    BY <1>3, <2>2 DEF r, s
<1> QED
  BY <1>2, <1>3

-----------------------------------------------------------------------------
(* Notifyfs *)

\* The number of files goes up to Peak and down again,
LEMMA CountIs ==
    ASSUME NEW n \in Nat, NEW w, w = 2 * Peak
    PROVE  N!countFromTicks(n) = IF n % w < Peak THEN n % w ELSE w - (n % w)
<1> DEFINE r == n % w
           q == n \div w
           u == n % Peak
           v == n \div Peak
           h == r \div Peak
           k == r % Peak
<1>1. Peak \in Nat \ {0} /\ w \in Nat \ {0}
  BY NAssumption DEF N!NotifyfsAssumption
<1>2. Divided(n, w, q, r) /\ Divided(n, Peak, v, u)
  BY <1>1, DivMod
<1>3. r \in Nat /\ r < w /\ u \in Int
  BY <1>1, <1>2 DEF Divided
<1>4. Divided(r, Peak, h, k)
  BY <1>1, <1>3, DivMod
<1>5. N!countFromTicks(n) = (1 - h) * u + h * (Peak - u)
  BY DEF N!countFromTicks
<1>6. CASE r < Peak
  <2> HIDE DEF r, q, u, v, h, k
  <2>1. Divided(r, Peak, 0, r) /\ Divided(n, Peak, 2 * q, r)
    BY <1>1, <1>2, <1>3, <1>6, Z3 DEF Divided
  <2>2. h = 0 /\ u = r
    BY ONLY <1>1, <1>2, <1>4, <2>1, DivModUnique
  <2> QED
    BY <1>1, <1>3, <1>5, <1>6, <2>2 DEF r
<1>7. CASE r >= Peak
  <2> HIDE DEF r, q, u, v, h, k
  <2>1. Divided(r, Peak, 1, r - Peak) /\ Divided(n, Peak, 2 * q + 1, r - Peak)
    BY <1>1, <1>2, <1>3, <1>7, Z3 DEF Divided
  <2>2. h = 1 /\ u = r - Peak
    BY ONLY <1>1, <1>2, <1>4, <2>1, DivModUnique
  <2>3. N!countFromTicks(n) = w - r
    BY <1>1, <1>3, <1>5, <2>2
  <2> QED
    BY <1>1, <1>3, <1>7, <2>3 DEF r
<1> QED
  BY <1>1, <1>3, <1>6, <1>7

\* by one file with every tick.
LEMMA CountMovesByOne ==
    ASSUME NEW n \in Nat
    PROVE  LET old == N!countFromTicks(n)
               new == N!countFromTicks(n + 1)
           IN  old \in 0..Peak /\ new \in 0..Peak /\ (new = old + 1 \/ new = old - 1)
<1>1. PICK w : w = 2 * Peak
  OBVIOUS
<1>2. Peak \in Nat \ {0} /\ w \in Nat \ {0}
  BY <1>1, NAssumption DEF N!NotifyfsAssumption
<1> DEFINE r == n % w
           s == (n + 1) % w
<1>3. r \in 0..(w - 1) /\ s \in 0..(w - 1)
  BY <1>2, DivMod DEF Divided
<1>4. s = IF r = w - 1 THEN 0 ELSE r + 1
  BY <1>2, ModNext
<1>5. N!countFromTicks(n) = IF r < Peak THEN r ELSE w - r
  BY <1>1, CountIs
<1>6. N!countFromTicks(n + 1) = IF s < Peak THEN s ELSE w - s
  BY <1>1, CountIs
<1> HIDE DEF r, s
<1> QED
  BY <1>1, <1>2, <1>3, <1>4, <1>5, <1>6

Events == {"CREATE", "UNLINK"} \X (1..Peak)

\* A change that has not been handed over yet, and one that is on its way.
Announced(i) == tpc # "wait" /\ event[2] = i
Told(i)      == \E j \in 1..Len(queue) : queue[j][2] = i

NotifyTypes ==
    /\ ticks \in Nat /\ hasNotify \in BOOLEAN
    /\ tpc \in {"wait", "notify", "call"} /\ (tpc # "wait" => event \in Events)
    /\ queue \in Seq(Events) /\ view \in SUBSET (1..Peak)
    /\ mount # "mounted" => ~watching
    /\ ~watching => queue = <<>> /\ ~listed

\* The latest news of each file is right; and the view is, of the files that
\* nothing is on its way about.
AnnouncedInv == tpc # "wait" => (event[1] = "CREATE" <=> N!Exists(event[2]))
QueueInv ==
    hasNotify =>
        \A j \in 1..Len(queue) :
            \/ Announced(queue[j][2])
            \/ \E l \in 1..Len(queue) : l > j /\ queue[l][2] = queue[j][2]
            \/ queue[j][1] = "CREATE" <=> N!Exists(queue[j][2])
ViewInv ==
    hasNotify /\ listed =>
        \A i \in 1..Peak : Announced(i) \/ Told(i) \/ (i \in view <=> N!Exists(i))

NotifyInv == NotifyTypes /\ AnnouncedInv /\ QueueInv /\ ViewInv

LEMMA TickStep == ASSUME NotifyInv, N!Tick PROVE NotifyInv'
<1> USE DEF NotifyInv
<1> DEFINE old == N!countFromTicks(ticks)
           new == N!countFromTicks(ticks + 1)
<1>1. /\ tpc = "wait" /\ ticks' = ticks + 1 /\ event' = N!Change(old, new)
      /\ tpc' = IF event' = N!NoEvent THEN "wait" ELSE "notify"
      /\ UNCHANGED <<hasNotify, mount, watching, queue, listed, view>>
  BY DEF N!Tick, N!client
<1>2. ticks \in Nat /\ N!count = old /\ N!count' = new
  BY <1>1 DEF NotifyTypes, N!count
<1>3. old \in 0..Peak /\ new \in 0..Peak /\ (new = old + 1 \/ new = old - 1)
  BY <1>2, CountMovesByOne
<1>4. Peak \in Nat
  BY NAssumption DEF N!NotifyfsAssumption
<1> HIDE DEF old, new
<1>5. event' = IF new = old + 1 THEN <<"CREATE", new>> ELSE <<"UNLINK", old>>
  BY <1>1, <1>3, <1>4 DEF N!Change
<1>6. event' \in Events /\ event' # N!NoEvent /\ tpc' = "notify"
  BY <1>1, <1>3, <1>4, <1>5 DEF Events, N!NoEvent
<1>7. NotifyTypes'
  BY <1>1, <1>2, <1>6 DEF NotifyTypes
<1>8. AnnouncedInv'
  BY <1>2, <1>3, <1>4, <1>5 DEF AnnouncedInv, N!Exists
<1>9. ASSUME NEW i \in 1..Peak, ~Announced(i)' PROVE N!Exists(i)' <=> N!Exists(i)
  BY <1>2, <1>3, <1>4, <1>5, <1>6, <1>9 DEF Announced, N!Exists
<1>10. \A j \in 1..Len(queue) : queue[j][2] \in 1..Peak
  BY DEF NotifyTypes, Events
<1>11. \A i : ~Announced(i)
  BY <1>1 DEF Announced
<1>12. QueueInv'
  BY <1>1, <1>9, <1>10, <1>11 DEF QueueInv
<1>13. ViewInv'
  BY <1>1, <1>9, <1>11 DEF ViewInv, Told
<1> QED
  BY <1>7, <1>8, <1>12, <1>13

LEMMA NotifyStep == ASSUME NotifyInv, N!Notify PROVE NotifyInv'
<1> USE DEF NotifyInv
<1>1. /\ tpc = "notify" /\ tpc' = IF mount = "mounted" THEN "call" ELSE "wait"
      /\ mount = "mounted" => event' = event
      /\ UNCHANGED <<ticks, hasNotify, mount, watching, queue, listed, view>>
  BY DEF N!Notify, N!client
<1>2. CASE mount = "mounted"
  BY <1>1, <1>2
     DEF NotifyTypes, AnnouncedInv, QueueInv, ViewInv, Announced, Told, N!Exists, N!count
<1>3. CASE mount # "mounted"
  BY <1>1, <1>3 DEF NotifyTypes, AnnouncedInv, QueueInv, ViewInv
<1> QED
  BY <1>2, <1>3

LEMMA CallNotifyStep == ASSUME NotifyInv, N!CallNotify PROVE NotifyInv'
<1> USE DEF NotifyInv
<1>1. /\ tpc = "call" /\ tpc' = "wait" /\ event \in Events
      /\ queue' = IF hasNotify /\ mount = "mounted" /\ watching
                  THEN Append(queue, event) ELSE queue
      /\ UNCHANGED <<ticks, hasNotify, mount, watching, listed, view>>
  BY DEF N!CallNotify, NotifyTypes
<1>2. AnnouncedInv' /\ \A i : N!Exists(i)' <=> N!Exists(i)
  BY <1>1 DEF AnnouncedInv, N!Exists, N!count
<1>3. CASE ~(hasNotify /\ watching)
  BY <1>1, <1>2, <1>3 DEF NotifyTypes, QueueInv, ViewInv
<1>4. CASE hasNotify /\ watching
  <2>1. queue \in Seq(Events) /\ queue' = Append(queue, event)
    BY <1>1, <1>4 DEF NotifyTypes
  <2> DEFINE n == Len(queue)
  <2>2. /\ n \in Nat /\ Len(queue') = n + 1 /\ queue'[n + 1] = event
        /\ queue' \in Seq(Events) /\ \A j \in 1..n : queue'[j] = queue[j]
    BY <1>1, <2>1
  <2> HIDE DEF n
  <2>3. NotifyTypes'
    BY <1>1, <1>4, <2>2 DEF NotifyTypes
  <2>4. QueueInv'
    <3> SUFFICES ASSUME NEW j \in 1..(n + 1)
                 PROVE  \/ \E l \in 1..(n + 1) : l > j /\ queue'[l][2] = queue'[j][2]
                        \/ queue'[j][1] = "CREATE" <=> N!Exists(queue'[j][2])
      BY <1>1, <2>2 DEF QueueInv, N!Exists, N!count
    <3>1. CASE j = n + 1
      BY <1>1, <2>2, <3>1 DEF AnnouncedInv
    <3>2. CASE j \in 1..n
      <4>1. \/ queue[j][2] = event[2]
            \/ \E l \in 1..n : l > j /\ queue[l][2] = queue[j][2]
            \/ queue[j][1] = "CREATE" <=> N!Exists(queue[j][2])
        BY <1>4, <3>2 DEF QueueInv, Announced, n
      <4>2. CASE queue[j][2] = event[2]
        BY <2>2, <3>2, <4>2
      <4>3. CASE \E l \in 1..n : l > j /\ queue[l][2] = queue[j][2]
        BY <2>2, <3>2, <4>3
      <4>4. CASE queue[j][1] = "CREATE" <=> N!Exists(queue[j][2])
        BY <2>2, <3>2, <4>4
      <4> QED
        BY <4>1, <4>2, <4>3, <4>4
    <3> QED
      BY <2>2, <3>1, <3>2
  <2>5. ViewInv'
    <3> SUFFICES ASSUME listed, NEW i \in 1..Peak
                 PROVE  Told(i)' \/ (i \in view <=> N!Exists(i))
      BY <1>1, <1>2 DEF ViewInv
    <3>1. Announced(i) \/ Told(i) \/ (i \in view <=> N!Exists(i))
      BY <1>4 DEF ViewInv
    <3>2. Announced(i) => Told(i)'
      BY <2>2 DEF Announced, Told
    <3>3. Told(i) => Told(i)'
      BY <2>2 DEF Told, n
    <3> QED
      BY <3>1, <3>2, <3>3
  <2> QED
    BY <1>2, <2>3, <2>4, <2>5
<1> QED
  BY <1>3, <1>4

LEMMA ReceiveStep == ASSUME NotifyInv, N!Receive PROVE NotifyInv'
<1> USE DEF NotifyInv
<1> DEFINE n == Len(queue)
           e == Head(queue)
<1>1. /\ queue # <<>> /\ queue \in Seq(Events) /\ queue' = Tail(queue)
      /\ view' = CASE listed /\ e[1] = "CREATE" -> view \cup {e[2]}
                    [] listed /\ e[1] = "UNLINK" -> view \ {e[2]}
                    [] OTHER -> view
      /\ UNCHANGED <<ticks, hasNotify, tpc, event, mount, watching, listed>>
  BY DEF N!Receive, N!fsVars, NotifyTypes
<1>2. /\ n \in Nat \ {0} /\ e = queue[1] /\ e \in Events /\ Len(queue') = n - 1
      /\ queue' \in Seq(Events) /\ \A j \in 1..(n - 1) : queue'[j] = queue[j + 1]
  BY <1>1
<1>3. e[1] \in {"CREATE", "UNLINK"} /\ e[2] \in 1..Peak
  BY <1>2 DEF Events
<1> HIDE DEF n, e
<1>4. NotifyTypes'
  BY <1>1, <1>2, <1>3 DEF NotifyTypes
<1>5. /\ AnnouncedInv' /\ \A i : N!Exists(i)' <=> N!Exists(i)
      /\ \A i : Announced(i)' <=> Announced(i)
  BY <1>1 DEF AnnouncedInv, N!Exists, N!count, Announced
<1>6. QueueInv'
  <2> SUFFICES ASSUME hasNotify, NEW j \in 1..(n - 1)
               PROVE  \/ Announced(queue'[j][2])
                      \/ \E l \in 1..(n - 1) : l > j /\ queue'[l][2] = queue'[j][2]
                      \/ queue'[j][1] = "CREATE" <=> N!Exists(queue'[j][2])
    BY <1>1, <1>2, <1>5 DEF QueueInv, N!Exists, N!count
  <2>1. j + 1 \in 1..n /\ queue'[j] = queue[j + 1]
    BY <1>2
  <2>2. \/ Announced(queue[j + 1][2])
        \/ \E l \in 1..n : l > j + 1 /\ queue[l][2] = queue[j + 1][2]
        \/ queue[j + 1][1] = "CREATE" <=> N!Exists(queue[j + 1][2])
    BY <2>1 DEF QueueInv, n
  <2>3. ASSUME NEW l \in 1..n, l > j + 1, queue[l][2] = queue[j + 1][2]
        PROVE  \E m \in 1..(n - 1) : m > j /\ queue'[m][2] = queue'[j][2]
    <3>1. l - 1 \in 1..(n - 1) /\ l - 1 > j /\ queue'[l - 1] = queue[l]
      BY <1>2, <2>3
    <3> QED
      BY <2>1, <2>3, <3>1
  <2> QED
    BY <2>1, <2>2, <2>3
<1>7. ViewInv'
  <2> SUFFICES ASSUME hasNotify, listed, NEW i \in 1..Peak, ~Announced(i), ~Told(i)'
               PROVE  i \in view' <=> N!Exists(i)
    BY <1>1, <1>5 DEF ViewInv
  <2>1. \A l \in 1..n : l > 1 => queue[l][2] # i
    <3> SUFFICES ASSUME NEW l \in 1..n, l > 1 PROVE queue[l][2] # i
      OBVIOUS
    <3>1. l - 1 \in 1..(n - 1) /\ queue'[l - 1] = queue[l]
      BY <1>2
    <3> QED
      BY <1>2, <3>1 DEF Told
  <2>2. CASE e[2] = i
    <3>1. e[1] = "CREATE" <=> N!Exists(i)
      BY <1>2, <2>1, <2>2 DEF QueueInv, n
    <3>2. i \in view' <=> e[1] = "CREATE"
      BY <1>1, <1>3, <2>2
    <3> QED
      BY <3>1, <3>2
  <2>3. CASE e[2] # i
    <3>1. i \in view' <=> i \in view
      BY <1>1, <1>3, <2>3
    <3>2. ~Told(i)
      BY <1>2, <2>1, <2>3 DEF Told, n
    <3> QED
      BY <3>1, <3>2 DEF ViewInv
  <2> QED
    BY <2>2, <2>3
<1> QED
  BY <1>4, <1>5, <1>6, <1>7

\* A watch, a listing, and the life of the mount.
LEMMA ClientStep ==
    ASSUME NotifyInv, N!Watch \/ N!Readdir \/ N!MountStep
    PROVE  NotifyInv'
<1> USE DEF NotifyInv
<1>1. Peak \in Nat /\ N!count \in 0..Peak
  BY NAssumption, CountMovesByOne DEF N!NotifyfsAssumption, NotifyTypes, N!count
<1>2. UNCHANGED <<ticks, hasNotify, tpc, event>>
  BY DEF N!Watch, N!Readdir, N!MountStep, N!fsVars
<1>3. /\ AnnouncedInv' /\ \A i : N!Exists(i)' <=> N!Exists(i)
      /\ \A i : Announced(i)' <=> Announced(i)
  BY <1>2 DEF AnnouncedInv, N!Exists, N!count, Announced
<1>4. CASE N!Watch
  BY <1>2, <1>3, <1>4 DEF N!Watch, NotifyTypes, QueueInv, ViewInv, Told
<1>5. CASE N!Readdir
  <2>1. watching /\ view' = 1..N!count /\ UNCHANGED <<mount, watching, queue>>
    BY <1>5 DEF N!Readdir
  <2>2. \A i \in 1..Peak : i \in view' <=> N!Exists(i)
    BY <1>1, <2>1 DEF N!Exists
  <2>3. view' \in SUBSET (1..Peak)
    BY <1>1, <2>1
  <2> QED
    BY <1>2, <1>3, <2>1, <2>2, <2>3 DEF NotifyTypes, QueueInv, ViewInv
<1>6. CASE N!MountStep
  <2>1. CASE mount = "before"
    <3>1. mount' = "mounted" /\ UNCHANGED <<watching, queue, listed, view>>
      BY <1>6, <2>1 DEF N!MountStep, N!client
    <3>2. NotifyTypes'
      BY <1>2, <3>1 DEF NotifyTypes
    <3>3. QueueInv' /\ ViewInv'
      BY <1>2, <3>1 DEF QueueInv, ViewInv, Announced, Told, N!Exists, N!count
    <3> QED
      BY <1>3, <3>2, <3>3
  <2>2. CASE mount # "before"
    <3>1. ~watching' /\ queue' = <<>> /\ ~listed' /\ view' = {}
      BY <1>6, <2>2 DEF N!MountStep
    <3> QED
      BY <1>2, <1>3, <3>1 DEF NotifyTypes, QueueInv, ViewInv
  <2> QED
    BY <2>1, <2>2
<1> QED
  BY <1>4, <1>5, <1>6

\* A client that watches, and has once listed the directory, catches up with the
\* files there are (notifyfs.go:85-127, host.go:248-264).
THEOREM ViewsCatchUp == SumSpec => []ViewCatchesUp
<1>1. SumInit => NotifyInv
  <2> SUFFICES ASSUME N!Init PROVE NotifyInv
    BY DEF SumInit
  <2>1. queue = <<>> /\ ticks = 0 /\ tpc = "wait" /\ ~listed /\ ~watching /\ view = {}
        /\ hasNotify \in BOOLEAN
    BY DEF N!Init
  <2> QED
    BY <2>1 DEF NotifyInv, NotifyTypes, AnnouncedInv, QueueInv, ViewInv
<1>2. NotifyInv /\ [SumNext]_<<example, vars, notifyVars>> => NotifyInv'
  <2> SUFFICES ASSUME NotifyInv, [SumNext]_<<example, vars, notifyVars>> PROVE NotifyInv'
    OBVIOUS
  <2>1. CASE N!Next
    BY <2>1, TickStep, NotifyStep, CallNotifyStep, ReceiveStep, ClientStep DEF N!Next
  <2>2. CASE UNCHANGED notifyVars
    BY <2>2 DEF notifyVars, NotifyInv, NotifyTypes, AnnouncedInv, QueueInv, ViewInv,
                Announced, Told, N!Exists, N!count
  <2> QED
    BY <2>1, <2>2 DEF SumNext
<1>3. NotifyInv => ViewCatchesUp
  <2> SUFFICES ASSUME NotifyInv, hasNotify, listed, queue = <<>>, tpc = "wait"
               PROVE  view = {i \in 0..(Peak + 1) : N!Exists(i)}
    BY DEF ViewCatchesUp, N!ViewCatchesUp
  <2>1. Peak \in Nat /\ N!count \in 0..Peak
    BY NAssumption, CountMovesByOne
       DEF N!NotifyfsAssumption, NotifyInv, NotifyTypes, N!count
  <2>2. \A i \in 1..Peak : i \in view <=> N!Exists(i)
    BY DEF NotifyInv, ViewInv, Announced, Told
  <2>3. view \in SUBSET (1..Peak)
    BY DEF NotifyInv, NotifyTypes
  <2>4. \A i \in 0..(Peak + 1) : N!Exists(i) => i \in 1..Peak
    BY <2>1 DEF N!Exists
  <2>5. \A i \in 1..Peak : i \in 0..(Peak + 1)
    BY <2>1
  <2> QED
    BY <2>2, <2>3, <2>4, <2>5
<1> QED
  BY <1>1, <1>2, <1>3, PTL DEF SumSpec
=============================================================================
