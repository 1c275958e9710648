------------------------ MODULE HostLifecycle_proofs ------------------------
(***************************************************************************)
(* Invariance proofs for HostLifecycle.  IInv is inductive: it adds to     *)
(* each safety property where the session's channel, goroutine, mount and  *)
(* callbacks stand at each control point of Mount.                         *)
(***************************************************************************)
EXTENDS HostLifecycle, TLAPS

\* host.mntp is the mount point of the session in progress, "" between two.
MntpInv ==
    /\ pc # "idle" => sess # Nil /\ mntp = path
    /\ pc = "idle" => mntp = NoPath /\ path = NoPath

\* The channel of a session is in host.sigc from ArmSignals on.
SigcInv ==
    /\ windows => sigc = Nil /\ registered = {}
    /\ ~windows /\ pc \notin {"idle", "mntpSet"} => sigc = sess

\* A goroutine runs only between ArmSignals and AwaitDone of its own session,
\* and is inside Unmount only where its control point says so.
GoInv ==
    /\ \A s \in Sessions : Live(s) =>
          /\ s = sess /\ sigc = s
          /\ pc \notin {"idle", "mntpSet", "doneReceived"}
          /\ gpc[s] # "start" => gch[s] = s
    /\ \A s \in Sessions : InUnmount(s) => gpc[s] = "Unmount"
    /\ windows => \A s \in Sessions : ~Live(s)

\* Channels: which may be registered, and which may be closed.
ChanInv ==
    /\ \A s \in registered :
          s \in panicked \/ (s = sess /\ pc \in {"notified", "serving", "ended", "destroyed"})
    /\ \A s \in closed :
          s < sess \/ (s = sess /\ pc \in {"sigcClosed", "doneReceived", "idle"})
    /\ \A s \in panicked :
          s < sess \/ (s = sess /\ pc \in {"mainRet", "handleDeleted", "sigcClosed",
                                           "doneReceived", "idle"})
    /\ ~windows /\ pc \in {"notified", "serving", "ended", "destroyed"} => sess \in registered

\* Whatever is mounted is the session in progress, at its mount point.
KernelInv ==
    \A m \in MountPoints : at[m] # Nil =>
        /\ at[m] = sess /\ m = path
        /\ pc \in {"attached", "fuseSet", "notified", "serving"}

IInv ==
    /\ TypeOK
    /\ MntpInv /\ SigcInv /\ GoInv /\ ChanInv /\ KernelInv
    /\ FuseIsOfThisSession /\ HandleLivesAsLongAsFuseMain

-----------------------------------------------------------------------------
\* Types.
LEMMA TypeInvariant ==
    ASSUME TypeOK, MntpInv, [Next]_vars PROVE TypeOK'
<1> USE HostAssumption
        DEF TypeOK, MntpInv, Sessions, MaybeSession, MaybePath, Threads, Nil, MountPCs, Step, Move, GoStep,
            mountVars, hostVars, goVars, signalVars, kernelVars, endVars
<1>1. ASSUME NEW m \in MaybePath, MountBegin(m) PROVE TypeOK'
    BY <1>1 DEF MountBegin
<1>2. ASSUME ArmSignals PROVE TypeOK' BY <1>2 DEF ArmSignals, GoPCs
<1>3. ASSUME HandleNew PROVE TypeOK' BY <1>3 DEF HandleNew
<1>4. ASSUME FuseMainFails PROVE TypeOK' BY <1>4 DEF FuseMainFails
<1>5. ASSUME Attach PROVE TypeOK' BY <1>5 DEF Attach
<1>6. ASSUME InitSetFuse PROVE TypeOK' BY <1>6 DEF InitSetFuse
<1>7. ASSUME InitNotify PROVE TypeOK' BY <1>7 DEF InitNotify
<1>8. ASSUME InitOp PROVE TypeOK' BY <1>8 DEF InitOp
<1>9. ASSUME LoopEndsEarly PROVE TypeOK' BY <1>9 DEF LoopEndsEarly
<1>10. ASSUME LoopEnds PROVE TypeOK' BY <1>10 DEF LoopEnds
<1>11. ASSUME DestroyOp PROVE TypeOK' BY <1>11 DEF DestroyOp
<1>12. ASSUME DestroyPanics PROVE TypeOK' BY <1>12 DEF DestroyPanics
<1>13. ASSUME DestroyStop PROVE TypeOK' BY <1>13 DEF DestroyStop
<1>14. ASSUME DestroyClearFuse PROVE TypeOK' BY <1>14 DEF DestroyClearFuse
<1>15. ASSUME HandleDel PROVE TypeOK' BY <1>15 DEF HandleDel
<1>16. ASSUME CloseSigc PROVE TypeOK' BY <1>16 DEF CloseSigc
<1>17. ASSUME AwaitDone PROVE TypeOK' BY <1>17 DEF AwaitDone
<1>18. ASSUME MountReturn PROVE TypeOK' BY <1>18 DEF MountReturn
<1>19. ASSUME NEW s \in Sessions, GoStart(s) PROVE TypeOK'
    BY <1>19 DEF GoStart, GoPCs
<1>20. ASSUME NEW s \in Sessions, GoRecv(s) PROVE TypeOK'
    BY <1>20 DEF GoRecv, GoPCs
<1>21. ASSUME NEW s \in Sessions, GoRecvClosed(s) PROVE TypeOK'
    BY <1>21 DEF GoRecvClosed, GoPCs
<1>22. ASSUME NEW s \in Sessions, GoCloseDone(s) PROVE TypeOK'
    BY <1>22 DEF GoCloseDone, GoPCs
<1>23. ASSUME NEW t \in Threads, UnmountNoFuse(t) PROVE TypeOK'
    BY <1>23 DEF UnmountNoFuse, Resume, GoPCs
<1>24. ASSUME NEW t \in Threads, UnmountSnapshot(t) PROVE TypeOK'
    BY <1>24 DEF UnmountSnapshot, Frames
<1>25. ASSUME NEW t \in Threads, UnmountFinish(t) PROVE TypeOK'
  <2>1. frame[t].fuse \in Sessions
    BY <1>25 DEF UnmountFinish, InUnmount, Frames
  <2>2. frame' \in [Threads -> Frames] /\ at' \in [MountPoints -> MaybeSession]
        /\ refused' \subseteq Sessions
    BY <1>25, <2>1 DEF UnmountFinish, Frames, NoFrame
  <2>3. gpc' \in [Sessions -> GoPCs]
    BY <1>25 DEF UnmountFinish, Resume, GoPCs
  <2> QED BY <1>25, <2>2, <2>3 DEF UnmountFinish
<1>26. ASSUME NEW m \in MountPoints, ExternalUnmount(m) PROVE TypeOK'
    BY <1>26 DEF ExternalUnmount
<1>27. ASSUME UseBegin PROVE TypeOK' BY <1>27 DEF UseBegin
<1>28. ASSUME UseEnd PROVE TypeOK' BY <1>28 DEF UseEnd
<1>29. ASSUME SignalDefault PROVE TypeOK' BY <1>29 DEF SignalDefault
<1>30. ASSUME SignalSend PROVE TypeOK' BY <1>30 DEF SignalSend
<1>31. ASSUME SignalOnClosed PROVE TypeOK' BY <1>31 DEF SignalOnClosed
<1>32. CASE UNCHANGED vars
    BY <1>32 DEF vars
<1> QED
    BY <1>1, <1>2, <1>3, <1>4, <1>5, <1>6, <1>7, <1>8, <1>9, <1>10, <1>11,
            <1>12, <1>13, <1>14, <1>15, <1>16, <1>17, <1>18, <1>19, <1>20,
            <1>21, <1>22, <1>23, <1>24, <1>25, <1>26, <1>27, <1>28, <1>29,
            <1>30, <1>31, <1>32
    DEF Next, MountStep, FuseMain, Goroutine, UnmountEntry, Signal, vars

-----------------------------------------------------------------------------
\* host.mntp is written only at both ends of Mount.
LEMMA MntpInvariant ==
    ASSUME TypeOK, MntpInv, [Next]_vars PROVE MntpInv'
<1> USE DEF MntpInv, TypeOK, Sessions, MaybeSession, Nil, Step, Move,
            hostVars, mountVars
<1>1. ASSUME NEW m \in MaybePath, MountBegin(m) PROVE MntpInv'
    BY <1>1 DEF MountBegin
<1>2. ASSUME MountReturn PROVE MntpInv' BY <1>2 DEF MountReturn
<1>3. ASSUME NEW s \in Sessions, GoStart(s) \/ GoRecv(s) \/ GoRecvClosed(s) \/ GoCloseDone(s)
      PROVE MntpInv'
    BY <1>3 DEF GoStart, GoRecv, GoRecvClosed, GoCloseDone, GoStep
<1>4. ASSUME NEW t \in Threads, UnmountNoFuse(t) \/ UnmountSnapshot(t) \/ UnmountFinish(t)
      PROVE MntpInv'
    BY <1>4 DEF UnmountNoFuse, UnmountSnapshot, UnmountFinish
<1>5. ASSUME NEW m \in MountPoints, ExternalUnmount(m)
      PROVE MntpInv'
    BY <1>5 DEF ExternalUnmount
<1>6. CASE ArmSignals \/ HandleNew \/ FuseMainFails \/ Attach
               \/ InitSetFuse \/ InitNotify \/ InitOp \/ LoopEndsEarly
               \/ LoopEnds \/ DestroyOp \/ DestroyPanics \/ DestroyStop
               \/ DestroyClearFuse \/ HandleDel \/ CloseSigc \/ AwaitDone
    BY <1>6 DEF ArmSignals, HandleNew, FuseMainFails, Attach, InitSetFuse,
            InitNotify, InitOp, LoopEndsEarly, LoopEnds, DestroyOp,
            DestroyPanics, DestroyStop, DestroyClearFuse, HandleDel,
            CloseSigc, AwaitDone
<1>7. CASE UseBegin \/ UseEnd \/ SignalDefault \/ SignalSend
               \/ SignalOnClosed
    BY <1>7 DEF UseBegin, UseEnd, SignalDefault, SignalSend, SignalOnClosed
<1>8. CASE UNCHANGED vars
    BY <1>8 DEF vars
<1> QED
    BY <1>1, <1>2, <1>3, <1>4, <1>5, <1>6, <1>7, <1>8
    DEF Next, MountStep, FuseMain, Goroutine, UnmountEntry, Signal, vars

-----------------------------------------------------------------------------
\* host.sigc is written only by ArmSignals.
LEMMA SigcInvariant ==
    ASSUME TypeOK, SigcInv, [Next]_vars PROVE SigcInv'
<1> USE DEF SigcInv, TypeOK, Nil, Step, Move,
            endVars, mountVars, signalVars
<1>1. ASSUME NEW m \in MaybePath, MountBegin(m) PROVE SigcInv'
    BY <1>1 DEF MountBegin
<1>2. ASSUME ArmSignals PROVE SigcInv' BY <1>2 DEF ArmSignals
<1>3. ASSUME InitNotify PROVE SigcInv' BY <1>3 DEF InitNotify
<1>4. ASSUME DestroyStop PROVE SigcInv' BY <1>4 DEF DestroyStop
<1>5. ASSUME NEW s \in Sessions, GoStart(s) \/ GoRecv(s) \/ GoRecvClosed(s) \/ GoCloseDone(s)
      PROVE SigcInv'
    BY <1>5 DEF GoStart, GoRecv, GoRecvClosed, GoCloseDone, GoStep
<1>6. ASSUME NEW t \in Threads, UnmountNoFuse(t) \/ UnmountSnapshot(t) \/ UnmountFinish(t)
      PROVE SigcInv'
    BY <1>6 DEF UnmountNoFuse, UnmountSnapshot, UnmountFinish
<1>7. ASSUME NEW m \in MountPoints, ExternalUnmount(m)
      PROVE SigcInv'
    BY <1>7 DEF ExternalUnmount
<1>8. CASE HandleNew \/ FuseMainFails \/ Attach \/ InitSetFuse
               \/ InitOp \/ LoopEndsEarly \/ LoopEnds \/ DestroyOp
               \/ DestroyPanics \/ DestroyClearFuse \/ HandleDel \/ CloseSigc
               \/ AwaitDone \/ MountReturn
    BY <1>8 DEF HandleNew, FuseMainFails, Attach, InitSetFuse, InitOp,
            LoopEndsEarly, LoopEnds, DestroyOp, DestroyPanics,
            DestroyClearFuse, HandleDel, CloseSigc, AwaitDone, MountReturn
<1>9. CASE UseBegin \/ UseEnd \/ SignalDefault \/ SignalSend
               \/ SignalOnClosed
    BY <1>9 DEF UseBegin, UseEnd, SignalDefault, SignalSend, SignalOnClosed
<1>10. CASE UNCHANGED vars
    BY <1>10 DEF vars
<1> QED
    BY <1>1, <1>2, <1>3, <1>4, <1>5, <1>6, <1>7, <1>8, <1>9, <1>10
    DEF Next, MountStep, FuseMain, Goroutine, UnmountEntry, Signal, vars

-----------------------------------------------------------------------------
\* The goroutine of an earlier session has exited, because Mount waited for
\* done; that of this session can leave Unmount only through Resume.
LEMMA GoInvariant ==
    ASSUME TypeOK, SigcInv, GoInv, [Next]_vars PROVE GoInv'
<1> USE HostAssumption
        DEF GoInv, Live, InUnmount, SigcInv, TypeOK, Sessions, MaybeSession, Threads, Nil, Step, Move, GoStep,
            endVars, goVars, mountVars
<1>1. ASSUME NEW m \in MaybePath, MountBegin(m) PROVE GoInv'
    BY <1>1 DEF MountBegin
<1>2. ASSUME ArmSignals PROVE GoInv' BY <1>2 DEF ArmSignals
<1>3. ASSUME AwaitDone PROVE GoInv' BY <1>3 DEF AwaitDone
<1>4. ASSUME MountReturn PROVE GoInv' BY <1>4 DEF MountReturn
<1>5. ASSUME NEW s \in Sessions, GoStart(s) PROVE GoInv' BY <1>5 DEF GoStart
<1>6. ASSUME NEW s \in Sessions, GoRecv(s) PROVE GoInv' BY <1>6 DEF GoRecv
<1>7. ASSUME NEW s \in Sessions, GoRecvClosed(s) PROVE GoInv'
    BY <1>7 DEF GoRecvClosed
<1>8. ASSUME NEW s \in Sessions, GoCloseDone(s) PROVE GoInv'
    BY <1>8 DEF GoCloseDone
<1>9. ASSUME NEW t \in Threads, UnmountNoFuse(t) PROVE GoInv'
    BY <1>9 DEF UnmountNoFuse, Resume, AtUnmount
<1>10. ASSUME NEW t \in Threads, UnmountSnapshot(t) PROVE GoInv'
    BY <1>10 DEF UnmountSnapshot, AtUnmount
<1>11. ASSUME NEW t \in Threads, UnmountFinish(t) PROVE GoInv'
    BY <1>11 DEF UnmountFinish, NoFrame, Resume, AtUnmount
<1>12. ASSUME NEW m \in MountPoints, ExternalUnmount(m)
      PROVE GoInv'
    BY <1>12 DEF ExternalUnmount
<1>13. CASE HandleNew \/ FuseMainFails \/ Attach \/ InitSetFuse
               \/ InitNotify \/ InitOp \/ LoopEndsEarly
  <2>1. /\ UNCHANGED <<sess, sigc, goVars, frame, windows>>
        /\ pc' \notin {"idle", "mntpSet", "doneReceived"}
    BY <1>13 DEF HandleNew, FuseMainFails, Attach, InitSetFuse, InitNotify,
            InitOp, LoopEndsEarly
  <2> QED BY <2>1
<1>14. CASE LoopEnds \/ DestroyOp \/ DestroyPanics \/ DestroyStop
               \/ DestroyClearFuse \/ HandleDel \/ CloseSigc
  <2>1. /\ UNCHANGED <<sess, sigc, goVars, frame, windows>>
        /\ pc' \notin {"idle", "mntpSet", "doneReceived"}
    BY <1>14 DEF LoopEnds, DestroyOp, DestroyPanics, DestroyStop,
            DestroyClearFuse, HandleDel, CloseSigc
  <2> QED BY <2>1
<1>15. CASE UseBegin \/ UseEnd \/ SignalDefault \/ SignalSend
               \/ SignalOnClosed
  <2>1. UNCHANGED <<sess, sigc, pc, goVars, frame, windows>>
    BY <1>15 DEF UseBegin, UseEnd, SignalDefault, SignalSend, SignalOnClosed,
            mountVars
  <2> QED BY <2>1
<1>16. CASE UNCHANGED vars
  <2>1. UNCHANGED <<sess, sigc, pc, goVars, frame, windows>>
    BY <1>16 DEF vars
  <2> QED BY <2>1
<1> QED
    BY <1>1, <1>2, <1>3, <1>4, <1>5, <1>6, <1>7, <1>8, <1>9, <1>10, <1>11,
            <1>12, <1>13, <1>14, <1>15, <1>16
    DEF Next, MountStep, FuseMain, Goroutine, UnmountEntry, Signal, vars

-----------------------------------------------------------------------------
\* signal.Notify and signal.Stop bracket the time in which a channel is
\* registered, unless Destroy panics; close comes after signal.Stop.
LEMMA ChanInvariant ==
    ASSUME TypeOK, MntpInv, SigcInv, ChanInv, [Next]_vars PROVE ChanInv'
<1> USE DEF ChanInv, SigcInv, MntpInv, TypeOK, Sessions, MaybeSession, Nil, Step, Move,
            endVars, mountVars, signalVars
<1>1. ASSUME NEW m \in MaybePath, MountBegin(m) PROVE ChanInv'
    BY <1>1 DEF MountBegin
<1>2. ASSUME InitNotify PROVE ChanInv' BY <1>2 DEF InitNotify
<1>3. ASSUME DestroyOp PROVE ChanInv' BY <1>3 DEF DestroyOp
<1>4. ASSUME DestroyPanics PROVE ChanInv' BY <1>4 DEF DestroyPanics
<1>5. ASSUME DestroyStop PROVE ChanInv' BY <1>5 DEF DestroyStop
<1>6. ASSUME CloseSigc PROVE ChanInv' BY <1>6 DEF CloseSigc
<1>7. ASSUME AwaitDone PROVE ChanInv' BY <1>7 DEF AwaitDone
<1>8. ASSUME MountReturn PROVE ChanInv' BY <1>8 DEF MountReturn
<1>9. ASSUME NEW s \in Sessions, GoStart(s) \/ GoRecv(s) \/ GoRecvClosed(s) \/ GoCloseDone(s)
      PROVE ChanInv'
    BY <1>9 DEF GoStart, GoRecv, GoRecvClosed, GoCloseDone, GoStep
<1>10. ASSUME NEW t \in Threads, UnmountNoFuse(t) \/ UnmountSnapshot(t) \/ UnmountFinish(t)
      PROVE ChanInv'
    BY <1>10 DEF UnmountNoFuse, UnmountSnapshot, UnmountFinish
<1>11. ASSUME NEW m \in MountPoints, ExternalUnmount(m)
      PROVE ChanInv'
    BY <1>11 DEF ExternalUnmount
<1>12. CASE ArmSignals \/ HandleNew \/ FuseMainFails \/ Attach
               \/ InitSetFuse \/ InitOp \/ LoopEndsEarly \/ LoopEnds
               \/ DestroyClearFuse \/ HandleDel
    BY <1>12 DEF ArmSignals, HandleNew, FuseMainFails, Attach, InitSetFuse,
            InitOp, LoopEndsEarly, LoopEnds, DestroyClearFuse, HandleDel
<1>13. CASE UseBegin \/ UseEnd \/ SignalDefault \/ SignalSend
               \/ SignalOnClosed
    BY <1>13 DEF UseBegin, UseEnd, SignalDefault, SignalSend, SignalOnClosed
<1>14. CASE UNCHANGED vars
    BY <1>14 DEF vars
<1> QED
    BY <1>1, <1>2, <1>3, <1>4, <1>5, <1>6, <1>7, <1>8, <1>9, <1>10, <1>11,
            <1>12, <1>13, <1>14
    DEF Next, MountStep, FuseMain, Goroutine, UnmountEntry, Signal, vars

-----------------------------------------------------------------------------
\* A mount appears only in Attach, and the loop ends only without it.
LEMMA KernelInvariant ==
    ASSUME TypeOK, MntpInv, KernelInv, [Next]_vars PROVE KernelInv'
<1> USE DEF KernelInv, MntpInv, TypeOK, Nil, Step, Move,
            kernelVars, mountVars
<1>1. ASSUME NEW m \in MaybePath, MountBegin(m) PROVE KernelInv'
    BY <1>1 DEF MountBegin
<1>2. ASSUME Attach PROVE KernelInv' BY <1>2 DEF Attach
<1>3. ASSUME LoopEndsEarly PROVE KernelInv' BY <1>3 DEF LoopEndsEarly
<1>4. ASSUME LoopEnds PROVE KernelInv' BY <1>4 DEF LoopEnds
<1>5. ASSUME NEW t \in Threads, UnmountFinish(t) PROVE KernelInv'
    BY <1>5 DEF UnmountFinish
<1>6. ASSUME NEW m \in MountPoints, ExternalUnmount(m) PROVE KernelInv'
    BY <1>6 DEF ExternalUnmount
<1>7. ASSUME NEW s \in Sessions, GoStart(s) \/ GoRecv(s) \/ GoRecvClosed(s) \/ GoCloseDone(s)
      PROVE KernelInv'
    BY <1>7 DEF GoStart, GoRecv, GoRecvClosed, GoCloseDone, GoStep
<1>8. ASSUME NEW t \in Threads, UnmountNoFuse(t) \/ UnmountSnapshot(t)
      PROVE KernelInv'
    BY <1>8 DEF UnmountNoFuse, UnmountSnapshot
<1>9. CASE ArmSignals \/ HandleNew \/ FuseMainFails \/ InitSetFuse
               \/ InitNotify \/ InitOp \/ DestroyOp \/ DestroyPanics
               \/ DestroyStop \/ DestroyClearFuse \/ HandleDel \/ CloseSigc
               \/ AwaitDone \/ MountReturn
    BY <1>9 DEF ArmSignals, HandleNew, FuseMainFails, InitSetFuse, InitNotify,
            InitOp, DestroyOp, DestroyPanics, DestroyStop, DestroyClearFuse,
            HandleDel, CloseSigc, AwaitDone, MountReturn
<1>10. CASE UseBegin \/ UseEnd \/ SignalDefault \/ SignalSend
               \/ SignalOnClosed
    BY <1>10 DEF UseBegin, UseEnd, SignalDefault, SignalSend, SignalOnClosed
<1>11. CASE UNCHANGED vars
    BY <1>11 DEF vars
<1> QED
    BY <1>1, <1>2, <1>3, <1>4, <1>5, <1>6, <1>7, <1>8, <1>9, <1>10, <1>11
    DEF Next, MountStep, FuseMain, Goroutine, UnmountEntry, Signal, vars

-----------------------------------------------------------------------------
\* host.fuse is written by INIT, and cleared by a DESTROY that gets so far.
LEMMA FuseInvariant ==
    ASSUME TypeOK, FuseIsOfThisSession, [Next]_vars PROVE FuseIsOfThisSession'
<1> USE DEF FuseIsOfThisSession, TypeOK, Nil, Step, Move,
            endVars, hostVars, mountVars
<1>1. ASSUME NEW m \in MaybePath, MountBegin(m) PROVE FuseIsOfThisSession'
    BY <1>1 DEF MountBegin
<1>2. ASSUME InitSetFuse PROVE FuseIsOfThisSession' BY <1>2 DEF InitSetFuse
<1>3. ASSUME DestroyPanics PROVE FuseIsOfThisSession' BY <1>3 DEF DestroyPanics
<1>4. ASSUME DestroyClearFuse PROVE FuseIsOfThisSession'
    BY <1>4 DEF DestroyClearFuse
<1>5. ASSUME NEW s \in Sessions, GoStart(s) \/ GoRecv(s) \/ GoRecvClosed(s) \/ GoCloseDone(s)
      PROVE FuseIsOfThisSession'
    BY <1>5 DEF GoStart, GoRecv, GoRecvClosed, GoCloseDone, GoStep
<1>6. ASSUME NEW t \in Threads, UnmountNoFuse(t) \/ UnmountSnapshot(t) \/ UnmountFinish(t)
      PROVE FuseIsOfThisSession'
    BY <1>6 DEF UnmountNoFuse, UnmountSnapshot, UnmountFinish
<1>7. ASSUME NEW m \in MountPoints, ExternalUnmount(m)
      PROVE FuseIsOfThisSession'
    BY <1>7 DEF ExternalUnmount
<1>8. CASE ArmSignals \/ HandleNew \/ FuseMainFails \/ Attach
               \/ InitNotify \/ InitOp \/ LoopEndsEarly \/ LoopEnds
               \/ DestroyOp \/ DestroyStop \/ HandleDel \/ CloseSigc
               \/ AwaitDone \/ MountReturn
    BY <1>8 DEF ArmSignals, HandleNew, FuseMainFails, Attach, InitNotify,
            InitOp, LoopEndsEarly, LoopEnds, DestroyOp, DestroyStop,
            HandleDel, CloseSigc, AwaitDone, MountReturn
<1>9. CASE UseBegin \/ UseEnd \/ SignalDefault \/ SignalSend
               \/ SignalOnClosed
    BY <1>9 DEF UseBegin, UseEnd, SignalDefault, SignalSend, SignalOnClosed
<1>10. CASE UNCHANGED vars
    BY <1>10 DEF vars
<1> QED
    BY <1>1, <1>2, <1>3, <1>4, <1>5, <1>6, <1>7, <1>8, <1>9, <1>10
    DEF Next, MountStep, FuseMain, Goroutine, UnmountEntry, Signal, vars

-----------------------------------------------------------------------------
\* The handle is made just before fuse_main and deleted just after it.
LEMMA HandleInvariant ==
    ASSUME TypeOK, HandleLivesAsLongAsFuseMain, [Next]_vars PROVE HandleLivesAsLongAsFuseMain'
<1> USE DEF HandleLivesAsLongAsFuseMain, InFuseMain, TypeOK, Step, Move,
            mountVars
<1>1. ASSUME NEW m \in MaybePath, MountBegin(m) PROVE HandleLivesAsLongAsFuseMain'
    BY <1>1 DEF MountBegin
<1>2. ASSUME HandleNew PROVE HandleLivesAsLongAsFuseMain' BY <1>2 DEF HandleNew
<1>3. ASSUME HandleDel PROVE HandleLivesAsLongAsFuseMain' BY <1>3 DEF HandleDel
<1>4. ASSUME NEW s \in Sessions, GoStart(s) \/ GoRecv(s) \/ GoRecvClosed(s) \/ GoCloseDone(s)
      PROVE HandleLivesAsLongAsFuseMain'
    BY <1>4 DEF GoStart, GoRecv, GoRecvClosed, GoCloseDone, GoStep
<1>5. ASSUME NEW t \in Threads, UnmountNoFuse(t) \/ UnmountSnapshot(t) \/ UnmountFinish(t)
      PROVE HandleLivesAsLongAsFuseMain'
    BY <1>5 DEF UnmountNoFuse, UnmountSnapshot, UnmountFinish
<1>6. ASSUME NEW m \in MountPoints, ExternalUnmount(m)
      PROVE HandleLivesAsLongAsFuseMain'
    BY <1>6 DEF ExternalUnmount
<1>7. CASE ArmSignals \/ FuseMainFails \/ Attach \/ InitSetFuse
               \/ InitNotify \/ InitOp \/ LoopEndsEarly \/ LoopEnds
               \/ DestroyOp \/ DestroyPanics \/ DestroyStop
               \/ DestroyClearFuse \/ CloseSigc \/ AwaitDone \/ MountReturn
    BY <1>7 DEF ArmSignals, FuseMainFails, Attach, InitSetFuse, InitNotify,
            InitOp, LoopEndsEarly, LoopEnds, DestroyOp, DestroyPanics,
            DestroyStop, DestroyClearFuse, CloseSigc, AwaitDone, MountReturn
<1>8. CASE UseBegin \/ UseEnd \/ SignalDefault \/ SignalSend
               \/ SignalOnClosed
    BY <1>8 DEF UseBegin, UseEnd, SignalDefault, SignalSend, SignalOnClosed
<1>9. CASE UNCHANGED vars
    BY <1>9 DEF vars
<1> QED
    BY <1>1, <1>2, <1>3, <1>4, <1>5, <1>6, <1>7, <1>8, <1>9
    DEF Next, MountStep, FuseMain, Goroutine, UnmountEntry, Signal, vars

-----------------------------------------------------------------------------
LEMMA InitIInv == Init => IInv
BY HostAssumption
   DEF Init, IInv, TypeOK, MntpInv, SigcInv, GoInv, ChanInv, KernelInv,
       FuseIsOfThisSession, HandleLivesAsLongAsFuseMain, InFuseMain, Live,
       InUnmount, NoFrame, Frames, Sessions, MaybeSession, MaybePath, Threads,
       Nil, MountPCs, GoPCs

LEMMA NextIInv == ASSUME IInv, [Next]_vars PROVE IInv'
BY TypeInvariant, MntpInvariant, SigcInvariant, GoInvariant, ChanInvariant,
   KernelInvariant, FuseInvariant, HandleInvariant DEF IInv

\* The inductive invariant of the host's life cycle (host.go:65-246).
THEOREM Inductive == Spec => []IInv
BY InitIInv, NextIInv, PTL DEF Spec

\* Types of all the state of the host (host.go:26-55) and of its goroutines.
THEOREM TypeCorrect == Spec => []TypeOK
BY Inductive, PTL DEF IInv

\* The signal goroutine belongs to the Mount that started it (host.go:206-218).
THEOREM GoroutineSafety == Spec => []GoroutineStaysInItsMount
<1>1. IInv => GoroutineStaysInItsMount
  BY DEF IInv, GoInv, MntpInv, GoroutineStaysInItsMount, Live
<1> QED BY <1>1, Inductive, PTL

\* Only a Destroy that panicked leaves a closed channel with os/signal, which
\* would panic on the next signal (host.go:79-97, 211).
THEOREM SignalSafety == Spec => []ClosedChannelsAreStopped
<1>1. IInv => ClosedChannelsAreStopped
  BY DEF IInv, TypeOK, ChanInv, MaybeSession, Sessions, Nil, ClosedChannelsAreStopped
<1> QED BY <1>1, Inductive, PTL

\* A session that serves has its signals caught (host.go:79-82).
THEOREM SignalsReachTheSession == Spec => []SignalsAreCaughtWhileServing
<1>1. IInv => SignalsAreCaughtWhileServing
  BY DEF IInv, TypeOK, ChanInv, MaybeSession, Sessions, Nil, SignalsAreCaughtWhileServing
<1> QED BY <1>1, Inductive, PTL

\* host.fuse never names a session that is over, but after a Destroy that
\* panicked (host.go:71-100).
THEOREM FuseSafety == Spec => []FuseIsOfThisSession
BY Inductive, PTL DEF IInv

\* The handle lives exactly as long as fuse_main (host.go:225-227).
THEOREM HandleSafety == Spec => []HandleLivesAsLongAsFuseMain
BY Inductive, PTL DEF IInv

\* The Unmount of a signal goroutine only ever detaches the session it belongs
\* to, although it reads host.fuse and host.mntp before it acts (host.go:212-245).
THEOREM SignalUnmountSafety == Spec => SignalUnmountsOwnSession
<1>1. ASSUME IInv, NEW s \in Sessions, UnmountFinish(s),
             NEW m \in MountPoints, at'[m] # at[m]
      PROVE at[m] = s
  <2>1. s = sess
    BY <1>1 DEF IInv, GoInv, Live, UnmountFinish
  <2>2. at[m] # Nil
    BY <1>1 DEF UnmountFinish, IInv, TypeOK
  <2> QED
    BY <2>1, <2>2, <1>1 DEF IInv, KernelInv
<1>2. IInv => [\A s \in Sessions : UnmountFinish(s) =>
                 \A m \in MountPoints : at'[m] # at[m] => at[m] = s]_vars
  BY <1>1
<1> QED BY <1>2, Inductive, PTL DEF SignalUnmountsOwnSession

\* Mount returns with nothing left of its session (host.go:190-225).
THEOREM ReturnSafety == Spec => MountReturnsClean
<1>1. ASSUME IInv, IInv', [Next]_vars, pc # "idle", pc' = "idle"
      PROVE /\ mntp' = NoPath /\ handles' = {}
            /\ \A m \in MountPoints : at'[m] = Nil
            /\ \A s \in Sessions : gpc'[s] \in {"none", "exited"}
            /\ fuse' = Nil \/ panicked' # {}
  BY <1>1 DEF IInv, MntpInv, GoInv, KernelInv, FuseIsOfThisSession,
              HandleLivesAsLongAsFuseMain, InFuseMain, Live
<1>2. IInv /\ IInv' /\ [Next]_vars =>
        [pc # "idle" /\ pc' = "idle" =>
          /\ mntp' = NoPath /\ handles' = {}
          /\ \A m \in MountPoints : at'[m] = Nil
          /\ \A s \in Sessions : gpc'[s] \in {"none", "exited"}
          /\ fuse' = Nil \/ panicked' # {}]_vars
  BY <1>1
<1> QED BY <1>2, Inductive, PTL DEF MountReturnsClean, Spec

-----------------------------------------------------------------------------
\* The safety part of ImplementsContract: Init and Destroy are called once
\* each and in that order, Mount returns after Destroy and without a mount,
\* and no signal ends the process in between (unless a Destroy panicked).
CSafety == Contract!ContractInit /\ [][Contract!ContractNext]_(Contract!cvars)

LEMMA ContractStart == Init => Contract!ContractInit
BY DEF Init, Contract!ContractInit, Nil

\* While the file system is up a registered channel is open, without a panic.
LEMMA NoPanicWhileUp ==
    ASSUME TypeOK, ChanInv, panicked = {}, pc \in {"serving", "ended"}
    PROVE  registered \cap closed = {}
<1>1. SUFFICES ASSUME NEW s \in registered, s \in closed PROVE FALSE
  OBVIOUS
<1>2. s = sess BY <1>1 DEF ChanInv
<1>3. s \in Nat BY HostAssumption DEF TypeOK, Sessions
<1>4. ~(s < sess) BY <1>2, <1>3
<1> QED BY <1>1, <1>4 DEF ChanInv

LEMMA ContractStep ==
    ASSUME IInv, IInv', [Next]_vars
    PROVE  [Contract!ContractNext]_(Contract!cvars)
<1> DEFINE Goal == [Contract!ContractNext]_(Contract!cvars)
<1> USE HostAssumption
        DEF IInv, TypeOK, KernelInv, MntpInv, ChanInv, Step, Move, Nil, Sessions,
            MaybeSession, mountVars, hostVars, signalVars, kernelVars, endVars,
            Contract!ContractNext, Contract!cvars
<1>1. ASSUME NEW m \in MaybePath, MountBegin(m) PROVE Goal
    BY <1>1 DEF MountBegin, Contract!Call
<1>2. CASE ArmSignals \/ HandleNew
    BY <1>2 DEF ArmSignals, HandleNew
<1>3. CASE FuseMainFails \/ LoopEndsEarly
    BY <1>3 DEF FuseMainFails, LoopEndsEarly, Contract!Failed
<1>4. CASE Attach
    BY <1>4 DEF Attach, Contract!Attached
<1>5. CASE InitSetFuse \/ InitNotify
    BY <1>5 DEF InitSetFuse, InitNotify
<1>6. CASE InitOp
    BY <1>6 DEF InitOp, Contract!InitCalled
<1>7. CASE LoopEnds
    BY <1>7 DEF LoopEnds
<1>8. CASE DestroyOp \/ DestroyPanics
    BY <1>8 DEF DestroyOp, DestroyPanics, Contract!DestroyCalled
<1>9. CASE DestroyStop \/ DestroyClearFuse \/ HandleDel \/ CloseSigc \/ AwaitDone
    BY <1>9 DEF DestroyStop, DestroyClearFuse, HandleDel, CloseSigc, AwaitDone
<1>10. CASE MountReturn
    BY <1>10 DEF MountReturn, Contract!Return
<1>11. ASSUME NEW s \in Sessions, Goroutine(s) PROVE Goal
    BY <1>11 DEF Goroutine, GoStart, GoRecv, GoRecvClosed, GoCloseDone, GoStep
<1>12. ASSUME NEW t \in Threads, UnmountEntry(t) PROVE Goal
    BY <1>12 DEF UnmountEntry, UnmountNoFuse, UnmountSnapshot
<1>13. ASSUME NEW t \in Threads, UnmountFinish(t) PROVE Goal
  <2>1. UNCHANGED <<mountVars, panicked, proc>>
    BY <1>13 DEF UnmountFinish
  <2>2. CASE at' = at
    BY <2>1, <2>2
  <2>3. CASE at' = [m \in MountPoints |-> IF m \in Target(t) THEN Nil ELSE at[m]]
    BY <1>13, <2>1, <2>3 DEF UnmountFinish, Contract!Detached
  <2> QED BY <1>13, <2>2, <2>3 DEF UnmountFinish
<1>14. ASSUME NEW m \in MountPoints, ExternalUnmount(m) PROVE Goal
    BY <1>14 DEF ExternalUnmount, Contract!Detached
<1>15. CASE UseBegin \/ UseEnd \/ SignalSend
    BY <1>15 DEF UseBegin, UseEnd, SignalSend
<1>16. CASE SignalDefault \/ SignalOnClosed
  <2>1. UNCHANGED <<mountVars, kernelVars, panicked>> /\ proc = "running" /\ proc' # "running"
    BY <1>16 DEF SignalDefault, SignalOnClosed
  <2>2. pc \notin {"serving", "ended"} \/ panicked # {}
    <3>1. CASE SignalDefault
      BY <1>16, <3>1 DEF SignalDefault
    <3>2. CASE SignalOnClosed
      BY <3>2, NoPanicWhileUp DEF SignalOnClosed
    <3> QED BY <1>16, <3>1, <3>2
  <2>3. Contract!Terminated
    BY <2>1, <2>2 DEF Contract!Terminated
  <2> QED BY <2>3
<1>17. CASE UNCHANGED vars
    BY <1>17 DEF vars
<1> QED
    BY <1>1, <1>2, <1>3, <1>4, <1>5, <1>6, <1>7, <1>8, <1>9, <1>10, <1>11,
       <1>12, <1>13, <1>14, <1>15, <1>16, <1>17
    DEF Next, MountStep, FuseMain, Signal, vars

THEOREM ContractSafety == Spec => CSafety
BY ContractStart, ContractStep, Inductive, PTL DEF CSafety, Spec
=============================================================================
