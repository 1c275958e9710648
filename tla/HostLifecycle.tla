--------------------------- MODULE HostLifecycle ---------------------------
(***************************************************************************)
(* The life of one FileSystemHost (src/fuse/host.go): Mount, Unmount, the  *)
(* INIT and DESTROY callbacks hostInit and hostDestroy, and the goroutine  *)
(* that turns SIGINT/SIGTERM into an unmount.                              *)
(*                                                                         *)
(* The s-th call of Mount is session s; s also names what that call makes: *)
(* the channel sigc, the goroutine, the handle and the fuse structure.     *)
(* `pc' is the control point of the thread in Mount together with the FUSE *)
(* loop it is blocked in.  Mount is not called again before it returned    *)
(* (nothing in the code protects a second concurrent Mount).               *)
(*                                                                         *)
(* External: libfuse's fuse_main, the kernel's mount table `at', package   *)
(* os/signal (`registered', the channel buffers `buf') and the files in    *)
(* use on the mount (`inUse').                                             *)
(***************************************************************************)
EXTENDS Naturals, FiniteSets

CONSTANTS
    Callers,          \* application threads that call Unmount
    MountPoints,      \* absolute mount points
    NoPath,           \* the empty string of host.mntp
    MaxMounts,        \* bound: calls of Mount
    MaxInUse,         \* bound: requests in flight and open files at a time
    UnmountMayFail    \* umount2 and fusermount may be refused

Sessions == 1..MaxMounts
Threads  == Callers \cup Sessions      \* session s stands for its goroutine
Nil      == 0                          \* no session, a nil pointer or channel
MaybeSession == Sessions \cup {Nil}
MaybePath    == MountPoints \cup {NoPath}

ASSUME HostAssumption ==
    /\ MaxMounts \in Nat \ {0}
    /\ MaxInUse \in Nat
    /\ NoPath \notin MountPoints
    /\ Callers \cap MaybeSession = {}
    /\ UnmountMayFail \in BOOLEAN

VARIABLES
    pc,          \* control point of Mount and of the FUSE loop
    sess,        \* the latest session
    path,        \* the mount point given to FUSE by the session in progress
    fuse,        \* host.fuse
    mntp,        \* host.mntp
    sigc,        \* host.sigc
    handles,     \* handles that hostHandleGet resolves
    gpc,         \* control point of each session's signal goroutine
    gch,         \* the channel each goroutine receives from
    closed,      \* signal channels that are closed
    registered,  \* channels known to signal.Notify
    buf,         \* does the one-slot buffer of the channel hold a signal?
    frame,       \* each thread's copies of host.fuse and host.mntp in Unmount
    at,          \* kernel: the session mounted at each mount point
    inUse,       \* kernel: requests in flight and open files of the session
    panicked,    \* history: sessions whose fsop.Destroy panicked
    refused,     \* history: sessions that an Unmount was refused for
    proc,        \* the process: running, killed by a signal, or crashed
    windows      \* runtime.GOOS is "windows"; it never changes

mountVars  == <<pc, sess, path, sigc, handles>>
hostVars   == <<fuse, mntp>>
goVars     == <<gpc, gch>>
signalVars == <<closed, registered, buf>>
kernelVars == <<at, inUse>>
endVars    == <<panicked, refused, proc, windows>>
vars == <<mountVars, hostVars, goVars, signalVars, frame, kernelVars, endVars>>

MountPCs == {"idle", "mntpSet", "armed", "handled", "attached", "fuseSet",
             "notified", "serving", "ended", "destroyed", "stopped", "mainRet",
             "handleDeleted", "sigcClosed", "doneReceived"}
\* A frame with a fuse is that of a thread between hmu.Unlock and c_hostUnmount.
Frames  == [fuse : MaybeSession, mntp : MaybePath]
NoFrame == [fuse |-> Nil, mntp |-> NoPath]

GoPCs    == {"none", "start", "recv", "Unmount", "closeDone", "exited"}

Init ==
    /\ pc = "idle" /\ sess = Nil /\ path = NoPath
    /\ fuse = Nil /\ mntp = NoPath /\ sigc = Nil
    /\ handles = {}
    /\ gpc = [s \in Sessions |-> "none"] /\ gch = [s \in Sessions |-> Nil]
    /\ closed = {} /\ registered = {} /\ buf = [s \in Sessions |-> FALSE]
    /\ frame = [t \in Threads |-> NoFrame]
    /\ at = [m \in MountPoints |-> Nil] /\ inUse = 0
    /\ panicked = {} /\ refused = {} /\ proc = "running"
    /\ windows \in BOOLEAN

\* The step of Mount or of the FUSE loop from one control point to the next.
Step(from, to) == proc = "running" /\ pc = from /\ pc' = to

\* A step that only moves the control point.
Move(from, to) ==
    /\ Step(from, to)
    /\ UNCHANGED <<sess, path, sigc, handles, hostVars, goVars, signalVars, frame, kernelVars, endVars>>

-----------------------------------------------------------------------------
(* Mount, up to the call of fuse_main *)

\* Entry of Mount: argv, the mount point (or NoPath when neither the argument
\* nor OptParse gives one), and host.mntp under hmu.
MountBegin(m) ==
    /\ Step("idle", "mntpSet")
    /\ sess < MaxMounts
    /\ sess' = sess + 1 /\ path' = m /\ mntp' = m
    /\ UNCHANGED <<sigc, handles, fuse, goVars, signalVars, frame, kernelVars, endVars>>

\* done and sigc are made, and the goroutine is started; not on Windows.
ArmSignals ==
    /\ Step("mntpSet", "armed")
    /\ IF windows
       THEN UNCHANGED <<sigc, gpc>>
       ELSE sigc' = sess /\ gpc' = [gpc EXCEPT ![sess] = "start"]
    /\ UNCHANGED <<sess, path, handles, hostVars, gch, signalVars, frame, kernelVars, endVars>>

HandleNew ==
    /\ Step("armed", "handled")
    /\ handles' = handles \cup {sess}
    /\ UNCHANGED <<sess, path, sigc, hostVars, goVars, signalVars, frame, kernelVars, endVars>>

-----------------------------------------------------------------------------
(* fuse_main and the INIT and DESTROY callbacks *)

\* fuse_main refuses the options or cannot mount.
FuseMainFails == Move("handled", "mainRet")

\* fuse_main mounts; the kernel's INIT request is queued.
Attach ==
    /\ Step("handled", "attached")
    /\ path # NoPath
    /\ at' = [at EXCEPT ![path] = sess]
    /\ UNCHANGED <<sess, path, sigc, handles, hostVars, goVars, signalVars, frame, inUse, endVars>>

\* hostInit: host.fuse = fctx.fuse under hmu.
InitSetFuse ==
    /\ Step("attached", "fuseSet")
    /\ at[path] = sess
    /\ fuse' = sess
    /\ UNCHANGED <<sess, path, sigc, handles, mntp, goVars, signalVars, frame, kernelVars, endVars>>

\* Mutant: hostInit without signal.Notify.
Mut_InitSkipsNotify == Move("fuseSet", "notified")

\* hostInit: signal.Notify, unless host.sigc is nil.
InitNotify ==
    /\ Step("fuseSet", "notified")
    /\ registered' = registered \cup ({sigc} \ {Nil})
    /\ UNCHANGED <<sess, path, sigc, handles, hostVars, goVars, closed, buf, frame, kernelVars, endVars>>

\* hostInit: fsop.Init(); a panic in it is recovered and changes nothing.
InitOp == Move("notified", "serving")

\* The connection is gone before INIT was read: the loop ends, no DESTROY.
LoopEndsEarly ==
    /\ Move("attached", "mainRet")
    /\ at[path] # sess

\* The file system is detached and unused: the loop ends, its workers joined.
LoopEnds ==
    /\ Move("serving", "ended")
    /\ at[path] # sess /\ inUse = 0

\* hostDestroy: fsop.Destroy() returns.
DestroyOp == Move("ended", "destroyed")

\* hostDestroy: fsop.Destroy() panics; recover() ends the callback there.
DestroyPanics ==
    /\ Step("ended", "mainRet")
    /\ panicked' = panicked \cup {sess}
    /\ UNCHANGED <<sess, path, sigc, handles, hostVars, goVars, signalVars, frame, kernelVars, refused, proc, windows>>

\* Mutant: hostDestroy without signal.Stop.
Mut_DestroySkipsStop == Move("destroyed", "stopped")

\* hostDestroy: signal.Stop, unless host.sigc is nil.
DestroyStop ==
    /\ Step("destroyed", "stopped")
    /\ registered' = registered \ {sigc}
    /\ UNCHANGED <<sess, path, sigc, handles, hostVars, goVars, closed, buf, frame, kernelVars, endVars>>

\* Mutant: hostDestroy leaves host.fuse set.
Mut_DestroyKeepsFuse == Move("stopped", "mainRet")

\* hostDestroy: host.fuse = nil under hmu; then fuse_main returns.
DestroyClearFuse ==
    /\ Step("stopped", "mainRet")
    /\ fuse' = Nil
    /\ UNCHANGED <<sess, path, sigc, handles, mntp, goVars, signalVars, frame, kernelVars, endVars>>

-----------------------------------------------------------------------------
(* Mount, its deferred calls, last in first out *)

\* Mutant: no deferred hostHandleDel.
Mut_HandleLeaks == Move("mainRet", "handleDeleted")

HandleDel ==
    /\ Step("mainRet", "handleDeleted")
    /\ handles' = handles \ {sess}
    /\ UNCHANGED <<sess, path, sigc, hostVars, goVars, signalVars, frame, kernelVars, endVars>>

\* Mutants: the deferred calls in the other order wait for done with sigc open;
\* the defer statement stands before host.sigc is made, and evaluates nil or
\* the channel of the last Mount.
Mut_SigcStaysOpen == Move("handleDeleted", "sigcClosed")
Mut_ClosesLastSigc ==
    /\ Step("handleDeleted", "sigcClosed")
    /\ closed' = closed \cup {IF sess = 1 THEN Nil ELSE sess - 1}
    /\ UNCHANGED <<sess, path, sigc, handles, hostVars, goVars, registered, buf, frame, kernelVars, endVars>>

\* close(host.sigc); the channel was evaluated by the defer statement.
CloseSigc ==
    /\ Step("handleDeleted", "sigcClosed")
    /\ closed' = IF windows THEN closed ELSE closed \cup {sess}
    /\ UNCHANGED <<sess, path, sigc, handles, hostVars, goVars, registered, buf, frame, kernelVars, endVars>>

\* Mutant: Mount does not wait for the goroutine.
Mut_NoAwait == Move("sigcClosed", "doneReceived")

\* <-done: the goroutine has closed done.
AwaitDone ==
    /\ Move("sigcClosed", "doneReceived")
    /\ windows \/ gpc[sess] = "exited"

\* host.mntp = "" under hmu, and Mount returns.
MountReturn ==
    /\ Step("doneReceived", "idle")
    /\ mntp' = NoPath /\ path' = NoPath
    /\ UNCHANGED <<sess, sigc, handles, fuse, goVars, signalVars, frame, kernelVars, endVars>>

-----------------------------------------------------------------------------
(* The signal goroutine of session s *)

GoStep(s, from, to) ==
    /\ proc = "running" /\ gpc[s] = from
    /\ gpc' = [gpc EXCEPT ![s] = to]

\* It is scheduled for the first time and evaluates host.sigc.
GoStart(s) ==
    /\ GoStep(s, "start", "recv")
    /\ gch' = [gch EXCEPT ![s] = sigc]
    /\ UNCHANGED <<mountVars, hostVars, signalVars, frame, kernelVars, endVars>>

\* Mutant: the goroutine tests ok the wrong way round.
Mut_RecvEndsGoroutine(s) ==
    /\ GoStep(s, "recv", "closeDone")
    /\ buf[gch[s]]
    /\ buf' = [buf EXCEPT ![gch[s]] = FALSE]
    /\ UNCHANGED <<mountVars, hostVars, gch, closed, registered, frame, kernelVars, endVars>>

\* A signal is received.
GoRecv(s) ==
    /\ GoStep(s, "recv", "Unmount")
    /\ buf[gch[s]]
    /\ buf' = [buf EXCEPT ![gch[s]] = FALSE]
    /\ UNCHANGED <<mountVars, hostVars, gch, closed, registered, frame, kernelVars, endVars>>

\* The channel is closed and empty: ok is false.
GoRecvClosed(s) ==
    /\ GoStep(s, "recv", "closeDone")
    /\ gch[s] \in closed /\ ~buf[gch[s]]
    /\ UNCHANGED <<mountVars, hostVars, gch, signalVars, frame, kernelVars, endVars>>

GoCloseDone(s) ==
    /\ GoStep(s, "closeDone", "exited")
    /\ UNCHANGED <<mountVars, hostVars, gch, signalVars, frame, kernelVars, endVars>>

-----------------------------------------------------------------------------
(* Unmount, called by an application thread or by a goroutine *)

AtUnmount(t) == t \in Callers \/ (t \in Sessions /\ gpc[t] = "Unmount")
InUnmount(t) == frame[t].fuse # Nil

\* The caller goes on; a goroutine goes on to close(done).
Resume(t) == gpc' = IF t \in Sessions THEN [gpc EXCEPT ![t] = "closeDone"] ELSE gpc

\* Unmount without a fuse returns false.
UnmountNoFuse(t) ==
    /\ proc = "running" /\ AtUnmount(t) /\ ~InUnmount(t)
    /\ fuse = Nil
    /\ Resume(t)
    /\ UNCHANGED <<mountVars, hostVars, gch, signalVars, frame, kernelVars, endVars>>

\* fuse and mntp are copied under hmu.
UnmountSnapshot(t) ==
    /\ proc = "running" /\ AtUnmount(t) /\ ~InUnmount(t)
    /\ fuse # Nil
    /\ frame' = [frame EXCEPT ![t] = [fuse |-> fuse, mntp |-> mntp]]
    /\ UNCHANGED <<mountVars, hostVars, goVars, signalVars, kernelVars, endVars>>

\* What c_hostUnmount detaches: on Unix whatever is mounted at the path, on
\* Windows the session of the fuse structure (fuse_exit).
Target(t) == {m \in MountPoints : IF windows THEN at[m] = frame[t].fuse
                                             ELSE m = frame[t].mntp}

\* c_hostUnmount; on Unix it may be refused (no privilege, no fusermount at
\* the two known paths).
UnmountFinish(t) ==
    /\ proc = "running" /\ InUnmount(t)
    /\ frame' = [frame EXCEPT ![t] = NoFrame]
    /\ Resume(t)
    /\ \/ /\ at' = [m \in MountPoints |-> IF m \in Target(t) THEN Nil ELSE at[m]]
          /\ refused' = refused
       \/ /\ UnmountMayFail /\ ~windows /\ at' = at
          /\ refused' = refused \cup {frame[t].fuse}
    /\ UNCHANGED <<mountVars, hostVars, gch, signalVars, inUse, panicked, proc, windows>>

-----------------------------------------------------------------------------
(* The environment: the kernel, its users, and package os/signal *)

\* fusermount -u, umount or an abort from outside the process.
ExternalUnmount(m) ==
    /\ proc = "running" /\ at[m] # Nil
    /\ at' = [at EXCEPT ![m] = Nil]
    /\ UNCHANGED <<mountVars, hostVars, goVars, signalVars, frame, inUse, endVars>>

\* A request or an open keeps the file system in use; it needs the mount.
UseBegin ==
    /\ proc = "running" /\ pc = "serving" /\ at[path] = sess
    /\ inUse < MaxInUse /\ inUse' = inUse + 1
    /\ UNCHANGED <<mountVars, hostVars, goVars, signalVars, frame, at, endVars>>

UseEnd ==
    /\ proc = "running" /\ inUse > 0 /\ inUse' = inUse - 1
    /\ UNCHANGED <<mountVars, hostVars, goVars, signalVars, frame, at, endVars>>

\* SIGINT or SIGTERM with no channel registered: Go's default ends the process.
\* (On Windows WinFsp takes the console events: they are ExternalUnmount.)
SignalDefault ==
    /\ ~windows /\ proc = "running" /\ registered = {}
    /\ proc' = "killed"
    /\ UNCHANGED <<mountVars, hostVars, goVars, signalVars, frame, kernelVars, panicked, refused, windows>>

\* os/signal sends without blocking to every registered channel: a full
\* buffer drops the signal.
SignalSend ==
    /\ proc = "running" /\ registered # {} /\ registered \cap closed = {}
    /\ buf' = [s \in Sessions |-> buf[s] \/ s \in registered]
    /\ UNCHANGED <<mountVars, hostVars, goVars, closed, registered, frame, kernelVars, endVars>>

\* A send on a closed channel panics in the goroutine of os/signal.
SignalOnClosed ==
    /\ proc = "running" /\ registered \cap closed # {}
    /\ proc' = "crashed"
    /\ UNCHANGED <<mountVars, hostVars, goVars, signalVars, frame, kernelVars, panicked, refused, windows>>

-----------------------------------------------------------------------------
FuseMain == Attach \/ FuseMainFails

\* Steps of the thread in Mount and of the FUSE loop.
MountStep ==
    \/ ArmSignals \/ HandleNew \/ FuseMain
    \/ InitSetFuse \/ InitNotify \/ InitOp
    \/ LoopEndsEarly \/ LoopEnds
    \/ DestroyOp \/ DestroyPanics \/ DestroyStop \/ DestroyClearFuse
    \/ HandleDel \/ CloseSigc \/ AwaitDone \/ MountReturn

Goroutine(s) == GoStart(s) \/ GoRecv(s) \/ GoRecvClosed(s) \/ GoCloseDone(s)

UnmountEntry(t)  == UnmountNoFuse(t) \/ UnmountSnapshot(t)

Signal == SignalDefault \/ SignalSend \/ SignalOnClosed

Next ==
    \/ \E m \in MaybePath : MountBegin(m)
    \/ MountStep
    \/ \E s \in Sessions : Goroutine(s)
    \/ \E t \in Threads : UnmountEntry(t) \/ UnmountFinish(t)
    \/ \E m \in MountPoints : ExternalUnmount(m)
    \/ UseBegin \/ UseEnd
    \/ Signal

Spec == Init /\ [][Next]_vars

\* The Go scheduler runs every ready goroutine, fuse_main comes back with a
\* mount or an error, and requests and open files end.  Nobody has to mount,
\* to unmount from outside, to call Unmount or to send a signal.
Fairness ==
    /\ WF_vars(MountStep)
    /\ WF_vars(UseEnd)
    /\ \A s \in Sessions : WF_vars(Goroutine(s)) /\ WF_vars(UnmountEntry(s))
    /\ \A t \in Threads : WF_vars(UnmountFinish(t))

FairSpec == Spec /\ Fairness

-----------------------------------------------------------------------------
(* Properties *)

TypeOK ==
    /\ pc \in MountPCs /\ sess \in MaybeSession /\ path \in MaybePath
    /\ fuse \in MaybeSession /\ mntp \in MaybePath /\ sigc \in MaybeSession
    /\ handles \subseteq Sessions
    /\ gpc \in [Sessions -> GoPCs] /\ gch \in [Sessions -> MaybeSession]
    /\ closed \subseteq Sessions /\ registered \subseteq Sessions
    /\ buf \in [Sessions -> BOOLEAN]
    /\ frame \in [Threads -> Frames]
    /\ at \in [MountPoints -> MaybeSession] /\ inUse \in Nat
    /\ panicked \subseteq Sessions /\ refused \subseteq Sessions
    /\ proc \in {"running", "killed", "crashed"} /\ windows \in BOOLEAN

InFuseMain == pc \in {"handled", "attached", "fuseSet", "notified", "serving",
                      "ended", "destroyed", "stopped"}
Live(s)    == gpc[s] \notin {"none", "exited"}

\* The goroutine of a session lives only inside that session's Mount, while
\* host.mntp still names its mount point, and it receives from the channel of
\* its own session: the unsynchronised read of host.sigc (host.go:213) and
\* the wait for done (host.go:206-209) are right.
GoroutineStaysInItsMount ==
    \A s \in Sessions : Live(s) =>
        /\ s = sess /\ pc \notin {"idle", "mntpSet", "doneReceived"}
        /\ mntp = path
        /\ gpc[s] # "start" => gch[s] = s

\* Only a Destroy that panicked leaves a closed channel registered with
\* os/signal, where the next signal would panic (host.go:94-97, 211).
ClosedChannelsAreStopped == registered \cap closed \subseteq panicked

\* From signal.Notify until Destroy was called the process survives SIGINT:
\* the session's open channel is registered all along (host.go:79-97).
SignalsAreCaughtWhileServing ==
    ~windows /\ pc \in {"notified", "serving", "ended", "destroyed"}
        => sess \in registered \ closed

\* host.fuse is nil or the structure of the session in progress, between its
\* INIT and its DESTROY, save for a session whose Destroy panicked.
FuseIsOfThisSession ==
    fuse # Nil /\ fuse \notin panicked =>
        /\ fuse = sess
        /\ pc \in {"fuseSet", "notified", "serving", "ended", "destroyed", "stopped"}

\* Exactly the handle of the session inside fuse_main resolves there, so that
\* a callback finds its host, and none leaks (host.go:224-225).
HandleLivesAsLongAsFuseMain ==
    handles = IF InFuseMain \/ pc = "mainRet" THEN {sess} ELSE {}

\* An Unmount made by a signal never detaches a mount of another session.
SignalUnmountsOwnSession ==
    [][\A s \in Sessions : UnmountFinish(s) =>
          \A m \in MountPoints : at'[m] # at[m] => at[m] = s]_vars

\* When Mount returns nothing of the session is left: no mount, no mntp, no
\* goroutine, no handle; and fuse is nil unless a Destroy panicked.
MountReturnsClean ==
    [][pc # "idle" /\ pc' = "idle" =>
          /\ mntp' = NoPath /\ handles' = {}
          /\ \A m \in MountPoints : at'[m] = Nil
          /\ \A s \in Sessions : gpc'[s] \in {"none", "exited"}
          /\ fuse' = Nil \/ panicked' # {}]_vars

Stopped == proc # "running"

\* Once the file system is detached Mount returns: the goroutine, which no
\* signal may ever reach, does not hold it up (close before <-done).
DetachedMountReturns ==
    \A s \in Sessions :
        (pc = "serving" /\ sess = s /\ at[path] # s) ~> (pc = "idle" \/ Stopped)

\* A signal that was caught ends the session, unless an unmount is refused.
CaughtSignalEndsMount ==
    \A s \in Sessions : (buf[s] /\ sess = s /\ pc = "serving")
                            ~> (pc = "idle" \/ Stopped \/ s \in refused)

\* A signal caught during a session is acted on at once or with the end of the
\* session.  False when an earlier Unmount was refused: the goroutine is gone.
CaughtSignalIsServed ==
    \A s \in Sessions :
        (buf[s] /\ pc = "serving") ~> (~buf[s] \/ pc # "serving" \/ Stopped)

\* An application's Unmount detaches only the session it saw.  False when
\* that session ends, and the host is mounted again, after hmu.Unlock.
UnmountActsOnItsSession ==
    [][\A t \in Callers : UnmountFinish(t) =>
          \A m \in MountPoints : at'[m] # at[m] => at[m] = frame[t].fuse]_vars

\* Spec promises what MountContract says of every Mount.
Contract == INSTANCE MountContract WITH
    phase    <- CASE pc = "idle" -> "idle"
                  [] pc \in {"serving", "ended"} -> "up"
                  [] pc \in {"mntpSet", "armed", "handled", "attached", "fuseSet", "notified"}
                       -> "mounting"
                  [] OTHER -> "down",
    mounts   <- sess,
    attached <- \E m \in MountPoints : at[m] = sess /\ sess # Nil,
    tainted  <- panicked # {},
    alive    <- proc = "running"

ImplementsContract == Contract!ContractSpec
=============================================================================
