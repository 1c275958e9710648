------------------------------ MODULE Notifyfs ------------------------------
(***************************************************************************)
(* The notifyfs example (src/examples/notifyfs) and FileSystemHost.Notify: *)
(* a goroutine adds or removes a file on every tick and notifies the       *)
(* operating system, while a client that watches the directory keeps its   *)
(* own view of it, from a listing and from the notifications.  The ticks   *)
(* begin before the mount and go on after it.                              *)
(*                                                                         *)
(* External: WinFsp hands the notifications of a mounted file system, in   *)
(* order, to whoever watches; fuse_notify, which old libraries lack.       *)
(***************************************************************************)
EXTENDS Naturals, Sequences

CONSTANTS
    Peak,       \* the most files there are: 10
    MaxTicks    \* bound: ticks

NotifyfsAssumption == Peak \in Nat \ {0} /\ MaxTicks \in Nat

VARIABLES
    ticks,
    hasNotify,  \* the library has fuse_notify; it never changes
    mount,      \* "before", "mounted", "after": host.fuse is set while mounted
    tpc,        \* tick: "wait", then "notify" and "call" in host.Notify
    event,      \* what it notifies of: an action and a file
    watching,   \* the client watches the directory
    queue,      \* notifications on their way to it
    listed,     \* it has read the directory since
    view        \* the files it believes there are

fsVars == <<ticks, hasNotify, tpc, event>>
client == <<watching, queue, listed, view>>
vars   == <<fsVars, mount, client>>

NoEvent == <<"NONE", 0>>

Init ==
    /\ ticks = 0 /\ hasNotify \in BOOLEAN /\ mount = "before"
    /\ tpc = "wait" /\ event = NoEvent
    /\ watching = FALSE /\ queue = <<>> /\ listed = FALSE /\ view = {}

-----------------------------------------------------------------------------
(* The file system *)

countFromTicks(n) ==
    LET falling == (n % (2 * Peak)) \div Peak
        m       == n % Peak
    IN (1 - falling) * m + falling * (Peak - m)

count == countFromTicks(ticks)

\* lookup, which Open, Getattr and Read begin with; a name that is no number
\* is taken for 0.
Exists(index) == 0 < index /\ index <= count

Change(old, new) ==
    CASE old < new -> <<"CREATE", new>>
      [] old > new -> <<"UNLINK", old>>
      [] OTHER -> NoEvent

\* Mutant: the sum that AddUint64 returns is taken for the value before it.
Mut_SumIsOld ==
    /\ tpc = "wait" /\ ticks < MaxTicks
    /\ ticks' = ticks + 1
    /\ event' = Change(countFromTicks(ticks + 1), countFromTicks(ticks + 2))
    /\ tpc' = IF event' = NoEvent THEN "wait" ELSE "notify"
    /\ UNCHANGED <<hasNotify, mount, client>>

\* One atomic addition, and what has changed by it.
Tick ==
    /\ tpc = "wait" /\ ticks < MaxTicks
    /\ ticks' = ticks + 1
    /\ event' = Change(countFromTicks(ticks), countFromTicks(ticks + 1))
    /\ tpc' = IF event' = NoEvent THEN "wait" ELSE "notify"
    /\ UNCHANGED <<hasNotify, mount, client>>

\* Notify reads host.fuse under hmu; without one there is nobody to notify.
Notify ==
    /\ tpc = "notify"
    /\ tpc' = IF mount = "mounted" THEN "call" ELSE "wait"
    /\ event' = IF mount = "mounted" THEN event ELSE NoEvent
    /\ UNCHANGED <<ticks, hasNotify, mount, client>>

\* c_hostNotify, with the struct that was read: the file system may have been
\* unmounted in the meantime.
CallNotify ==
    /\ tpc = "call" /\ tpc' = "wait" /\ event' = NoEvent
    /\ queue' = IF hasNotify /\ mount = "mounted" /\ watching
                THEN Append(queue, event) ELSE queue
    /\ UNCHANGED <<ticks, hasNotify, mount, watching, listed, view>>

\* Init sets host.fuse and Destroy clears it; a watch ends with the mount.
MountStep ==
    \/ mount = "before" /\ mount' = "mounted" /\ UNCHANGED <<fsVars, client>>
    \/ /\ mount = "mounted" /\ mount' = "after"
       /\ watching' = FALSE /\ queue' = <<>> /\ listed' = FALSE /\ view' = {}
       /\ UNCHANGED fsVars

-----------------------------------------------------------------------------
(* The client *)

Watch ==
    /\ mount = "mounted" /\ ~watching /\ watching' = TRUE
    /\ UNCHANGED <<fsVars, mount, queue, listed, view>>

\* Readdir reads the count once.
Readdir ==
    /\ watching
    /\ listed' = TRUE /\ view' = 1..count
    /\ UNCHANGED <<fsVars, mount, watching, queue>>

Receive ==
    /\ queue # <<>>
    /\ queue' = Tail(queue)
    /\ view' = LET action == Head(queue)[1]
                   index  == Head(queue)[2]
               IN CASE listed /\ action = "CREATE" -> view \cup {index}
                    [] listed /\ action = "UNLINK" -> view \ {index}
                    [] OTHER -> view
    /\ UNCHANGED <<fsVars, mount, watching, listed>>

Next == Tick \/ Notify \/ CallNotify \/ MountStep \/ Watch \/ Readdir \/ Receive

Spec == Init /\ [][Next]_vars

-----------------------------------------------------------------------------
(* Properties *)

\* A client that has once listed the directory it watches needs no second
\* listing: when the notifications have reached it, it believes in exactly the
\* files that a lookup finds, though a listing may run before, after or between
\* the tick, its notification and its delivery (notifyfs.go:85-127,
\* host.go:248-264).
ViewCatchesUp ==
    hasNotify /\ listed /\ queue = <<>> /\ tpc = "wait" =>
        view = {i \in 0..(Peak + 1) : Exists(i)}
=============================================================================
