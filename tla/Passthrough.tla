----------------------------- MODULE Passthrough -----------------------------
(***************************************************************************)
(* The passthrough example (src/examples/passthrough): operations that make*)
(* a name run the system call with the ids of the caller, which setuidgid  *)
(* puts on and takes off again, and open files are descriptors of the      *)
(* process.  FUSE runs the operations in threads of one process, the ids   *)
(* belong to the process (Go's Setreuid acts on all threads), and nothing  *)
(* locks them: one call of setuidgid, or of its inverse, is one step.      *)
(*                                                                         *)
(* External: the ids of a process and its descriptors, as Linux has them;  *)
(* the kernel, which sends a Release once nothing else uses the handle.    *)
(***************************************************************************)
EXTENDS Naturals

CONSTANTS
    Threads,    \* of libfuse's loop
    Ids,        \* user and group ids, with 0, which is root
    Callers,    \* the users that send requests: <<uid, gid>>
    Files,      \* files and directories
    Fds,        \* descriptors
    None        \* no descriptor, no file: ^uint64(0) as a handle

ASSUME PtfsAssumption ==
    /\ Ids \subseteq Nat /\ 0 \in Ids /\ Callers \subseteq Ids \X Ids
    /\ Fds \subseteq Nat
    /\ None \notin Fds \cup Files

\* Make stands for Mknod, Mkdir, Link, Symlink and Rename, ByPath for Statfs,
\* Unlink, Rmdir, Readlink, Chmod, Chown, Utimens, and for Getattr and Truncate
\* without a handle, Use for Getattr, Truncate, Read, Write and Fsync of one.
Switching == {"Make", "Create"}
Openers   == {"Create", "Open"}            \* Open is Opendir too
Closers   == {"Release"}                   \* and Releasedir
OnHandle  == {"Use", "Readdir"} \cup Closers
Ops       == Switching \cup Openers \cup OnHandle \cup {"ByPath"}

PCs == {"idle", "geteuid", "getegid", "setregid", "setreuid", "call", "list",
        "uidback", "gidback", "reply"}

VARIABLES
    start,      \* the id the process was started with, user and group
    euid, suid, \* effective and saved user id; the real one is start
    egid, sgid, \* the same of the group
    fdtab,      \* the file of each descriptor that is open, or None
    held,       \* the kernel's handles: the file each was opened for, or None
    pc,         \* of each thread
    op, file,   \* its request
    fh,         \* the handle it is for, or None
    fd,         \* the descriptor it has opened, or None
    caller,     \* fuse.Getcontext: the ids of the caller
    euid0, egid0,  \* what setuidgid has read, and will put back
    acted,      \* history: the ids the system call was made with
    alone,      \* history: no operation has switched ids meanwhile
    overlapped  \* history: two operations have switched ids at a time

procVars == <<start, euid, suid, egid, sgid>>
fdVars   == <<fdtab, held>>
reqVars  == <<op, file, fh, caller>>
hist     == <<acted, alone, overlapped>>
vars == <<procVars, fdVars, pc, fd, euid0, egid0, reqVars, hist>>

Each(v) == [t \in Threads |-> v]

Init ==
    /\ start \in Ids
    /\ euid = start /\ suid = start /\ egid = start /\ sgid = start
    /\ fdtab = [d \in Fds |-> None] /\ held = [d \in Fds |-> None]
    /\ pc = Each("idle") /\ op = Each("ByPath") /\ file = Each(None)
    /\ fh = Each(None) /\ fd = Each(None)
    /\ caller = Each(<<0, 0>>) /\ euid0 = Each(0) /\ egid0 = Each(0)
    /\ acted = Each(<<0, 0>>) /\ alone = Each(TRUE) /\ overlapped = FALSE

-----------------------------------------------------------------------------
(* The ids of the process *)

Privileged == euid = 0

\* setreuid(-1, id) and setregid(-1, id), which change nothing when refused;
\* setuidgid does not look at their result.
Setreuid(id) ==
    IF Privileged \/ id \in {start, euid, suid}
    THEN euid' = id /\ suid' = IF id # start THEN id ELSE suid
    ELSE UNCHANGED <<euid, suid>>

Setregid(id) ==
    IF Privileged \/ id \in {start, egid, sgid}
    THEN egid' = id /\ sgid' = IF id # start THEN id ELSE sgid
    ELSE UNCHANGED <<egid, sgid>>

Goto(t, from, to) == pc[t] = from /\ pc' = [pc EXCEPT ![t] = to]

Inside(t) == pc[t] \notin {"idle", "reply"} /\ op[t] \in Switching

\* A request arrives; a second one that switches ids makes neither alone.
Arrive(t, o, f, h, c) ==
    LET others == IF o \in Switching THEN {s \in Threads \ {t} : Inside(s)} ELSE {} IN
    /\ Goto(t, "idle", IF o \in Switching THEN "geteuid" ELSE "call")
    /\ op' = [op EXCEPT ![t] = o] /\ file' = [file EXCEPT ![t] = f]
    /\ fh' = [fh EXCEPT ![t] = h]
    /\ caller' = [caller EXCEPT ![t] = c]
    /\ alone' = [s \in Threads |-> IF s = t THEN others = {}
                                   ELSE alone[s] /\ s \notin others]
    /\ overlapped' = (overlapped \/ others # {})
    /\ UNCHANGED <<procVars, fdtab, fd, euid0, egid0, acted>>

Request(t, c) ==
    \/ \E f \in Files, o \in {"Make", "Create", "Open", "ByPath"} :
          Arrive(t, o, f, None, c) /\ UNCHANGED held
    \/ \E h \in Fds :
        /\ held[h] # None
        /\ \/ \E o \in {"Use", "Readdir"} : Arrive(t, o, held[h], h, c) /\ UNCHANGED held
           \/ /\ \A s \in Threads : pc[s] # "idle" => fh[s] # h
              /\ Arrive(t, "Release", held[h], h, c)
              /\ held' = [held EXCEPT ![h] = None]

\* setuidgid: a process that is not root, or not at the moment, changes nothing.
Geteuid(t) ==
    /\ Goto(t, "geteuid", IF euid = 0 THEN "getegid" ELSE "call")
    /\ euid0' = [euid0 EXCEPT ![t] = euid]
    /\ UNCHANGED <<procVars, fdVars, fd, egid0, reqVars, hist>>

Getegid(t) ==
    /\ Goto(t, "getegid", "setregid")
    /\ egid0' = [egid0 EXCEPT ![t] = egid]
    /\ UNCHANGED <<procVars, fdVars, fd, euid0, reqVars, hist>>

\* Mutant: the user id is given up before the group id is set.
Mut_UserBeforeGroup(t) ==
    /\ Goto(t, "setregid", "setreuid")
    /\ IF caller[t][1] = 0 \/ caller[t][2] \in {start, egid, sgid}
       THEN Setregid(caller[t][2]) ELSE UNCHANGED <<egid, sgid>>
    /\ UNCHANGED <<start, euid, suid, fdVars, fd, euid0, egid0, reqVars, hist>>

SwitchGroup(t) ==
    /\ Goto(t, "setregid", "setreuid")
    /\ Setregid(caller[t][2])
    /\ UNCHANGED <<start, euid, suid, fdVars, fd, euid0, egid0, reqVars, hist>>

SwitchUser(t) ==
    /\ Goto(t, "setreuid", "call")
    /\ Setreuid(caller[t][1])
    /\ UNCHANGED <<start, egid, sgid, fdVars, fd, euid0, egid0, reqVars, hist>>

\* The function that setuidgid returned, deferred: nothing where nothing was
\* switched.
UserBack(t) ==
    /\ Goto(t, "uidback", IF euid0[t] = 0 THEN "gidback" ELSE "reply")
    /\ IF euid0[t] = 0 THEN Setreuid(0) ELSE UNCHANGED <<euid, suid>>
    /\ UNCHANGED <<start, egid, sgid, fdVars, fd, euid0, egid0, reqVars, hist>>

\* Mutant: the group stays.
Mut_GroupStays(t) ==
    /\ Goto(t, "gidback", "reply")
    /\ UNCHANGED <<procVars, fdVars, fd, euid0, egid0, reqVars, hist>>

GroupBack(t) ==
    /\ Goto(t, "gidback", "reply")
    /\ Setregid(egid0[t])
    /\ UNCHANGED <<start, euid, suid, fdVars, fd, euid0, egid0, reqVars, hist>>

-----------------------------------------------------------------------------
(* The system calls *)

Free == {d \in Fds : fdtab[d] = None}

\* open(2) takes the lowest descriptor that is free.
OpenAt(t, f) ==
    \E d \in Free :
        /\ \A e \in Free : d <= e
        /\ fdtab' = [fdtab EXCEPT ![d] = f]
        /\ fd' = [fd EXCEPT ![t] = d]

AfterCall(t) == IF op[t] \in Switching THEN "uidback"
                ELSE IF op[t] = "Readdir" /\ fd'[t] # None THEN "list" ELSE "reply"

\* Every other system call may succeed or fail, and changes the underlying file
\* system only.  Readdir opens the path once more; should that fail, errno()
\* panics on what is no syscall.Errno, and the request is answered all the same.
Call(t) ==
    /\ CASE op[t] \in Openers \cup {"Readdir"} ->
              \/ OpenAt(t, file[t])
              \/ UNCHANGED <<fdtab, fd>>
         [] op[t] \in Closers ->
              fdtab' = [fdtab EXCEPT ![fh[t]] = None] /\ UNCHANGED fd
         [] OTHER -> UNCHANGED <<fdtab, fd>>
    /\ Goto(t, "call", AfterCall(t))
    /\ acted' = [acted EXCEPT ![t] = <<euid, egid>>]
    /\ UNCHANGED <<procVars, held, euid0, egid0, reqVars, alone, overlapped>>

\* Mutant: a loop that is left early does not close.
Mut_ListKeepsOpen(t) ==
    /\ Goto(t, "list", "reply")
    /\ \/ fdtab' = [fdtab EXCEPT ![fd[t]] = None]
       \/ UNCHANGED fdtab
    /\ UNCHANGED <<procVars, held, fd, euid0, egid0, reqVars, hist>>

\* Readdir reads the names, or fails to; the deferred Close runs either way.
List(t) ==
    /\ Goto(t, "list", "reply")
    /\ fdtab' = [fdtab EXCEPT ![fd[t]] = None]
    /\ UNCHANGED <<procVars, held, fd, euid0, egid0, reqVars, hist>>

\* The answer reaches the kernel, which keeps what an open has returned.
Reply(t) ==
    /\ Goto(t, "reply", "idle")
    /\ held' = IF op[t] \in Openers /\ fd[t] # None
               THEN [held EXCEPT ![fd[t]] = file[t]] ELSE held
    /\ op' = [op EXCEPT ![t] = "ByPath"] /\ file' = [file EXCEPT ![t] = None]
    /\ fh' = [fh EXCEPT ![t] = None] /\ fd' = [fd EXCEPT ![t] = None]
    /\ caller' = [caller EXCEPT ![t] = <<0, 0>>]
    /\ euid0' = [euid0 EXCEPT ![t] = 0] /\ egid0' = [egid0 EXCEPT ![t] = 0]
    /\ acted' = [acted EXCEPT ![t] = <<0, 0>>] /\ alone' = [alone EXCEPT ![t] = TRUE]
    /\ UNCHANGED <<procVars, fdtab, overlapped>>

Next == \E t \in Threads :
    \/ \E c \in Callers : Request(t, c)
    \/ Geteuid(t) \/ Getegid(t) \/ SwitchGroup(t) \/ SwitchUser(t)
    \/ Call(t) \/ List(t)
    \/ UserBack(t) \/ GroupBack(t) \/ Reply(t)

Spec == Init /\ [][Next]_vars

-----------------------------------------------------------------------------
(* Properties *)

\* However the operations overlap, the process is what it was started as when
\* none is under way, so that it can serve the next caller; a process whose
\* operations never overlapped also has its group back (port_linux.go:23-36).
IdsComeBack ==
    (\A t \in Threads : ~Inside(t)) =>
        /\ euid = start
        /\ ~overlapped => egid = start

\* An operation that nothing else overlapped makes its system call as its
\* caller, user and group, also after overlapping ones have left the process
\* with another caller's group (port_linux.go:28-29).
AloneActsAsCaller ==
    \A t \in Threads :
        alone[t] /\ op[t] \in Switching /\ start = 0 /\ pc[t] \in {"uidback", "gidback", "reply"}
            => acted[t] = caller[t]

\* A handle of the kernel is a descriptor of the file it was opened for, and
\* no other descriptor is open but those on their way to the kernel, back from
\* it, or used by a Readdir: none is lost or closed twice, though another open
\* may get its number at once (passthrough.go:160-167, 229-256).
DescriptorsAreHandles ==
    /\ \A d \in Fds : held[d] # None => fdtab[d] = held[d]
    /\ \A d \in Fds : fdtab[d] # None =>
          \/ held[d] # None
          \/ \E t \in Threads : fd[t] = d \/ (fh[t] = d /\ op[t] \in Closers)
=============================================================================
