------------------------------- MODULE Dispatch -------------------------------
(***************************************************************************)
(* The request handlers of fuse/dispatch.go and the tables that bind them  *)
(* to the FUSE library: what the library asks of the file system, which    *)
(* methods of the Go file system a handler calls for it, in which order,   *)
(* which file handle they carry, and what the library is answered, also    *)
(* when a method is missing or panics.                                     *)
(*                                                                         *)
(* Any number of library threads are in a handler at once.  A handler      *)
(* keeps no state of its own between two requests, so a step is one call   *)
(* of a file-system method together with the handler's code up to the next *)
(* call or the answer.  The file system and the kernel are external: the   *)
(* kernel keeps the handles of successful opens and releases each once,    *)
(* after its last use; the file system is consistent with itself, and a    *)
(* panic leaves it as it was.  Paths, modes and data are left out.         *)
(***************************************************************************)
EXTENDS FiniteSets

CONSTANTS
    Threads,      \* the threads of the FUSE library that serve requests
    Files,        \* the files requests are about
    Handles,      \* the handles the file system gives out
    NoHandle,     \* ^uint64(0), the handle that stands for none
    Nil,          \* a nil fi0
    Free,         \* a handle that is not open
    FileSystems,  \* the file systems that may be mounted: the optional
                  \* interfaces each offers, the methods each inherits from
                  \* FileSystemBase, which answer -ENOSYS
    Builds,       \* those of "fuse2", "fuse3" and "winfsp" in question
    Ops           \* the operations that are asked for, where the build has them

(***************************************************************************)
(* The operation tables.                                                   *)
(***************************************************************************)
CommonOps ==
    {"Getattr", "Readlink", "Mknod", "Mkdir", "Unlink", "Rmdir", "Symlink",
     "Rename", "Link", "Chmod", "Chown", "Truncate", "Open", "Read", "Write",
     "Statfs", "Flush", "Release", "Fsync", "Setxattr", "Getxattr",
     "Listxattr", "Removexattr", "Opendir", "Readdir", "Releasedir",
     "Fsyncdir", "Access", "Create", "Utimens"}
Fuse2Only == {"Ftruncate", "Fgetattr"}
Fuse3Only == {"CopyFileRange", "Lseek", "Fallocate", "Flock"}
WinFspOnly == {"Getpath", "Setchgtime", "Setcrtime", "Chflags"}

Optional ==
    {"OpenEx", "Getpath", "Chflags", "Setcrtime", "Setchgtime", "Chmod3",
     "Chown3", "Utimens3", "Rename3"} \cup Fuse3Only

Extended ==
    [Open |-> "OpenEx", Create |-> "CreateEx", Rename |-> "Rename3",
     Chmod |-> "Chmod3", Chown |-> "Chown3", Utimens |-> "Utimens3"]

Methods ==
    (CommonOps \cup Optional \cup {"CreateEx"})

ASSUME DispatchAssumption ==
    /\ Builds \subseteq {"fuse2", "fuse3", "winfsp"}
    /\ Ops \subseteq CommonOps \cup Fuse2Only \cup Fuse3Only \cup WinFspOnly
    /\ FileSystems \subseteq [optional : SUBSET Optional, inherits : SUBSET Methods]
    /\ {NoHandle, Nil, Free} \cap (Handles \cup Files) = {}
    /\ Cardinality({NoHandle, Nil, Free}) = 3

(* Operations that answer success where the method answers -ENOSYS, and    *)
(* those that do where the interface is missing ("say we did it!").        *)
Forgiving  == {"Statfs", "Fsync", "Opendir", "Fsyncdir"}
Pretending == {"Setchgtime", "Setcrtime", "Chflags"}

Openers == {"Open", "OpenEx", "Opendir"}
Makers  == {"Create", "CreateEx"}
Closers == {"Release", "Releasedir"}
DirOps  == {"Readdir", "Releasedir", "Fsyncdir"}
FileOps == {"Read", "Write", "Flush", "Release", "Fsync", "Ftruncate", "Fgetattr"}
                \cup Fuse3Only
MayLackFile == {"Getattr", "Truncate", "Chmod", "Chown", "Utimens"}

Errnos == {"ok", "ENOSYS", "EINVAL", "EIO", "ENOENT", "EEXIST", "EPERM"}
None == "none"
Idle == [op |-> None]

VARIABLES
    fs,      \* the mounted file system, its interfaces resolved by resolveOps
    build,   \* what the host is built for
    req,     \* what each thread is doing
    nodes,   \* external: the files that exist
    opened,  \* external: the file each handle is open for, or Free
    fds      \* external: the handles the kernel holds

vars == <<fs, build, req, nodes, opened, fds>>

(* What the library can call on this build.                                *)
Table ==
    CommonOps \cup CASE build = "fuse2"  -> Fuse2Only
                     [] build = "fuse3"  -> Fuse3Only
                     [] build = "winfsp" -> Fuse2Only \cup WinFspOnly

AHandle == Handles \cup {NoHandle}

Request ==
    [op : Table, flags : BOOLEAN,
     file : Files, fi : AHandle \cup {Nil}, fh : AHandle,
     file2 : Files, fi2 : AHandle \cup {Nil}, fh2 : AHandle,   \* CopyFileRange's target
     call : Methods \cup {None}, errc : Errnos, out : AHandle, did : SUBSET Methods]

(***************************************************************************)
(* The handlers.                                                           *)
(***************************************************************************)

(* ops.<field> is not nil; OpenEx and CreateEx are one interface           *)
Offers(m) == (IF m = "CreateEx" THEN "OpenEx" ELSE m) \in fs.optional

\* Mutant: the flags of a rename are dropped without Rename3.
Mut_FlagsIgnored(op, flags) ==
    CASE op \in DOMAIN Extended /\ Offers(Extended[op]) -> Extended[op]
      [] op \in Optional -> IF Offers(op) THEN op ELSE None
      [] op = "Ftruncate" -> "Truncate"
      [] op = "Fgetattr" -> "Getattr"
      [] OTHER -> op

(* The method a handler calls first, None where it answers by itself.      *)
FirstCall(op, flags) ==
    CASE op \in DOMAIN Extended /\ Offers(Extended[op]) -> Extended[op]
      [] op = "Rename" /\ ~Offers("Rename3") /\ flags -> None
      [] op \in Optional -> IF Offers(op) THEN op ELSE None
      [] op = "Ftruncate" -> "Truncate"
      [] op = "Fgetattr" -> "Getattr"
      [] OTHER -> op

Default(op) ==
    CASE op = "Rename" -> "EINVAL"
      [] op \in Pretending -> "ok"
      [] OTHER -> "ENOSYS"

(* fifh: the handle a method is given.                                     *)
FileHandle(fi) == IF fi = Nil THEN NoHandle ELSE fi

\* Mutant: both handles of a copy are those of its source.
Mut_SourceTwice(fi, fi2) == <<FileHandle(fi), FileHandle(fi)>>

(* fhIn and fhOut: hostCopyFileRange tests each of its two for nil.        *)
FileHandles(fi, fi2) == <<FileHandle(fi), FileHandle(fi2)>>

\* Mutant: the fallback creates again once Mknod has made the file.
Mut_CreatesAgain(r, said) ==
    CASE r.call \in Makers /\ said = "ENOSYS" -> "Mknod"
      [] r.op = "Create" /\ r.call = "Mknod" /\ said \in {"ok", "EEXIST"} ->
            IF Offers("OpenEx") THEN "CreateEx" ELSE "Create"
      [] OTHER -> None

(* hostCreate makes up for a missing Create with Mknod, then Open.         *)
NextCall(r, said) ==
    CASE r.call \in Makers /\ said = "ENOSYS" -> "Mknod"
      [] r.op = "Create" /\ r.call = "Mknod" /\ said = "ok" ->
            IF Offers("OpenEx") THEN "OpenEx" ELSE "Open"
      [] OTHER -> None

(* The result handed back once the last method has returned, or panicked:  *)
(* recoverAsErrno reports a boxed Error as it is, anything else as EIO.    *)
Answer(r, said) == IF r.op \in Forgiving /\ said = "ENOSYS" THEN "ok" ELSE said
PanicAnswer(v) == IF v = "other" THEN "EIO" ELSE v

\* Mutant: the handle of the fallback's Open is dropped.
Mut_FallbackHandleDropped(r, out) ==
    IF r.call \in Openers \cup Makers /\ r.did = {} THEN out ELSE r.out

(* A handle the method returns goes to fi0.fh.                             *)
HandleOut(r, out) == IF r.call \in Openers \cup Makers THEN out ELSE r.out

(***************************************************************************)
(* The kernel.                                                             *)
(***************************************************************************)
Waiting(t) == req[t] # Idle /\ req[t].call # None
Answered(t) == req[t] # Idle /\ req[t].call = None

Busy(h) == \E t \in Threads : req[t] # Idle /\ h \in {req[t].fi, req[t].fi2}

HeldHandles(file, by) == {d.fh : d \in {e \in fds : e.file = file /\ e.by = by}}

Inputs(op, file) ==
    CASE op \in DirOps  -> HeldHandles(file, "Opendir")
      [] op \in FileOps -> HeldHandles(file, "Open")
      [] op = "Getpath" \/ (op \in MayLackFile /\ build = "fuse3") ->
            HeldHandles(file, "Open") \cup {Nil}
      [] OTHER -> {Nil}

(* Where a copy goes: any file that is open, its source included.          *)
Targets(op, file) ==
    IF op = "CopyFileRange"
    THEN {<<d.file, d.fh>> : d \in {e \in fds : e.by = "Open"}}
    ELSE {<<file, Nil>>}

(* The library calls an entry of the table.  The kernel sends a release    *)
(* when nothing else uses the handle, and gives the handle up with it.     *)
Ask(t) ==
    \E op \in Ops \cap Table, file \in Files :
     \E fi \in Inputs(op, file), target \in Targets(op, file) :
      \E flags \in IF op = "Rename" /\ build = "fuse3" THEN BOOLEAN ELSE {FALSE} :
        LET fhs == FileHandles(fi, target[2]) IN
        /\ req[t] = Idle
        /\ op \in Closers => ~Busy(fi)
        /\ req' = [req EXCEPT ![t] =
              [op |-> op, flags |-> flags,
               file |-> file, fi |-> fi, fh |-> fhs[1],
               file2 |-> target[1], fi2 |-> target[2], fh2 |-> fhs[2],
               call |-> FirstCall(op, flags),
               errc |-> Default(op), out |-> NoHandle, did |-> {}]]
        /\ fds' = IF op \in Closers
                  THEN fds \ {d \in fds : d.fh = fi /\ d.file = file}
                  ELSE fds
        /\ UNCHANGED <<fs, build, nodes, opened>>

(* The answer reaches the kernel, which keeps the handle of an open.       *)
Receive(t) ==
    LET r == req[t] IN
    /\ Answered(t)
    /\ req' = [req EXCEPT ![t] = Idle]
    /\ fds' = IF r.op \in {"Open", "Create", "Opendir"} /\ r.errc = "ok"
              THEN fds \cup {[file |-> r.file, fh |-> r.out,
                              by |-> IF r.op = "Opendir" THEN "Opendir" ELSE "Open"]}
              ELSE fds
    /\ UNCHANGED <<fs, build, nodes, opened>>

(***************************************************************************)
(* The file system: what a method answers and does.                        *)
(***************************************************************************)
Closed(m, h) ==
    IF m \in Closers /\ h \in Handles THEN [opened EXCEPT ![h] = Free] ELSE opened

Does(m, file, h, said, out) ==
    \/ /\ m \in fs.inherits
       /\ said = "ENOSYS" /\ out = NoHandle
       /\ opened' = Closed(m, h) /\ nodes' = nodes
    \/ /\ m \notin fs.inherits
       /\ said = "EPERM" /\ out = NoHandle
       /\ opened' = Closed(m, h) /\ nodes' = nodes
    \/ /\ m \in Openers \ fs.inherits /\ file \notin nodes
       /\ said = "ENOENT" /\ out = NoHandle
       /\ UNCHANGED <<nodes, opened>>
    \/ /\ m \in (Openers \cup Makers) \ fs.inherits
       /\ file \in nodes <=> m \in Openers
       /\ said = "ok" /\ out \in Handles /\ opened[out] = Free
       /\ opened' = [opened EXCEPT ![out] = file]
       /\ nodes' = nodes \cup {file}
    \/ /\ m \in (Makers \cup {"Mknod"}) \ fs.inherits /\ file \in nodes
       /\ said = "EEXIST" /\ out = NoHandle
       /\ UNCHANGED <<nodes, opened>>
    \/ /\ m \in {"Mknod", "Unlink"} \ fs.inherits
       /\ file \in nodes <=> m = "Unlink"
       /\ said = "ok" /\ out = NoHandle
       /\ nodes' = IF m = "Mknod" THEN nodes \cup {file} ELSE nodes \ {file}
       /\ opened' = opened
    \/ /\ m \notin fs.inherits \cup Openers \cup Makers \cup {"Mknod", "Unlink"}
       /\ said = "ok" /\ out = NoHandle
       /\ opened' = Closed(m, h) /\ nodes' = nodes

(* A method returns; the handler goes on to its next call or its answer.   *)
Return(t) ==
    \E said \in Errnos, out \in AHandle :
      LET r == req[t]
          next == NextCall(r, said)
      IN  /\ Waiting(t)
          /\ Does(r.call, r.file, r.fh, said, out)
          /\ req' = [req EXCEPT ![t] =
                [r EXCEPT !.call = next,
                          !.errc = Answer(r, said),
                          !.out  = HandleOut(r, out),
                          !.did  = IF said = "ok" THEN @ \cup {r.call} ELSE @]]
          /\ UNCHANGED <<fs, build, fds>>

(* A method panics; the deferred recover answers the request.              *)
Panic(t) ==
    \E v \in {"ENOENT", "other"} :
      /\ Waiting(t)
      /\ req' = [req EXCEPT ![t].call = None, ![t].errc = PanicAnswer(v)]
      /\ opened' = Closed(req[t].call, req[t].fh)
      /\ UNCHANGED <<fs, build, nodes, fds>>

Init ==
    /\ fs \in FileSystems /\ build \in Builds
    /\ req = [t \in Threads |-> Idle]
    /\ nodes \in SUBSET Files
    /\ opened = [h \in Handles |-> Free]
    /\ fds = {}

Next == \E t \in Threads : Ask(t) \/ Return(t) \/ Panic(t) \/ Receive(t)

(* A method of the file system returns or panics, and the library takes    *)
(* the answer.  Nothing makes the kernel ask.                              *)
Fairness == \A t \in Threads : WF_vars(Return(t) \/ Panic(t)) /\ WF_vars(Receive(t))

Spec == Init /\ [][Next]_vars /\ Fairness

(***************************************************************************)
(* Properties.                                                             *)
(***************************************************************************)

(* The type of the state.                                                  *)
TypeOK ==
    /\ fs \in FileSystems /\ build \in Builds
    /\ req \in [Threads -> Request \cup {Idle}]
    /\ nodes \subseteq Files
    /\ opened \in [Handles -> Files \cup {Free}]
    /\ fds \subseteq [file : Files, fh : AHandle, by : {"Open", "Opendir"}]

(* An open in flight that the file system has granted.                     *)
Carried(h) ==
    \E t \in Threads : /\ Answered(t)
                       /\ req[t].op \in {"Open", "Create", "Opendir"}
                       /\ req[t].errc = "ok" /\ req[t].out = h

(* The kernel and the file system agree on what is open: each handle the   *)
(* kernel holds is open for that file, unless it stands for a forgiven     *)
(* Opendir, and each handle the file system has open is held, on its way   *)
(* to the kernel, or being released: none is lost in hostCreate's fallback *)
(* or by an answer that differs from what the method said.                 *)
HandlesAgree ==
    /\ \A d \in fds :
          IF d.fh = NoHandle THEN d.by = "Opendir" /\ "Opendir" \in fs.inherits
                             ELSE opened[d.fh] = d.file
    /\ \A h \in Handles : opened[h] # Free =>
          \/ \E d \in fds : d.fh = h
          \/ Carried(h)
          \/ \E t \in Threads : Waiting(t) /\ req[t].call \in Closers /\ req[t].fh = h

(* Every method that is given a handle is given one that is open for the   *)
(* file it is about, and CopyFileRange one for each of its two files, or   *)
(* the sentinel that means none: a nil fi0, a forgiven Opendir or a        *)
(* concurrent release never turn into a handle of another file, and the    *)
(* target of a copy is never the handle of its source.                     *)
CallsCarryTheirHandle ==
    \A t \in Threads : Waiting(t) =>
        /\ req[t].fh # NoHandle => opened[req[t].fh] = req[t].file
        /\ req[t].fh2 # NoHandle => opened[req[t].fh2] = req[t].file2

(* The methods that amount to an operation.                                *)
Fulfilments(r) ==
    CASE r.op = "Create" ->
            {{"Create"}, {"CreateEx"}, {"Mknod", "Open"}, {"Mknod", "OpenEx"}}
      [] r.op = "Rename" -> {{"Rename3"}} \cup (IF r.flags THEN {} ELSE {{"Rename"}})
      [] r.op \in DOMAIN Extended \ {"Create", "Rename"} -> {{r.op}, {Extended[r.op]}}
      [] r.op = "Ftruncate" -> {{"Truncate"}}
      [] r.op = "Fgetattr" -> {{"Getattr"}}
      [] OTHER -> {{r.op}}

(* A request is answered with success only if the file system did all of   *)
(* it: each method it takes returned success, and a flag the file system   *)
(* does not understand was not dropped.  Only the operations the code      *)
(* forgives or pretends may succeed undone, and only where the file system *)
(* lacks them.                                                             *)
SuccessIsEarned ==
    \A t \in Threads : Answered(t) /\ req[t].errc = "ok" =>
        \/ req[t].did \in Fulfilments(req[t])
        \/ req[t].did = {} /\ req[t].op \in Forgiving \cap fs.inherits
        \/ req[t].did = {} /\ req[t].op \in Pretending \ fs.optional

(* Every request is answered, whatever its methods return, and though they *)
(* panic: hostCreate's fallback ends, and no panic leaves a handler.       *)
EveryRequestIsAnswered ==
    \A t \in Threads : req[t] # Idle ~> req[t] = Idle
===============================================================================
