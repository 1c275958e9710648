------------------------------ MODULE NocgoHost ------------------------------
(***************************************************************************)
(* The Windows host without cgo (src/fuse/host_nocgo_windows.go): how Mount*)
(* and OptParse load the WinFsp library, once per process, under a         *)
(* sync.Once, and how a mount's handle stands for its host in callbacks.   *)
(*                                                                         *)
(* External: LoadDLL, FindProc and HeapAlloc of Windows; sync.Once, whose  *)
(* other callers wait for the first, and which counts a function that      *)
(* panicked as run; the file system process, which calls back while        *)
(* fuse_main_real runs, and returns from it.                               *)
(***************************************************************************)
EXTENDS Libraries

CONSTANTS
    NProcs,      \* MustFindProc is called for 1..NProcs, FindProc for the next
    ProcsOf,     \* the procedures of each library
    Addresses,   \* of the heap blocks that stand for a host
    Torn         \* the path while it is written

Required == 1..NProcs
Optional == NProcs + 1             \* fuse_notify
Procs    == 1..Optional

ASSUME NocgoAssumption ==
    /\ NProcs \in Nat \ {0} /\ MaxCalls \in Nat
    /\ NoLib \notin Libs \cup Threads \cup Addresses
    /\ Threads \cap {"new", "done"} = {}
    /\ Paths \cap {NoPath, Torn} = {} /\ NoPath # Torn
    /\ PathLib \in [Paths -> MaybeLib] /\ Default \in MaybeLib
    /\ ProcsOf \in [Libs -> SUBSET Procs]

VARIABLES
    nocgoPath,  \* nocgoLibfusePath
    once,       \* fuseOnce: "new", "done", or the thread that runs it
    fuseDll,
    proc,       \* the library each *syscall.Proc points into
    panicked,   \* history: MustFindProc has panicked
    heap,       \* the addresses that are allocated
    hostTable,  \* the host of each address, NoLib where there is none
    hndl,       \* the address a thread's Mount holds
    npc, nlibpath, nk, ncalls   \* of each thread

libVars == <<nocgoPath, once, fuseDll, proc, panicked>>
tblVars == <<heap, hostTable, hndl>>
nocgoVars == <<libVars, tblVars, npc, nlibpath, nk, ncalls>>

NocgoInit ==
    /\ nocgoPath = NoPath /\ once = "new" /\ fuseDll = NoLib
    /\ proc = [i \in Procs |-> NoLib] /\ panicked = FALSE
    /\ heap = {} /\ hostTable = [a \in Addresses |-> NoLib]
    /\ hndl = [t \in Threads |-> NoLib]
    /\ npc = [t \in Threads |-> "idle"] /\ nlibpath = [t \in Threads |-> NoPath]
    /\ nk = [t \in Threads |-> 1] /\ ncalls = [t \in Threads |-> 0]

Move(t, from, to) == npc[t] = from /\ npc' = [npc EXCEPT ![t] = to]

-----------------------------------------------------------------------------
(* Loading the library *)

\* Mount of a host with libpath p, or, without a path, OptParse too.
NocgoCall(t, p) ==
    /\ Move(t, "idle", IF p = NoPath THEN "init" ELSE "setpath")
    /\ ncalls[t] < MaxCalls /\ ncalls' = [ncalls EXCEPT ![t] = @ + 1]
    /\ nlibpath' = [nlibpath EXCEPT ![t] = p]
    /\ UNCHANGED <<libVars, tblVars, nk>>

\* c_hostSetLibfusePath assigns a string, two words, under no lock.
SetPath(t) ==
    /\ \/ Move(t, "setpath", "stored") /\ nocgoPath' = Torn
       \/ Move(t, "stored", "init") /\ nocgoPath' = nlibpath[t]
    /\ UNCHANGED <<once, fuseDll, proc, panicked, tblVars, nlibpath, nk, ncalls>>

\* Mutant: whoever finds no library loads one.
Mut_NilCheck(t) ==
    /\ Move(t, "init", IF fuseDll = NoLib THEN "load" ELSE "use")
    /\ UNCHANGED <<libVars, tblVars, nlibpath, nk, ncalls>>

\* c_hostFuseInit: fuseOnce.Do runs the function, waits for it, or passes.
\* A thread that finds no library panics.
FuseInit(t) ==
    /\ \/ /\ once = "new" /\ once' = t
          /\ Move(t, "init", "load")
       \/ /\ once = "done" /\ UNCHANGED once
          /\ Move(t, "init", IF fuseDll # NoLib THEN "use" ELSE "idle")
    /\ UNCHANGED <<nocgoPath, fuseDll, proc, panicked, tblVars, nlibpath, nk, ncalls>>

\* fspload: the configured path, if it loads, or else the default.  A string
\* that is half written may lead to any library or to none.
Loaded(p) == IF p \in Paths /\ PathLib[p] # NoLib THEN PathLib[p] ELSE Default

Fspload(t) ==
    \E p \in IF nocgoPath = Torn THEN Paths \cup {NoPath} ELSE {nocgoPath} :
        /\ fuseDll' = Loaded(p)
        /\ once' = IF Loaded(p) = NoLib THEN "done" ELSE once
        /\ Move(t, "load", IF Loaded(p) = NoLib THEN "idle" ELSE "find")
        /\ nk' = [nk EXCEPT ![t] = 1]
        /\ UNCHANGED <<nocgoPath, proc, panicked, tblVars, nlibpath, ncalls>>

\* MustFindProc for each procedure in turn, FindProc for the last.  A panic ends
\* the function, and the call, and the Once counts as done.
FindProc(t) ==
    LET i == nk[t]
        found == i \in ProcsOf[fuseDll]
        fails == i \in Required /\ ~found
        last  == fails \/ i = Optional
    IN
    /\ Move(t, "find", IF fails THEN "idle" ELSE IF last THEN "use" ELSE "find")
    /\ proc' = [proc EXCEPT ![i] = IF found THEN fuseDll ELSE NoLib]
    /\ nk' = [nk EXCEPT ![t] = IF last THEN 1 ELSE @ + 1]
    /\ once' = IF last THEN "done" ELSE once
    /\ panicked' = (panicked \/ fails)
    /\ UNCHANGED <<nocgoPath, fuseDll, tblVars, nlibpath, ncalls>>

\* OptParse ends here, and so does a Mount that cannot parse its options, or
\* that panics on a procedure that was never found.
Leave(t) ==
    /\ Move(t, "use", "idle")
    /\ UNCHANGED <<libVars, tblVars, nlibpath, nk, ncalls>>

-----------------------------------------------------------------------------
(* The handle of a mount *)

\* hostHandleNew: malloc, then the entry, under hostGuard.
HandleMalloc(t) ==
    /\ Move(t, "use", "enter")
    /\ \E a \in Addresses \ heap :
          heap' = heap \cup {a} /\ hndl' = [hndl EXCEPT ![t] = a]
    /\ UNCHANGED <<libVars, hostTable, nlibpath, nk, ncalls>>

HandleEnter(t) ==
    /\ Move(t, "enter", "main")
    /\ hostTable' = [hostTable EXCEPT ![hndl[t]] = t]
    /\ UNCHANGED <<libVars, heap, hndl, nlibpath, nk, ncalls>>

\* fuse_main_real runs, and calls back, until it returns.
MainReturns(t) ==
    /\ Move(t, "main", "delete")
    /\ UNCHANGED <<libVars, tblVars, nlibpath, nk, ncalls>>

\* Mutant: the block is freed before the entry is deleted.
Mut_FreedFirst(t) ==
    /\ \/ /\ Move(t, "delete", "free")
          /\ heap' = heap \ {hndl[t]}
          /\ UNCHANGED <<hostTable, hndl>>
       \/ /\ Move(t, "free", "idle")
          /\ hostTable' = [hostTable EXCEPT ![hndl[t]] = NoLib]
          /\ hndl' = [hndl EXCEPT ![t] = NoLib]
          /\ UNCHANGED heap
    /\ UNCHANGED <<libVars, nlibpath, nk, ncalls>>

\* hostHandleDel: the entry, under hostGuard, then free.
HandleDel(t) ==
    /\ \/ /\ Move(t, "delete", "free")
          /\ hostTable' = [hostTable EXCEPT ![hndl[t]] = NoLib]
          /\ UNCHANGED <<heap, hndl>>
       \/ /\ Move(t, "free", "idle")
          /\ heap' = heap \ {hndl[t]}
          /\ hndl' = [hndl EXCEPT ![t] = NoLib]
          /\ UNCHANGED hostTable
    /\ UNCHANGED <<libVars, nlibpath, nk, ncalls>>

NocgoNext == \E t \in Threads :
    \/ \E p \in Paths \cup {NoPath} : NocgoCall(t, p)
    \/ SetPath(t) \/ FuseInit(t) \/ Fspload(t) \/ FindProc(t) \/ Leave(t)
    \/ HandleMalloc(t) \/ HandleEnter(t) \/ MainReturns(t)
    \/ HandleDel(t)

NocgoSpec == NocgoInit /\ [][NocgoNext]_nocgoVars

-----------------------------------------------------------------------------
(* Properties *)

\* Whoever gets past c_hostFuseInit has the library, one for all, and every
\* procedure that is not optional; only after MustFindProc has panicked in the
\* first caller may a later one find a nil procedure
\* (host_nocgo_windows.go:501-518).
LibraryIsWhole ==
    \A t \in Threads : npc[t] \in {"use", "enter", "main"} =>
        /\ fuseDll # NoLib
        /\ ~panicked => \A i \in Required : proc[i] = fuseDll

\* A callback of a mount finds its own host, from hostHandleNew to hostHandleDel,
\* though the heap gives a freed address to the next mount at once
\* (host_nocgo_windows.go:310-328).
HandleFindsItsHost ==
    \A t \in Threads : npc[t] = "main" => hostTable[hndl[t]] = t
=============================================================================
