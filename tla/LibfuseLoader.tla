--------------------------- MODULE LibfuseLoader ---------------------------
(***************************************************************************)
(* Loading the FUSE library once per process (src/fuse/cgofuse_cgo.h,      *)
(* UNIX): cgofuse_set_libfuse_path, the double-checked cgofuse_init_fast   *)
(* and cgofuse_init_slow, and cgofuse_init_fuse, which opens a library and *)
(* resolves its symbols one by one into the pfn_ pointers.  The threads    *)
(* are goroutines that call Mount (of hosts of their own, with or without  *)
(* SetLibfusePath) or OptParse; then they call through a pointer.          *)
(* The barrier pair makes every pointer visible before cgofuse_module, so  *)
(* memory is sequentially consistent here.  External: dlopen and dlsym.    *)
(***************************************************************************)
EXTENDS Libraries, FiniteSets

CONSTANTS
    NSyms,       \* the symbols are resolved in the order 1..NSyms
    Exports,     \* the symbols each library has
    Freed        \* cgofuse_libfuse_path points to freed memory

Syms     == 1..NSyms

ASSUME LoaderAssumption ==
    /\ NSyms \in Nat \ {0} /\ MaxCalls \in Nat
    /\ NoLib \notin Libs
    /\ Paths \cap {NoPath, Freed} = {} /\ NoPath # Freed
    /\ PathLib \in [Paths -> MaybeLib]
    /\ Default \in MaybeLib
    /\ Exports \in [Libs -> SUBSET Syms]
    /\ NoLib \notin Threads

VARIABLES
    path,      \* cgofuse_libfuse_path
    module,    \* cgofuse_module
    pfn,       \* the library each pfn_ pointer points into
    mutex,     \* the holder of cgofuse_mutex, or NoLib
    pc,        \* control point of each thread
    libpath,   \* host.libpath of the Mount a thread is in
    h,         \* the library a thread has opened
    k,         \* the symbol it resolves next
    calls,     \* calls made by each thread
    first      \* history: libpath of the first Mount, Freed before it

vars == <<path, module, pfn, mutex, pc, libpath, h, k, calls, first>>

PCs == {"idle", "free", "strdup", "fast", "lock", "check", "open", "sym",
        "publish", "unlock", "use"}

Init ==
    /\ path = NoPath /\ module = NoLib
    /\ pfn = [i \in Syms |-> NoLib] /\ mutex = NoLib
    /\ pc = [t \in Threads |-> "idle"]
    /\ libpath = [t \in Threads |-> NoPath]
    /\ h = [t \in Threads |-> NoLib] /\ k = [t \in Threads |-> 1]
    /\ calls = [t \in Threads |-> 0]
    /\ first = Freed

Goto(t, from, to) == pc[t] = from /\ pc' = [pc EXCEPT ![t] = to]

Call(t) == calls[t] < MaxCalls /\ calls' = [calls EXCEPT ![t] = @ + 1]

\* Mount of a host with libpath p; only a path that is set is handed to C.
CallMount(t, p) ==
    /\ Goto(t, "idle", IF p = NoPath THEN "fast" ELSE "free")
    /\ Call(t)
    /\ libpath' = [libpath EXCEPT ![t] = p]
    /\ first' = IF first = Freed THEN p ELSE first
    /\ UNCHANGED <<path, module, pfn, mutex, h, k>>

\* OptParse loads the library too, and knows of no host.
CallOptParse(t) ==
    /\ Goto(t, "idle", "fast")
    /\ Call(t)
    /\ UNCHANGED <<path, module, pfn, mutex, libpath, h, k, first>>

\* cgofuse_set_libfuse_path takes no lock: free, then strdup and store.
SetPathFree(t) ==
    /\ Goto(t, "free", "strdup")
    /\ path' = IF path = NoPath THEN NoPath ELSE Freed
    /\ UNCHANGED <<module, pfn, mutex, libpath, h, k, calls, first>>

SetPathStore(t) ==
    /\ Goto(t, "strdup", "fast")
    /\ path' = libpath[t]
    /\ UNCHANGED <<module, pfn, mutex, libpath, h, k, calls, first>>

\* cgofuse_init_fast: without a module, cgofuse_init_slow.
InitFast(t) ==
    /\ Goto(t, "fast", IF module # NoLib THEN "use" ELSE "lock")
    /\ UNCHANGED <<path, module, pfn, mutex, libpath, h, k, calls, first>>

Lock(t) ==
    /\ Goto(t, "lock", "check")
    /\ mutex = NoLib /\ mutex' = t
    /\ UNCHANGED <<path, module, pfn, libpath, h, k, calls, first>>

\* Mutant: no second check under the mutex.
Mut_NoRecheck(t) ==
    /\ Goto(t, "check", "open")
    /\ UNCHANGED <<path, module, pfn, mutex, libpath, h, k, calls, first>>

\* The second check, under the mutex.
Check(t) ==
    /\ Goto(t, "check", IF module # NoLib THEN "unlock" ELSE "open")
    /\ UNCHANGED <<path, module, pfn, mutex, libpath, h, k, calls, first>>

\* dlopen of the configured path, then of the built-in names.  A path that was
\* freed by another thread may still read as any old path, or as none.
Opened(p) == IF p \in Paths /\ PathLib[p] # NoLib THEN PathLib[p] ELSE Default

Open(t) ==
    /\ \E p \in IF path = Freed THEN Paths \cup {NoPath} ELSE {path} :
          /\ h' = [h EXCEPT ![t] = Opened(p)]
          /\ Goto(t, "open", IF Opened(p) = NoLib THEN "publish" ELSE "sym")
    /\ k' = [k EXCEPT ![t] = 1]
    /\ UNCHANGED <<path, module, pfn, mutex, libpath, calls, first>>

\* Mutant: a missing symbol does not make the load fail.
Mut_MissingSymbolKept(t) ==
    LET found == k[t] \in Exports[h[t]] IN
    /\ pc[t] = "sym"
    /\ pfn' = [pfn EXCEPT ![k[t]] = IF found THEN h[t] ELSE NoLib]
    /\ IF found /\ k[t] < NSyms
       THEN Goto(t, "sym", "sym") /\ k' = [k EXCEPT ![t] = @ + 1]
       ELSE Goto(t, "sym", "publish") /\ UNCHANGED k
    /\ UNCHANGED <<path, module, mutex, libpath, h, calls, first>>

\* CGOFUSE_GET_API: a symbol that is missing leaves a null pointer, and the
\* pointers resolved so far, behind.
GetApi(t) ==
    LET found == k[t] \in Exports[h[t]] IN
    /\ pc[t] = "sym"
    /\ pfn' = [pfn EXCEPT ![k[t]] = IF found THEN h[t] ELSE NoLib]
    /\ h' = [h EXCEPT ![t] = IF found THEN @ ELSE NoLib]
    /\ IF found /\ k[t] < NSyms
       THEN Goto(t, "sym", "sym") /\ k' = [k EXCEPT ![t] = @ + 1]
       ELSE Goto(t, "sym", "publish") /\ UNCHANGED k
    /\ UNCHANGED <<path, module, mutex, libpath, calls, first>>

Publish(t) ==
    /\ Goto(t, "publish", "unlock")
    /\ module' = h[t]
    /\ UNCHANGED <<path, pfn, mutex, libpath, h, k, calls, first>>

\* Mutant: the failing return comes before pthread_mutex_unlock.
Mut_FailureKeepsMutex(t) ==
    /\ Goto(t, "unlock", IF module # NoLib THEN "use" ELSE "idle")
    /\ mutex' = IF module # NoLib THEN NoLib ELSE t
    /\ UNCHANGED <<path, module, pfn, libpath, h, k, calls, first>>

\* Without a module Mount and OptParse panic; the caller may recover and retry.
Unlock(t) ==
    /\ Goto(t, "unlock", IF module # NoLib THEN "use" ELSE "idle")
    /\ mutex' = NoLib
    /\ UNCHANGED <<path, module, pfn, libpath, h, k, calls, first>>

\* The library is called through the pointers, and the call returns.
Return(t) ==
    /\ Goto(t, "use", "idle")
    /\ UNCHANGED <<path, module, pfn, mutex, libpath, h, k, calls, first>>

Work(t) ==
    \/ SetPathFree(t) \/ SetPathStore(t)
    \/ InitFast(t) \/ Lock(t) \/ Check(t) \/ Open(t) \/ GetApi(t)
    \/ Publish(t) \/ Unlock(t) \/ Return(t)

Next == \E t \in Threads :
    \/ \E p \in Paths \cup {NoPath} : CallMount(t, p)
    \/ CallOptParse(t)
    \/ Work(t)

Spec == Init /\ [][Next]_vars

\* The scheduler runs every thread; a pthread mutex lets every waiter in.
FairSpec == Spec /\ \A t \in Threads : WF_vars(Work(t)) /\ SF_vars(Lock(t))

-----------------------------------------------------------------------------
(* Properties *)

TypeOK ==
    /\ path \in Paths \cup {NoPath, Freed} /\ module \in MaybeLib
    /\ pfn \in [Syms -> MaybeLib] /\ mutex \in Threads \cup {NoLib}
    /\ pc \in [Threads -> PCs]
    /\ libpath \in [Threads -> Paths \cup {NoPath}]
    /\ h \in [Threads -> MaybeLib] /\ k \in [Threads -> Syms]
    /\ calls \in [Threads -> Nat]
    /\ first \in Paths \cup {NoPath, Freed}

\* A library that other threads can see is resolved completely, and every
\* pointer is of that one library, however many loads failed half-way before
\* (cgofuse_cgo.h:70-94, 223-230).
PublishedLibraryIsWhole ==
    module # NoLib => \A i \in Syms : pfn[i] = module

\* Whoever calls through a pointer calls into a library (inl_*, 127-152).
CallersHaveALibrary ==
    \A t \in Threads : pc[t] = "use" => module # NoLib

\* The library is loaded once per process: neither the module nor a pointer
\* ever changes again (cgofuse_cgo.h:60-61).
LoadedOnce == [][module # NoLib => UNCHANGED <<module, pfn>>]_vars

\* Every Mount or OptParse gets past loading, with a library or a panic:
\* every path out of cgofuse_init_slow unlocks (cgofuse_cgo.h:82-93).
LoadingEnds ==
    \A t \in Threads : pc[t] = "fast" ~> pc[t] \in {"use", "idle"}

\* The path given for the first mount decides the library, if there is one at
\* it (config.go:123-127).  False when OptParse or a concurrent Mount of
\* another host has loaded a library first.
FirstMountsValueWins ==
    module # NoLib /\ first \in Paths => PathLib[first] \in {NoLib, module}
=============================================================================
