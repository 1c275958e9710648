-------------------------- MODULE Dispatch_proofs --------------------------
(***************************************************************************)
(* The handlers, for any number of library threads, files and handles and  *)
(* for any file systems.  One invariant, ChainInv, says where a request is *)
(* in its chain of calls; the others who has each handle: the kernel, an   *)
(* answer on its way to the kernel, or a release on its way to the file    *)
(* system.                                                                 *)
(***************************************************************************)
EXTENDS Dispatch, TLAPS

USE DispatchAssumption DEF None

\* A request whose last method has returned has no call left; one that waits
\* waits for its first method or, hostCreate only, for what makes up for it.
Chained(r) ==
    r.call # None =>
        \/ r.op # "Create" /\ r.call = FirstCall(r.op, r.flags) /\ r.did = {}
        \/ r.op = "Create" /\ r.call \in {"Create", "CreateEx", "Mknod"} /\ r.did = {}
        \/ r.op = "Create" /\ r.call \in {"Open", "OpenEx"} /\ r.did = {"Mknod"}

Earned(r) ==
    r.call = None /\ r.errc = "ok" =>
        \/ r.did \in Fulfilments(r)
        \/ r.did = {} /\ r.op \in Forgiving \cap fs.inherits
        \/ r.did = {} /\ r.op \in Pretending \ fs.optional

ChainInv == \A t \in Threads : req[t] # Idle => Chained(req[t]) /\ Earned(req[t])

-----------------------------------------------------------------------------
(* The tables *)

AllOps == CommonOps \cup Fuse2Only \cup Fuse3Only \cup WinFspOnly

LEMMA TableIsKnown ==
    ASSUME TypeOK
    PROVE  Table \subseteq AllOps
BY DEF TypeOK, Table, AllOps

LEMMA NoneIsNoMethod == None \notin Methods /\ None \notin AllOps
BY DEF Methods, AllOps, CommonOps, Optional, Fuse2Only, Fuse3Only, WinFspOnly

LEMMA ExtendedFacts ==
    /\ DOMAIN Extended = {"Open", "Create", "Rename", "Chmod", "Chown", "Utimens"}
    /\ Extended["Open"] = "OpenEx" /\ Extended["Create"] = "CreateEx"
    /\ Extended["Rename"] = "Rename3" /\ Extended["Chmod"] = "Chmod3"
    /\ Extended["Chown"] = "Chown3" /\ Extended["Utimens"] = "Utimens3"
BY DEF Extended

\* What the first call of each operation may be.
LEMMA FirstCallFacts ==
    ASSUME NEW op \in AllOps, NEW flags \in BOOLEAN
    PROVE  /\ FirstCall(op, flags) \in Methods \cup {None}
           /\ FirstCall(op, flags) \in Openers <=> op \in {"Open", "Opendir"}
           /\ FirstCall(op, flags) \in Makers <=> op = "Create"
           /\ FirstCall(op, flags) \in Closers <=> op \in Closers
           /\ FirstCall(op, flags) = "Mknod" <=> op = "Mknod"
           /\ op \in Forgiving => FirstCall(op, flags) = op
           /\ FirstCall(op, flags) = None =>
                 op \notin {"Open", "Opendir", "Create"} \cup Closers
<1>1. CASE op \in DOMAIN Extended
  <2>1. FirstCall(op, flags) =
           IF Offers(Extended[op]) THEN Extended[op]
           ELSE IF op = "Rename" /\ flags THEN None ELSE op
    BY <1>1, ExtendedFacts DEF FirstCall, Offers, Optional, Fuse3Only
  <2> QED
    BY <1>1, <2>1, ExtendedFacts
       DEF Methods, CommonOps, Optional, Fuse3Only, Openers, Makers, Closers, Forgiving
<1>2. CASE op \notin DOMAIN Extended
  <2>1. FirstCall(op, flags) =
           CASE op \in Optional -> IF Offers(op) THEN op ELSE None
             [] op = "Ftruncate" -> "Truncate"
             [] op = "Fgetattr" -> "Getattr"
             [] OTHER -> op
    BY <1>2, ExtendedFacts DEF FirstCall
  <2> QED
    BY <1>2, <2>1, ExtendedFacts
       DEF AllOps, Methods, CommonOps, Optional, Fuse2Only, Fuse3Only, WinFspOnly, Openers,
           Makers, Closers, Forgiving
<1> QED
  BY <1>1, <1>2

-----------------------------------------------------------------------------
(* The steps, field by field *)

LEMMA IdleIsNoRequest ==
    ASSUME TypeOK, NEW t \in Threads
    PROVE  req[t] # Idle <=> req[t] \in Request
<1>1. \A r \in Request : r.op \in AllOps
  BY TableIsKnown DEF Request
<1>2. Idle.op = None
  BY DEF Idle
<1>3. Idle \notin Request
  BY <1>1, <1>2, NoneIsNoMethod
<1> QED
  BY <1>3 DEF TypeOK

\* A request is taken up.
LEMMA AskFacts ==
    ASSUME TypeOK, NEW t \in Threads, Ask(t)
    PROVE  /\ req[t] = Idle
           /\ \E r \in Request :
                 /\ req' = [req EXCEPT ![t] = r]
                 /\ r.call = FirstCall(r.op, r.flags)
                 /\ r.fi \in Inputs(r.op, r.file)
                 /\ <<r.file2, r.fi2>> \in Targets(r.op, r.file)
                 /\ r.fh = FileHandle(r.fi) /\ r.fh2 = FileHandle(r.fi2)
                 /\ r.errc = Default(r.op) /\ r.did = {} /\ r.out = NoHandle
                 /\ r.op \in Closers => ~Busy(r.fi)
                 /\ fds' = IF r.op \in Closers
                           THEN fds \ {d \in fds : d.fh = r.fi /\ d.file = r.file}
                           ELSE fds
           /\ UNCHANGED <<fs, build, nodes, opened>>
<1>1. PICK op \in Ops \cap Table, file \in Files :
       \E fi \in Inputs(op, file), target \in Targets(op, file) :
        \E flags \in IF op = "Rename" /\ build = "fuse3" THEN BOOLEAN ELSE {FALSE} :
          LET fhs == FileHandles(fi, target[2]) IN
          /\ req[t] = Idle
          /\ op \in Closers => ~Busy(fi)
          /\ req' = [req EXCEPT ![t] =
                [op |-> op, flags |-> flags,
                 file |-> file, fi |-> fi, fh |-> fhs[1],
                 file2 |-> target[1], fi2 |-> target[2], fh2 |-> fhs[2],
                 call |-> FirstCall(op, flags),
                 errc |-> Default(op), out |-> NoHandle, did |-> {}]]
          /\ fds' = IF op \in Closers
                    THEN fds \ {d \in fds : d.fh = fi /\ d.file = file}
                    ELSE fds
          /\ UNCHANGED <<fs, build, nodes, opened>>
  BY Zenon DEF Ask
<1>2. PICK fi \in Inputs(op, file), target \in Targets(op, file),
           flags \in IF op = "Rename" /\ build = "fuse3" THEN BOOLEAN ELSE {FALSE} :
        /\ req[t] = Idle
        /\ op \in Closers => ~Busy(fi)
        /\ req' = [req EXCEPT ![t] =
              [op |-> op, flags |-> flags,
               file |-> file, fi |-> fi, fh |-> FileHandles(fi, target[2])[1],
               file2 |-> target[1], fi2 |-> target[2], fh2 |-> FileHandles(fi, target[2])[2],
               call |-> FirstCall(op, flags),
               errc |-> Default(op), out |-> NoHandle, did |-> {}]]
        /\ fds' = IF op \in Closers
                  THEN fds \ {d \in fds : d.fh = fi /\ d.file = file}
                  ELSE fds
        /\ UNCHANGED <<fs, build, nodes, opened>>
  BY ONLY <1>1, Zenon
<1> DEFINE r == [op |-> op, flags |-> flags,
                 file |-> file, fi |-> fi, fh |-> FileHandles(fi, target[2])[1],
                 file2 |-> target[1], fi2 |-> target[2], fh2 |-> FileHandles(fi, target[2])[2],
                 call |-> FirstCall(op, flags),
                 errc |-> Default(op), out |-> NoHandle, did |-> {}]
<1>3. /\ FileHandles(fi, target[2])[1] = FileHandle(fi)
       /\ FileHandles(fi, target[2])[2] = FileHandle(target[2])
  BY DEF FileHandles
<1>4. flags \in BOOLEAN
  OBVIOUS
<1>5. op \in AllOps
  BY TableIsKnown
<1>6. FirstCall(op, flags) \in Methods \cup {None}
  BY <1>5, <1>4, FirstCallFacts
<1>7. fi \in AHandle \cup {Nil}
  BY DEF TypeOK, Inputs, HeldHandles
<1>8. target[1] \in Files /\ target[2] \in AHandle \cup {Nil} /\ target = <<target[1], target[2]>>
  BY DEF TypeOK, Targets
<1>9. FileHandle(fi) \in AHandle /\ FileHandle(target[2]) \in AHandle
  BY <1>7, <1>8 DEF FileHandle, AHandle
<1>10. Default(op) \in Errnos
  BY DEF Default, Errnos
<1>11. r \in Request
  BY <1>6, <1>7, <1>8, <1>9, <1>10, <1>3, <1>4 DEF Request, AHandle
<1>12. /\ r.op = op /\ r.file = file /\ r.fi = fi /\ r.flags = flags
       /\ r.file2 = target[1] /\ r.fi2 = target[2]
       /\ r.call = FirstCall(op, flags) /\ r.fh = FileHandle(fi)
       /\ r.fh2 = FileHandle(target[2])
       /\ r.errc = Default(op) /\ r.out = NoHandle /\ r.did = {}
  BY <1>3
<1>13. req' = [req EXCEPT ![t] = r]
  BY <1>2
<1> HIDE DEF r
<1>14. <<target[1], target[2]>> \in Targets(op, file) /\ fi \in Inputs(op, file)
  BY <1>8
<1>15. \A c : r.op \in c <=> op \in c
  BY <1>12
<1> QED
  BY ONLY <1>2, <1>11, <1>12, <1>13, <1>14, <1>15

\* What a method answers changes no handle of its request.
SameHandles(r, q) ==
    /\ r.op = q.op /\ r.file = q.file /\ r.fi = q.fi /\ r.fh = q.fh
    /\ r.file2 = q.file2 /\ r.fi2 = q.fi2 /\ r.fh2 = q.fh2

\* A method returns.
LEMMA ReturnFacts ==
    ASSUME TypeOK, NEW t \in Threads, Return(t)
    PROVE  /\ Waiting(t) /\ req[t] \in Request
           /\ \E said \in Errnos, out \in AHandle, r \in Request :
                 /\ Does(req[t].call, req[t].file, req[t].fh, said, out)
                 /\ req' = [req EXCEPT ![t] = r]
                 /\ r.op = req[t].op /\ r.flags = req[t].flags
                 /\ SameHandles(r, req[t])
                 /\ r.call = NextCall(req[t], said)
                 /\ r.errc = Answer(req[t], said)
                 /\ r.out = HandleOut(req[t], out)
                 /\ r.did = IF said = "ok" THEN req[t].did \cup {req[t].call} ELSE req[t].did
           /\ UNCHANGED <<fs, build, fds>>
<1> DEFINE q == req[t]
<1>1. Waiting(t) /\ q \in Request
  BY IdleIsNoRequest DEF Return, Waiting
<1>2. PICK said \in Errnos, out \in AHandle :
         /\ Does(q.call, q.file, q.fh, said, out)
         /\ req' = [req EXCEPT ![t] =
                [q EXCEPT !.call = NextCall(q, said),
                          !.errc = Answer(q, said),
                          !.out  = HandleOut(q, out),
                          !.did  = IF said = "ok" THEN q.did \cup {q.call} ELSE q.did]]
         /\ UNCHANGED <<fs, build, fds>>
  BY <1>1 DEF Return, Request
<1> DEFINE r == [q EXCEPT !.call = NextCall(q, said),
                          !.errc = Answer(q, said),
                          !.out  = HandleOut(q, out),
                          !.did  = IF said = "ok" THEN q.did \cup {q.call} ELSE q.did]
<1>3. NextCall(q, said) \in Methods \cup {None}
  BY DEF NextCall, Methods, CommonOps, Optional
<1>4. Answer(q, said) \in Errnos /\ HandleOut(q, out) \in AHandle
  BY <1>1 DEF Answer, HandleOut, Errnos, Request
<1>5. q.call \in Methods
  BY <1>1 DEF Waiting, Request
<1>6. r \in Request
  BY <1>1, <1>3, <1>4, <1>5 DEF Request
<1>7. /\ r.op = q.op /\ r.flags = q.flags /\ SameHandles(r, q)
      /\ r.call = NextCall(q, said) /\ r.errc = Answer(q, said) /\ r.out = HandleOut(q, out)
      /\ r.did = IF said = "ok" THEN q.did \cup {q.call} ELSE q.did
  BY <1>1 DEF Request, SameHandles
<1>8. req' = [req EXCEPT ![t] = r]
  BY <1>2
<1>9. Does(q.call, q.file, q.fh, said, out) /\ UNCHANGED <<fs, build, fds>>
  BY <1>2
<1> HIDE DEF r
<1> QED
  BY ONLY <1>1, <1>6, <1>7, <1>8, <1>9, said \in Errnos, out \in AHandle

\* A method panics.
LEMMA PanicFacts ==
    ASSUME TypeOK, NEW t \in Threads, Panic(t)
    PROVE  /\ Waiting(t) /\ req[t] \in Request
           /\ \E r \in Request :
                 /\ req' = [req EXCEPT ![t] = r]
                 /\ r.op = req[t].op /\ r.flags = req[t].flags
                 /\ SameHandles(r, req[t])
                 /\ r.call = None /\ r.errc # "ok"
                 /\ r.out = req[t].out /\ r.did = req[t].did
           /\ opened' = Closed(req[t].call, req[t].fh)
           /\ UNCHANGED <<fs, build, nodes, fds>>
<1> DEFINE q == req[t]
<1>1. Waiting(t) /\ q \in Request
  BY IdleIsNoRequest DEF Panic, Waiting
<1>2. PICK v \in {"ENOENT", "other"} :
         req' = [req EXCEPT ![t].call = None, ![t].errc = PanicAnswer(v)]
  BY DEF Panic
<1> DEFINE r == [q EXCEPT !.call = None, !.errc = PanicAnswer(v)]
<1>3. PanicAnswer(v) \in Errnos /\ PanicAnswer(v) # "ok"
  BY DEF PanicAnswer, Errnos
<1>4. r \in Request
  BY <1>1, <1>3 DEF Request
<1>5. /\ r.op = q.op /\ r.flags = q.flags /\ SameHandles(r, q)
      /\ r.call = None /\ r.errc # "ok" /\ r.out = q.out /\ r.did = q.did
  BY <1>1, <1>3 DEF Request, SameHandles
<1>6. req' = [req EXCEPT ![t] = r]
  BY <1>2 DEF TypeOK
<1> HIDE DEF r
<1> QED
  BY <1>1, <1>4, <1>5, <1>6 DEF Panic

\* An answer is received.
LEMMA ReceiveFacts ==
    ASSUME TypeOK, NEW t \in Threads, Receive(t)
    PROVE  /\ Answered(t) /\ req[t] \in Request
           /\ req' = [req EXCEPT ![t] = Idle]
           /\ UNCHANGED <<fs, build, nodes, opened>>
BY IdleIsNoRequest DEF Receive, Answered

\* What a method does to the handles.
LEMMA DoesFacts ==
    ASSUME NEW m, NEW file, NEW h, NEW said, NEW out, Does(m, file, h, said, out)
    PROVE  /\ m \in Closers => opened' = Closed(m, h)
           /\ m \in Openers \cup Makers /\ said = "ok" =>
                 /\ out \in Handles /\ opened[out] = Free
                 /\ opened' = [opened EXCEPT ![out] = file]
           /\ m \notin Closers /\ ~(m \in Openers \cup Makers /\ said = "ok") =>
                 opened' = opened /\ out = NoHandle
           /\ said = "ENOSYS" => m \in fs.inherits
           /\ nodes' \subseteq nodes \cup {file}
BY DEF Does, Closed, Openers, Makers, Closers

LEMMA TypeStep ==
    ASSUME TypeOK, [Next]_vars
    PROVE  TypeOK'
<1>1. CASE UNCHANGED vars
  BY <1>1 DEF vars, TypeOK, Request, Table
<1>2. ASSUME NEW t \in Threads, Ask(t) PROVE TypeOK'
  <2>1. PICK r \in Request : req' = [req EXCEPT ![t] = r] /\ fds' \subseteq fds
    BY <1>2, AskFacts
  <2>2. UNCHANGED <<fs, build, nodes, opened>>
    BY <1>2, AskFacts
  <2>3. Request' = Request
    BY <2>2 DEF Request, Table
  <2> QED
    BY <2>1, <2>2, <2>3 DEF TypeOK
<1>3. ASSUME NEW t \in Threads, Return(t) PROVE TypeOK'
  <2>1. PICK said \in Errnos, out \in AHandle, r \in Request :
           /\ Does(req[t].call, req[t].file, req[t].fh, said, out)
           /\ req' = [req EXCEPT ![t] = r]
    BY <1>3, ReturnFacts
  <2>2. UNCHANGED <<fs, build, fds>> /\ req[t].file \in Files
    BY <1>3, ReturnFacts DEF Request
  <2>3. Request' = Request
    BY <2>2 DEF Request, Table
  <2>4. /\ \/ opened' = opened
           \/ opened' = Closed(req[t].call, req[t].fh)
           \/ opened' = [opened EXCEPT ![out] = req[t].file]
        /\ nodes' \subseteq nodes \cup {req[t].file}
    BY <2>1, DoesFacts
  <2>5. opened' \in [Handles -> Files \cup {Free}] /\ nodes' \subseteq Files
    BY <2>2, <2>4 DEF TypeOK, Closed
  <2> QED
    BY <2>1, <2>2, <2>3, <2>5 DEF TypeOK
<1>4. ASSUME NEW t \in Threads, Panic(t) PROVE TypeOK'
  <2>1. PICK r \in Request : req' = [req EXCEPT ![t] = r]
    BY <1>4, PanicFacts
  <2>2. UNCHANGED <<fs, build, nodes, fds>> /\ opened' = Closed(req[t].call, req[t].fh)
    BY <1>4, PanicFacts
  <2>3. Request' = Request
    BY <2>2 DEF Request, Table
  <2> QED
    BY <2>1, <2>2, <2>3 DEF TypeOK, Closed
<1>5. ASSUME NEW t \in Threads, Receive(t) PROVE TypeOK'
  <2>1. /\ req[t] \in Request /\ req' = [req EXCEPT ![t] = Idle]
        /\ UNCHANGED <<fs, build, nodes, opened>>
    BY <1>5, ReceiveFacts
  <2>2. Request' = Request
    BY <2>1 DEF Request, Table
  <2>3. req[t].file \in Files /\ req[t].out \in AHandle
    BY <2>1 DEF Request
  <2>4. fds' \subseteq [file : Files, fh : AHandle, by : {"Open", "Opendir"}]
    BY <1>5, <2>3 DEF Receive, TypeOK
  <2> QED
    BY <2>1, <2>2, <2>4 DEF TypeOK
<1> QED
  BY <1>1, <1>2, <1>3, <1>4, <1>5 DEF Next

-----------------------------------------------------------------------------
(* The chain of calls *)

\* What one thread does leaves the others' requests where they are.
LEMMA ChainStep ==
    ASSUME TypeOK, ChainInv, fs' = fs, NEW t \in Threads, NEW r,
           req' = [req EXCEPT ![t] = r], r # Idle => Chained(r) /\ Earned(r)
    PROVE  ChainInv'
<1> SUFFICES ASSUME NEW s \in Threads, req'[s] # Idle
             PROVE  Chained(req[s])' /\ Earned(req[s])'
  BY DEF ChainInv
<1>1. req'[s] = IF s = t THEN r ELSE req[s]
  BY DEF TypeOK
<1>2. Chained(req'[s]) /\ Earned(req'[s])
  BY <1>1 DEF ChainInv
<1> QED
  BY <1>2 DEF Chained, Earned, FirstCall, Offers, Fulfilments

\* A method's success is what is left of the operation.
LEMMA ReturnIsChained ==
    ASSUME NEW q \in Request, NEW r \in Request, NEW said \in Errnos, TypeOK,
           q.call # None, Chained(q),
           said = "ENOSYS" => q.call \in fs.inherits,
           r.op = q.op, r.flags = q.flags, r.call = NextCall(q, said),
           r.errc = Answer(q, said),
           r.did = IF said = "ok" THEN q.did \cup {q.call} ELSE q.did
    PROVE  Chained(r) /\ Earned(r)
<1>1. q.op \in AllOps /\ q.flags \in BOOLEAN
  BY TableIsKnown DEF Request
<1>2. CASE q.op # "Create" /\ q.call = FirstCall(q.op, q.flags) /\ q.did = {}
  <2>1. q.call \notin Makers /\ r.call = None
    BY <1>1, <1>2, FirstCallFacts DEF NextCall
  <2>2. CASE said = "ok"
    <3>1. r.did = {q.call}
      BY <1>2, <2>2
    <3>2. {FirstCall(r.op, r.flags)} \in Fulfilments(r)
      <4>1. CASE r.op \in DOMAIN Extended
        <5>1. \/ FirstCall(r.op, r.flags) = Extended[r.op]
              \/ FirstCall(r.op, r.flags) = r.op /\ ~(r.op = "Rename" /\ r.flags)
          BY <1>1, <1>2, <2>2, <4>1, ExtendedFacts DEF FirstCall, Offers, Optional, Fuse3Only
        <5> QED
          BY <1>1, <1>2, <4>1, <5>1, ExtendedFacts DEF Fulfilments
      <4>2. CASE r.op \notin DOMAIN Extended
        <5>1. FirstCall(r.op, r.flags) = CASE r.op = "Ftruncate" -> "Truncate"
                                           [] r.op = "Fgetattr" -> "Getattr"
                                           [] OTHER -> r.op
          BY <1>1, <1>2, <4>2, ExtendedFacts DEF FirstCall, Optional, Fuse3Only
        <5> QED
          BY <1>2, <4>2, <5>1, ExtendedFacts DEF Fulfilments
      <4> QED
        BY <4>1, <4>2
    <3> QED
      BY <1>2, <2>1, <3>1, <3>2 DEF Chained, Earned
  <2>3. CASE said # "ok"
    <3>1. r.errc = "ok" => said = "ENOSYS" /\ q.op \in Forgiving
      BY <2>3 DEF Answer
    <3>2. r.errc = "ok" => q.op \in fs.inherits
      BY <1>1, <1>2, <3>1, FirstCallFacts
    <3> QED
      BY <1>2, <2>1, <2>3, <3>1, <3>2 DEF Chained, Earned
  <2> QED
    BY <2>2, <2>3
<1>0. q.op = "Create" =>
         Fulfilments(r) = {{"Create"}, {"CreateEx"}, {"Mknod", "Open"}, {"Mknod", "OpenEx"}}
  BY DEF Fulfilments
<1>3. CASE q.op = "Create" /\ q.call \in {"Create", "CreateEx"} /\ q.did = {}
  <2>1. CASE said = "ENOSYS"
    <3>1. r.call = "Mknod" /\ r.did = {}
      BY <1>3, <2>1 DEF NextCall, Makers
    <3> QED
      BY <1>3, <3>1 DEF Chained, Earned
  <2>2. CASE said # "ENOSYS"
    <3>1. r.call = None
      BY <1>3, <2>2 DEF NextCall
    <3>2. r.errc = said
      BY <1>3 DEF Answer, Forgiving
    <3>3. said = "ok" => r.did \in {{"Create"}, {"CreateEx"}}
      BY <1>3
    <3> QED
      BY <1>0, <1>3, <3>1, <3>2, <3>3 DEF Chained, Earned
  <2> QED
    BY <2>1, <2>2
<1>4. CASE q.op = "Create" /\ q.call = "Mknod" /\ q.did = {}
  <2>1. CASE said = "ok"
    <3>1. r.call \in {"Open", "OpenEx"} /\ r.did = {"Mknod"}
      BY <1>4, <2>1 DEF NextCall, Makers
    <3> QED
      BY <1>4, <3>1 DEF Chained, Earned
  <2>2. CASE said # "ok"
    <3>1. r.call = None /\ r.errc # "ok"
      BY <1>4, <2>2 DEF NextCall, Makers, Answer, Forgiving
    <3> QED
      BY <3>1 DEF Chained, Earned
  <2> QED
    BY <2>1, <2>2
<1>5. CASE q.op = "Create" /\ q.call \in {"Open", "OpenEx"} /\ q.did = {"Mknod"}
  <2>1. r.call = None
    BY <1>5 DEF NextCall, Makers
  <2>2. r.errc = said
    BY <1>5 DEF Answer, Forgiving
  <2>3. said = "ok" => r.did \in {{"Mknod", "Open"}, {"Mknod", "OpenEx"}}
    BY <1>5
  <2> QED
    BY <1>0, <1>5, <2>1, <2>2, <2>3 DEF Chained, Earned
<1> QED
  BY <1>2, <1>3, <1>4, <1>5 DEF Chained

LEMMA ChainInvStep ==
    ASSUME TypeOK, ChainInv, [Next]_vars
    PROVE  ChainInv'
<1>1. CASE UNCHANGED vars
  <2>1. req' = req /\ fs' = fs
    BY <1>1 DEF vars
  <2> SUFFICES ASSUME NEW s \in Threads, req'[s] # Idle
               PROVE  Chained(req[s])' /\ Earned(req[s])'
    BY DEF ChainInv
  <2>2. Chained(req'[s]) /\ Earned(req'[s])
    BY <2>1 DEF ChainInv
  <2>3. fs' = fs
    BY <2>1
  <2> QED
    BY ONLY <2>2, <2>3 DEF Chained, Earned, FirstCall, Offers, Fulfilments
<1>2. ASSUME NEW t \in Threads, Ask(t) PROVE ChainInv'
  <2>1. PICK r \in Request :
          /\ req' = [req EXCEPT ![t] = r] /\ r.call = FirstCall(r.op, r.flags)
          /\ r.errc = Default(r.op) /\ r.did = {}
    BY <1>2, AskFacts
  <2>2. r.op \in AllOps /\ r.flags \in BOOLEAN
    BY TableIsKnown DEF Request
  <2>3. Chained(r)
    <3>1. CASE r.op = "Create"
      <4>1. r.call \in Makers
        BY <2>1, <2>2, <3>1, FirstCallFacts
      <4> QED
        BY <2>1, <3>1, <4>1 DEF Chained, Makers
    <3>2. CASE r.op # "Create"
      BY <2>1, <3>2 DEF Chained
    <3> QED
      BY <3>1, <3>2
  <2>4. Earned(r)
    <3> SUFFICES ASSUME r.call = None, r.errc = "ok"
                 PROVE  r.op \in Pretending \ fs.optional
      BY <2>1 DEF Earned
    <3>1. r.op \in Pretending
      BY <2>1 DEF Default
    <3>2. ~Offers(r.op)
      BY <2>1, <3>1, ExtendedFacts DEF FirstCall, Pretending, Optional
    <3> QED
      BY <3>1, <3>2 DEF Offers, Pretending
  <2>5. fs' = fs
    BY <1>2, AskFacts
  <2> QED
    BY <2>1, <2>3, <2>4, <2>5, ChainStep
<1>3. ASSUME NEW t \in Threads, Return(t) PROVE ChainInv'
  <2>1. Waiting(t) /\ req[t] \in Request /\ fs' = fs
    BY <1>3, ReturnFacts
  <2>2. PICK said \in Errnos, out \in AHandle, r \in Request :
           /\ Does(req[t].call, req[t].file, req[t].fh, said, out)
           /\ req' = [req EXCEPT ![t] = r]
           /\ r.op = req[t].op /\ r.flags = req[t].flags
           /\ r.call = NextCall(req[t], said)
           /\ r.errc = Answer(req[t], said)
           /\ r.did = IF said = "ok" THEN req[t].did \cup {req[t].call} ELSE req[t].did
    BY ONLY <1>3, t \in Threads, TypeOK, ReturnFacts
  <2>3. said = "ENOSYS" => req[t].call \in fs.inherits
    BY <2>2, DoesFacts
  <2>4. Chained(req[t]) /\ req[t].call # None
    BY <2>1 DEF ChainInv, Waiting
  <2>5. Chained(r) /\ Earned(r)
    BY ONLY <2>1, <2>2, <2>3, <2>4, TypeOK, ReturnIsChained
  <2> QED
    BY <2>1, <2>2, <2>5, ChainStep
<1>4. ASSUME NEW t \in Threads, Panic(t) PROVE ChainInv'
  <2>1. PICK r \in Request :
           req' = [req EXCEPT ![t] = r] /\ r.call = None /\ r.errc # "ok"
    BY <1>4, PanicFacts
  <2>2. fs' = fs
    BY <1>4, PanicFacts
  <2>3. Chained(r) /\ Earned(r)
    BY <2>1 DEF Chained, Earned
  <2> QED
    BY <2>1, <2>2, <2>3, ChainStep
<1>5. ASSUME NEW t \in Threads, Receive(t) PROVE ChainInv'
  <2>1. req' = [req EXCEPT ![t] = Idle] /\ fs' = fs
    BY <1>5, ReceiveFacts
  <2> QED
    BY <2>1, ChainStep
<1> QED
  BY <1>1, <1>2, <1>3, <1>4, <1>5 DEF Next

-----------------------------------------------------------------------------
(* The handles *)

CarriedBy(t, h) ==
    /\ Answered(t) /\ req[t].op \in {"Open", "Create", "Opendir"}
    /\ req[t].errc = "ok" /\ req[t].out = h
Closing(t) == Waiting(t) /\ req[t].op \in Closers
Held(h)    == \E d \in fds : d.fh = h

\* The handles of a request are those of fi0, or of the two that a copy has, and
\* the kernel keeps each for its file as long as the request is no release.
Users(r, held) ==
    /\ r.fh = FileHandle(r.fi) /\ r.fh2 = FileHandle(r.fi2)
    /\ r.fi \in Handles /\ r.op \notin Closers =>
          \E d \in held : d.fh = r.fi /\ d.file = r.file
    /\ r.fi2 \in Handles => \E d \in held : d.fh = r.fi2 /\ d.file = r.file2

UsersInv == \A t \in Threads : req[t] # Idle => Users(req[t], fds)

\* A handle that is held, carried or being closed is open for its file.
OpenInv ==
    /\ \A d \in fds :
          IF d.fh = NoHandle THEN d.by = "Opendir" /\ "Opendir" \in fs.inherits
                             ELSE opened[d.fh] = d.file
    /\ \A t \in Threads, h \in AHandle : CarriedBy(t, h) =>
          IF h = NoHandle THEN req[t].op = "Opendir" /\ "Opendir" \in fs.inherits
                          ELSE opened[h] = req[t].file
    /\ \A t \in Threads : Closing(t) /\ req[t].fh \in Handles =>
          opened[req[t].fh] = req[t].file

\* It is one of the three, and by one thread only.
OneInv ==
    /\ \A t \in Threads, h \in Handles : CarriedBy(t, h) => ~Held(h)
    /\ \A t \in Threads, h \in Handles : Closing(t) /\ req[t].fh = h =>
          ~Held(h) /\ \A s \in Threads : ~CarriedBy(s, h)
    /\ \A s, t \in Threads : s # t =>
          /\ \A h \in Handles : ~(CarriedBy(s, h) /\ CarriedBy(t, h))
          /\ Closing(s) /\ Closing(t) /\ req[s].fh \in Handles => req[s].fh # req[t].fh

\* No open handle is lost.
KeptInv ==
    \A h \in Handles : opened[h] # Free =>
        \/ Held(h)
        \/ \E t \in Threads : CarriedBy(t, h)
        \/ \E t \in Threads : Closing(t) /\ req[t].fh = h

HandleInv == UsersInv /\ OpenInv /\ OneInv /\ KeptInv

IInv == TypeOK /\ ChainInv /\ HandleInv

LEMMA NoHandleIsNone ==
    /\ NoHandle \notin Handles /\ Nil \notin Handles /\ Free \notin Files
    /\ \A fi \in AHandle \cup {Nil} : FileHandle(fi) \in Handles <=> fi \in Handles
    /\ \A fi \in Handles : FileHandle(fi) = fi
BY DEF AHandle, FileHandle

\* What a thread has, seen from its request.
LEMMA ThreadFacts ==
    ASSUME TypeOK, NEW t \in Threads, NEW r, req' = [req EXCEPT ![t] = r]
    PROVE  /\ req'[t] = r
           /\ \A s \in Threads \ {t} :
                 /\ req'[s] = req[s]
                 /\ Closing(s)' <=> Closing(s)
                 /\ \A h : CarriedBy(s, h)' <=> CarriedBy(s, h)
BY DEF TypeOK, Closing, CarriedBy, Waiting, Answered

\* A request that needs no release, and carries nothing, disturbs nobody.
LEMMA QuietStep ==
    ASSUME IInv, NEW t \in Threads, NEW r,
           req' = [req EXCEPT ![t] = r], UNCHANGED <<fs, opened, fds>>,
           ~Closing(t), ~Closing(t)',
           \A h \in Handles : ~CarriedBy(t, h),
           \A h \in AHandle : CarriedBy(t, h)' =>
              h = NoHandle /\ r.op = "Opendir" /\ "Opendir" \in fs.inherits,
           r # Idle => Users(r, fds)
    PROVE  HandleInv'
<1>1. TypeOK
  BY DEF IInv
<1>2. /\ req'[t] = r
      /\ \A s \in Threads \ {t} :
            /\ req'[s] = req[s]
            /\ Closing(s)' <=> Closing(s)
            /\ \A h : CarriedBy(s, h)' <=> CarriedBy(s, h)
  BY <1>1, ThreadFacts
<1>3. \A h : Held(h)' <=> Held(h)
  BY DEF Held
<1>4. \A h \in Handles : h \in AHandle /\ h # NoHandle
  BY NoHandleIsNone DEF AHandle
<1>5. UsersInv'
  BY <1>2 DEF IInv, HandleInv, UsersInv
<1>6. OpenInv'
  BY <1>2 DEF IInv, HandleInv, OpenInv
<1>7. OneInv'
  BY <1>2, <1>3, <1>4 DEF IInv, HandleInv, OneInv
<1>8. KeptInv'
  BY <1>2, <1>3, <1>4 DEF IInv, HandleInv, KeptInv
<1> QED
  BY <1>5, <1>6, <1>7, <1>8 DEF HandleInv

\* The kernel gives a handle up, and the release carries it.
LEMMA AskKeepsHandleInv ==
    ASSUME IInv, NEW t \in Threads, Ask(t)
    PROVE  HandleInv'
<1>1. TypeOK
  BY DEF IInv
<1>2. req[t] = Idle /\ UNCHANGED <<fs, build, nodes, opened>>
  BY <1>1, AskFacts
<1>3. PICK r \in Request :
         /\ req' = [req EXCEPT ![t] = r]
         /\ r.call = FirstCall(r.op, r.flags)
         /\ r.fi \in Inputs(r.op, r.file)
         /\ <<r.file2, r.fi2>> \in Targets(r.op, r.file)
         /\ r.fh = FileHandle(r.fi) /\ r.fh2 = FileHandle(r.fi2)
         /\ r.op \in Closers => ~Busy(r.fi)
         /\ fds' = IF r.op \in Closers
                   THEN fds \ {d \in fds : d.fh = r.fi /\ d.file = r.file}
                   ELSE fds
  BY <1>1, AskFacts
<1>4. r.op \in AllOps /\ r.flags \in BOOLEAN
  BY <1>1, TableIsKnown DEF Request
<1>5. /\ req'[t] = r
      /\ \A s \in Threads \ {t} :
            /\ req'[s] = req[s]
            /\ Closing(s)' <=> Closing(s)
            /\ \A h : CarriedBy(s, h)' <=> CarriedBy(s, h)
  BY <1>1, <1>3, ThreadFacts
<1>6. ~Closing(t) /\ \A h : ~CarriedBy(t, h)
  BY <1>2 DEF Closing, CarriedBy, Waiting, Answered
<1>7. r # Idle
  BY <1>4, NoneIsNoMethod DEF Idle
<1>8. \A h : ~CarriedBy(t, h)'
  <2>1. r.call = None => r.op \notin {"Open", "Create", "Opendir"}
    <3> SUFFICES ASSUME FirstCall(r.op, r.flags) = None
                 PROVE  r.op \notin {"Open", "Opendir", "Create"} \cup Closers
      BY <1>3
    <3> QED
      BY <1>4, FirstCallFacts, Zenon
  <2> QED
    BY <1>5, <2>1 DEF CarriedBy, Answered
<1>9. /\ r.fi \in Handles => \E d \in fds : d.fh = r.fi /\ d.file = r.file
      /\ r.fi2 \in Handles => /\ r.op \notin Closers
                              /\ \E d \in fds : d.fh = r.fi2 /\ d.file = r.file2
  <2>1. r.fi \in Handles => \E d \in fds : d.fh = r.fi /\ d.file = r.file
    BY <1>3, NoHandleIsNone DEF Inputs, HeldHandles
  <2>2. CASE r.op = "CopyFileRange"
    <3>1. PICK d \in fds : <<r.file2, r.fi2>> = <<d.file, d.fh>>
      BY <1>3, <2>2 DEF Targets
    <3> QED
      BY <2>1, <2>2, <3>1 DEF Closers
  <2>3. CASE r.op # "CopyFileRange"
    <3>1. r.fi2 = Nil
      BY <1>3, <2>3 DEF Targets
    <3> QED
      BY <2>1, <3>1, NoHandleIsNone
  <2> QED
    BY <2>2, <2>3
<1>10. CASE r.op \notin Closers
  <2>1. ~Closing(t)'
    BY <1>5, <1>10 DEF Closing
  <2>2. fds' = fds
    BY <1>3, <1>10
  <2> QED
    BY <1>2, <1>3, <1>6, <1>8, <1>9, <2>1, <2>2, QuietStep DEF Users
<1>11. CASE r.op \in Closers
  <2>1. Closing(t)'
    <3>1. r.call # None
      BY <1>3, <1>4, <1>11, FirstCallFacts
    <3> QED
      BY <1>5, <1>7, <1>11, <3>1 DEF Closing, Waiting
  <2>2. fds' = {e \in fds : ~(e.fh = r.fi /\ e.file = r.file)}
    BY <1>3, <1>11
  <2>3. r.fi \in AHandle \cup {Nil}
    BY DEF Request
  <2>4. r.fh \in Handles <=> r.fi \in Handles
    BY <1>3, <2>3, NoHandleIsNone
  <2>5. r.fi \in Handles => r.fh = r.fi
    BY <1>3, NoHandleIsNone
  <2>6. \A s \in Threads \ {t} : req[s] # Idle => req[s].fi # r.fi /\ req[s].fi2 # r.fi
    BY <1>3, <1>11 DEF Busy
  <2>7. r.fi \in Handles => opened[r.fi] = r.file /\ Held(r.fi)
    BY <1>9, NoHandleIsNone DEF IInv, HandleInv, OpenInv, Held
  <2>8. r.fi \in Handles => ~Held(r.fi)'
    <3> SUFFICES ASSUME r.fi \in Handles, NEW d \in fds', d.fh = r.fi PROVE FALSE
      BY DEF Held
    <3>1. d \in fds /\ d.fh # NoHandle
      BY <2>2, NoHandleIsNone
    <3>2. d.file = opened[d.fh]
      BY <3>1 DEF IInv, HandleInv, OpenInv
    <3> QED
      BY <2>2, <2>7, <3>2
  <2>9. \A h \in Handles \ {r.fi} : Held(h)' <=> Held(h)
    BY <2>2 DEF Held
  <2>10. fds' \subseteq fds
    BY <2>2
  <2>11. UsersInv'
    <3> SUFFICES ASSUME NEW s \in Threads, req'[s] # Idle PROVE Users(req'[s], fds')
      BY DEF UsersInv, Users
    <3>1. CASE s = t
      BY <1>3, <1>5, <1>9, <1>11, <3>1 DEF Users
    <3>2. CASE s # t
      <4>1. req'[s] = req[s] /\ req[s].fi # r.fi /\ req[s].fi2 # r.fi
        BY <1>5, <2>6, <3>2
      <4>2. Users(req[s], fds)
        BY <4>1 DEF IInv, HandleInv, UsersInv
      <4> QED
        BY <2>2, <4>1, <4>2 DEF Users
    <3> QED
      BY <3>1, <3>2
  <2>12. OpenInv'
    <3>1. \A d \in fds' :
          IF d.fh = NoHandle THEN d.by = "Opendir" /\ "Opendir" \in fs'.inherits
                             ELSE opened'[d.fh] = d.file
      BY <1>2, <2>10 DEF IInv, HandleInv, OpenInv
    <3>2. \A s \in Threads, h \in AHandle : CarriedBy(s, h)' =>
          IF h = NoHandle THEN req'[s].op = "Opendir" /\ "Opendir" \in fs'.inherits
                          ELSE opened'[h] = req'[s].file
      BY <1>2, <1>5, <1>8 DEF IInv, HandleInv, OpenInv
    <3>3. \A s \in Threads : Closing(s)' /\ req'[s].fh \in Handles =>
          opened'[req'[s].fh] = req'[s].file
      BY <1>2, <1>5, <2>4, <2>5, <2>7 DEF IInv, HandleInv, OpenInv
    <3> QED
      BY <3>1, <3>2, <3>3 DEF OpenInv
  <2>13. OneInv'
    <3>1. \A s \in Threads, h \in Handles : CarriedBy(s, h)' => ~Held(h)'
      BY <1>5, <1>8, <2>8, <2>9 DEF IInv, HandleInv, OneInv
    <3>2. \A s \in Threads, h \in Handles : Closing(s)' /\ req'[s].fh = h =>
          ~Held(h)' /\ \A u \in Threads : ~CarriedBy(u, h)'
      <4> SUFFICES ASSUME NEW s \in Threads, NEW h \in Handles, Closing(s)', req'[s].fh = h
                   PROVE  ~Held(h)' /\ \A u \in Threads : ~CarriedBy(u, h)'
        OBVIOUS
      <4>1. CASE s = t
        <5>1. h = r.fi
          BY <1>5, <2>4, <2>5, <4>1
        <5> QED
          BY <1>5, <1>8, <2>7, <2>8, <5>1 DEF IInv, HandleInv, OneInv
      <4>2. CASE s # t
        <5>1. ~Held(h) /\ \A u \in Threads : ~CarriedBy(u, h)
          BY <1>5, <4>2 DEF IInv, HandleInv, OneInv
        <5> QED
          BY <1>5, <1>8, <2>7, <2>9, <5>1
      <4> QED
        BY <4>1, <4>2
    <3>3. \A s \in Threads \ {t} : Closing(s) /\ req[s].fh \in Handles /\ r.fh \in Handles =>
             req[s].fh # r.fh
      BY <2>4, <2>5, <2>7 DEF IInv, HandleInv, OneInv
    <3>4. \A s, u \in Threads : s # u => \A h \in Handles : ~(CarriedBy(s, h)' /\ CarriedBy(u, h)')
      BY <1>5, <1>8 DEF IInv, HandleInv, OneInv
    <3>5. \A s, u \in Threads : s # u /\ Closing(s)' /\ Closing(u)' /\ req'[s].fh \in Handles =>
             req'[s].fh # req'[u].fh
      <4> SUFFICES ASSUME NEW s \in Threads, NEW u \in Threads, s # u, Closing(s)', Closing(u)',
                          req'[s].fh \in Handles, req'[s].fh = req'[u].fh
                   PROVE  FALSE
        OBVIOUS
      <4>1. CASE s # t /\ u # t
        BY <1>5, <4>1 DEF IInv, HandleInv, OneInv
      <4>2. CASE s = t \/ u = t
        BY <1>5, <3>3, <4>2
      <4> QED
        BY <4>1, <4>2
    <3> QED
      BY <3>1, <3>2, <3>4, <3>5 DEF OneInv
  <2>14. KeptInv'
    <3> SUFFICES ASSUME NEW h \in Handles, opened[h] # Free
                 PROVE  \/ Held(h)'
                        \/ \E s \in Threads : CarriedBy(s, h)'
                        \/ \E s \in Threads : Closing(s)' /\ req'[s].fh = h
      BY <1>2 DEF KeptInv
    <3>1. CASE h = r.fi
      BY <1>5, <2>1, <2>5, <3>1
    <3>2. CASE h # r.fi
      <4>1. \/ Held(h)
            \/ \E s \in Threads : CarriedBy(s, h)
            \/ \E s \in Threads : Closing(s) /\ req[s].fh = h
        BY DEF IInv, HandleInv, KeptInv
      <4> QED
        BY <1>5, <1>6, <2>9, <3>2, <4>1
    <3> QED
      BY <3>1, <3>2
  <2> QED
    BY <2>11, <2>12, <2>13, <2>14 DEF HandleInv
<1> QED
  BY <1>10, <1>11

\* Where a waiting request is, told by what it waits for.
LEMMA WaitingFacts ==
    ASSUME TypeOK, NEW q \in Request, q.call # None, Chained(q)
    PROVE  /\ q.call \in Closers <=> q.op \in Closers
           /\ q.call \in Openers \cup Makers => q.op \in {"Open", "Create", "Opendir"}
           /\ q.op = "Open" => q.call \in Openers
           /\ q.op = "Opendir" => q.call = "Opendir"
           /\ q.op = "Create" => q.call \in Openers \cup Makers \cup {"Mknod"}
<1>1. q.op \in AllOps /\ q.flags \in BOOLEAN
  BY TableIsKnown DEF Request
<1>2. CASE q.op # "Create" /\ q.call = FirstCall(q.op, q.flags)
  <2>1. /\ q.call \in Openers <=> q.op \in {"Open", "Opendir"}
        /\ q.call \in Makers <=> q.op = "Create"
        /\ q.call \in Closers <=> q.op \in Closers
        /\ q.op \in Forgiving => q.call = q.op
    BY <1>1, <1>2, FirstCallFacts
  <2> QED
    BY <1>2, <2>1 DEF Forgiving
<1>3. CASE q.op = "Create" /\ q.call \in {"Create", "CreateEx", "Mknod", "Open", "OpenEx"}
  BY <1>3 DEF Openers, Makers, Closers
<1> QED
  BY <1>2, <1>3 DEF Chained

\* A release, whether it succeeds, fails or panics, closes what it carries.
LEMMA CloseStep ==
    ASSUME IInv, NEW t \in Threads, NEW r \in Request, Closing(t),
           req' = [req EXCEPT ![t] = r], UNCHANGED <<fs, fds>>,
           opened' = Closed(req[t].call, req[t].fh),
           r.call = None, SameHandles(r, req[t])
    PROVE  HandleInv'
<1> DEFINE q == req[t]
<1>1. TypeOK /\ q \in Request
  BY IdleIsNoRequest DEF IInv, Closing, Waiting
<1>2. /\ req'[t] = r
      /\ \A s \in Threads \ {t} :
            /\ req'[s] = req[s]
            /\ Closing(s)' <=> Closing(s)
            /\ \A h : CarriedBy(s, h)' <=> CarriedBy(s, h)
  BY <1>1, ThreadFacts
<1>3. q.op \in Closers /\ q.call # None /\ Chained(q)
  BY DEF Closing, Waiting, IInv, ChainInv
<1>4. q.call \in Closers
  BY <1>1, <1>3, WaitingFacts
<1>5. /\ ~Closing(t)' /\ \A h : ~CarriedBy(t, h)'
      /\ \A h : ~CarriedBy(t, h)
  BY <1>2, <1>3 DEF Closing, Waiting, CarriedBy, Answered, Closers, SameHandles
<1>6. /\ \A h \in Handles \ {q.fh} : opened'[h] = opened[h]
      /\ q.fh \in Handles => opened'[q.fh] = Free
  BY <1>1, <1>4 DEF Closed, TypeOK
<1>7. q.fh \in Handles =>
         /\ ~Held(q.fh) /\ \A s \in Threads : ~CarriedBy(s, q.fh)
         /\ \A s \in Threads \ {t} : Closing(s) => req[s].fh # q.fh
  BY DEF IInv, HandleInv, OneInv
<1>8. \A h : Held(h)' <=> Held(h)
  BY DEF Held
<1>9. \A h \in AHandle : h = NoHandle \/ h \in Handles
  BY DEF AHandle
<1>10. UsersInv'
  <2>1. q # Idle
    BY <1>3 DEF Closing, Waiting
  <2> QED
    BY <1>2, <1>3, <2>1 DEF IInv, HandleInv, UsersInv, Users, SameHandles
<1>11. OpenInv'
  <2>1. \A d \in fds' :
          IF d.fh = NoHandle THEN d.by = "Opendir" /\ "Opendir" \in fs'.inherits
                             ELSE opened'[d.fh] = d.file
    <3> SUFFICES ASSUME NEW d \in fds, d.fh # NoHandle PROVE opened'[d.fh] = d.file
      BY DEF IInv, HandleInv, OpenInv
    <3>1. d.fh \in Handles /\ opened[d.fh] = d.file /\ Held(d.fh)
      BY <1>1, <1>9 DEF TypeOK, IInv, HandleInv, OpenInv, Held
    <3> QED
      BY <1>6, <1>7, <3>1
  <2>2. \A s \in Threads, h \in AHandle : CarriedBy(s, h)' =>
          IF h = NoHandle THEN req'[s].op = "Opendir" /\ "Opendir" \in fs'.inherits
                          ELSE opened'[h] = req'[s].file
    BY <1>2, <1>5, <1>6, <1>7, <1>9 DEF IInv, HandleInv, OpenInv
  <2>3. \A s \in Threads : Closing(s)' /\ req'[s].fh \in Handles =>
          opened'[req'[s].fh] = req'[s].file
    BY <1>2, <1>5, <1>6, <1>7 DEF IInv, HandleInv, OpenInv
  <2> QED
    BY <2>1, <2>2, <2>3 DEF OpenInv
<1>12. OneInv'
  BY <1>2, <1>5, <1>8 DEF IInv, HandleInv, OneInv
<1>13. KeptInv'
  <2> SUFFICES ASSUME NEW h \in Handles, opened'[h] # Free
               PROVE  \/ Held(h)'
                      \/ \E s \in Threads : CarriedBy(s, h)'
                      \/ \E s \in Threads : Closing(s)' /\ req'[s].fh = h
    BY DEF KeptInv
  <2>1. h # q.fh /\ opened[h] # Free
    BY <1>6
  <2>2. \/ Held(h)
        \/ \E s \in Threads \ {t} : CarriedBy(s, h)
        \/ \E s \in Threads \ {t} : Closing(s) /\ req[s].fh = h
    BY <1>5, <2>1 DEF IInv, HandleInv, KeptInv
  <2> QED
    BY <1>2, <1>8, <2>2
<1> QED
  BY <1>10, <1>11, <1>12, <1>13 DEF HandleInv

\* An open that is granted gives out a handle that nobody has.
LEMMA GrantStep ==
    ASSUME IInv, NEW t \in Threads, NEW r \in Request, NEW out \in Handles, Waiting(t),
           req[t].op \in {"Open", "Create", "Opendir"},
           req' = [req EXCEPT ![t] = r], UNCHANGED <<fs, fds>>,
           opened[out] = Free, opened' = [opened EXCEPT ![out] = req[t].file],
           r.call = None, r.errc = "ok", r.out = out,
           SameHandles(r, req[t])
    PROVE  HandleInv'
<1> DEFINE q == req[t]
<1>0. r.op = q.op /\ r.file = q.file
  BY DEF SameHandles
<1>1. TypeOK /\ q \in Request /\ q # Idle
  BY IdleIsNoRequest DEF IInv, Waiting
<1>2. /\ req'[t] = r
      /\ \A s \in Threads \ {t} :
            /\ req'[s] = req[s]
            /\ Closing(s)' <=> Closing(s)
            /\ \A h : CarriedBy(s, h)' <=> CarriedBy(s, h)
  BY <1>1, ThreadFacts
<1>3. /\ ~Closing(t) /\ ~Closing(t)' /\ \A h : ~CarriedBy(t, h)
      /\ \A h : CarriedBy(t, h)' => h = out
      /\ CarriedBy(t, out)'
  <2>1. r # Idle
    BY <1>1, IdleIsNoRequest, NoneIsNoMethod, TableIsKnown DEF Request, Idle
  <2> QED
    BY <1>0, <1>2, <2>1 DEF Closing, CarriedBy, Waiting, Answered, Closers
<1>4. opened'[out] = q.file /\ \A h \in Handles \ {out} : opened'[h] = opened[h]
  BY <1>1 DEF TypeOK
<1>5. q.file # Free /\ out # NoHandle
  BY <1>1, NoHandleIsNone DEF Request
<1>6. \A h \in AHandle : h = NoHandle \/ h \in Handles
  BY DEF AHandle
<1>7. /\ ~Held(out)
      /\ \A s \in Threads : ~CarriedBy(s, out)
      /\ \A s \in Threads : Closing(s) => req[s].fh # out
  <2>1. \A d \in fds : d.file \in Files
    BY <1>1 DEF TypeOK
  <2>2. \A s \in Threads : req[s] # Idle => req[s].file # Free
    BY <1>1, IdleIsNoRequest, NoHandleIsNone DEF Request
  <2>3. ~Held(out)
    BY <1>5, <2>1, NoHandleIsNone DEF Held, IInv, HandleInv, OpenInv
  <2>4. out \in AHandle
    BY DEF AHandle
  <2>5. \A s \in Threads : ~CarriedBy(s, out)
    <3> SUFFICES ASSUME NEW s \in Threads, CarriedBy(s, out) PROVE FALSE
      OBVIOUS
    <3>1. opened[out] = req[s].file /\ req[s] # Idle
      BY <1>5, <2>4 DEF IInv, HandleInv, OpenInv, CarriedBy, Answered
    <3> QED
      BY <2>2, <3>1
  <2>6. \A s \in Threads : Closing(s) => req[s].fh # out
    BY <2>2 DEF IInv, HandleInv, OpenInv, Closing, Waiting
  <2> QED
    BY <2>3, <2>5, <2>6
<1>8. \A h : Held(h)' <=> Held(h)
  BY DEF Held
<1>9. UsersInv'
  BY <1>1, <1>2 DEF IInv, HandleInv, UsersInv, Users, SameHandles
<1>10. OpenInv'
  <2>1. \A d \in fds' :
          IF d.fh = NoHandle THEN d.by = "Opendir" /\ "Opendir" \in fs'.inherits
                             ELSE opened'[d.fh] = d.file
    <3> SUFFICES ASSUME NEW d \in fds, d.fh # NoHandle PROVE opened'[d.fh] = d.file
      BY DEF IInv, HandleInv, OpenInv
    <3>1. d.fh \in Handles /\ opened[d.fh] = d.file /\ Held(d.fh)
      BY <1>1, <1>6 DEF TypeOK, IInv, HandleInv, OpenInv, Held
    <3> QED
      BY <1>4, <1>7, <3>1
  <2>2. \A s \in Threads, h \in AHandle : CarriedBy(s, h)' =>
          IF h = NoHandle THEN req'[s].op = "Opendir" /\ "Opendir" \in fs'.inherits
                          ELSE opened'[h] = req'[s].file
    <3> SUFFICES ASSUME NEW s \in Threads, NEW h \in AHandle, CarriedBy(s, h)'
                 PROVE  IF h = NoHandle THEN req'[s].op = "Opendir" /\ "Opendir" \in fs'.inherits
                                        ELSE opened'[h] = req'[s].file
      OBVIOUS
    <3>1. CASE s = t
      BY <1>0, <1>2, <1>3, <1>4, <1>5, <3>1
    <3>2. CASE s # t
      <4>1. CarriedBy(s, h) /\ req'[s] = req[s] /\ h # out
        BY <1>2, <1>7, <3>2
      <4> QED
        BY <1>4, <1>6, <4>1 DEF IInv, HandleInv, OpenInv
    <3> QED
      BY <3>1, <3>2
  <2>3. \A s \in Threads : Closing(s)' /\ req'[s].fh \in Handles =>
          opened'[req'[s].fh] = req'[s].file
    <3> SUFFICES ASSUME NEW s \in Threads, Closing(s)', req'[s].fh \in Handles
                 PROVE  opened'[req'[s].fh] = req'[s].file
      OBVIOUS
    <3>1. Closing(s) /\ req'[s] = req[s] /\ req[s].fh # out
      BY <1>2, <1>3, <1>7
    <3> QED
      BY <1>4, <3>1 DEF IInv, HandleInv, OpenInv
  <2> QED
    BY <2>1, <2>2, <2>3 DEF OpenInv
<1>11. OneInv'
  <2>1. \A s \in Threads, h \in Handles : CarriedBy(s, h)' => ~Held(h)'
    BY <1>2, <1>3, <1>7, <1>8 DEF IInv, HandleInv, OneInv
  <2>2. \A s \in Threads, h \in Handles : Closing(s)' /\ req'[s].fh = h =>
          ~Held(h)' /\ \A u \in Threads : ~CarriedBy(u, h)'
    BY <1>2, <1>3, <1>7, <1>8 DEF IInv, HandleInv, OneInv
  <2>3. \A s, u \in Threads : s # u =>
          /\ \A h \in Handles : ~(CarriedBy(s, h)' /\ CarriedBy(u, h)')
          /\ Closing(s)' /\ Closing(u)' /\ req'[s].fh \in Handles => req'[s].fh # req'[u].fh
    BY <1>2, <1>3, <1>7 DEF IInv, HandleInv, OneInv
  <2> QED
    BY <2>1, <2>2, <2>3 DEF OneInv
<1>12. KeptInv'
  <2> SUFFICES ASSUME NEW h \in Handles, opened'[h] # Free
               PROVE  \/ Held(h)'
                      \/ \E s \in Threads : CarriedBy(s, h)'
                      \/ \E s \in Threads : Closing(s)' /\ req'[s].fh = h
    BY DEF KeptInv
  <2>1. CASE h = out
    BY <1>3, <2>1
  <2>2. CASE h # out
    <3>1. \/ Held(h)
          \/ \E s \in Threads \ {t} : CarriedBy(s, h)
          \/ \E s \in Threads \ {t} : Closing(s) /\ req[s].fh = h
      BY <1>3, <1>4, <2>2 DEF IInv, HandleInv, KeptInv
    <3> QED
      BY <1>2, <1>8, <3>1
  <2> QED
    BY <2>1, <2>2
<1> QED
  BY <1>9, <1>10, <1>11, <1>12 DEF HandleInv

LEMMA ReturnKeepsHandleInv ==
    ASSUME IInv, NEW t \in Threads, Return(t)
    PROVE  HandleInv'
<1> DEFINE q == req[t]
<1>1. TypeOK /\ Waiting(t) /\ q \in Request /\ UNCHANGED <<fs, build, fds>>
  BY ReturnFacts DEF IInv
<1>2. PICK said \in Errnos, out \in AHandle, r \in Request :
         /\ Does(q.call, q.file, q.fh, said, out)
         /\ req' = [req EXCEPT ![t] = r]
         /\ r.op = q.op /\ SameHandles(r, q)
         /\ r.call = NextCall(q, said)
         /\ r.errc = Answer(q, said)
         /\ r.out = HandleOut(q, out)
  <2> HIDE DEF q
  <2> QED
    BY ONLY <1>1, Return(t), t \in Threads, ReturnFacts DEF q
<1>3. q # Idle /\ q.call # None /\ Chained(q)
  BY <1>1 DEF Waiting, IInv, ChainInv
<1>4. /\ q.call \in Closers <=> q.op \in Closers
      /\ q.call \in Openers \cup Makers => q.op \in {"Open", "Create", "Opendir"}
      /\ q.op = "Open" => q.call \in Openers
      /\ q.op = "Opendir" => q.call = "Opendir"
      /\ q.op = "Create" => q.call \in Openers \cup Makers \cup {"Mknod"}
  BY <1>1, <1>3, WaitingFacts
<1>5. /\ q.call \in Closers => opened' = Closed(q.call, q.fh)
      /\ q.call \in Openers \cup Makers /\ said = "ok" =>
            /\ out \in Handles /\ opened[out] = Free
            /\ opened' = [opened EXCEPT ![out] = q.file]
      /\ q.call \notin Closers /\ ~(q.call \in Openers \cup Makers /\ said = "ok") =>
            opened' = opened /\ out = NoHandle
      /\ said = "ENOSYS" => q.call \in fs.inherits
  BY <1>2, DoesFacts
<1>6. CASE q.op \in Closers
  <2>1. Closing(t)
    BY <1>1, <1>6 DEF Closing
  <2>2. q.call \in Closers /\ opened' = Closed(q.call, q.fh)
    BY <1>4, <1>5, <1>6
  <2>3. NextCall(q, said) = None
    BY <2>2 DEF NextCall, Closers, Makers
  <2> QED
    BY <1>1, <1>2, <2>1, <2>2, <2>3, CloseStep
<1>7. CASE q.call \in Openers \cup Makers /\ said = "ok"
  <2>1. NextCall(q, said) = None /\ Answer(q, said) = "ok" /\ HandleOut(q, out) = out
    BY <1>7 DEF NextCall, Openers, Makers, Answer, HandleOut
  <2>2. /\ r.call = None /\ r.errc = "ok" /\ r.out = out
        /\ SameHandles(r, q)
        /\ req' = [req EXCEPT ![t] = r]
    BY <1>2, <2>1
  <2>3. /\ out \in Handles /\ opened[out] = Free
        /\ opened' = [opened EXCEPT ![out] = q.file]
    BY <1>5, <1>7
  <2>4. q.op \in {"Open", "Create", "Opendir"}
    BY <1>4, <1>7
  <2> QED
    BY <1>1, <2>2, <2>3, <2>4, GrantStep
<1>8. CASE q.op \notin Closers /\ ~(q.call \in Openers \cup Makers /\ said = "ok")
  <2>1. opened' = opened /\ out = NoHandle
    BY <1>4, <1>5, <1>8
  <2>2. req'[t] = r
    BY <1>1, <1>2, ThreadFacts
  <2>3. ~Closing(t) /\ ~Closing(t)' /\ \A h \in Handles : ~CarriedBy(t, h)
    BY <1>1, <1>2, <1>8, <2>2 DEF Closing, CarriedBy, Waiting, Answered
  <2>4. ASSUME r.call = None, r.op \in {"Open", "Create", "Opendir"}, r.errc = "ok"
        PROVE  r.op = "Opendir" /\ "Opendir" \in fs.inherits /\ r.out = NoHandle
    <3>1. CASE q.op = "Opendir"
      <4>1. said = "ENOSYS"
        BY <1>2, <1>4, <1>8, <2>4, <3>1 DEF Answer, Openers
      <4> QED
        BY <1>2, <1>4, <1>5, <2>1, <3>1, <4>1 DEF HandleOut, Openers
    <3>2. CASE q.op \in {"Open", "Create"}
      <4>1. said = "ok"
        BY <1>2, <2>4, <3>2 DEF Answer, Forgiving
      <4>2. q.op = "Create" /\ q.call = "Mknod"
        BY <1>4, <1>8, <3>2, <4>1
      <4> QED
        BY <1>2, <2>4, <4>1, <4>2 DEF NextCall, Makers
    <3> QED
      BY <1>2, <2>4, <3>1, <3>2
  <2>5. \A h \in AHandle : CarriedBy(t, h)' =>
           h = NoHandle /\ r.op = "Opendir" /\ "Opendir" \in fs.inherits
    BY <2>2, <2>4 DEF CarriedBy, Answered
  <2>6. Users(r, fds)
    BY <1>2, <1>3 DEF IInv, HandleInv, UsersInv, Users, SameHandles
  <2> QED
    BY <1>1, <1>2, <2>1, <2>3, <2>5, <2>6, QuietStep
<1> QED
  BY <1>6, <1>7, <1>8

LEMMA PanicKeepsHandleInv ==
    ASSUME IInv, NEW t \in Threads, Panic(t)
    PROVE  HandleInv'
<1> DEFINE q == req[t]
<1>1. /\ TypeOK /\ Waiting(t) /\ q \in Request /\ UNCHANGED <<fs, fds>>
      /\ opened' = Closed(q.call, q.fh)
  BY PanicFacts DEF IInv
<1>2. PICK r \in Request :
         /\ req' = [req EXCEPT ![t] = r]
         /\ r.op = q.op /\ SameHandles(r, q)
         /\ r.call = None /\ r.errc # "ok"
  BY <1>1, PanicFacts
<1>3. q # Idle /\ q.call # None /\ Chained(q)
  BY <1>1 DEF Waiting, IInv, ChainInv
<1>4. q.call \in Closers <=> q.op \in Closers
  BY <1>1, <1>3, WaitingFacts
<1>5. CASE q.op \in Closers
  <2>1. Closing(t)
    BY <1>1, <1>5 DEF Closing
  <2> QED
    BY <1>1, <1>2, <2>1, CloseStep
<1>6. CASE q.op \notin Closers
  <2>1. opened' = opened
    BY <1>1, <1>4, <1>6 DEF Closed
  <2>2. req'[t] = r
    BY <1>1, <1>2, ThreadFacts
  <2>3. /\ ~Closing(t) /\ ~Closing(t)' /\ \A h \in Handles : ~CarriedBy(t, h)
        /\ \A h \in AHandle : ~CarriedBy(t, h)'
    BY <1>1, <1>2, <1>6, <2>2 DEF Closing, CarriedBy, Waiting, Answered
  <2>4. Users(r, fds)
    BY <1>2, <1>3 DEF IInv, HandleInv, UsersInv, Users, SameHandles
  <2> QED
    BY <1>1, <1>2, <2>1, <2>3, <2>4, QuietStep
<1> QED
  BY <1>5, <1>6

\* The kernel takes over the handle that the answer carries.
LEMMA ReceiveKeepsHandleInv ==
    ASSUME IInv, NEW t \in Threads, Receive(t)
    PROVE  HandleInv'
<1> DEFINE q == req[t]
           n == [file |-> q.file, fh |-> q.out,
                 by |-> IF q.op = "Opendir" THEN "Opendir" ELSE "Open"]
<1>1. /\ TypeOK /\ Answered(t) /\ q \in Request /\ UNCHANGED <<fs, opened>>
      /\ req' = [req EXCEPT ![t] = Idle]
  BY ReceiveFacts DEF IInv
<1>2. /\ req'[t] = Idle
      /\ \A s \in Threads \ {t} :
            /\ req'[s] = req[s]
            /\ Closing(s)' <=> Closing(s)
            /\ \A h : CarriedBy(s, h)' <=> CarriedBy(s, h)
  BY <1>1, ThreadFacts
<1>3. ~Closing(t) /\ ~Closing(t)' /\ \A h : ~CarriedBy(t, h)'
  BY <1>1, <1>2 DEF Closing, CarriedBy, Waiting, Answered
<1>4. CASE q.op \in {"Open", "Create", "Opendir"} /\ q.errc = "ok"
  <2>1. fds' = fds \cup {n}
    BY <1>4 DEF Receive
  <2>2. n.fh = q.out /\ n.file = q.file /\ (q.op = "Opendir" => n.by = "Opendir")
    OBVIOUS
  <2>3. q.out \in AHandle /\ CarriedBy(t, q.out)
    BY <1>1, <1>4 DEF Request, CarriedBy
  <2>4. \A h \in Handles : ~CarriedBy(t, h) \/ h = q.out
    BY DEF CarriedBy
  <2> HIDE DEF n
  <2>5. IF n.fh = NoHandle THEN n.by = "Opendir" /\ "Opendir" \in fs.inherits
                           ELSE opened[n.fh] = n.file
    BY <2>2, <2>3 DEF IInv, HandleInv, OpenInv
  <2>6. \A h : Held(h)' <=> Held(h) \/ h = q.out
    BY <2>1, <2>2 DEF Held
  <2>7. q.out \in Handles =>
           /\ \A s \in Threads \ {t} : ~CarriedBy(s, q.out)
           /\ \A s \in Threads : ~(Closing(s) /\ req[s].fh = q.out)
    BY <2>3 DEF IInv, HandleInv, OneInv
  <2>8. UsersInv'
    BY <1>2, <2>1 DEF IInv, HandleInv, UsersInv, Users
  <2>9. OpenInv'
    <3>1. \A d \in fds' :
          IF d.fh = NoHandle THEN d.by = "Opendir" /\ "Opendir" \in fs'.inherits
                             ELSE opened'[d.fh] = d.file
      BY <1>1, <2>1, <2>5 DEF IInv, HandleInv, OpenInv
    <3>2. \A s \in Threads, h \in AHandle : CarriedBy(s, h)' =>
          IF h = NoHandle THEN req'[s].op = "Opendir" /\ "Opendir" \in fs'.inherits
                          ELSE opened'[h] = req'[s].file
      BY <1>1, <1>2, <1>3 DEF IInv, HandleInv, OpenInv
    <3>3. \A s \in Threads : Closing(s)' /\ req'[s].fh \in Handles =>
          opened'[req'[s].fh] = req'[s].file
      BY <1>1, <1>2, <1>3 DEF IInv, HandleInv, OpenInv
    <3> QED
      BY <3>1, <3>2, <3>3 DEF OpenInv
  <2>10. OneInv'
    <3>1. \A s \in Threads, h \in Handles : CarriedBy(s, h)' => ~Held(h)'
      BY <1>2, <1>3, <2>6, <2>7 DEF IInv, HandleInv, OneInv
    <3>2. \A s \in Threads, h \in Handles : Closing(s)' /\ req'[s].fh = h =>
          ~Held(h)' /\ \A u \in Threads : ~CarriedBy(u, h)'
      <4> SUFFICES ASSUME NEW s \in Threads, NEW h \in Handles, Closing(s)', req'[s].fh = h
                   PROVE  ~Held(h)' /\ \A u \in Threads : ~CarriedBy(u, h)'
        OBVIOUS
      <4>1. Closing(s) /\ req[s].fh = h
        BY <1>2, <1>3
      <4>2. ~Held(h) /\ \A u \in Threads : ~CarriedBy(u, h)
        BY <4>1 DEF IInv, HandleInv, OneInv
      <4> QED
        BY <1>2, <1>3, <2>6, <2>7, <4>1, <4>2
    <3>3. \A s, u \in Threads : s # u =>
          /\ \A h \in Handles : ~(CarriedBy(s, h)' /\ CarriedBy(u, h)')
          /\ Closing(s)' /\ Closing(u)' /\ req'[s].fh \in Handles => req'[s].fh # req'[u].fh
      BY <1>2, <1>3 DEF IInv, HandleInv, OneInv
    <3> QED
      BY <3>1, <3>2, <3>3 DEF OneInv
  <2>11. KeptInv'
    BY <1>1, <1>2, <1>3, <2>4, <2>6 DEF IInv, HandleInv, KeptInv
  <2> QED
    BY <2>8, <2>9, <2>10, <2>11 DEF HandleInv
<1>5. CASE ~(q.op \in {"Open", "Create", "Opendir"} /\ q.errc = "ok")
  <2>1. fds' = fds
    BY <1>5 DEF Receive
  <2>2. \A h \in Handles : ~CarriedBy(t, h)
    BY <1>5 DEF CarriedBy
  <2> QED
    BY <1>1, <1>3, <2>1, <2>2, QuietStep
<1> QED
  BY <1>4, <1>5

-----------------------------------------------------------------------------
LEMMA InitIInv == Init => IInv
<1> SUFFICES ASSUME Init PROVE IInv
  OBVIOUS
<1>1. TypeOK
  BY DEF Init, TypeOK
<1>2. ChainInv
  BY DEF Init, ChainInv
<1>3. HandleInv
  BY DEF Init, HandleInv, UsersInv, OpenInv, OneInv, KeptInv, CarriedBy, Closing, Held,
     Waiting, Answered
<1> QED
  BY <1>1, <1>2, <1>3 DEF IInv

LEMMA Inductive == Spec => []IInv
<1>1. IInv /\ [Next]_vars => IInv'
  <2> SUFFICES ASSUME IInv, [Next]_vars PROVE IInv'
    OBVIOUS
  <2>1. TypeOK' /\ ChainInv'
    BY TypeStep, ChainInvStep DEF IInv
  <2>2. CASE UNCHANGED vars
    <3>1. HandleInv'
      BY <2>2 DEF vars, IInv, HandleInv, UsersInv, OpenInv, OneInv, KeptInv, CarriedBy,
         Closing, Held, Waiting, Answered
    <3> QED
      BY <2>1, <3>1 DEF IInv
  <2>3. CASE Next
    <3>1. HandleInv'
      BY <2>3, AskKeepsHandleInv, ReturnKeepsHandleInv, PanicKeepsHandleInv,
         ReceiveKeepsHandleInv DEF Next
    <3> QED
      BY <2>1, <3>1 DEF IInv
  <2> QED
    BY <2>2, <2>3
<1> QED
  BY InitIInv, <1>1, PTL DEF Spec

\* The kernel and the file system agree on what is open, whatever the methods
\* answer and whether or not they panic (dispatch.go:263-282, 326-332, 410-449, 538-569).
THEOREM HandleSafety == Spec => []HandlesAgree
<1>1. IInv => HandlesAgree
  <2> SUFFICES ASSUME IInv PROVE HandlesAgree
    OBVIOUS
  <2>1. \A t \in Threads, h \in Handles : CarriedBy(t, h) => Carried(h)
    BY DEF CarriedBy, Carried
  <2>2. \A t \in Threads : Closing(t) => Waiting(t) /\ req[t].call \in Closers
    <3> SUFFICES ASSUME NEW t \in Threads, Closing(t) PROVE req[t].call \in Closers
      BY DEF Closing
    <3>1. /\ TypeOK /\ req[t] \in Request /\ req[t].call # None /\ Chained(req[t])
          /\ req[t].op \in Closers
      BY IdleIsNoRequest DEF Closing, Waiting, IInv, ChainInv
    <3> QED
      BY <3>1, WaitingFacts
  <2> QED
    BY <2>1, <2>2 DEF IInv, HandleInv, OpenInv, KeptInv, Held, HandlesAgree
<1> QED
  BY <1>1, Inductive, PTL

\* Every method is given a handle that is open for the file it is about, for
\* each of its files if it has two, or the one that means none (fifh,
\* dispatch.go:124-127; fhIn and fhOut, dispatch.go:471-479).
THEOREM CallSafety == Spec => []CallsCarryTheirHandle
<1>1. IInv => CallsCarryTheirHandle
  <2> SUFFICES ASSUME IInv, NEW t \in Threads, Waiting(t)
               PROVE  /\ req[t].fh # NoHandle => opened[req[t].fh] = req[t].file
                      /\ req[t].fh2 # NoHandle => opened[req[t].fh2] = req[t].file2
    BY DEF CallsCarryTheirHandle
  <2>1. TypeOK /\ req[t] # Idle /\ req[t] \in Request
    BY IdleIsNoRequest DEF IInv, Waiting
  <2>2. Users(req[t], fds)
    BY <2>1 DEF IInv, HandleInv, UsersInv
  <2>3. \A d \in fds : d.fh # NoHandle => opened[d.fh] = d.file
    BY DEF IInv, HandleInv, OpenInv
  <2>4. ASSUME req[t].fh # NoHandle PROVE opened[req[t].fh] = req[t].file
    <3>1. req[t].fh \in Handles /\ req[t].fi \in Handles /\ req[t].fh = req[t].fi
      BY <2>1, <2>2, <2>4, NoHandleIsNone DEF Users, Request, AHandle
    <3>2. CASE req[t].op \in Closers
      BY <3>1, <3>2 DEF Closing, IInv, HandleInv, OpenInv
    <3>3. CASE req[t].op \notin Closers
      BY <2>2, <2>3, <2>4, <3>1, <3>3 DEF Users
    <3> QED
      BY <3>2, <3>3
  <2>5. ASSUME req[t].fh2 # NoHandle PROVE opened[req[t].fh2] = req[t].file2
    <3>1. req[t].fi2 \in Handles /\ req[t].fh2 = req[t].fi2
      BY <2>1, <2>2, <2>5, NoHandleIsNone DEF Users, Request, AHandle
    <3> QED
      BY <2>2, <2>3, <2>5, <3>1 DEF Users
  <2> QED
    BY <2>4, <2>5
<1> QED
  BY <1>1, Inductive, PTL

\* Success is answered only for what the file system has done, but for the few
\* operations that are forgiven or pretended (dispatch.go:304-343, 410-460, 538-569, 644-685).
THEOREM AnswerSafety == Spec => []SuccessIsEarned
<1>1. IInv => SuccessIsEarned
  BY DEF IInv, ChainInv, Earned, SuccessIsEarned, Answered
<1> QED
  BY <1>1, Inductive, PTL
=============================================================================
