----------------------------- MODULE MemfsXattr -----------------------------
(***************************************************************************)
(* Extended attributes: the callbacks of src/fuse/dispatch.go, which run in*)
(* libfuse's threads, over those of src/examples/memfs, which hold fs.lock.*)
(* Getxattr returns a Go slice, and the callback copies it into the        *)
(* caller's buffer after the lock is gone; Listxattr fills the buffer      *)
(* under the lock.  A caller asks for a size with a buffer of size 0 and   *)
(* then for the contents, and others may be served in between.             *)
(*                                                                         *)
(* A node is the one that lookupNode found; a request for none answers     *)
(* ENOENT and changes nothing.  External: the allocator, which does not    *)
(* give away an array while a slice of it is in use.                       *)
(***************************************************************************)
EXTENDS Naturals, Sequences, FiniteSets

CONSTANTS
    Threads,
    Names,      \* of attributes
    NameLen,    \* the length of each
    Reserved,    \* "com.apple.ResourceFork", which Setxattr, Getxattr, Removexattr refuse
    Values,     \* sequences of bytes
    Arrays,     \* addresses of arrays of bytes
    Nil,        \* no array, no attribute, no name
    MaxSize     \* bound: bytes in a caller's buffer

ASSUME XattrAssumption ==
    /\ NameLen \in [Names -> Nat \ {0}] /\ MaxSize \in Nat
    /\ Values \subseteq Seq(Nat)
    /\ Nil \notin Arrays \cup Names /\ "list" \notin Names
    /\ IsFiniteSet(Arrays) /\ IsFiniteSet(Names) /\ IsFiniteSet(Threads)
    /\ Cardinality(Arrays) > Cardinality(Names \ {Reserved}) + Cardinality(Threads)

VARIABLES
    xatr,     \* node_t.xatr: the array of each attribute, or Nil
    bytes,    \* the contents of each array
    pc,       \* of each thread: "idle", "copy", "done"
    op, room, \* its request: "list", or the name that it gets; the room in its buffer
    rslt,     \* the slice that Getxattr has returned
    buf,      \* the caller's buffer: bytes, or the names of a list
    answer,   \* a number of bytes, or an error
    asked,    \* history: what the thread has asked the size of, and the answer,
              \* while no attribute has changed since
    promised, \* history: the request is for as much as was asked
    saw       \* history: the value, or the names, when the lock was held

reqVars == <<pc, op, room, rslt, buf, answer>>
hist    == <<asked, promised, saw>>
xattrVars    == <<xatr, bytes, reqVars, hist>>

Each(v) == [t \in Threads |-> v]
NotAsked == <<Nil, 0>>
Number(n) == [err |-> "ok", n |-> n]
Error(e)  == [err |-> e, n |-> 0]

XattrInit ==
    /\ xatr = [x \in Names |-> Nil] /\ bytes = [a \in Arrays |-> <<>>]
    /\ pc = Each("idle") /\ op = Each(Nil) /\ room = Each(0) /\ rslt = Each(Nil)
    /\ buf = Each(<<>>) /\ answer = Each(Number(0))
    /\ asked = Each(NotAsked) /\ promised = Each(FALSE)
    /\ saw = Each(<<>>)

Present == {x \in Names : xatr[x] # Nil}

\* make: an array that nothing refers to.
InUse == {xatr[x] : x \in Names} \cup {rslt[t] : t \in Threads}
Fresh == CHOOSE a \in Arrays \ InUse : TRUE

\* The array a with the value v; what nothing refers to is collected.
Written(a, v) ==
    [b \in Arrays |-> IF b = a THEN v ELSE IF b \in InUse THEN bytes[b] ELSE <<>>]

Changed == asked' = Each(NotAsked) /\ UNCHANGED <<promised, saw>>

-----------------------------------------------------------------------------
(* Changes: under the lock from beginning to end *)

\* XATTR_CREATE refuses what is there, XATTR_REPLACE what is not.
MaySet(x, flags) ==
    /\ x # Reserved
    /\ flags = "create" => xatr[x] = Nil
    /\ flags = "replace" => xatr[x] # Nil

\* Mutant: a value of the same length is written over the old one.
Mut_Overwrites(x, v, flags) ==
    /\ MaySet(x, flags)
    /\ IF xatr[x] # Nil /\ Len(bytes[xatr[x]]) = Len(v)
       THEN bytes' = Written(xatr[x], v) /\ UNCHANGED xatr
       ELSE bytes' = Written(Fresh, v) /\ xatr' = [xatr EXCEPT ![x] = Fresh]
    /\ Changed
    /\ UNCHANGED reqVars

\* The value is copied into an array of its own.
Setxattr(x, v, flags) ==
    /\ MaySet(x, flags)
    /\ bytes' = Written(Fresh, v)
    /\ xatr' = [xatr EXCEPT ![x] = Fresh]
    /\ Changed
    /\ UNCHANGED reqVars

Removexattr(x) ==
    /\ x # Reserved /\ xatr[x] # Nil
    /\ xatr' = [xatr EXCEPT ![x] = Nil]
    /\ Changed
    /\ UNCHANGED <<bytes, reqVars>>

-----------------------------------------------------------------------------
(* Getxattr and Listxattr *)

Finish(t, a) ==
    /\ pc' = [pc EXCEPT ![t] = "done"]
    /\ answer' = [answer EXCEPT ![t] = a]

\* A thread takes a request; at this step, under the lock, it is decided what
\* the answer is about, and how long that is.
Begin(t, what, n, length) ==
    /\ pc[t] = "idle"
    /\ op' = [op EXCEPT ![t] = what] /\ room' = [room EXCEPT ![t] = n]
    /\ promised' = [promised EXCEPT ![t] = asked[t] = <<what, n>>]
    /\ asked' = IF n = 0 THEN [asked EXCEPT ![t] = <<what, length>>] ELSE asked
    /\ UNCHANGED <<xatr, bytes>>

Getxattr(t, x, n) ==
    /\ x # Reserved /\ xatr[x] # Nil        \* or else ENOTSUP, ENOATTR at once
    /\ Begin(t, x, n, Len(bytes[xatr[x]]))
    /\ pc' = [pc EXCEPT ![t] = "copy"]
    /\ rslt' = [rslt EXCEPT ![t] = xatr[x]]
    /\ saw' = [saw EXCEPT ![t] = bytes[xatr[x]]]
    /\ UNCHANGED <<buf, answer>>

\* hostGetxattr: the length is compared and the bytes are copied, one by one.
CopyOut(t) ==
    LET have == Len(bytes[rslt[t]])
        done == Len(buf[t])
    IN
    /\ pc[t] = "copy"
    /\ IF room[t] # 0 /\ have > room[t] THEN Finish(t, Error("ERANGE")) /\ UNCHANGED buf
       ELSE IF room[t] # 0 /\ done < have
       THEN /\ buf' = [buf EXCEPT ![t] = Append(@, bytes[rslt[t]][done + 1])]
            /\ UNCHANGED <<pc, answer>>
       ELSE Finish(t, Number(have)) /\ UNCHANGED buf
    /\ UNCHANGED <<xatr, bytes, op, room, rslt, hist>>

\* Mutant: a name must leave one byte of the buffer.
Mut_FitsInWithRoom(nbyt, x, n) == n = 0 \/ nbyt + NameLen[x] + 1 < n

\* The fill function of hostListxattr: a name and its NUL, if they fit; with a
\* buffer of size 0 it only counts.
FitsIn(nbyt, x, n) == n = 0 \/ nbyt + NameLen[x] + 1 <= n

\* The names of S in any order, as Go's map iterates.
Orders(S) == {s \in [1..Cardinality(S) -> S] : {s[i] : i \in DOMAIN s} = S}

\* The bytes that the first names of order take, with their NULs.
Nbyt(order) ==
    LET nbyt[i \in 0..Len(order)] ==
            IF i = 0 THEN 0 ELSE nbyt[i - 1] + NameLen[order[i]] + 1
    IN nbyt

Listxattr(t, n) ==
    \E order \in Orders(Present) :
        LET nbyt   == Nbyt(order)
            stuck  == {i \in DOMAIN order : ~FitsIn(nbyt[i - 1], order[i], n)}
            filled == {i \in DOMAIN order : \A j \in stuck : i < j}
        IN
        /\ Begin(t, "list", n, nbyt[Len(order)])
        /\ Finish(t, IF stuck = {} THEN Number(nbyt[Len(order)]) ELSE Error("ERANGE"))
        /\ buf' = [buf EXCEPT ![t] = IF n = 0 THEN <<>> ELSE [i \in filled |-> order[i]]]
        /\ saw' = [saw EXCEPT ![t] = order]
        /\ UNCHANGED rslt

Reply(t) ==
    /\ pc[t] = "done" /\ pc' = [pc EXCEPT ![t] = "idle"]
    /\ op' = [op EXCEPT ![t] = Nil] /\ room' = [room EXCEPT ![t] = 0]
    /\ rslt' = [rslt EXCEPT ![t] = Nil] /\ buf' = [buf EXCEPT ![t] = <<>>]
    /\ answer' = [answer EXCEPT ![t] = Number(0)]
    /\ promised' = [promised EXCEPT ![t] = FALSE] /\ saw' = [saw EXCEPT ![t] = <<>>]
    /\ UNCHANGED <<xatr, bytes, asked>>

XattrNext ==
    \/ \E x \in Names :
        \/ \E v \in Values, flags \in {"none", "create", "replace"} : Setxattr(x, v, flags)
        \/ Removexattr(x)
    \/ \E t \in Threads :
        \/ \E n \in 0..MaxSize :
            \/ \E x \in Names : Getxattr(t, x, n)
            \/ Listxattr(t, n)
        \/ CopyOut(t) \/ Reply(t)

XattrSpec == XattrInit /\ [][XattrNext]_xattrVars

-----------------------------------------------------------------------------
(* Properties *)

\* What a Getxattr copies into the caller's buffer is one value, the one that
\* the attribute had when it was looked up: though the slice is copied outside
\* the lock, while others set or remove the attribute, no buffer gets bytes of
\* two values (dispatch.go:356-374, memfs.go:399-441).
ValuesComeWhole ==
    \A t \in Threads :
        pc[t] = "done" /\ op[t] \in Names /\ answer[t].err = "ok" =>
            /\ answer[t].n = Len(saw[t])
            /\ room[t] # 0 => buf[t] = saw[t] /\ answer[t].n <= room[t]

\* A buffer of the size that was asked for is refused only if an attribute has
\* changed in between; and a list that is answered holds every name there was,
\* each with its NUL, within the buffer (dispatch.go:376-400).
AskedSizeSuffices ==
    \A t \in Threads :
        /\ pc[t] = "done" /\ promised[t] => answer[t].err = "ok"
        /\ pc[t] = "done" /\ op[t] = "list" /\ answer[t].err = "ok" /\ room[t] # 0 =>
              buf[t] = saw[t] /\ answer[t].n <= room[t]
=============================================================================
