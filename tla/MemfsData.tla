----------------------------- MODULE MemfsData -----------------------------
(***************************************************************************)
(* The contents of the files of src/examples/memfs: resize, Truncate, Read,*)
(* Write, CopyFileRange and Fallocate.  node_t.data is a Go slice: an array*)
(* of cap bytes, of which the first len are the slice's; the bytes behind  *)
(* them keep what was there before the slice was cut.  All integers are    *)
(* int64; MaxInt is the largest.  Each operation holds fs.lock, and is one *)
(* action on the nodes that getNode found.                                 *)
(*                                                                         *)
(* External: the kernel, which sends no negative and no empty range, and   *)
(* none that ends behind the largest offset.                               *)
(***************************************************************************)
EXTENDS Integers

CONSTANTS
    Files,      \* nodes
    Bytes,      \* values of a byte, with 0
    Unit,       \* allocunit, 64K in the code
    MaxInt,     \* math.MaxInt64
    MaxAlloc,   \* the largest array that make can allocate
    MaxLen      \* bound: bytes in one Write

Offsets == 0..MaxInt
Lens    == 1..MaxLen
Buffers(n) == [0..(n - 1) -> Bytes]

ASSUME DataAssumption ==
    /\ 0 \in Bytes /\ Unit \in Nat \ {0}
    /\ MaxInt \in Nat /\ 2 * Unit <= MaxInt + 1
    /\ MaxAlloc \in 0..MaxInt /\ MaxLen \in 0..MaxInt

VARIABLES
    data,     \* node_t.data of each node: [cap, len, at]
    size,     \* node_t.stat.Size
    reply     \* the answer to the latest request

vars == <<data, size, reply>>

Empty      == [i \in {} |-> 0]
Answer(n)  == [err |-> "ok", n |-> n, data |-> Empty]
Refused(e) == [err |-> e, n |-> 0, data |-> Empty]

Init ==
    /\ data = [f \in Files |-> [cap |-> 0, len |-> 0, at |-> Empty]]
    /\ size = [f \in Files |-> 0]
    /\ reply = Answer(0)

\* int64 wraps around; no sum here is larger than twice MaxInt.  Division
\* truncates towards zero.
Wrap(x) == IF x > MaxInt THEN x - 2 * (MaxInt + 1) ELSE x
Quo(x, y) == IF x >= 0 THEN x \div y ELSE -((-x) \div y)

allocsize(n) == Wrap(Quo(Wrap(n + Unit - 1), Unit) * Unit)

\* make(n, allocsize) panics when it is asked for too much, or for a capacity
\* that wrapped around; resize turns that into ENOSPC.
CanResize(s, n) == s.cap = allocsize(n) \/ (n <= allocsize(n) /\ allocsize(n) <= MaxAlloc)

\* Mutant: an array that is used again is not zeroed up to the new length.
Mut_NoZeroFill(s, n) ==
    IF s.cap # allocsize(n)
    THEN [cap |-> allocsize(n), len |-> n,
          at  |-> [i \in 0..(allocsize(n) - 1) |-> IF i < s.len /\ i < n THEN s.at[i] ELSE 0]]
    ELSE [s EXCEPT !.len = n]

\* A new array takes over what fits of the old slice; the same array is zeroed
\* from the old length to the new one.
resize(s, n) ==
    IF s.cap # allocsize(n)
    THEN [cap |-> allocsize(n), len |-> n,
          at  |-> [i \in 0..(allocsize(n) - 1) |-> IF i < s.len /\ i < n THEN s.at[i] ELSE 0]]
    ELSE [cap |-> s.cap, len |-> n,
          at  |-> [i \in 0..(s.cap - 1) |-> IF i >= s.len /\ i < n THEN 0 ELSE s.at[i]]]

\* The node f afterwards, when n is larger than its size.
Extended(f, n) == IF n > size[f] THEN resize(data[f], n) ELSE data[f]
SizeFor(f, n)  == IF n > size[f] THEN n ELSE size[f]
Fits(f, n)     == n <= size[f] \/ CanResize(data[f], n)

\* copy(s[ofst:ofst+n], b)
Overlaid(s, ofst, n, b) ==
    [s EXCEPT !.at = [i \in 0..(s.cap - 1) |->
                         IF i >= ofst /\ i < ofst + n THEN b[i - ofst] ELSE s.at[i]]]

Slice(s, ofst, n) == [i \in 0..(n - 1) |-> s.at[ofst + i]]

NoSpace == reply' = Refused("ENOSPC") /\ UNCHANGED <<data, size>>

-----------------------------------------------------------------------------
\* Mutant: stat.Size is set before resize may panic.
Mut_SizeFirst(f, n) ==
    /\ size' = [size EXCEPT ![f] = n]
    /\ IF CanResize(data[f], n)
       THEN data' = [data EXCEPT ![f] = resize(@, n)] /\ reply' = Answer(0)
       ELSE reply' = Refused("ENOSPC") /\ UNCHANGED data

Truncate(f, n) ==
    IF CanResize(data[f], n)
    THEN /\ data' = [data EXCEPT ![f] = resize(@, n)]
         /\ size' = [size EXCEPT ![f] = n]
         /\ reply' = Answer(0)
    ELSE NoSpace

Read(f, ofst, n) ==
    LET endofst == IF Wrap(ofst + n) > size[f] THEN size[f] ELSE Wrap(ofst + n)
        k == IF endofst < ofst THEN 0 ELSE endofst - ofst
    IN  /\ reply' = [err |-> "ok", n |-> k, data |-> Slice(data[f], ofst, k)]
        /\ UNCHANGED <<data, size>>

Write(f, ofst, n, b) ==
    LET endofst == Wrap(ofst + n) IN
    IF Fits(f, endofst)
    THEN /\ data' = [data EXCEPT ![f] = Overlaid(Extended(f, endofst), ofst, n, b)]
         /\ size' = [size EXCEPT ![f] = SizeFor(f, endofst)]
         /\ reply' = Answer(n)
    ELSE NoSpace

\* From f to g, which may be the same node; the source is sliced after g was
\* extended, and copy moves overlapping bytes as one.
CopyFileRange(f, ofst, g, to, n) ==
    LET endIn  == IF Wrap(ofst + n) > size[f] THEN size[f] ELSE Wrap(ofst + n)
        k      == endIn - ofst
        endOut == Wrap(to + k)
        grown  == [data EXCEPT ![g] = Extended(g, endOut)]
    IN
    IF k <= 0 THEN reply' = Answer(0) /\ UNCHANGED <<data, size>>
    ELSE IF Fits(g, endOut)
    THEN /\ data' = [grown EXCEPT ![g] = Overlaid(@, to, k, Slice(grown[f], ofst, k))]
         /\ size' = [size EXCEPT ![g] = SizeFor(g, endOut)]
         /\ reply' = Answer(k)
    ELSE NoSpace

Fallocate(f, punch, off, length) ==
    LET end == Wrap(off + length) IN
    IF punch THEN reply' = Refused("ENOSYS") /\ UNCHANGED <<data, size>>
    ELSE IF Fits(f, end)
    THEN /\ data' = [data EXCEPT ![f] = Extended(f, end)]
         /\ size' = [size EXCEPT ![f] = SizeFor(f, end)]
         /\ reply' = Answer(0)
    ELSE NoSpace

InRange(ofst, n) == ofst + n <= MaxInt

Next == \E f \in Files, ofst \in Offsets :
    \/ Truncate(f, ofst)
    \/ \E n \in Offsets \ {0} :
        /\ InRange(ofst, n)
        /\ \/ Read(f, ofst, n)
           \/ \E punch \in BOOLEAN : Fallocate(f, punch, ofst, n)
           \/ \E g \in Files, to \in Offsets :
                 InRange(to, n) /\ CopyFileRange(f, ofst, g, to, n)
    \/ \E n \in Lens : \E b \in Buffers(n) : InRange(ofst, n) /\ Write(f, ofst, n, b)

Spec == Init /\ [][Next]_vars

-----------------------------------------------------------------------------
(* Properties *)

\* A slice lies in its array and is as long as stat.Size says, so that no
\* data[ofst:endofst] of Read or Write is out of range.
TypeOK ==
    /\ size \in [Files -> Offsets]
    /\ \A f \in Files :
        /\ data[f].cap \in Offsets /\ data[f].len \in 0..data[f].cap
        /\ data[f].at \in [0..(data[f].cap - 1) -> Bytes]
        /\ data[f].len = size[f]
    /\ reply.err \in {"ok", "ENOSPC", "ENOSYS"}

\* The contents are what AbstractFile says: no byte of an earlier, longer file
\* shows up again, no byte is lost when the array is replaced, and a resize
\* that panics leaves the file as it was (memfs.go:35-58, 261-362).
Content == INSTANCE AbstractFile WITH
    content <- [f \in Files |->
                  [size |-> size[f], byte |-> [i \in 0..(size[f] - 1) |-> data[f].at[i]]]]

ImplementsAbstractFile == Content!AbstractSpec
=============================================================================
