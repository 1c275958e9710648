---------------------------- MODULE AbstractFile ----------------------------
(***************************************************************************)
(* What a file system promises of the bytes of its files: a file is as     *)
(* long as its size, a byte that was never written reads as zero, however  *)
(* the file shrank and grew, and a request without space changes nothing.  *)
(***************************************************************************)
EXTENDS Integers

CONSTANTS
    Files,
    Bytes,      \* values of a byte, with 0
    MaxInt,     \* bound: the largest offset and size
    MaxLen      \* bound: bytes in one write

VARIABLES
    content,    \* the size and the bytes of each file
    reply       \* the answer to the latest request

avars == <<content, reply>>

Sizes     == 0..MaxInt
Empty     == [i \in {} |-> 0]
Answer(n) == [err |-> "ok", n |-> n, data |-> Empty]
Refused(e) == [err |-> e, n |-> 0, data |-> Empty]

\* c cut off or filled with zeros to n bytes, and never cut off.
Resized(c, n) ==
    [size |-> n, byte |-> [i \in 0..(n - 1) |-> IF i < c.size THEN c.byte[i] ELSE 0]]
Extended(c, n) == IF n > c.size THEN Resized(c, n) ELSE c

\* c with the n bytes of b at ofst.
Overlaid(c, ofst, n, b) ==
    LET e == Extended(c, ofst + n) IN
    [e EXCEPT !.byte = [i \in 0..(e.size - 1) |->
                           IF i >= ofst /\ i < ofst + n THEN b[i - ofst] ELSE e.byte[i]]]

\* How many of n bytes at ofst there are, and those bytes.
Available(c, ofst, n) ==
    IF ofst + n <= c.size THEN n ELSE IF ofst < c.size THEN c.size - ofst ELSE 0
Part(c, ofst, n) == [i \in 0..(n - 1) |-> c.byte[ofst + i]]

AbstractInit ==
    /\ content = [f \in Files |-> [size |-> 0, byte |-> Empty]]
    /\ reply = Answer(0)

Truncated(f, n) ==
    reply' = Answer(0) /\ content' = [content EXCEPT ![f] = Resized(@, n)]

Allocated(f, end) ==
    reply' = Answer(0) /\ content' = [content EXCEPT ![f] = Extended(@, end)]

Written(f, ofst, n, b) ==
    reply' = Answer(n) /\ content' = [content EXCEPT ![f] = Overlaid(@, ofst, n, b)]

ReadOut(f, ofst, n) ==
    LET k == Available(content[f], ofst, n) IN
    /\ reply' = [err |-> "ok", n |-> k, data |-> Part(content[f], ofst, k)]
    /\ UNCHANGED content

\* From f to g, which may be the same file.
Copied(f, ofst, g, to, n) ==
    /\ n <= Available(content[f], ofst, n)
    /\ reply' = Answer(n)
    /\ content' = IF n = 0 THEN content
                  ELSE [content EXCEPT ![g] = Overlaid(@, to, n, Part(content[f], ofst, n))]

\* No space, or an unsupported mode.
Refuse == reply' \in {Refused(e) : e \in {"ENOSPC", "ENOSYS"}} /\ UNCHANGED content

AbstractNext ==
    \/ Refuse
    \/ \E f \in Files, n \in Sizes :
        \/ Truncated(f, n) \/ Allocated(f, n)
        \/ \E ofst \in 0..(MaxInt - n) :
            \/ ReadOut(f, ofst, n)
            \/ n <= MaxLen /\ \E b \in [0..(n - 1) -> Bytes] : Written(f, ofst, n, b)
            \/ \E g \in Files, to \in 0..(MaxInt - n) : Copied(f, ofst, g, to, n)

AbstractSpec == AbstractInit /\ [][AbstractNext]_avars
=============================================================================
