------------------------------ MODULE MCMemfs ------------------------------
(* Small instances of Memfs for TLC. *)
EXTENDS Memfs

CONSTANTS a, b, long, none

TwoNames   == {a, b}
WithLong   == {a, b, long}
OnlyLong   == {long}

UpTo(depth) == UNION {[1..n -> TwoNames] : n \in 0..depth}

ShortPaths == UpTo(2)
SomePaths  == UpTo(3) \cup {<<long>>, <<a, long>>, <<long, a>>}

\* A refused request changes no more than errc (RefusalChangesNothing), so nothing
\* is explored behind one; files are opened in trees of at most three nodes.
Explored ==
    /\ errc = "ok"
    /\ openmap = {} \/ ino <= 3
=============================================================================
