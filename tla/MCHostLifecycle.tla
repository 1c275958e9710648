-------------------------- MODULE MCHostLifecycle --------------------------
(* Small instances of HostLifecycle for TLC. *)
EXTENDS HostLifecycle

CONSTANTS c1, c2, m1, m2, none

OneCaller  == {c1}
TwoCallers == {c1, c2}
OnePath    == {m1}
TwoPaths   == {m1, m2}

\* Callers keep to the comment on Unmount (host.go:230-231): they call it
\* after Init was called and before Destroy is.
CallersKeepToTheDoc ==
    \A t \in Callers : UnmountSnapshot(t) => pc = "serving"
=============================================================================
