---------------------------- MODULE MCConnConfig ----------------------------
(* Small instances of ConnConfig for TLC. *)
EXTENDS ConnConfig

\* The setters of the other platform change nothing but the host's own fields,
\* so each platform is explored without them.  The capabilities are explored with
\* every preset; the tuning values, the options and the fields with a setter,
\* which are independent of them, with the default capabilities.
Explored ==
    /\ on \subseteq (IF fuse3 THEN Fuse3Caps
                     ELSE WinFspCaps \cup {"autoInvalData", "flockLocks"})
    /\ \/ knob = 0 /\ hostConf = {} /\ given = {}
       \/ fuse3 /\ on \cup capable \subseteq {"autoInvalData"}
=============================================================================
