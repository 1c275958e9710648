------------------------------ MODULE Libraries ------------------------------
(***************************************************************************)
(* What a loader of the FUSE library is given, on UNIX (LibfuseLoader) and *)
(* on Windows without cgo (NocgoHost): goroutines that call Mount, each of *)
(* a host of its own, named as it is, or OptParse; and the libraries there *)
(* are.                                                                    *)
(***************************************************************************)
EXTENDS Naturals

CONSTANTS
    Threads,     \* goroutines
    Libs,        \* libraries that the system can open
    Paths,       \* values given to SetLibfusePath
    PathLib,     \* the library at each path, or NoLib
    Default,     \* what the built-in search finds, or NoLib
    NoLib,       \* a nil pointer: no library, no host
    NoPath,      \* the empty string, or none: no path is configured
    MaxCalls     \* bound: calls of Mount and OptParse by each thread

MaybeLib == Libs \cup {NoLib}
==============================================================================
