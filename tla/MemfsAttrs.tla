----------------------------- MODULE MemfsAttrs -----------------------------
(***************************************************************************)
(* The attributes of a node of src/examples/memfs: how it is made, and how *)
(* Chmod, Chown, Utimens (and their FUSE3 forms), Chflags, Setcrtime and   *)
(* Setchgtime change it, with the callbacks of src/fuse/dispatch.go, which *)
(* turn the times of a request into those of a Timespec.  Every operation  *)
(* holds fs.lock; the node is what lookupNode or getNode found, and a      *)
(* request for none answers ENOENT and changes nothing.                    *)
(***************************************************************************)
EXTENDS Integers

CONSTANTS
    Types,      \* S_IFREG, S_IFDIR, ...
    Perms,      \* mode & 07777
    Ids,        \* user and group ids
    Flags,
    MaxTime     \* bound: the time that Now returns

\* Times are numbers; a tv_nsec of UTIME_NOW or UTIME_OMIT is no time.
UTIME_NOW  == -1
UTIME_OMIT == -2
Times      == 0..MaxTime
Requested  == Times \cup {UTIME_NOW, UTIME_OMIT}
NoId       == -1                \* ^uint32(0), leave it as it is

AttrsAssumption == Ids \subseteq Nat /\ Flags \subseteq Nat /\ 0 \in Flags /\ MaxTime \in Nat

VARIABLES
    now,
    node,     \* node_t.stat, without what MemfsData and Memfs are about
    born,     \* history: the type it was made with
    mixed     \* history: a request has asked for UTIME_NOW for one time only,
              \* or for UTIME_OMIT

vars == <<now, node, born, mixed>>

\* newNode
New(type, perm, uid, gid, t) ==
    [type |-> type, perm |-> perm, uid |-> uid, gid |-> gid,
     atim |-> t, mtim |-> t, ctim |-> t, birthtim |-> t, flags |-> 0]

Init ==
    /\ now \in Times
    /\ \E type \in Types, perm \in Perms, uid \in Ids, gid \in Ids :
          node = New(type, perm, uid, gid, now) /\ born = type
    /\ mixed = FALSE

Clock == now < MaxTime /\ now' = now + 1 /\ UNCHANGED <<node, born, mixed>>

Hist == UNCHANGED <<now, born, mixed>>

\* A mode has a type and permissions; the type of the node stays.
Chmod(type, perm) ==
    /\ node' = [node EXCEPT !.perm = perm, !.ctim = now]
    /\ Hist

Chown(uid, gid) ==
    /\ node' = [node EXCEPT !.uid = IF uid # NoId THEN uid ELSE @,
                            !.gid = IF gid # NoId THEN gid ELSE @, !.ctim = now]
    /\ Hist

\* Mutant: UTIME_NOW is left to the file system.
Mut_PassesNow(a, m) == <<a, m>>

\* hostUtimens: the current time when both are to be it; a null pointer asks
\* for the same.
HostTimes(a, m) == IF a = UTIME_NOW /\ m = UTIME_NOW THEN <<now, now>> ELSE <<a, m>>

Utimens(a, m) ==
    LET tmsp == HostTimes(a, m) IN
    /\ node' = [node EXCEPT !.ctim = now, !.atim = tmsp[1], !.mtim = tmsp[2]]
    /\ mixed' = (mixed \/ UTIME_OMIT \in {a, m} \/ (a = UTIME_NOW) # (m = UTIME_NOW))
    /\ UNCHANGED <<now, born>>

Chflags(flags) == node' = [node EXCEPT !.flags = flags, !.ctim = now] /\ Hist
Setcrtime(t)   == node' = [node EXCEPT !.birthtim = t, !.ctim = now] /\ Hist
Setchgtime(t)  == node' = [node EXCEPT !.ctim = t] /\ Hist

Next ==
    \/ Clock
    \/ \E type \in Types, perm \in Perms : Chmod(type, perm)
    \/ \E uid \in Ids \cup {NoId}, gid \in Ids \cup {NoId} : Chown(uid, gid)
    \/ \E a \in Requested, m \in Requested : Utimens(a, m)
    \/ \E flags \in Flags : Chflags(flags)
    \/ \E t \in Times : Setcrtime(t) \/ Setchgtime(t)

Spec == Init /\ [][Next]_vars

-----------------------------------------------------------------------------
(* Properties *)

\* A node stays what it was made as, which Readdir and the tree rely on to know
\* a directory; and the times that are stored are times, unless a request has
\* mixed the current time, or a time to leave alone, with another: such a
\* request reaches the file system as it is, and memfs stores the marker
\* (dispatch.go:590-618, memfs.go:197-242).
AttributesMakeSense ==
    /\ node.type = born
    /\ ~mixed => {node.atim, node.mtim, node.ctim, node.birthtim} \subseteq Times
=============================================================================
