----------------------------- MODULE Namespace -----------------------------
(***************************************************************************)
(* What a file system promises of its names, told without nodes that point *)
(* to each other: a map from paths to nodes.  A directory's paths are the  *)
(* prefixes of the paths below it, a rename moves them all at once, and a  *)
(* node that was removed never comes back under another name.              *)
(***************************************************************************)
EXTENDS Naturals, SequencesExt

CONSTANTS AllPaths, Nodes

VARIABLES
    names,    \* the node of each path that exists
    dirs,     \* the nodes that are directories
    made      \* the nodes that were ever made

nvars == <<names, dirs, made>>

(* A map nm of paths, and the maps one request makes of it *)

Below(nm, p) == {q \in DOMAIN nm : IsStrictPrefix(p, q)}

\* The paths that do not exist, in a directory that does.
FreePaths(nm) == {p \in AllPaths \ DOMAIN nm :
                    p # <<>> /\ Front(p) \in DOMAIN nm /\ nm[Front(p)] \in dirs}

With(nm, p, n) == [q \in DOMAIN nm \cup {p} |-> IF q = p THEN n ELSE nm[q]]

Made(nm, n) == {With(nm, p, n) : p \in FreePaths(nm)}

Linked(nm) == {With(nm, q, nm[p]) : p \in {r \in DOMAIN nm : nm[r] \notin dirs},
                                    q \in FreePaths(nm)}

Removable(nm) == {p \in DOMAIN nm \ {<<>>} : Below(nm, p) = {}}

Removed(nm) == {[q \in DOMAIN nm \ {p} |-> nm[q]] : p \in Removable(nm)}

\* p, and every path below it, moves to q, which did not exist, or was of the
\* same kind and empty.
Targets(nm, p) ==
    {q \in FreePaths(nm) \cup {r \in Removable(nm) : nm[r] \in dirs <=> nm[p] \in dirs} :
        ~IsPrefix(p, q)}

Rename(nm, p, q) ==
    LET moved    == Below(nm, p) \cup {p}
        rest     == DOMAIN nm \ (moved \cup {q})
        dest(r)  == q \o SubSeq(r, Len(p) + 1, Len(r))
    IN  [r \in rest \cup {dest(s) : s \in moved} |->
            IF r \in rest THEN nm[r] ELSE nm[CHOOSE s \in moved : dest(s) = r]]

Renamed(nm) == UNION {{Rename(nm, p, q) : q \in Targets(nm, p)} : p \in DOMAIN nm \ {<<>>}}

-----------------------------------------------------------------------------
NamespaceInit ==
    \E root \in Nodes :
        names = [p \in {<<>>} |-> root] /\ dirs = {root} /\ made = {root}

\* A request is refused, makes a node, or changes the names of nodes.
NamespaceNext ==
    \/ UNCHANGED nvars
    \/ \E n \in Nodes \ made :
        /\ names' \in Made(names, n)
        /\ made' = made \cup {n} /\ dirs' \in {dirs, dirs \cup {n}}
    \/ /\ names' \in Linked(names) \cup Removed(names) \cup Renamed(names)
       /\ UNCHANGED <<dirs, made>>

NamespaceSpec == NamespaceInit /\ [][NamespaceNext]_nvars
=============================================================================
