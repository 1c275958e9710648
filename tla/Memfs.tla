------------------------------- MODULE Memfs -------------------------------
(***************************************************************************)
(* The name space and the open files of src/examples/memfs: lookupNode,    *)
(* makeNode, removeNode, openNode, closeNode, Link, Rename and Rename3.    *)
(* Every operation holds fs.lock from its first to its last step, so it is *)
(* one action; a panic unwinds through the deferred Unlock.                *)
(*                                                                         *)
(* A node is its inode number.  chld is a function into nodes, NoNode where*)
(* the Go map has no entry.  Times, owners, permission bits and xattrs are *)
(* left out, contents are in MemfsData.                                    *)
(*                                                                         *)
(* External: the kernel, which sends only requests whose parent directory  *)
(* is not a file, never links a directory or renames a path to itself, and *)
(* releases what it opened.                                                *)
(***************************************************************************)
EXTENDS Naturals, FiniteSets, Sequences

CONSTANTS
    Names,       \* path components
    LongNames,   \* those of more than 255 characters
    NoName,      \* the empty string
    MaxNodes,    \* bound: inode numbers
    Paths,       \* bound: the paths in requests
    MaxOpen      \* bound: opens of one node at a time

Inos   == 1..MaxNodes
Root   == 1
NoNode == 0
Maybe  == Inos \cup {NoNode}
Kinds  == {"dir", "file"}        \* Mknod and Symlink make a "file"
Flags  == {"none", "NOREPLACE", "other"}
Errors == {"ok", "ENOENT", "EEXIST", "EISDIR", "ENOTDIR", "ENOTEMPTY", "EINVAL",
           "ENAMETOOLONG"}

ASSUME MemfsAssumption ==
    /\ MaxNodes \in Nat \ {0} /\ MaxOpen \in Nat
    /\ Paths \subseteq Seq(Names)
    /\ LongNames \subseteq Names
    /\ NoName \notin Names

VARIABLES
    ino,       \* Memfs.ino, the last inode number given out
    kind,      \* stat.Mode & S_IFMT of each node
    chld,      \* node_t.chld
    nlink,     \* node_t.stat.Nlink
    opencnt,   \* node_t.opencnt
    openmap,   \* the keys of Memfs.openmap; openmap[n] is the node n
    held,      \* kernel: open files of each handle
    errc       \* the answer to the latest request

treeVars == <<ino, kind, chld, nlink>>
openVars == <<opencnt, openmap, held>>
vars     == <<treeVars, openVars, errc>>

\* NewMemfs.
Init ==
    /\ ino = Root
    /\ kind = [n \in Inos |-> IF n = Root THEN "dir" ELSE "file"]
    /\ chld = [n \in Inos |-> [c \in Names |-> NoNode]]
    /\ nlink = [n \in Inos |-> IF n = Root THEN 1 ELSE 0]
    /\ opencnt = [n \in Inos |-> 0] /\ openmap = {} /\ held = [n \in Inos |-> 0]
    /\ errc = "ok"

-----------------------------------------------------------------------------
(* lookupNode *)

Child(n, c) == IF n = NoNode THEN NoNode ELSE chld[n][c]

\* The node after each component of p.
Walk(p) ==
    LET w[i \in 0..Len(p)] == IF i = 0 THEN Root ELSE Child(w[i - 1], p[i])
    IN  w

\* Mutant: the guard against loops looks at the last component only.
Mut_LastComponentOnly(p, w, ancestor) ==
    CHOOSE i \in 0..Len(p) :
        /\ (i > 0 /\ w[i - 1] = NoNode) \/ i = Len(p)
        /\ \A j \in 1..(i - 1) : w[j - 1] # NoNode

\* The loop ends at the first component whose directory is missing, or whose
\* node is the ancestor that is looked for, or with the path.
LastStep(p, w, ancestor) ==
    CHOOSE i \in 0..Len(p) :
        LET ends(j) == j > 0 /\ (w[j - 1] = NoNode \/ (ancestor # NoNode /\ w[j] = ancestor))
        IN  /\ ends(i) \/ i = Len(p)
            /\ \A j \in 0..(i - 1) : ~ends(j)

\* tooLong: the panic with ENAMETOOLONG.
lookupNode(p, ancestor) ==
    LET w == Walk(p)
        i == LastStep(p, w, ancestor)
        looped == i > 0 /\ ancestor # NoNode /\ w[i] = ancestor
    IN  [prnt    |-> IF i = 0 THEN Root ELSE w[i - 1],
         name    |-> IF i = 0 \/ looped THEN NoName ELSE p[i],
         node    |-> w[i],
         tooLong |-> \E j \in 1..i : p[j] \in LongNames]

-----------------------------------------------------------------------------
(* The operations *)

\* The kernel has looked up the parent, and found a directory or nothing.
KernelPath(p) ==
    /\ p # <<>>
    /\ LET d == Walk(p)[Len(p) - 1] IN d # NoNode => kind[d] = "dir"

SetChild(d, c, n) == chld' = [chld EXCEPT ![d][c] = n]

MakeError(at) ==
    IF at.tooLong THEN "ENAMETOOLONG"
    ELSE IF at.prnt = NoNode THEN "ENOENT"
    ELSE IF at.node # NoNode THEN "EEXIST" ELSE "ok"

\* Mknod, Mkdir and Symlink.
MakeNode(p, k) ==
    LET at == lookupNode(p, NoNode) IN
    /\ KernelPath(p) /\ ino < MaxNodes
    /\ errc' = MakeError(at)
    /\ IF errc' = "ok"
       THEN /\ ino' = ino + 1
            /\ kind' = [kind EXCEPT ![ino + 1] = k]
            /\ nlink' = [nlink EXCEPT ![ino + 1] = 1]
            /\ SetChild(at.prnt, at.name, ino + 1)
       ELSE UNCHANGED treeVars
    /\ UNCHANGED openVars

\* Mutant: an empty directory is not required.
Mut_RemoveNonEmpty(at, dir) ==
    IF at.tooLong THEN "ENAMETOOLONG"
    ELSE IF at.node = NoNode THEN "ENOENT"
    ELSE IF ~dir /\ kind[at.node] = "dir" THEN "EISDIR"
    ELSE IF dir /\ kind[at.node] # "dir" THEN "ENOTDIR" ELSE "ok"

RemoveError(at, dir) ==
    IF at.tooLong THEN "ENAMETOOLONG"
    ELSE IF at.node = NoNode THEN "ENOENT"
    ELSE IF ~dir /\ kind[at.node] = "dir" THEN "EISDIR"
    ELSE IF dir /\ kind[at.node] # "dir" THEN "ENOTDIR"
    ELSE IF \E c \in Names : chld[at.node][c] # NoNode THEN "ENOTEMPTY" ELSE "ok"

\* Unlink and Rmdir.
RemoveNode(p, dir) ==
    LET at == lookupNode(p, NoNode) IN
    /\ KernelPath(p)
    /\ errc' = RemoveError(at, dir)
    /\ IF errc' = "ok"
       THEN /\ nlink' = [nlink EXCEPT ![at.node] = @ - 1]
            /\ SetChild(at.prnt, at.name, NoNode)
            /\ UNCHANGED <<ino, kind>>
       ELSE UNCHANGED treeVars
    /\ UNCHANGED openVars

LinkError(old, new) ==
    IF old.tooLong THEN "ENAMETOOLONG"
    ELSE IF old.node = NoNode THEN "ENOENT" ELSE MakeError(new)

\* Mutant: Link forgets Nlink++.
Mut_LinkKeepsNlink(p, q) ==
    LET old == lookupNode(p, NoNode)
        new == lookupNode(q, NoNode)
    IN
    /\ KernelPath(p) /\ KernelPath(q)
    /\ old.node # NoNode => kind[old.node] # "dir"
    /\ errc' = LinkError(old, new)
    /\ IF errc' = "ok" THEN SetChild(new.prnt, new.name, old.node) ELSE UNCHANGED chld
    /\ UNCHANGED <<ino, kind, nlink, openVars>>

Link(p, q) ==
    LET old == lookupNode(p, NoNode)
        new == lookupNode(q, NoNode)
    IN
    /\ KernelPath(p) /\ KernelPath(q)
    /\ old.node # NoNode => kind[old.node] # "dir"
    /\ errc' = LinkError(old, new)
    /\ IF errc' = "ok"
       THEN /\ nlink' = [nlink EXCEPT ![old.node] = @ + 1]
            /\ SetChild(new.prnt, new.name, old.node)
            /\ UNCHANGED <<ino, kind>>
       ELSE UNCHANGED treeVars
    /\ UNCHANGED openVars

\* The checks of Rename3, and of Rename, which is Rename3 without flags.  A
\* target that exists is removed with removeNode, as a directory or as a file
\* like the source.
RenameError(old, new, flags) ==
    IF flags = "other" THEN "EINVAL"
    ELSE IF old.tooLong THEN "ENAMETOOLONG"
    ELSE IF old.node = NoNode THEN "ENOENT"
    ELSE IF new.tooLong THEN "ENAMETOOLONG"
    ELSE IF new.prnt = NoNode THEN "ENOENT"
    ELSE IF new.name = NoName THEN "EINVAL"
    ELSE IF new.node = NoNode THEN "ok"
    ELSE IF flags = "NOREPLACE" THEN "EEXIST"
    ELSE RemoveError(new, kind[old.node] = "dir")

\* Mutants: the source is taken out before the target is checked; the target
\* is overwritten without removeNode.
Mut_RenameDeletesFirst(p, q, flags) ==
    LET old == lookupNode(p, NoNode)
        new == lookupNode(q, old.node)
    IN
    /\ KernelPath(p) /\ KernelPath(q) /\ p # q
    /\ errc' = RenameError(old, new, flags)
    /\ old.node # NoNode
    /\ chld' = [chld EXCEPT ![old.prnt][old.name] = NoNode]
    /\ UNCHANGED <<ino, kind, nlink, openVars>>
Mut_RenameKeepsNlink(p, q, flags) ==
    LET old == lookupNode(p, NoNode)
        new == lookupNode(q, old.node)
    IN
    /\ KernelPath(p) /\ KernelPath(q) /\ p # q
    /\ errc' = RenameError(old, new, flags)
    /\ IF errc' = "ok"
       THEN chld' = [chld EXCEPT ![old.prnt][old.name] = NoNode, ![new.prnt][new.name] = old.node]
       ELSE UNCHANGED chld
    /\ UNCHANGED <<ino, kind, nlink, openVars>>

\* Rename and Rename3; old.name is gone before new.name is set, under the lock.
Rename(p, q, flags) ==
    LET old == lookupNode(p, NoNode)
        new == lookupNode(q, old.node)
    IN
    /\ KernelPath(p) /\ KernelPath(q) /\ p # q
    /\ errc' = RenameError(old, new, flags)
    /\ IF errc' = "ok" /\ ~(old.prnt = new.prnt /\ old.name = new.name)
       THEN /\ nlink' = IF new.node = NoNode THEN nlink ELSE [nlink EXCEPT ![new.node] = @ - 1]
            /\ chld' = [chld EXCEPT ![old.prnt][old.name] = NoNode,
                                    ![new.prnt][new.name] = old.node]
            /\ UNCHANGED <<ino, kind>>
       ELSE UNCHANGED treeVars
    /\ UNCHANGED openVars

-----------------------------------------------------------------------------
(* Open files *)

OpenError(at, dir) ==
    IF at.tooLong THEN "ENAMETOOLONG"
    ELSE IF at.node = NoNode THEN "ENOENT"
    ELSE IF ~dir /\ kind[at.node] = "dir" THEN "EISDIR"
    ELSE IF dir /\ kind[at.node] # "dir" THEN "ENOTDIR" ELSE "ok"

\* Node n is opened, and the kernel holds its inode number as a handle.
Opened(n) ==
    /\ opencnt' = [opencnt EXCEPT ![n] = @ + 1]
    /\ openmap' = IF opencnt[n] = 0 THEN openmap \cup {n} ELSE openmap
    /\ held' = [held EXCEPT ![n] = @ + 1]

\* Open and Opendir.
OpenNode(p, dir) ==
    LET at == lookupNode(p, NoNode) IN
    /\ at.node # NoNode => held[at.node] < MaxOpen
    /\ errc' = OpenError(at, dir)
    /\ IF errc' = "ok" THEN Opened(at.node) ELSE UNCHANGED openVars
    /\ UNCHANGED treeVars

\* hostCreate of a file system whose Create answers ENOSYS: Mknod, then Open.
\* libfuse holds the path in between.
Create(p) ==
    LET at == lookupNode(p, NoNode) IN
    /\ KernelPath(p) /\ ino < MaxNodes /\ MaxOpen > 0
    /\ errc' = MakeError(at)
    /\ IF errc' = "ok"
       THEN /\ ino' = ino + 1
            /\ kind' = [kind EXCEPT ![ino + 1] = "file"]
            /\ nlink' = [nlink EXCEPT ![ino + 1] = 1]
            /\ SetChild(at.prnt, at.name, ino + 1)
            /\ Opened(ino + 1)
       ELSE UNCHANGED <<treeVars, openVars>>

\* Mutant: the handle is dropped with the last name.
Mut_UnlinkedIsClosed(fh) ==
    /\ held[fh] > 0
    /\ opencnt' = [opencnt EXCEPT ![fh] = @ - 1]
    /\ openmap' = IF opencnt[fh] = 1 \/ nlink[fh] = 0 THEN openmap \ {fh} ELSE openmap
    /\ held' = [held EXCEPT ![fh] = @ - 1]
    /\ errc' = "ok"
    /\ UNCHANGED treeVars

\* Release and Releasedir.
CloseNode(fh) ==
    /\ held[fh] > 0
    /\ opencnt' = [opencnt EXCEPT ![fh] = @ - 1]
    /\ openmap' = IF opencnt[fh] = 1 THEN openmap \ {fh} ELSE openmap
    /\ held' = [held EXCEPT ![fh] = @ - 1]
    /\ errc' = "ok"
    /\ UNCHANGED treeVars

Next ==
    \/ \E p \in Paths :
        \/ \E k \in Kinds : MakeNode(p, k)
        \/ Create(p)
        \/ \E dir \in BOOLEAN : RemoveNode(p, dir) \/ OpenNode(p, dir)
        \/ \E q \in Paths : Link(p, q) \/ \E flags \in Flags : Rename(p, q, flags)
    \/ \E fh \in Inos : CloseNode(fh)

Spec == Init /\ [][Next]_vars

-----------------------------------------------------------------------------
(* Properties *)

TypeOK ==
    /\ ino \in Inos /\ kind \in [Inos -> Kinds]
    /\ chld \in [Inos -> [Names -> Maybe]] /\ nlink \in [Inos -> Nat]
    /\ opencnt \in [Inos -> Nat] /\ openmap \subseteq Inos
    /\ held \in [Inos -> Nat] /\ errc \in Errors

Entries(n) == {e \in Inos \X Names : chld[e[1]][e[2]] = n}

\* Nlink counts the names of a node, through Link, Unlink and every Rename that
\* replaces its target (memfs.go:140, 187, 570).
NlinkCountsNames ==
    \A n \in Inos \ {Root} : nlink[n] = Cardinality(Entries(n))

\* Every node with a name can be reached from the root: Rename never makes a
\* directory its own descendant (memfs.go:179-182, 525-528) and nothing below
\* a removed directory is lost.  (Of any set of named nodes one has its parent
\* outside the set.)
NamedNodesAreReachable ==
    \A S \in SUBSET {n \in Inos \ {Root} : nlink[n] > 0} :
        S # {} => \E n \in S : \E d \in Inos \ S :
                     (d = Root \/ nlink[d] > 0) /\ \E c \in Names : chld[d][c] = n

\* A directory has one parent, a removed one is empty, a file has no entries.
DirectoriesFormATree ==
    \A n \in Inos :
        /\ kind[n] = "dir" => nlink[n] <= 1
        /\ kind[n] = "file" \/ nlink[n] = 0 => \A c \in Names : chld[n][c] = NoNode

\* The kernel's handles, and only they, resolve in openmap, whatever happened
\* to the names of the node meanwhile: reads and writes of a file that was
\* renamed, replaced or unlinked while open go on, and no node leaks
\* (memfs.go:590-603).
OpenFilesAreMapped == openmap = {n \in Inos : held[n] > 0}

\* A request that is refused changes nothing, also a Rename that fails in the
\* removeNode of its target (memfs.go:186-191).
RefusalChangesNothing ==
    [][errc' # "ok" => UNCHANGED <<treeVars, openVars>>]_vars

\* Rename answers EINVAL only to unknown flags and to guard against directory
\* loops (memfs.go:180, memfs3.go:38).  False for two names of one file.
RenameRefusesOnlyLoops ==
    [][\A p, q \in Paths : Rename(p, q, "none") /\ errc' = "EINVAL" =>
          kind[Walk(p)[Len(p)]] = "dir"]_vars
-----------------------------------------------------------------------------
(* Refinement *)

\* No name is too long, and no tree deeper than the number of its nodes allows.
AllPaths == UNION {[1..n -> Names \ LongNames] : n \in 0..(MaxNodes - 1)}
NodeAt(p) == Walk(p)[Len(p)]
Named     == {p \in AllPaths : NodeAt(p) # NoNode}

\* What the paths of the tree name changes only as Namespace says of creating,
\* linking, removing and renaming a path (memfs.go:126-195, 534-577).
PathMap == INSTANCE Namespace WITH
    AllPaths <- AllPaths,
    Nodes    <- Inos,
    names    <- [p \in Named |-> NodeAt(p)],
    dirs     <- {n \in 1..ino : kind[n] = "dir"},
    made     <- 1..ino

ImplementsNamespace == PathMap!NamespaceSpec
=============================================================================
