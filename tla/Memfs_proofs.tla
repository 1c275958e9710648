---------------------------- MODULE Memfs_proofs ----------------------------
(***************************************************************************)
(* Proofs about Memfs, for every number of inodes, set of names and set of *)
(* paths: the tree of directories, the link counts, the open files.        *)
(***************************************************************************)
EXTENDS Memfs, FiniteSetTheorems, SequenceTheorems, TLAPS

-----------------------------------------------------------------------------
(* lookupNode *)

\* Of the natural numbers of a set one is the least.  (Applied to the set of
\* counterexamples, this is the induction that lookupNode's loop needs.)
LEMMA LeastElement ==
    ASSUME NEW T \in SUBSET Nat, T # {}
    PROVE  \E m \in T : \A n \in T : m <= n
<1> DEFINE U == {0..n : n \in T}
<1>1. U \subseteq FiniteSubsetsOf(Nat)
  <2> SUFFICES ASSUME NEW n \in T PROVE 0..n \in FiniteSubsetsOf(Nat)
    OBVIOUS
  <2>1. IsFiniteSet(0..n)
    BY FS_Interval
  <2> QED
    BY <2>1 DEF FiniteSubsetsOf
<1>2. U # {}
  OBVIOUS
<1> HIDE DEF U
<1>3. PICK x \in U : \A y \in U : ~ (<<y, x>> \in StrictSubsetOrdering(Nat))
  BY ONLY <1>1, <1>2, WFMin, FS_StrictSubsetOrderingWellFounded
<1>4. PICK m \in T : x = 0..m
  BY DEF U
<1>5. ASSUME NEW n \in T, n < m PROVE FALSE
  <2>1. 0..n \in U
    BY DEF U
  <2>2. 0..n \subseteq 0..m /\ 0..n # 0..m
    <3>1. m \in 0..m /\ m \notin 0..n
      BY <1>5
    <3> QED
      BY <1>5, <3>1
  <2>3. 0..n \in SUBSET Nat /\ 0..m \in SUBSET Nat
    OBVIOUS
  <2>4. <<0..n, 0..m>> \in StrictSubsetOrdering(Nat)
    BY <2>2, <2>3 DEF StrictSubsetOrdering
  <2> QED
    BY <1>3, <1>4, <2>1, <2>4
<1> QED
  BY <1>5

\* The part of TypeOK that is about the tree.
TreeTypeOK ==
    /\ ino \in Inos /\ kind \in [Inos -> Kinds]
    /\ chld \in [Inos -> [Names -> Maybe]] /\ nlink \in [Inos -> Nat]

\* w has the node after each of the first n components of p.
WalksTo(w, p, n) ==
    /\ w \in [0..n -> Maybe] /\ w[0] = Root
    /\ \A i \in 1..n : w[i] = Child(w[i - 1], p[i])

LEMMA WalkExists ==
    ASSUME TreeTypeOK, NEW p \in Seq(Names)
    PROVE  \E w : WalksTo(w, p, Len(p))
<1> DEFINE T == {n \in 0..Len(p) : ~ \E w : WalksTo(w, p, n)}
<1>0. Len(p) \in 0..Len(p)
  OBVIOUS
<1> SUFFICES ASSUME T # {} PROVE FALSE
  BY <1>0
<1>1. PICK m \in T : \A n \in T : m <= n
  <2>1. T \in SUBSET Nat
    OBVIOUS
  <2> HIDE DEF T
  <2> QED
    BY <2>1, LeastElement
<1>2. CASE m = 0
  <2>1. WalksTo([i \in 0..0 |-> Root], p, 0)
    BY MemfsAssumption DEF WalksTo, Maybe, Inos, Root
  <2> QED
    BY <1>2, <2>1
<1>3. CASE m > 0
  <2>1. m - 1 \in 0..Len(p) /\ m - 1 \notin T
    BY <1>1, <1>3
  <2>2. PICK v : WalksTo(v, p, m - 1)
    BY <2>1
  <2> DEFINE w == [i \in 0..m |-> IF i = m THEN Child(v[m - 1], p[m]) ELSE v[i]]
  <2>3. p[m] \in Names
    BY <1>3
  <2>4. Child(v[m - 1], p[m]) \in Maybe
    BY <1>3, <2>2, <2>3 DEF WalksTo, Child, Maybe, TreeTypeOK
  <2>5. WalksTo(w, p, m)
    BY <1>3, <2>2, <2>4 DEF WalksTo
  <2> QED
    BY <2>5
<1> QED
  BY <1>2, <1>3

LEMMA WalkFacts ==
    ASSUME TreeTypeOK, NEW p \in Seq(Names)
    PROVE  WalksTo(Walk(p), p, Len(p))
<1> DEFINE IsWalk(w) == w = [i \in 0..Len(p) |-> IF i = 0 THEN Root ELSE Child(w[i - 1], p[i])]
<1>1. \E w : IsWalk(w)
  <2>1. PICK w : WalksTo(w, p, Len(p))
    BY WalkExists
  <2>2. IsWalk(w)
    BY <2>1 DEF WalksTo
  <2> QED
    BY <2>2
<1>2. Walk(p) = CHOOSE w : IsWalk(w)
  BY DEF Walk
<1> DEFINE w == Walk(p)
<1>3. IsWalk(w)
  BY <1>1, <1>2
<1> HIDE DEF w
<1>4. /\ DOMAIN w = 0..Len(p) /\ w[0] = Root
      /\ \A i \in 1..Len(p) : w[i] = Child(w[i - 1], p[i])
  <2>1. Len(p) \in Nat
    OBVIOUS
  <2>2. \A i \in 0..Len(p) : w[i] = IF i = 0 THEN Root ELSE Child(w[i - 1], p[i])
    BY <1>3
  <2> QED
    BY <1>3, <2>1, <2>2
<1> DEFINE T == {i \in 0..Len(p) : w[i] \notin Maybe}
<1>5. T = {}
  <2> SUFFICES ASSUME T # {} PROVE FALSE
    OBVIOUS
  <2>1. PICK m \in T : \A i \in T : m <= i
    <3>1. T \in SUBSET Nat
      OBVIOUS
    <3> HIDE DEF T
    <3> QED
      BY <3>1, LeastElement
  <2>2. m # 0
    BY <1>4, MemfsAssumption DEF Maybe, Inos, Root
  <2>3. w[m - 1] \in Maybe /\ p[m] \in Names
    BY <2>1, <2>2
  <2> QED
    BY <1>4, <2>2, <2>3 DEF Child, Maybe, TreeTypeOK
<1>6. w = [i \in 0..Len(p) |-> w[i]]
  BY <1>3
<1>7. WalksTo(w, p, Len(p))
  BY <1>4, <1>5, <1>6 DEF WalksTo
<1> QED
  BY <1>7 DEF w

\* lookupNode stops after component j.
Ends(w, ancestor, j) ==
    j > 0 /\ (w[j - 1] = NoNode \/ (ancestor # NoNode /\ w[j] = ancestor))

LEMMA LastStepFacts ==
    ASSUME NEW p \in Seq(Names), NEW w, NEW o
    PROVE  LET i == LastStep(p, w, o) IN
           /\ i \in 0..Len(p)
           /\ Ends(w, o, i) \/ i = Len(p)
           /\ \A j \in 0..(i - 1) : ~Ends(w, o, j)
<1> DEFINE Stop(i) == Ends(w, o, i) \/ i = Len(p)
           T == {i \in 0..Len(p) : Stop(i)}
           Last(i) == Stop(i) /\ \A j \in 0..(i - 1) : ~Ends(w, o, j)
<1>1. Len(p) \in T /\ T \in SUBSET Nat
  OBVIOUS
<1>2. \E i \in 0..Len(p) : Last(i)
  <2>1. PICK i \in T : \A j \in T : i <= j
    <3> HIDE DEF T
    <3> QED
      BY <1>1, LeastElement
  <2> QED
    BY <2>1
<1>3. LastStep(p, w, o) = CHOOSE i \in 0..Len(p) : Last(i)
  BY DEF LastStep, Ends
<1> HIDE DEF Last
<1>4. LastStep(p, w, o) \in 0..Len(p) /\ Last(LastStep(p, w, o))
  BY <1>2, <1>3
<1> QED
  BY <1>4 DEF Last

\* What lookupNode(p, o) answers: the node is what its directory has under the
\* name, and the loop came to the directory by nodes that are not the ancestor.
LEMMA LookupFacts ==
    ASSUME TreeTypeOK, NEW p \in Paths, NEW o \in Maybe
    PROVE  LET at == lookupNode(p, o) IN
           /\ at.node \in Maybe /\ at.prnt \in Maybe
           /\ at.name = NoName \/ at.name \in Names
           /\ at.name # NoName => at.node = Child(at.prnt, at.name)
           /\ p # <<>> /\ o = NoNode => at.name # NoName
           /\ o # NoNode /\ o # Root /\ at.node = o => at.name = NoName
           /\ ~at.tooLong => at.name \notin LongNames
           /\ KernelPath(p) /\ at.name # NoName /\ at.prnt # NoNode =>
                 kind[at.prnt] = "dir"
           /\ \A S \in SUBSET Inos : at.prnt \in S /\ Root \notin S =>
                 \E d \in Inos \ S : \E c \in Names : chld[d][c] \in S \ {o}
<1> DEFINE w == Walk(p)
           i == LastStep(p, w, o)
           at == lookupNode(p, o)
<1>0. p \in Seq(Names) /\ Len(p) \in Nat /\ Root \in Inos /\ Root # NoNode
  BY MemfsAssumption DEF Root, Inos, NoNode
<1>1. /\ w \in [0..Len(p) -> Maybe] /\ w[0] = Root
      /\ \A j \in 1..Len(p) : w[j] = Child(w[j - 1], p[j])
  BY <1>0, WalkFacts DEF WalksTo
<1>2. /\ i \in 0..Len(p) /\ (Ends(w, o, i) \/ i = Len(p))
      /\ \A j \in 0..(i - 1) : ~Ends(w, o, j)
  BY <1>0, LastStepFacts
<1> DEFINE looped == i > 0 /\ o # NoNode /\ w[i] = o
<1>3. /\ at.prnt = IF i = 0 THEN Root ELSE w[i - 1]
      /\ at.name = IF i = 0 \/ looped THEN NoName ELSE p[i]
      /\ at.node = w[i]
      /\ at.tooLong <=> \E j \in 1..i : p[j] \in LongNames
  BY DEF lookupNode
<1>4. KernelPath(p) => LET d == w[Len(p) - 1] IN d # NoNode => kind[d] = "dir"
  BY DEF KernelPath
<1> HIDE DEF w, i, at
<1>5. at.node \in Maybe /\ at.prnt \in Maybe
  BY <1>0, <1>1, <1>2, <1>3 DEF Maybe
<1>6. i > 0 => p[i] \in Names /\ p[i] # NoName
  BY <1>0, <1>2, MemfsAssumption
<1>7. at.name # NoName => at.node = Child(at.prnt, at.name)
  BY <1>0, <1>1, <1>2, <1>3
<1>8. p # <<>> => i > 0
  <2>1. p # <<>> => Len(p) > 0
    BY <1>0
  <2> QED
    BY <1>0, <1>2, <2>1 DEF Ends
<1>9. o # NoNode /\ o # Root /\ at.node = o => at.name = NoName
  BY <1>1, <1>2, <1>3
<1>10. KernelPath(p) /\ at.name # NoName /\ at.prnt # NoNode => kind[at.prnt] = "dir"
  <2> SUFFICES ASSUME KernelPath(p), at.name # NoName, at.prnt # NoNode
               PROVE  kind[at.prnt] = "dir"
    OBVIOUS
  <2>1. i > 0 /\ ~looped /\ at.prnt = w[i - 1]
    BY <1>2, <1>3
  <2>2. i = Len(p)
    BY <1>2, <2>1 DEF Ends
  <2> QED
    BY <1>4, <2>1, <2>2
<1>11. ASSUME NEW S \in SUBSET Inos, at.prnt \in S, Root \notin S
       PROVE  \E d \in Inos \ S : \E c \in Names : chld[d][c] \in S \ {o}
  <2> DEFINE T == {j \in 0..(i - 1) : w[j] \in S}
  <2>1. i > 0 /\ i - 1 \in T
    BY <1>2, <1>3, <1>11
  <2>2. PICK j \in T : \A k \in T : j <= k
    <3>1. T \in SUBSET Nat
      BY <1>2
    <3> HIDE DEF T
    <3> QED
      BY <2>1, <3>1, LeastElement
  <2>3. j \in 1..Len(p) /\ j - 1 \in 0..(i - 1) /\ w[j] \in S
    BY <1>1, <1>2, <1>11, <2>2
  <2>4. w[j - 1] \notin S /\ w[j - 1] \in Maybe
    BY <1>1, <2>2, <2>3
  <2>5. w[j] = Child(w[j - 1], p[j]) /\ p[j] \in Names
    BY <1>0, <1>1, <2>3
  <2>6. w[j] # NoNode
    BY <2>3 DEF Inos, NoNode
  <2>7. w[j - 1] # NoNode
    BY <2>5, <2>6 DEF Child
  <2>8. w[j] # o
    BY <1>2, <2>2, <2>3, <2>6 DEF Ends
  <2>9. w[j - 1] \in Inos \ S /\ chld[w[j - 1]][p[j]] \in S \ {o}
    BY <2>3, <2>4, <2>5, <2>7, <2>8 DEF Child, Maybe
  <2> QED
    BY <2>5, <2>9
<1>12. at.name = NoName \/ at.name \in Names
  BY <1>2, <1>3, <1>6
<1>13. p # <<>> /\ o = NoNode => at.name # NoName
  BY <1>3, <1>6, <1>8
<1>14. \A S \in SUBSET Inos : at.prnt \in S /\ Root \notin S =>
          \E d \in Inos \ S : \E c \in Names : chld[d][c] \in S \ {o}
  BY <1>11
<1>15. ~at.tooLong => at.name \notin LongNames
  BY <1>2, <1>3, MemfsAssumption
<1> QED
  BY ONLY <1>5, <1>7, <1>9, <1>10, <1>12, <1>13, <1>14, <1>15 DEF at

-----------------------------------------------------------------------------
(* What a step may do to the tree *)

\* The tree as the operations need it.  The root is nobody's child and keeps
\* its link; inode numbers that were not given out have no links; only finitely
\* many names lead to a node, so that they can be counted; none is too long.
RootIsApart ==
    nlink[Root] = 1 /\ kind[Root] = "dir" /\ \A d \in Inos, c \in Names : chld[d][c] # Root
FreshNodes == \A n \in Inos : n > ino => nlink[n] = 0
EntriesAreFinite == \A n \in Inos : IsFiniteSet(Entries(n))
NamesAreShort == \A d \in Inos, c \in LongNames : chld[d][c] = NoNode

TreeInv ==
    /\ TreeTypeOK
    /\ RootIsApart /\ FreshNodes /\ EntriesAreFinite /\ NamesAreShort
    /\ NlinkCountsNames /\ DirectoriesFormATree /\ NamedNodesAreReachable

\* The kernel's handles are the opens that were counted.
OpenInv == OpenFilesAreMapped /\ \A n \in Inos : held[n] = opencnt[n]

IInv == TreeInv /\ OpenInv

Childless(n) == \A c \in Names : chld[n][c] = NoNode
Directory(d) == kind[d] = "dir" /\ nlink[d] > 0

\* A new node k under a free name.
Added(d, c, k) ==
    /\ ino < MaxNodes /\ Directory(d) /\ chld[d][c] = NoNode /\ c \notin LongNames
    /\ ino' = ino + 1
    /\ kind' = [kind EXCEPT ![ino + 1] = k]
    /\ nlink' = [nlink EXCEPT ![ino + 1] = 1]
    /\ chld' = [chld EXCEPT ![d][c] = ino + 1]

\* A name of a node without children is dropped.
Removed(d, c) ==
    /\ chld[d][c] # NoNode /\ Childless(chld[d][c])
    /\ nlink' = [nlink EXCEPT ![chld[d][c]] = @ - 1]
    /\ chld' = [chld EXCEPT ![d][c] = NoNode]
    /\ UNCHANGED <<ino, kind>>

\* A file gets another name.
Linked(d, c, n) ==
    /\ Directory(d) /\ chld[d][c] = NoNode /\ c \notin LongNames
    /\ kind[n] # "dir" /\ nlink[n] > 0
    /\ nlink' = [nlink EXCEPT ![n] = @ + 1]
    /\ chld' = [chld EXCEPT ![d][c] = n]
    /\ UNCHANGED <<ino, kind>>

\* A name is moved, to a directory that the root leads to by other edges, over
\* a name of another node or over none.
Moved(od, oc, nd, nc) ==
    LET n == chld[od][oc]
        r == chld[nd][nc]
    IN
    /\ <<od, oc>> # <<nd, nc>> /\ n # NoNode /\ r # n
    /\ Directory(nd) /\ nc \notin LongNames
    /\ r # NoNode => Childless(r) /\ (kind[r] = "dir" <=> kind[n] = "dir")
    /\ \A S \in SUBSET Inos : nd \in S /\ Root \notin S =>
          \E d \in Inos \ S : \E c \in Names : chld[d][c] \in S \ {n}
    /\ nlink' = IF r = NoNode THEN nlink ELSE [nlink EXCEPT ![r] = @ - 1]
    /\ chld' = [chld EXCEPT ![od][oc] = NoNode, ![nd][nc] = n]
    /\ UNCHANGED <<ino, kind>>

LEMMA EntryFacts ==
    ASSUME TreeInv, NEW d \in Inos, NEW c \in Names, chld[d][c] # NoNode
    PROVE  /\ chld[d][c] \in Inos \ {Root} /\ nlink[chld[d][c]] > 0
           /\ Directory(d)
<1> DEFINE n == chld[d][c]
<1>1. n \in Inos \ {Root}
  BY DEF TreeInv, TreeTypeOK, RootIsApart, Maybe
<1>2. <<d, c>> \in Entries(n)
  BY DEF Entries
<1>3. nlink[n] = Cardinality(Entries(n)) /\ IsFiniteSet(Entries(n)) /\ nlink[n] \in Nat
  BY <1>1 DEF TreeInv, TreeTypeOK, NlinkCountsNames, EntriesAreFinite
<1>4. nlink[n] # 0
  BY <1>2, <1>3, FS_EmptySet
<1>5. kind[d] # "file" /\ nlink[d] # 0
  BY DEF TreeInv, DirectoriesFormATree
<1> QED
  BY <1>1, <1>3, <1>4, <1>5 DEF TreeInv, TreeTypeOK, Directory, Kinds

\* What the operations use of lookupNode's answer.
LEMMA PlaceFacts ==
    ASSUME TreeInv, NEW p \in Paths, NEW o \in (Inos \ {Root}) \cup {NoNode},
           NEW at, at = lookupNode(p, o), KernelPath(p),
           o = NoNode \/ at.name # NoName, at.prnt # NoNode
    PROVE  /\ at.prnt \in Inos /\ at.name \in Names
           /\ at.node \in Maybe /\ at.node = chld[at.prnt][at.name]
           /\ o # NoNode => at.node # o
           /\ ~at.tooLong => at.name \notin LongNames
           /\ Directory(at.prnt)
           /\ \A S \in SUBSET Inos : at.prnt \in S /\ Root \notin S =>
                 \E d \in Inos \ S : \E c \in Names : chld[d][c] \in S \ {o}
<1>1. TreeTypeOK /\ p # <<>> /\ o \in Maybe /\ o # Root
  BY MemfsAssumption DEF TreeInv, KernelPath, Maybe, NoNode, Root, Inos
<1>2. /\ at.node \in Maybe /\ at.prnt \in Maybe
      /\ at.name = NoName \/ at.name \in Names
      /\ at.name # NoName => at.node = Child(at.prnt, at.name)
      /\ o = NoNode => at.name # NoName
      /\ o # NoNode /\ at.node = o => at.name = NoName
      /\ ~at.tooLong => at.name \notin LongNames
      /\ at.name # NoName => kind[at.prnt] = "dir"
      /\ \A S \in SUBSET Inos : at.prnt \in S /\ Root \notin S =>
            \E d \in Inos \ S : \E c \in Names : chld[d][c] \in S \ {o}
  BY <1>1, LookupFacts
<1>3. at.prnt \in Inos /\ at.name \in Names
  BY <1>2 DEF Maybe
<1>4. nlink[at.prnt] > 0
  <2>1. CASE at.prnt = Root
    BY <2>1 DEF TreeInv, RootIsApart
  <2>2. CASE at.prnt # Root
    <3>1. PICK d \in Inos, c \in Names : chld[d][c] = at.prnt
      <4> DEFINE S == {at.prnt}
      <4>1. S \in SUBSET Inos /\ at.prnt \in S /\ Root \notin S
        BY <1>3, <2>2
      <4> HIDE DEF S
      <4>2. \E d \in Inos \ S : \E c \in Names : chld[d][c] \in S \ {o}
        BY <1>2, <4>1
      <4> QED
        BY <4>2 DEF S
    <3> QED
      BY <1>3, <3>1, EntryFacts DEF Inos, NoNode
  <2> QED
    BY <2>1, <2>2
<1> QED
  BY <1>2, <1>3, <1>4 DEF Child, Directory

LEMMA RemoveErrorFacts ==
    ASSUME NEW at, NEW dir \in BOOLEAN, RemoveError(at, dir) = "ok"
    PROVE  at.node # NoNode /\ Childless(at.node) /\ (kind[at.node] = "dir" <=> dir)
BY DEF RemoveError, Childless

\* Every step changes the tree in one of these ways, or not at all.
LEMMA TreeStep ==
    ASSUME TreeInv, Next
    PROVE  \/ UNCHANGED treeVars
           \/ \E d, nd \in Inos : \E c, nc \in Names :
                 \/ \E k \in Kinds : Added(d, c, k)
                 \/ Removed(d, c)
                 \/ \E n \in Inos : Linked(d, c, n)
                 \/ Moved(d, c, nd, nc)
<1> DEFINE Goal == \/ UNCHANGED treeVars
                   \/ \E d, nd \in Inos : \E c, nc \in Names :
                         \/ \E k \in Kinds : Added(d, c, k)
                         \/ Removed(d, c)
                         \/ \E n \in Inos : Linked(d, c, n)
                         \/ Moved(d, c, nd, nc)
<1>0. NoNode \in (Inos \ {Root}) \cup {NoNode} /\ TreeTypeOK
  BY DEF TreeInv
<1>1. ASSUME NEW p \in Paths, NEW k \in Kinds, MakeNode(p, k) \/ (k = "file" /\ Create(p)),
             errc' = "ok"
      PROVE  Goal
  <2> DEFINE at == lookupNode(p, NoNode)
  <2>1. /\ KernelPath(p) /\ ino < MaxNodes /\ MakeError(at) = "ok"
        /\ ino' = ino + 1
        /\ kind' = [kind EXCEPT ![ino + 1] = k]
        /\ nlink' = [nlink EXCEPT ![ino + 1] = 1]
        /\ chld' = [chld EXCEPT ![at.prnt][at.name] = ino + 1]
    BY <1>1 DEF MakeNode, Create, SetChild
  <2>2. at.prnt # NoNode /\ at.node = NoNode /\ ~at.tooLong
    BY <2>1 DEF MakeError
  <2>3. at = lookupNode(p, NoNode)
    OBVIOUS
  <2> HIDE DEF at
  <2>4. /\ at.prnt \in Inos /\ at.name \in Names
        /\ at.node = chld[at.prnt][at.name] /\ Directory(at.prnt)
        /\ at.name \notin LongNames
    BY <1>0, <2>1, <2>2, <2>3, PlaceFacts
  <2>5. Added(at.prnt, at.name, k)
    BY <2>1, <2>2, <2>4 DEF Added
  <2> QED
    BY <2>4, <2>5
<1>2. ASSUME NEW p \in Paths, NEW dir \in BOOLEAN, RemoveNode(p, dir), errc' = "ok"
      PROVE  Goal
  <2> DEFINE at == lookupNode(p, NoNode)
  <2>1. /\ KernelPath(p) /\ RemoveError(at, dir) = "ok"
        /\ nlink' = [nlink EXCEPT ![at.node] = @ - 1]
        /\ chld' = [chld EXCEPT ![at.prnt][at.name] = NoNode]
        /\ UNCHANGED <<ino, kind>>
    BY <1>2 DEF RemoveNode, SetChild
  <2>2. at = lookupNode(p, NoNode)
    OBVIOUS
  <2> HIDE DEF at
  <2>3. at.node # NoNode /\ Childless(at.node)
    BY <2>1, RemoveErrorFacts
  <2>4. at.prnt # NoNode
    BY <1>0, <2>1, <2>2, <2>3, MemfsAssumption, LookupFacts DEF Child, KernelPath, Maybe
  <2>5. at.prnt \in Inos /\ at.name \in Names /\ at.node = chld[at.prnt][at.name]
    BY <1>0, <2>1, <2>2, <2>4, PlaceFacts
  <2>6. Removed(at.prnt, at.name)
    BY <2>1, <2>3, <2>5 DEF Removed
  <2> QED
    BY <2>5, <2>6
<1>3. ASSUME NEW p \in Paths, NEW q \in Paths, Link(p, q), errc' = "ok"
      PROVE  Goal
  <2> DEFINE old == lookupNode(p, NoNode)
             new == lookupNode(q, NoNode)
  <2>1. /\ KernelPath(p) /\ KernelPath(q) /\ LinkError(old, new) = "ok"
        /\ old.node # NoNode => kind[old.node] # "dir"
        /\ nlink' = [nlink EXCEPT ![old.node] = @ + 1]
        /\ chld' = [chld EXCEPT ![new.prnt][new.name] = old.node]
        /\ UNCHANGED <<ino, kind>>
    BY <1>3 DEF Link, SetChild
  <2>2. old = lookupNode(p, NoNode) /\ new = lookupNode(q, NoNode)
    OBVIOUS
  <2> HIDE DEF old, new
  <2>3. old.node # NoNode /\ new.prnt # NoNode /\ new.node = NoNode /\ ~new.tooLong
    BY <2>1 DEF LinkError, MakeError
  <2>4. old.prnt # NoNode
    BY <1>0, <2>1, <2>2, <2>3, MemfsAssumption, LookupFacts DEF Child, KernelPath, Maybe
  <2>5. old.prnt \in Inos /\ old.name \in Names /\ old.node = chld[old.prnt][old.name]
    BY <1>0, <2>1, <2>2, <2>4, PlaceFacts
  <2>6. /\ new.prnt \in Inos /\ new.name \in Names
        /\ new.node = chld[new.prnt][new.name] /\ Directory(new.prnt)
        /\ new.name \notin LongNames
    BY <1>0, <2>1, <2>2, <2>3, PlaceFacts
  <2>7. old.node \in Inos /\ nlink[old.node] > 0
    BY <2>3, <2>5, EntryFacts
  <2>8. Linked(new.prnt, new.name, old.node)
    BY <2>1, <2>3, <2>6, <2>7 DEF Linked
  <2> QED
    BY <2>6, <2>7, <2>8
<1>4. ASSUME NEW p \in Paths, NEW q \in Paths, NEW flags \in Flags, Rename(p, q, flags),
             errc' = "ok"
      PROVE  Goal
  <2> DEFINE old == lookupNode(p, NoNode)
             new == lookupNode(q, old.node)
  <2>1. /\ KernelPath(p) /\ KernelPath(q) /\ RenameError(old, new, flags) = "ok"
        /\ ~(old.prnt = new.prnt /\ old.name = new.name) =>
              /\ nlink' = IF new.node = NoNode THEN nlink ELSE [nlink EXCEPT ![new.node] = @ - 1]
              /\ chld' = [chld EXCEPT ![old.prnt][old.name] = NoNode,
                                      ![new.prnt][new.name] = old.node]
              /\ UNCHANGED <<ino, kind>>
        /\ old.prnt = new.prnt /\ old.name = new.name => UNCHANGED treeVars
    BY <1>4 DEF Rename
  <2>2. old = lookupNode(p, NoNode) /\ new = lookupNode(q, old.node)
    OBVIOUS
  <2> HIDE DEF old, new
  <2>3. /\ old.node # NoNode /\ new.prnt # NoNode /\ new.name # NoName /\ ~new.tooLong
        /\ new.node # NoNode => RemoveError(new, kind[old.node] = "dir") = "ok"
    BY <2>1 DEF RenameError
  <2>9. new.node # NoNode => /\ Childless(new.node)
                             /\ kind[new.node] = "dir" <=> kind[old.node] = "dir"
    BY <2>3, RemoveErrorFacts
  <2>4. old.prnt # NoNode
    BY <1>0, <2>1, <2>2, <2>3, MemfsAssumption, LookupFacts DEF Child, KernelPath, Maybe
  <2>5. old.prnt \in Inos /\ old.name \in Names /\ old.node = chld[old.prnt][old.name]
    BY <1>0, <2>1, <2>2, <2>4, PlaceFacts
  <2>6. old.node \in Inos \ {Root}
    BY <2>3, <2>5, EntryFacts
  <2>7. /\ new.prnt \in Inos /\ new.name \in Names
        /\ new.node = chld[new.prnt][new.name] /\ new.node # old.node
        /\ Directory(new.prnt) /\ new.name \notin LongNames
        /\ \A S \in SUBSET Inos : new.prnt \in S /\ Root \notin S =>
              \E d \in Inos \ S : \E c \in Names : chld[d][c] \in S \ {old.node}
    BY <2>1, <2>2, <2>3, <2>6, PlaceFacts
  <2>8. ASSUME <<old.prnt, old.name>> # <<new.prnt, new.name>>
        PROVE  Moved(old.prnt, old.name, new.prnt, new.name)
    BY <2>1, <2>3, <2>5, <2>7, <2>8, <2>9 DEF Moved
  <2> QED
    BY <2>1, <2>5, <2>7, <2>8
<1>5. ASSUME NEW p \in Paths, NEW dir \in BOOLEAN, OpenNode(p, dir) PROVE Goal
  BY <1>5 DEF OpenNode
<1>6. ASSUME NEW fh \in Inos, CloseNode(fh) PROVE Goal
  BY <1>6 DEF CloseNode
<1>7. ASSUME errc' # "ok" PROVE Goal
  BY <1>5, <1>6, <1>7 DEF Next, MakeNode, Create, RemoveNode, Link, Rename
<1> HIDE DEF Goal
<1>8. ASSUME NEW p \in Paths, Create(p), errc' = "ok" PROVE Goal
  <2>1. "file" \in Kinds
    BY DEF Kinds
  <2> QED
    BY <1>1, <1>8, <2>1
<1>9. ASSUME NEW p \in Paths, NEW k \in Kinds, MakeNode(p, k), errc' = "ok" PROVE Goal
  BY <1>1, <1>9
<1>10. ASSUME errc' = "ok" PROVE Goal
  BY ONLY Next, <1>2, <1>3, <1>4, <1>5, <1>6, <1>8, <1>9, <1>10 DEF Next
<1>11. Goal
  BY <1>7, <1>10
<1> QED
  BY <1>11 DEF Goal

-----------------------------------------------------------------------------
(* Counting names *)

\* The entries of a map f of names that lead to n.
EntriesIn(f, n) == {e \in Inos \X Names : f[e[1]][e[2]] = n}

\* g is f with one entry set.
SetsEntry(f, g, d, c, v) ==
    \A x \in Inos, y \in Names : g[x][y] = IF x = d /\ y = c THEN v ELSE f[x][y]

\* In the map f, k names lead to n.
HasNames(f, n, k) == IsFiniteSet(EntriesIn(f, n)) /\ Cardinality(EntriesIn(f, n)) = k

LEMMA EntrySet ==
    ASSUME NEW f, NEW g, NEW d \in Inos, NEW c \in Names, NEW v, NEW n, SetsEntry(f, g, d, c, v)
    PROVE  EntriesIn(g, n) = IF n = v THEN EntriesIn(f, n) \cup {<<d, c>>}
                                      ELSE EntriesIn(f, n) \ {<<d, c>>}
<1> DEFINE E == EntriesIn(f, n)
           e == <<d, c>>
<1>1. ASSUME NEW z \in Inos \X Names
      PROVE  z \in EntriesIn(g, n) <=> z \in (IF n = v THEN E \cup {e} ELSE E \ {e})
  <2>1. PICK x \in Inos, y \in Names : z = <<x, y>>
    OBVIOUS
  <2> QED
    BY <2>1 DEF EntriesIn, SetsEntry
<1>2. E \in SUBSET (Inos \X Names) /\ EntriesIn(g, n) \in SUBSET (Inos \X Names)
      /\ e \in Inos \X Names
  BY DEF EntriesIn
<1> HIDE DEF E, e
<1>3. EntriesIn(g, n) = IF n = v THEN E \cup {e} ELSE E \ {e}
  BY <1>1, <1>2
<1> QED
  BY <1>3 DEF E, e

\* An entry that is set to n names it once more,
LEMMA NameAdded ==
    ASSUME NEW f, NEW g, NEW d \in Inos, NEW c \in Names, NEW v, NEW n, NEW k \in Nat,
           SetsEntry(f, g, d, c, v), HasNames(f, n, k), n = v, f[d][c] # n
    PROVE  HasNames(g, n, k + 1)
<1>1. EntriesIn(g, n) = EntriesIn(f, n) \cup {<<d, c>>}
  BY EntrySet
<1>2. <<d, c>> \notin EntriesIn(f, n)
  BY DEF EntriesIn
<1>3. IsFiniteSet(EntriesIn(f, n)) /\ Cardinality(EntriesIn(f, n)) = k
  BY DEF HasNames
<1> DEFINE E == EntriesIn(f, n)
           e == <<d, c>>
<1>4. /\ IsFiniteSet(E \cup {e})
      /\ Cardinality(E \cup {e}) = IF e \in E THEN Cardinality(E) ELSE Cardinality(E) + 1
  <2> HIDE DEF E, e
  <2>1. IsFiniteSet(E)
    BY <1>3 DEF E
  <2> QED
    BY <2>1, FS_AddElement
<1>5. IsFiniteSet(EntriesIn(g, n)) /\ Cardinality(EntriesIn(g, n)) = k + 1
  BY <1>1, <1>2, <1>3, <1>4
<1> QED
  BY <1>5 DEF HasNames

\* one that no longer is n names it once less,
LEMMA NameDropped ==
    ASSUME NEW f, NEW g, NEW d \in Inos, NEW c \in Names, NEW v, NEW n, NEW k \in Nat,
           SetsEntry(f, g, d, c, v), HasNames(f, n, k), n # v, f[d][c] = n
    PROVE  HasNames(g, n, k - 1)
<1>1. EntriesIn(g, n) = EntriesIn(f, n) \ {<<d, c>>}
  BY EntrySet
<1>2. <<d, c>> \in EntriesIn(f, n)
  BY DEF EntriesIn
<1>3. IsFiniteSet(EntriesIn(f, n)) /\ Cardinality(EntriesIn(f, n)) = k
  BY DEF HasNames
<1> DEFINE E == EntriesIn(f, n)
           e == <<d, c>>
<1>4. /\ IsFiniteSet(E \ {e})
      /\ Cardinality(E \ {e}) = IF e \in E THEN Cardinality(E) - 1 ELSE Cardinality(E)
  <2> HIDE DEF E, e
  <2>1. IsFiniteSet(E)
    BY <1>3 DEF E
  <2> QED
    BY <2>1, FS_RemoveElement
<1>5. IsFiniteSet(EntriesIn(g, n)) /\ Cardinality(EntriesIn(g, n)) = k - 1
  BY <1>1, <1>2, <1>3, <1>4
<1> QED
  BY <1>5 DEF HasNames

\* and the names of the other nodes stay.
LEMMA NameKept ==
    ASSUME NEW f, NEW g, NEW d \in Inos, NEW c \in Names, NEW v, NEW n, NEW k \in Nat,
           SetsEntry(f, g, d, c, v), HasNames(f, n, k), n # v, f[d][c] # n
    PROVE  HasNames(g, n, k)
<1>1. EntriesIn(g, n) = EntriesIn(f, n) \ {<<d, c>>}
  BY EntrySet
<1>2. <<d, c>> \notin EntriesIn(f, n)
  BY DEF EntriesIn
<1>3. EntriesIn(g, n) = EntriesIn(f, n)
  BY <1>1, <1>2
<1> QED
  BY <1>3 DEF HasNames

LEMMA NameExists ==
    ASSUME NEW f, NEW n, NEW k \in Nat, HasNames(f, n, k), k # 0
    PROVE  \E x \in Inos, y \in Names : f[x][y] = n
<1>1. EntriesIn(f, n) # {}
  BY FS_EmptySet DEF HasNames
<1> QED
  BY <1>1 DEF EntriesIn

LEMMA CountBefore ==
    ASSUME TreeInv, NEW n \in Inos \ {Root}
    PROVE  HasNames(chld, n, nlink[n]) /\ nlink[n] \in Nat
BY DEF TreeInv, TreeTypeOK, EntriesAreFinite, NlinkCountsNames, Entries, EntriesIn, HasNames

\* A step that changes each link count as it changes the names keeps the count.
LEMMA Counted ==
    ASSUME \A n \in Inos \ {Root} : HasNames(chld', n, nlink'[n]),
           \A d \in Inos, c \in Names : chld'[d][c] # Root
    PROVE  EntriesAreFinite' /\ NlinkCountsNames'
<1>1. \A n : Entries(n)' = EntriesIn(chld', n)
  BY DEF Entries, EntriesIn
<1>2. EntriesIn(chld', Root) = {}
  BY DEF EntriesIn
<1>3. IsFiniteSet({})
  BY FS_EmptySet
<1> QED
  BY <1>1, <1>2, <1>3 DEF EntriesAreFinite, NlinkCountsNames, HasNames

-----------------------------------------------------------------------------
(* Each way to change the tree keeps it a tree *)

LEMMA AddedKeeps ==
    ASSUME TreeInv, NEW d \in Inos, NEW c \in Names, NEW k \in Kinds, Added(d, c, k)
    PROVE  TreeInv'
<1> DEFINE m == ino + 1
<1>1. /\ m \in Inos /\ m > ino /\ m # Root /\ m \in Maybe /\ nlink[m] = 0 /\ m # d
      /\ ino \in Nat /\ nlink[d] > 0
  BY MemfsAssumption DEF Added, TreeInv, TreeTypeOK, FreshNodes, Inos, Root, Maybe, Directory
<1>2. /\ ino' = m /\ kind' = [kind EXCEPT ![m] = k] /\ nlink' = [nlink EXCEPT ![m] = 1]
      /\ chld' = [chld EXCEPT ![d][c] = m] /\ chld[d][c] = NoNode /\ kind[d] = "dir"
  BY DEF Added, Directory
<1>3. Childless(m)
  BY <1>1 DEF TreeInv, DirectoriesFormATree, Childless
<1> HIDE DEF m
<1>4. TreeTypeOK'
  BY <1>1, <1>2 DEF TreeInv, TreeTypeOK
<1>5. /\ \A n \in Inos : nlink'[n] = IF n = m THEN 1 ELSE nlink[n]
      /\ \A n \in Inos : kind'[n] = IF n = m THEN k ELSE kind[n]
      /\ \A x \in Inos, y \in Names : chld'[x][y] = IF x = d /\ y = c THEN m ELSE chld[x][y]
  BY <1>1, <1>2 DEF TreeInv, TreeTypeOK
<1>6. RootIsApart'
  BY <1>1, <1>5, MemfsAssumption DEF TreeInv, RootIsApart, Root, Inos
<1>7. FreshNodes'
  BY <1>1, <1>2, <1>5 DEF TreeInv, FreshNodes, Inos
<1>8. EntriesAreFinite' /\ NlinkCountsNames'
  <2>1. SetsEntry(chld, chld', d, c, m)
    BY <1>5 DEF SetsEntry
  <2>2. ASSUME NEW n \in Inos \ {Root} PROVE HasNames(chld', n, nlink'[n])
    <3>1. HasNames(chld, n, nlink[n]) /\ nlink[n] \in Nat /\ chld[d][c] # n
      BY <1>2, CountBefore DEF Inos, NoNode
    <3>2. CASE n = m
      <4>1. HasNames(chld', n, 0 + 1)
        BY <1>1, <2>1, <3>1, <3>2, NameAdded
      <4> QED
        BY <1>5, <3>2, <4>1
    <3>3. CASE n # m
      BY <1>5, <2>1, <3>1, <3>3, NameKept
    <3> QED
      BY <3>2, <3>3
  <2> QED
    BY <1>6, <2>2, Counted DEF RootIsApart
<1>9. DirectoriesFormATree'
  BY <1>1, <1>2, <1>3, <1>5 DEF TreeInv, DirectoriesFormATree, Childless, Kinds
<1>10. NamedNodesAreReachable'
  <2> SUFFICES ASSUME NEW S \in SUBSET {n \in Inos \ {Root} : nlink'[n] > 0}, S # {}
               PROVE  \E n \in S : \E x \in Inos \ S :
                         (x = Root \/ nlink'[x] > 0) /\ \E y \in Names : chld'[x][y] = n
    BY DEF NamedNodesAreReachable
  <2>1. CASE m \in S /\ d \notin S
    BY <1>1, <1>5, <2>1
  <2>2. CASE m \notin S \/ d \in S
    <3> DEFINE R == S \ {m}
    <3>1. R \in SUBSET {n \in Inos \ {Root} : nlink[n] > 0} /\ R # {}
      BY <1>1, <1>5, <2>2
    <3>2. PICK n \in R, x \in Inos \ R :
             (x = Root \/ nlink[x] > 0) /\ \E y \in Names : chld[x][y] = n
      <4> HIDE DEF R
      <4> QED
        BY <3>1 DEF TreeInv, NamedNodesAreReachable
    <3>3. PICK y \in Names : chld[x][y] = n
      BY <3>2
    <3>4. n \in Inos /\ n # NoNode
      BY <3>1 DEF Inos, NoNode
    <3>5. x # m
      BY <1>3, <3>3, <3>4 DEF Childless
    <3>6. chld'[x][y] = n
      BY <1>2, <1>5, <3>3, <3>4
    <3> QED
      BY <1>5, <3>2, <3>5, <3>6
  <2> QED
    BY <2>1, <2>2
<1>11. NamesAreShort'
  BY <1>5, MemfsAssumption DEF TreeInv, NamesAreShort, Added
<1> QED
  BY <1>4, <1>6, <1>7, <1>8, <1>9, <1>10, <1>11 DEF TreeInv

LEMMA RemovedKeeps ==
    ASSUME TreeInv, NEW d \in Inos, NEW c \in Names, Removed(d, c)
    PROVE  TreeInv'
<1> DEFINE n == chld[d][c]
<1>1. /\ n \in Inos \ {Root} /\ n # NoNode /\ Childless(n)
      /\ nlink[n] > 0 /\ nlink[n] \in Nat /\ nlink[d] > 0 /\ kind[d] = "dir"
  BY EntryFacts DEF Removed, Directory, TreeInv, TreeTypeOK
<1>2. /\ ino' = ino /\ kind' = kind /\ nlink' = [nlink EXCEPT ![n] = @ - 1]
      /\ chld' = [chld EXCEPT ![d][c] = NoNode]
  BY DEF Removed
<1>3. chld[d][c] = n
  OBVIOUS
<1> HIDE DEF n
<1>4. TreeTypeOK'
  BY <1>1, <1>2 DEF TreeInv, TreeTypeOK, Maybe
<1>5. /\ \A x \in Inos : nlink'[x] = IF x = n THEN nlink[n] - 1 ELSE nlink[x]
      /\ \A x \in Inos, y \in Names : chld'[x][y] = IF x = d /\ y = c THEN NoNode ELSE chld[x][y]
  BY <1>1, <1>2 DEF TreeInv, TreeTypeOK
<1>6. RootIsApart'
  BY <1>1, <1>2, <1>5, MemfsAssumption DEF TreeInv, RootIsApart, Root, Inos, NoNode
<1>7. FreshNodes'
  BY <1>1, <1>2, <1>5 DEF TreeInv, FreshNodes
<1>8. ASSUME NEW x \in Inos \ {Root} PROVE HasNames(chld', x, nlink'[x])
  <2>1. SetsEntry(chld, chld', d, c, NoNode)
    BY <1>5 DEF SetsEntry
  <2>2. HasNames(chld, x, nlink[x]) /\ nlink[x] \in Nat /\ x # NoNode
    BY CountBefore DEF Inos, NoNode
  <2>3. CASE x = n
    BY <1>3, <1>5, <2>1, <2>2, <2>3, NameDropped
  <2>4. CASE x # n
    BY <1>3, <1>5, <2>1, <2>2, <2>4, NameKept
  <2> QED
    BY <2>3, <2>4
<1>9. EntriesAreFinite' /\ NlinkCountsNames'
  BY <1>6, <1>8, Counted DEF RootIsApart
<1>10. DirectoriesFormATree'
  <2> SUFFICES ASSUME NEW x \in Inos
               PROVE  /\ kind[x] = "dir" => nlink'[x] <= 1
                      /\ kind[x] = "file" \/ nlink'[x] = 0 =>
                            \A y \in Names : chld'[x][y] = NoNode
    BY <1>2 DEF DirectoriesFormATree
  <2>1. nlink[x] \in Nat
    BY DEF TreeInv, TreeTypeOK
  <2> QED
    BY <1>1, <1>5, <2>1 DEF TreeInv, DirectoriesFormATree, Childless
<1>11. NamedNodesAreReachable'
  <2> SUFFICES ASSUME NEW S \in SUBSET {x \in Inos \ {Root} : nlink'[x] > 0}, S # {}
               PROVE  \E z \in S : \E x \in Inos \ S :
                         (x = Root \/ nlink'[x] > 0) /\ \E y \in Names : chld'[x][y] = z
    BY DEF NamedNodesAreReachable
  <2> DEFINE R == S \ {n}
  <2>1. CASE R = {}
    <3>1. S = {n} /\ nlink'[n] # 0 /\ nlink'[n] \in Nat
      BY <1>4, <2>1 DEF TreeTypeOK
    <3>2. PICK x \in Inos, y \in Names : chld'[x][y] = n
      BY <1>1, <1>8, <3>1, NameExists
    <3>3. chld[x][y] = n
      BY <1>1, <1>5, <3>2
    <3>4. x # n /\ nlink[x] > 0
      BY <1>1, <3>3, EntryFacts DEF Childless, Directory
    <3> QED
      BY <1>5, <3>1, <3>2, <3>4
  <2>2. CASE R # {}
    <3>1. R \in SUBSET {x \in Inos \ {Root} : nlink[x] > 0}
      BY <1>5
    <3>2. PICK z \in R, x \in Inos \ R :
             (x = Root \/ nlink[x] > 0) /\ \E y \in Names : chld[x][y] = z
      <4> HIDE DEF R
      <4> QED
        BY <2>2, <3>1 DEF TreeInv, NamedNodesAreReachable
    <3>3. PICK y \in Names : chld[x][y] = z
      BY <3>2
    <3>4. z \in Inos /\ z # NoNode /\ z # n
      BY <3>1 DEF Inos, NoNode
    <3>5. x # n
      BY <1>1, <3>3, <3>4 DEF Childless
    <3>6. chld'[x][y] = z
      BY <1>3, <1>5, <3>3, <3>4
    <3> QED
      BY <1>5, <3>2, <3>5, <3>6
  <2> QED
    BY <2>1, <2>2
<1>12. NamesAreShort'
  BY <1>5, MemfsAssumption DEF TreeInv, NamesAreShort
<1> QED
  BY <1>4, <1>6, <1>7, <1>9, <1>10, <1>11, <1>12 DEF TreeInv

LEMMA LinkedKeeps ==
    ASSUME TreeInv, NEW d \in Inos, NEW c \in Names, NEW n \in Inos, Linked(d, c, n)
    PROVE  TreeInv'
<1>1. /\ ino' = ino /\ kind' = kind /\ nlink' = [nlink EXCEPT ![n] = @ + 1]
      /\ chld' = [chld EXCEPT ![d][c] = n] /\ chld[d][c] = NoNode
      /\ kind[n] # "dir" /\ nlink[n] > 0 /\ kind[d] = "dir" /\ nlink[d] > 0
      /\ n # NoNode /\ n # Root
  BY DEF Linked, Directory, Inos, NoNode, TreeInv, RootIsApart
<1>2. TreeTypeOK'
  BY <1>1 DEF TreeInv, TreeTypeOK, Maybe
<1>3. /\ \A x \in Inos : nlink'[x] = IF x = n THEN nlink[n] + 1 ELSE nlink[x]
      /\ \A x \in Inos, y \in Names : chld'[x][y] = IF x = d /\ y = c THEN n ELSE chld[x][y]
  BY <1>1 DEF TreeInv, TreeTypeOK
<1>4. RootIsApart'
  BY <1>1, <1>3, MemfsAssumption DEF TreeInv, RootIsApart, Root, Inos
<1>5. FreshNodes'
  BY <1>1, <1>3 DEF TreeInv, FreshNodes
<1>6. ASSUME NEW x \in Inos \ {Root} PROVE HasNames(chld', x, nlink'[x])
  <2>1. SetsEntry(chld, chld', d, c, n)
    BY <1>3 DEF SetsEntry
  <2>2. HasNames(chld, x, nlink[x]) /\ nlink[x] \in Nat /\ x # NoNode
    BY CountBefore DEF Inos, NoNode
  <2>3. CASE x = n
    BY <1>1, <1>3, <2>1, <2>2, <2>3, NameAdded
  <2>4. CASE x # n
    BY <1>1, <1>3, <2>1, <2>2, <2>4, NameKept
  <2> QED
    BY <2>3, <2>4
<1>7. EntriesAreFinite' /\ NlinkCountsNames'
  BY <1>4, <1>6, Counted DEF RootIsApart
<1>8. DirectoriesFormATree'
  BY <1>1, <1>3 DEF TreeInv, DirectoriesFormATree, TreeTypeOK
<1>9. NamedNodesAreReachable'
  <2> SUFFICES ASSUME NEW S \in SUBSET {x \in Inos \ {Root} : nlink'[x] > 0}, S # {}
               PROVE  \E z \in S : \E x \in Inos \ S :
                         (x = Root \/ nlink'[x] > 0) /\ \E y \in Names : chld'[x][y] = z
    BY DEF NamedNodesAreReachable
  <2>1. S \in SUBSET {x \in Inos \ {Root} : nlink[x] > 0}
    BY <1>1, <1>3
  <2>2. PICK z \in S, x \in Inos \ S :
           (x = Root \/ nlink[x] > 0) /\ \E y \in Names : chld[x][y] = z
    BY <2>1 DEF TreeInv, NamedNodesAreReachable
  <2>3. PICK y \in Names : chld[x][y] = z
    BY <2>2
  <2>4. z # NoNode
    BY <2>1 DEF Inos, NoNode
  <2>5. chld'[x][y] = z /\ (x = Root \/ nlink'[x] > 0)
    BY <1>1, <1>3, <2>2, <2>3, <2>4 DEF TreeInv, TreeTypeOK
  <2> QED
    BY <2>5
<1>10. NamesAreShort'
  BY <1>3, MemfsAssumption DEF TreeInv, NamesAreShort, Linked
<1> QED
  BY <1>2, <1>4, <1>5, <1>7, <1>8, <1>9, <1>10 DEF TreeInv

\* Rename.  A set of nodes that holds the moved node and its new directory is
\* entered by an edge of lookupNode's path, which the move leaves alone.
LEMMA MovedKeeps ==
    ASSUME TreeInv, NEW od \in Inos, NEW oc \in Names, NEW nd \in Inos, NEW nc \in Names,
           Moved(od, oc, nd, nc)
    PROVE  TreeInv'
<1> DEFINE n == chld[od][oc]
           r == chld[nd][nc]
           mid == [chld EXCEPT ![od][oc] = NoNode]
<1>1. /\ n # NoNode /\ r # n /\ <<od, oc>> # <<nd, nc>>
      /\ r # NoNode => Childless(r)
      /\ ino' = ino /\ kind' = kind
      /\ nlink' = IF r = NoNode THEN nlink ELSE [nlink EXCEPT ![r] = @ - 1]
      /\ chld' = [chld EXCEPT ![od][oc] = NoNode, ![nd][nc] = n]
      /\ kind[nd] = "dir" /\ nlink[nd] > 0
  BY DEF Moved, Directory
<1>2. \A S \in SUBSET Inos : nd \in S /\ Root \notin S =>
          \E d \in Inos \ S : \E c \in Names : chld[d][c] \in S \ {n}
  BY DEF Moved
<1>3. /\ n \in Inos \ {Root}
      /\ r # NoNode => r \in Inos \ {Root} /\ nlink[r] > 0 /\ nlink[r] \in Nat
  BY <1>1, EntryFacts DEF TreeInv, TreeTypeOK
<1>4. chld[od][oc] = n /\ chld[nd][nc] = r
  OBVIOUS
<1>5. /\ \A x \in Inos, y \in Names : mid[x][y] = IF x = od /\ y = oc THEN NoNode ELSE chld[x][y]
      /\ \A x \in Inos, y \in Names : chld'[x][y] = IF x = nd /\ y = nc THEN n ELSE mid[x][y]
  BY <1>1 DEF TreeInv, TreeTypeOK
<1> HIDE DEF n, r
<1>6. n \in Maybe /\ chld \in [Inos -> [Names -> Maybe]] /\ NoNode \in Maybe
  BY <1>3 DEF TreeInv, TreeTypeOK, Maybe
<1>7. mid \in [Inos -> [Names -> Maybe]] /\ chld' = [mid EXCEPT ![nd][nc] = n]
  BY <1>1, <1>6
<1> HIDE DEF mid
<1>8. chld' \in [Inos -> [Names -> Maybe]]
  BY <1>6, <1>7
<1>9. nlink' \in [Inos -> Nat]
  BY <1>1, <1>3 DEF TreeInv, TreeTypeOK
<1>10. TreeTypeOK'
  BY <1>1, <1>8, <1>9 DEF TreeInv, TreeTypeOK
<1>11. /\ \A x \in Inos : nlink'[x] = IF x = r /\ r # NoNode THEN nlink[r] - 1 ELSE nlink[x]
       /\ r # NoNode => nd # r
       /\ \A x \in Inos : x # NoNode
  BY <1>1, <1>3, <1>4 DEF TreeInv, TreeTypeOK, Childless, Inos, NoNode
<1>12. RootIsApart'
  <2>1. nlink'[Root] = 1 /\ kind'[Root] = "dir"
    BY <1>1, <1>3, <1>11, MemfsAssumption DEF TreeInv, RootIsApart, Root, Inos
  <2>2. \A x \in Inos, y \in Names : chld[x][y] # Root
    BY DEF TreeInv, RootIsApart
  <2>3. NoNode # Root /\ n # Root
    BY <1>3 DEF NoNode, Root
  <2> QED
    BY <1>5, <2>1, <2>2, <2>3 DEF RootIsApart
<1>13. FreshNodes'
  BY <1>1, <1>3, <1>11 DEF TreeInv, FreshNodes
<1>14. ASSUME NEW x \in Inos \ {Root} PROVE HasNames(chld', x, nlink'[x])
  <2>1. SetsEntry(chld, mid, od, oc, NoNode) /\ SetsEntry(mid, chld', nd, nc, n)
    BY <1>5 DEF SetsEntry
  <2>5. mid[nd][nc] = r
    BY <1>1, <1>4, <1>5
  <2>2. HasNames(chld, x, nlink[x]) /\ nlink[x] \in Nat /\ x # NoNode
    BY CountBefore DEF Inos, NoNode
  <2>3. CASE x = n
    <3>1. HasNames(mid, x, nlink[x] - 1)
      BY <1>4, <2>1, <2>2, <2>3, NameDropped
    <3>2. nlink[x] - 1 \in Nat
      BY <1>1, <1>4, <2>2, <2>3, EntryFacts
    <3>3. HasNames(chld', x, (nlink[x] - 1) + 1)
      BY <1>1, <2>1, <2>3, <2>5, <3>1, <3>2, NameAdded
    <3> QED
      BY <1>1, <1>11, <2>2, <2>3, <3>3
  <2>4. CASE x # n
    <3>1. HasNames(mid, x, nlink[x])
      BY <1>4, <2>1, <2>2, <2>4, NameKept
    <3>2. CASE x = r
      BY <1>11, <2>1, <2>2, <2>4, <2>5, <3>1, <3>2, NameDropped
    <3>3. CASE x # r
      BY <1>11, <2>1, <2>2, <2>4, <2>5, <3>1, <3>3, NameKept
    <3> QED
      BY <3>2, <3>3
  <2> QED
    BY <2>3, <2>4
<1>15. EntriesAreFinite' /\ NlinkCountsNames'
  BY <1>12, <1>14, Counted DEF RootIsApart
<1>16. DirectoriesFormATree'
  <2> SUFFICES ASSUME NEW x \in Inos
               PROVE  /\ kind[x] = "dir" => nlink'[x] <= 1
                      /\ kind[x] = "file" \/ nlink'[x] = 0 =>
                            \A y \in Names : chld'[x][y] = NoNode
    BY <1>1 DEF DirectoriesFormATree
  <2>1. nlink[x] \in Nat
    BY DEF TreeInv, TreeTypeOK
  <2>2. kind[x] = "dir" => nlink'[x] <= 1
    BY <1>3, <1>11, <2>1 DEF TreeInv, DirectoriesFormATree
  <2>3. ASSUME kind[x] = "file" \/ nlink'[x] = 0
        PROVE  \A y \in Names : chld[x][y] = NoNode
    BY <1>1, <1>11, <2>1, <2>3 DEF TreeInv, DirectoriesFormATree, Childless
  <2>4. kind[x] = "file" \/ nlink'[x] = 0 => x # nd
    BY <1>1, <1>11, <2>1
  <2> QED
    BY <1>5, <2>2, <2>3, <2>4
<1>17. NamedNodesAreReachable'
  <2> SUFFICES ASSUME NEW S \in SUBSET {x \in Inos \ {Root} : nlink'[x] > 0}, S # {}
               PROVE  \E z \in S : \E x \in Inos \ S :
                         (x = Root \/ nlink'[x] > 0) /\ \E y \in Names : chld'[x][y] = z
    BY DEF NamedNodesAreReachable
  <2>0. ASSUME NEW x \in Inos, NEW y \in Names, chld[x][y] # NoNode
        PROVE  nlink'[x] > 0 /\ (r # NoNode => x # r)
    <3>1. nlink[x] > 0
      BY <2>0, EntryFacts DEF Directory
    <3>2. r # NoNode => x # r
      BY <1>1, <2>0 DEF Childless
    <3> QED
      BY <1>11, <3>1, <3>2
  <2>1. CASE n \in S /\ nd \notin S
    <3>1. nlink'[nd] > 0
      BY <1>1, <1>11
    <3>2. chld'[nd][nc] = n
      BY <1>5
    <3> QED
      BY <2>1, <3>1, <3>2
  <2>2. CASE n \in S /\ nd \in S
    <3>1. S \in SUBSET Inos /\ Root \notin S
      OBVIOUS
    <3>2. PICK x \in Inos \ S, y \in Names : chld[x][y] \in S \ {n}
      BY <1>2, <2>2, <3>1
    <3>3. chld[x][y] \in S /\ chld[x][y] # NoNode /\ x # nd
      BY <1>11, <2>2, <3>2
    <3>4. chld'[x][y] = chld[x][y]
      BY <1>4, <1>5, <3>2, <3>3
    <3> QED
      BY <2>0, <3>2, <3>3, <3>4
  <2>3. CASE n \notin S
    <3> DEFINE R == S \ {r}
    <3>1. CASE R = {}
      <4>1. S = {r} /\ nlink'[r] # 0 /\ nlink'[r] \in Nat /\ r # NoNode /\ r \in Inos \ {Root}
        BY <1>10, <1>11, <3>1 DEF TreeTypeOK
      <4>2. PICK x \in Inos, y \in Names : chld'[x][y] = r
        BY <1>14, <4>1, NameExists
      <4>3. chld[x][y] = r
        BY <1>1, <1>5, <4>1, <4>2
      <4> QED
        BY <2>0, <4>1, <4>2, <4>3
    <3>2. CASE R # {}
      <4>1. R \in SUBSET {x \in Inos \ {Root} : nlink[x] > 0}
        BY <1>11
      <4>2. PICK z \in R, x \in Inos \ R :
               (x = Root \/ nlink[x] > 0) /\ \E y \in Names : chld[x][y] = z
        <5> HIDE DEF R
        <5> QED
          BY <3>2, <4>1 DEF TreeInv, NamedNodesAreReachable
      <4>3. PICK y \in Names : chld[x][y] = z
        BY <4>2
      <4>4. z \in S /\ z # NoNode /\ z # r /\ z # n
        BY <1>11, <2>3, <4>1
      <4>5. nlink'[x] > 0 /\ x \notin S
        <5>1. nlink'[x] > 0 /\ (r # NoNode => x # r)
          BY <2>0, <4>2, <4>3, <4>4
        <5>2. NoNode \notin S
          BY <1>11
        <5> QED
          BY <4>2, <5>1, <5>2
      <4>6. chld'[x][y] = z
        BY <1>4, <1>5, <4>3, <4>4
      <4> QED
        BY <4>4, <4>5, <4>6
    <3> QED
      BY <3>1, <3>2
  <2> QED
    BY <2>1, <2>2, <2>3
<1>18. NamesAreShort'
  <2>1. nc \notin LongNames
    BY DEF Moved
  <2>2. \A x \in Inos, y \in LongNames : y \in Names /\ chld[x][y] = NoNode
    BY MemfsAssumption DEF TreeInv, NamesAreShort
  <2> QED
    BY <1>5, <2>1, <2>2 DEF NamesAreShort
<1> QED
  BY <1>10, <1>12, <1>13, <1>15, <1>16, <1>17, <1>18 DEF TreeInv

-----------------------------------------------------------------------------
(* The open files *)

\* What a step does to the open files.
LEMMA OpenStep ==
    ASSUME TreeTypeOK, Next
    PROVE  \/ UNCHANGED openVars
           \/ \E n \in Inos : Opened(n)
           \/ \E n \in Inos : CloseNode(n)
<1>1. ASSUME NEW p \in Paths, NEW dir \in BOOLEAN, OpenNode(p, dir), errc' = "ok"
      PROVE  \E n \in Inos : Opened(n)
  <2> DEFINE at == lookupNode(p, NoNode)
  <2>1. OpenError(at, dir) = "ok" /\ Opened(at.node)
    BY <1>1 DEF OpenNode
  <2>2. at.node # NoNode
    BY <2>1 DEF OpenError
  <2>3. at.node \in Maybe
    BY LookupFacts DEF Maybe
  <2> HIDE DEF at
  <2> QED
    BY <2>1, <2>2, <2>3 DEF Maybe
<1>2. ASSUME NEW p \in Paths, Create(p), errc' = "ok"
      PROVE  \E n \in Inos : Opened(n)
  <2>1. ino + 1 \in Inos /\ Opened(ino + 1)
    BY <1>2, MemfsAssumption DEF Create, TreeTypeOK, Inos
  <2> QED
    BY <2>1
<1>3. ASSUME NEW p \in Paths, NEW dir \in BOOLEAN, OpenNode(p, dir), errc' # "ok"
      PROVE  UNCHANGED openVars
  BY <1>3 DEF OpenNode
<1>4. ASSUME NEW p \in Paths, Create(p), errc' # "ok"
      PROVE  UNCHANGED openVars
  BY <1>4 DEF Create
<1>5. ASSUME NEW p \in Paths, NEW q \in Paths,
             \/ \E k \in Kinds : MakeNode(p, k)
             \/ \E dir \in BOOLEAN : RemoveNode(p, dir)
             \/ Link(p, q)
             \/ \E flags \in Flags : Rename(p, q, flags)
      PROVE  UNCHANGED openVars
  BY <1>5 DEF MakeNode, RemoveNode, Link, Rename
<1> QED
  BY <1>1, <1>2, <1>3, <1>4, <1>5 DEF Next

\* The part of TypeOK that is about the open files.
OpenTypeOK ==
    /\ opencnt \in [Inos -> Nat] /\ openmap \subseteq Inos /\ held \in [Inos -> Nat]

LEMMA OpenInvStep ==
    ASSUME TreeTypeOK, OpenTypeOK, OpenInv, Next
    PROVE  OpenTypeOK' /\ OpenInv'
<1>1. CASE UNCHANGED openVars
  BY <1>1 DEF openVars, OpenTypeOK, OpenInv, OpenFilesAreMapped
<1>2. ASSUME NEW n \in Inos, Opened(n) PROVE OpenTypeOK' /\ OpenInv'
  <2>1. /\ opencnt' = [opencnt EXCEPT ![n] = @ + 1] /\ held' = [held EXCEPT ![n] = @ + 1]
        /\ openmap' = IF opencnt[n] = 0 THEN openmap \cup {n} ELSE openmap
    BY <1>2 DEF Opened
  <2>2. OpenTypeOK'
    BY <2>1 DEF OpenTypeOK
  <2>3. \A x \in Inos : held'[x] = opencnt'[x]
    BY <2>1 DEF OpenTypeOK, OpenInv
  <2>4. OpenFilesAreMapped'
    BY <2>1, <2>2 DEF OpenTypeOK, OpenInv, OpenFilesAreMapped
  <2> QED
    BY <2>2, <2>3, <2>4 DEF OpenInv
<1>3. ASSUME NEW n \in Inos, CloseNode(n) PROVE OpenTypeOK' /\ OpenInv'
  <2>1. /\ held[n] > 0
        /\ opencnt' = [opencnt EXCEPT ![n] = @ - 1] /\ held' = [held EXCEPT ![n] = @ - 1]
        /\ openmap' = IF opencnt[n] = 1 THEN openmap \ {n} ELSE openmap
    BY <1>3 DEF CloseNode
  <2>2. OpenTypeOK'
    BY <2>1 DEF OpenTypeOK, OpenInv
  <2>3. \A x \in Inos : held'[x] = opencnt'[x]
    BY <2>1 DEF OpenTypeOK, OpenInv
  <2>4. OpenFilesAreMapped'
    BY <2>1, <2>2 DEF OpenTypeOK, OpenInv, OpenFilesAreMapped
  <2> QED
    BY <2>2, <2>3, <2>4 DEF OpenInv
<1> QED
  BY <1>1, <1>2, <1>3, OpenStep

-----------------------------------------------------------------------------
(* The theorems *)

LEMMA AnswersAreErrors ==
    ASSUME Next PROVE errc' \in Errors
<1>1. \A at : MakeError(at) \in Errors
  BY DEF MakeError, Errors
<1>2. \A at, dir : RemoveError(at, dir) \in Errors
  BY DEF RemoveError, Errors
<1>3. \A old, new : LinkError(old, new) \in Errors
  BY <1>1 DEF LinkError, Errors
<1>4. \A old, new, flags : RenameError(old, new, flags) \in Errors
  BY <1>2 DEF RenameError, Errors
<1>5. \A at, dir : OpenError(at, dir) \in Errors
  BY DEF OpenError, Errors
<1>6. "ok" \in Errors
  BY DEF Errors
<1>7. ASSUME NEW p \in Paths, NEW k, MakeNode(p, k) \/ Create(p) PROVE errc' \in Errors
  BY <1>1, <1>7 DEF MakeNode, Create
<1>8. ASSUME NEW p \in Paths, NEW dir, RemoveNode(p, dir) \/ OpenNode(p, dir)
      PROVE  errc' \in Errors
  BY <1>2, <1>5, <1>8 DEF RemoveNode, OpenNode
<1>9. ASSUME NEW p \in Paths, NEW q \in Paths, NEW flags, Link(p, q) \/ Rename(p, q, flags)
      PROVE  errc' \in Errors
  BY <1>3, <1>4, <1>9 DEF Link, Rename
<1>10. ASSUME NEW fh \in Inos, CloseNode(fh) PROVE errc' \in Errors
  BY <1>6, <1>10 DEF CloseNode
<1> QED
  BY <1>7, <1>8, <1>9, <1>10 DEF Next

LEMMA TypeParts == TypeOK <=> TreeTypeOK /\ OpenTypeOK /\ errc \in Errors
BY DEF TypeOK, TreeTypeOK, OpenTypeOK

LEMMA InitInv == Init => TypeOK /\ IInv
<1> SUFFICES ASSUME Init PROVE TypeOK /\ IInv
  OBVIOUS
<1>1. Root \in Inos /\ Root # NoNode /\ NoNode \in Maybe
  BY MemfsAssumption DEF Root, Inos, NoNode, Maybe
<1>2. TypeOK
  BY <1>1 DEF Init, TypeOK, Kinds, Errors
<1>3. RootIsApart /\ FreshNodes /\ DirectoriesFormATree /\ NamesAreShort
  BY <1>1, MemfsAssumption
     DEF Init, RootIsApart, FreshNodes, DirectoriesFormATree, NamesAreShort, Root, NoNode
<1>4. \A n \in Inos : Entries(n) = {}
  BY <1>1 DEF Init, Entries, Inos, NoNode
<1>5. EntriesAreFinite /\ NlinkCountsNames
  BY <1>4, FS_EmptySet DEF Init, EntriesAreFinite, NlinkCountsNames
<1>6. NamedNodesAreReachable
  BY DEF Init, NamedNodesAreReachable
<1>7. OpenInv
  BY DEF Init, OpenInv, OpenFilesAreMapped
<1> QED
  BY <1>2, <1>3, <1>5, <1>6, <1>7, TypeParts DEF IInv, TreeInv

LEMMA InvStep == TypeOK /\ IInv /\ [Next]_vars => (TypeOK /\ IInv)'
<1> SUFFICES ASSUME TypeOK, IInv, [Next]_vars PROVE (TypeOK /\ IInv)'
  OBVIOUS
<1>1. CASE UNCHANGED vars
  <2>1. UNCHANGED <<ino, kind, chld, nlink, opencnt, openmap, held, errc>>
    BY <1>1 DEF vars, treeVars, openVars
  <2>2. TypeOK'
    BY <2>1 DEF TypeOK
  <2>3. RootIsApart' /\ FreshNodes' /\ DirectoriesFormATree' /\ TreeTypeOK' /\ NamesAreShort'
    BY <2>1 DEF IInv, TreeInv, RootIsApart, FreshNodes, DirectoriesFormATree, TreeTypeOK,
                NamesAreShort
  <2>4. \A n : Entries(n)' = Entries(n)
    BY <2>1 DEF Entries
  <2>5. EntriesAreFinite' /\ NlinkCountsNames'
    BY <2>1, <2>4 DEF IInv, TreeInv, EntriesAreFinite, NlinkCountsNames
  <2>6. NamedNodesAreReachable' /\ OpenInv'
    BY <2>1 DEF IInv, TreeInv, OpenInv, NamedNodesAreReachable, OpenFilesAreMapped
  <2> QED
    BY <2>2, <2>3, <2>5, <2>6 DEF IInv, TreeInv
<1>2. CASE Next
  <2>1. TreeInv'
    <3>1. CASE UNCHANGED treeVars
      <4>1. UNCHANGED <<ino, kind, chld, nlink>>
        BY <3>1 DEF treeVars
      <4>2. /\ RootIsApart' /\ FreshNodes' /\ DirectoriesFormATree' /\ TreeTypeOK'
            /\ NamesAreShort'
        BY <4>1 DEF IInv, TreeInv, RootIsApart, FreshNodes, DirectoriesFormATree, TreeTypeOK,
                    NamesAreShort
      <4>3. \A n : Entries(n)' = Entries(n)
        BY <4>1 DEF Entries
      <4>4. EntriesAreFinite' /\ NlinkCountsNames'
        BY <4>1, <4>3 DEF IInv, TreeInv, EntriesAreFinite, NlinkCountsNames
      <4>5. NamedNodesAreReachable'
        BY <4>1 DEF IInv, TreeInv, NamedNodesAreReachable
      <4> QED
        BY <4>2, <4>4, <4>5 DEF TreeInv
    <3> QED
      BY <1>2, <3>1, TreeStep, AddedKeeps, RemovedKeeps, LinkedKeeps, MovedKeeps DEF IInv
  <2>2. OpenTypeOK' /\ OpenInv'
    BY <1>2, TypeParts, OpenInvStep DEF IInv
  <2>3. errc' \in Errors
    BY <1>2, AnswersAreErrors
  <2>4. TypeOK'
    BY <2>1, <2>2, <2>3 DEF TypeOK, TreeInv, TreeTypeOK, OpenTypeOK
  <2> QED
    BY <2>1, <2>2, <2>4 DEF IInv
<1> QED
  BY <1>1, <1>2

LEMMA Invariance == Spec => [](TypeOK /\ IInv)
BY InitInv, InvStep, PTL DEF Spec

\* Every variable stays in its set, for any number of inodes and names.
THEOREM TypeCorrect == Spec => []TypeOK
BY Invariance, PTL

\* The link count of a node is the number of its names (memfs.go:140, 187, 570).
THEOREM LinksAreCounted == Spec => []NlinkCountsNames
<1>1. IInv => NlinkCountsNames
  BY DEF IInv, TreeInv
<1> QED
  BY <1>1, Invariance, PTL

\* A directory has one parent, a removed one is empty, a file has no entries.
THEOREM TreeOfDirectories == Spec => []DirectoriesFormATree
<1>1. IInv => DirectoriesFormATree
  BY DEF IInv, TreeInv
<1> QED
  BY <1>1, Invariance, PTL

\* No Rename takes a subtree away from the root (memfs.go:179-182, 525-528).
THEOREM NothingIsCutOff == Spec => []NamedNodesAreReachable
<1>1. IInv => NamedNodesAreReachable
  BY DEF IInv, TreeInv
<1> QED
  BY <1>1, Invariance, PTL

\* openmap resolves the kernel's handles and nothing else (memfs.go:590-603).
THEOREM HandlesResolve == Spec => []OpenFilesAreMapped
<1>1. IInv => OpenFilesAreMapped
  BY DEF IInv, OpenInv
<1> QED
  BY <1>1, Invariance, PTL

\* A refused request leaves the tree and the open files as they were, a Rename
\* that is refused by the removal of its target too (memfs.go:186-191).
THEOREM RefusedIsUnchanged == Spec => RefusalChangesNothing
<1> DEFINE Kept == errc' # "ok" => UNCHANGED <<treeVars, openVars>>
<1>1. [Next]_vars => Kept \/ UNCHANGED vars
  <2> SUFFICES ASSUME Next, errc' # "ok" PROVE UNCHANGED <<treeVars, openVars>>
    OBVIOUS
  <2> QED
    BY DEF Next, MakeNode, Create, RemoveNode, Link, Rename, OpenNode, CloseNode, treeVars
<1>2. [Next]_vars => [Kept]_vars
  BY <1>1
<1> QED
  BY <1>2, PTL DEF Spec, RefusalChangesNothing
-----------------------------------------------------------------------------
(* Paths *)

Path == Seq(Names)

\* What holds of the empty path, and of a path whenever it does of the path to
\* its directory, holds of every path; T is the set of counterexamples.
LEMMA PathInduction ==
    ASSUME NEW T \in SUBSET Path, <<>> \notin T,
           \A p \in Path, c \in Names : Append(p, c) \in T => p \in T
    PROVE  T = {}
<1> SUFFICES ASSUME T # {} PROVE FALSE
  OBVIOUS
<1> DEFINE L == {Len(p) : p \in T}
<1>1. L \in SUBSET Nat /\ L # {}
  <2>1. ASSUME NEW p \in T PROVE Len(p) \in Nat
    BY LenProperties DEF Path
  <2>2. PICK p : p \in T
    BY ONLY T # {}
  <2>3. Len(p) \in L
    BY <2>2
  <2> QED
    BY ONLY <2>1, <2>3
<1>2. PICK m \in L : \A n \in L : m <= n
  <2> HIDE DEF L
  <2> QED
    BY <1>1, LeastElement
<1>3. PICK p \in T : Len(p) = m
  BY <1>2
<1>4. PICK q \in Path, c \in Names : p = Append(q, c)
  BY <1>3, SequenceEmptyOrAppend DEF Path
<1>5. q \in T /\ Len(q) \in Nat /\ Len(p) = Len(q) + 1
  BY <1>3, <1>4, AppendProperties, LenProperties DEF Path
<1> QED
  BY <1>2, <1>3, <1>5

\* r is the path p or goes on below it.
Extends(p, r) == \E t \in Path : r = p \o t

LEMMA AppendFacts ==
    ASSUME NEW p \in Path, NEW c \in Names
    PROVE  /\ Append(p, c) \in Path /\ Append(p, c) # <<>> /\ <<>> \in Path
           /\ Len(p) \in Nat /\ Len(Append(p, c)) = Len(p) + 1
           /\ PathMap!Front(Append(p, c)) = p
           /\ \A q \in Path, d \in Names : Append(p, c) = Append(q, d) => p = q /\ c = d
<1>1. /\ Append(p, c) \in Path /\ Append(p, c) # <<>> /\ <<>> \in Path
      /\ Len(p) \in Nat /\ Len(Append(p, c)) = Len(p) + 1
      /\ \A i \in 1..Len(p) : Append(p, c)[i] = p[i]
  BY AppendProperties, LenProperties, EmptySeq DEF Path
<1>2. \A q \in Path, d \in Names : Append(p, c) = Append(q, d) => p = q /\ c = d
  BY AppendInjective DEF Path
<1>3. SubSeq(Append(p, c), 1, Len(p)) = p
  <2>1. \A i \in 1..Len(p) : p[i] \in Names
    BY LenProperties DEF Path
  <2>2. /\ SubSeq(Append(p, c), 1, Len(p)) \in Seq(Names)
        /\ Len(SubSeq(Append(p, c), 1, Len(p))) = Len(p)
        /\ \A i \in 1..Len(p) : SubSeq(Append(p, c), 1, Len(p))[i] = p[i]
    BY <1>1, <2>1, SubSeqProperties
  <2> QED
    BY <2>2, SeqEqual DEF Path
<1>4. PathMap!Front(Append(p, c)) = p
  BY <1>1, <1>3 DEF PathMap!Front
<1> QED
  BY <1>1, <1>2, <1>4

LEMMA ConcatAppend ==
    ASSUME NEW p \in Path, NEW t \in Path, NEW c \in Names
    PROVE  p \o t \in Path /\ p \o Append(t, c) = Append(p \o t, c)
<1>1. p \o t \in Path
  BY ConcatProperties DEF Path
<1>2. <<c>> \in Seq(Names)
  OBVIOUS
<1>3. Append(t, c) = t \o <<c>> /\ Append(p \o t, c) = (p \o t) \o <<c>>
  BY <1>1, AppendIsConcat DEF Path
<1> QED
  BY <1>1, <1>2, <1>3, ConcatAssociative DEF Path

LEMMA ConcatFacts ==
    ASSUME NEW p \in Path, NEW t \in Path
    PROVE  /\ p \o t \in Path /\ Len(p \o t) = Len(p) + Len(t) /\ p \o <<>> = p
           /\ SubSeq(p \o t, Len(p) + 1, Len(p \o t)) = t
           /\ \A s \in Path : p \o s = p \o t => s = t
<1>1. /\ p \o t \in Path /\ Len(p \o t) = Len(p) + Len(t) /\ p \o <<>> = p
      /\ \A i \in 1..(Len(p) + Len(t)) :
            (p \o t)[i] = IF i <= Len(p) THEN p[i] ELSE t[i - Len(p)]
      /\ Len(p) \in Nat /\ Len(t) \in Nat
  BY ConcatProperties, ConcatEmptySeq, LenProperties DEF Path
<1>3. SubSeq(p \o t, Len(p) + 1, Len(p \o t)) = t
  <2> DEFINE s == SubSeq(p \o t, Len(p) + 1, Len(p) + Len(t))
  <2>1. \A i \in 1..Len(t) : t[i] \in Names
    BY LenProperties DEF Path
  <2>2. \A i \in (Len(p) + 1)..(Len(p) + Len(t)) : (p \o t)[i] = t[i - Len(p)]
    BY <1>1
  <2>3. \A i \in (Len(p) + 1)..(Len(p) + Len(t)) : (p \o t)[i] \in Names
    BY <1>1, <2>1, <2>2
  <2>4. /\ s \in Seq(Names)
        /\ Len(s) = IF Len(p) + 1 <= Len(p) + Len(t)
                    THEN (Len(p) + Len(t)) - (Len(p) + 1) + 1 ELSE 0
        /\ \A i \in 1..((Len(p) + Len(t)) - (Len(p) + 1) + 1) :
              s[i] = (p \o t)[(Len(p) + 1) + i - 1]
    BY <1>1, <2>3, SubSeqProperties
  <2> HIDE DEF s
  <2>5. Len(s) = Len(t)
    BY <1>1, <2>4
  <2>7. ASSUME NEW i \in 1..Len(t) PROVE s[i] = t[i]
    <3>1. s[i] = (p \o t)[Len(p) + i]
      BY <1>1, <2>4
    <3>2. Len(p) + i \in (Len(p) + 1)..(Len(p) + Len(t)) /\ (Len(p) + i) - Len(p) = i
      BY <1>1
    <3> QED
      BY <2>2, <3>1, <3>2
  <2>6. s = t
    BY <2>4, <2>5, <2>7, SeqEqual DEF Path
  <2> QED
    BY <1>1, <2>6 DEF s
<1>4. \A s \in Path : p \o s = p \o t => s = t
  BY ConcatSimplifications DEF Path
<1> QED
  BY <1>1, <1>3, <1>4

LEMMA ExtendsFacts ==
    ASSUME NEW p \in Path, NEW r \in Path
    PROVE  /\ Extends(p, p)
           /\ Extends(p, <<>>) => p = <<>>
           /\ \A c \in Names : Extends(p, Append(r, c)) <=> p = Append(r, c) \/ Extends(p, r)
           /\ Extends(p, r) => Len(p) <= Len(r)
           /\ PathMap!IsPrefix(p, r) <=> Extends(p, r)
<1>1. Extends(p, p)
  BY ConcatFacts, EmptySeq DEF Extends, Path
<1>2. ASSUME Extends(p, <<>>) PROVE p = <<>>
  <2>1. PICK t \in Path : p \o t = <<>>
    BY <1>2 DEF Extends
  <2> QED
    BY <2>1, ConcatSimplifications DEF Path
<1>3. ASSUME NEW c \in Names PROVE Extends(p, Append(r, c)) <=> p = Append(r, c) \/ Extends(p, r)
  <2>1. ASSUME Extends(p, Append(r, c)), p # Append(r, c) PROVE Extends(p, r)
    <3>1. PICK t \in Path : Append(r, c) = p \o t
      BY <2>1 DEF Extends
    <3>2. t # <<>>
      BY <2>1, <3>1, ConcatFacts
    <3>3. PICK s \in Path, d \in Names : t = Append(s, d)
      BY <3>2, SequenceEmptyOrAppend DEF Path
    <3>4. Append(r, c) = Append(p \o s, d) /\ p \o s \in Path
      BY <3>1, <3>3, ConcatAppend
    <3> QED
      BY <3>4, AppendFacts DEF Extends
  <2>2. ASSUME Extends(p, r) PROVE Extends(p, Append(r, c))
    <3>1. PICK t \in Path : r = p \o t
      BY <2>2 DEF Extends
    <3>2. Append(t, c) \in Path
      BY AppendFacts
    <3>3. Append(r, c) = p \o Append(t, c)
      BY <3>1, ConcatAppend
    <3> QED
      BY <3>2, <3>3 DEF Extends
  <2>3. Append(r, c) \in Path
    BY AppendFacts
  <2> QED
    BY <1>1, <2>1, <2>2
<1>4. Extends(p, r) => Len(p) <= Len(r)
  BY ConcatFacts, LenProperties DEF Extends, Path
<1>5. ASSUME PathMap!IsPrefix(p, r) PROVE Extends(p, r)
  <2>1. Len(p) \in Nat /\ Len(r) \in Nat /\ Len(p) <= Len(r)
    BY <1>5, LenProperties DEF PathMap!IsPrefix, Path
  <2>2. SubSeq(p, 1, Len(p)) = p /\ SubSeq(r, 1, Len(r)) = r
    BY SubSeqFull DEF Path
  <2>3. p = SubSeq(r, 1, Len(p))
    BY <1>5, <2>2 DEF PathMap!IsPrefix
  <2>4. SubSeq(r, 1, Len(p)) \o SubSeq(r, Len(p) + 1, Len(r)) = SubSeq(r, 1, Len(r))
    <3>1. /\ 1 \in 1..(Len(r) + 1) /\ Len(p) \in (1 - 1)..Len(r)
          /\ Len(r) \in Len(p)..Len(r)
      BY <2>1
    <3> QED
      BY <3>1, ConcatAdjacentSubSeq DEF Path
  <2>5. SubSeq(r, Len(p) + 1, Len(r)) \in Path
    <3>1. \A i \in (Len(p) + 1)..Len(r) : r[i] \in Names
      BY <2>1, LenProperties DEF Path
    <3> QED
      BY <2>1, <3>1, SubSeqProperties DEF Path
  <2> QED
    BY <2>2, <2>3, <2>4, <2>5 DEF Extends
<1>6. ASSUME Extends(p, r) PROVE PathMap!IsPrefix(p, r)
  <2>1. PICK t \in Path : r = p \o t
    BY <1>6 DEF Extends
  <2>2. /\ Len(p) \in Nat /\ Len(t) \in Nat /\ Len(r) = Len(p) + Len(t)
        /\ \A i \in 1..Len(p) : r[i] = p[i] /\ p[i] \in Names
    BY <2>1, ConcatProperties, LenProperties DEF Path
  <2>3. /\ SubSeq(r, 1, Len(p)) \in Seq(Names) /\ Len(SubSeq(r, 1, Len(p))) = Len(p)
        /\ \A i \in 1..Len(p) : SubSeq(r, 1, Len(p))[i] = p[i]
    BY <2>2, SubSeqProperties
  <2>4. SubSeq(r, 1, Len(p)) = p
    BY <2>3, SeqEqual DEF Path
  <2>5. SubSeq(p, 1, Len(p)) = p
    BY SubSeqFull DEF Path
  <2> QED
    BY <2>2, <2>4, <2>5 DEF PathMap!IsPrefix
<1> QED
  BY <1>1, <1>2, <1>3, <1>4, <1>5, <1>6
-----------------------------------------------------------------------------
(* The nodes that the paths lead to *)

\* f has the node of each path, of which g has the children.
Follows(f, g) ==
    /\ f[<<>>] = Root /\ \A p \in Path : f[p] \in Maybe
    /\ \A p \in Path, c \in Names :
          f[Append(p, c)] = IF f[p] = NoNode THEN NoNode ELSE g[f[p]][c]

NodeMap == [p \in Path |-> NodeAt(p)]

LEMMA NodesFollow == TreeTypeOK => Follows(NodeMap, chld)
<1> SUFFICES ASSUME TreeTypeOK PROVE Follows(NodeMap, chld)
  OBVIOUS
<1>1. \A p \in Path : Len(p) \in Nat /\ WalksTo(Walk(p), p, Len(p))
  BY WalkFacts, LenProperties DEF Path
<1>2. \A p \in Path : NodeMap[p] = Walk(p)[Len(p)]
  BY DEF NodeMap, NodeAt
<1>3. <<>> \in Path /\ Len(<<>>) = 0
  BY EmptySeq DEF Path
<1>4. NodeMap[<<>>] = Root
  BY <1>1, <1>2, <1>3 DEF WalksTo
<1>5. \A p \in Path : NodeMap[p] \in Maybe
  BY <1>1, <1>2 DEF WalksTo
<1>6. ASSUME NEW p \in Path, NEW c \in Names
      PROVE  NodeMap[Append(p, c)] = Child(NodeMap[p], c)
  <2> DEFINE q == Append(p, c)
             n == Len(p)
             w == Walk(p)
             v == Walk(q)
  <2>1. /\ q \in Path /\ n \in Nat /\ Len(q) = n + 1 /\ q[n + 1] = c
        /\ \A i \in 1..n : q[i] = p[i]
    BY AppendProperties, LenProperties DEF Path
  <2>2. NodeMap[q] = v[n + 1] /\ NodeMap[p] = w[n]
    BY <1>2, <2>1
  <2>3. WalksTo(w, p, n) /\ WalksTo(v, q, n + 1)
    BY <1>1, <2>1
  <2> HIDE DEF q, n, w, v
  <2>4. w[0] = v[0] /\ \A i \in 1..n : w[i - 1] = v[i - 1] => w[i] = v[i]
    BY <2>1, <2>3 DEF WalksTo
  <2> DEFINE T == {i \in 0..n : w[i] # v[i]}
  <2>5. T = {}
    <3> SUFFICES ASSUME T # {} PROVE FALSE
      OBVIOUS
    <3>1. T \in SUBSET Nat
      BY <2>1
    <3>2. PICK m \in T : \A i \in T : m <= i
      <4> HIDE DEF T
      <4> QED
        BY <3>1, LeastElement
    <3>3. m \in 1..n /\ m - 1 \in 0..n /\ m - 1 \notin T
      BY <2>1, <2>4, <3>2
    <3> QED
      BY <2>4, <3>2, <3>3
  <2>6. v[n + 1] = Child(v[n], q[n + 1])
    BY <2>1, <2>3 DEF WalksTo
  <2>7. w[n] = v[n]
    BY <2>1, <2>5
  <2>8. NodeMap[q] = Child(NodeMap[p], c)
    BY <2>1, <2>2, <2>6, <2>7
  <2> QED
    BY <2>8 DEF q
<1> QED
  BY <1>4, <1>5, <1>6 DEF Follows, Child

\* A directory has one name,
LEMMA UniqueEntry ==
    ASSUME TreeInv, NEW d \in Inos, NEW c \in Names, NEW e \in Inos, NEW y \in Names,
           chld[d][c] = chld[e][y], chld[d][c] # NoNode, kind[chld[d][c]] = "dir"
    PROVE  d = e /\ c = y
<1> DEFINE n == chld[d][c]
           E == Entries(n)
           z == <<d, c>>
<1>1. n \in Inos \ {Root} /\ nlink[n] > 0
  BY EntryFacts
<1>2. /\ IsFiniteSet(E) /\ nlink[n] = Cardinality(E) /\ nlink[n] <= 1 /\ nlink[n] \in Nat
  BY <1>1 DEF TreeInv, TreeTypeOK, EntriesAreFinite, NlinkCountsNames, DirectoriesFormATree
<1>3. z \in E /\ <<e, y>> \in E
  BY DEF Entries
<1> HIDE DEF E, n, z
<1>4. /\ IsFiniteSet(E \ {z})
      /\ Cardinality(E \ {z}) = IF z \in E THEN Cardinality(E) - 1 ELSE Cardinality(E)
  BY <1>2, FS_RemoveElement
<1>5. Cardinality(E \ {z}) = 0
  BY <1>1, <1>2, <1>3, <1>4
<1>6. E \ {z} = {}
  BY <1>4, <1>5, FS_EmptySet
<1> QED
  BY <1>3, <1>6 DEF z

\* and one path.
LEMMA UniquePath ==
    ASSUME TreeInv, NEW f, Follows(f, chld), NEW p \in Path, NEW q \in Path,
           f[p] # NoNode, f[p] = f[q], kind[f[p]] = "dir"
    PROVE  p = q
<1> DEFINE Other(r) == \E s \in Path : s # r /\ f[s] = f[r]
           T == {r \in Path : f[r] # NoNode /\ kind[f[r]] = "dir" /\ Other(r)}
<1>1. \A r \in Path, c \in Names : f[Append(r, c)] # Root
  BY MemfsAssumption DEF Follows, TreeInv, RootIsApart, Maybe, NoNode, Root
<1>2. <<>> \notin T
  <2> SUFFICES ASSUME NEW s \in Path, s # <<>> PROVE f[s] # Root
    BY DEF Follows
  <2>1. PICK r \in Path, c \in Names : s = Append(r, c)
    BY SequenceEmptyOrAppend DEF Path
  <2> QED
    BY <1>1, <2>1
<1>3. ASSUME NEW r \in Path, NEW c \in Names, Append(r, c) \in T PROVE r \in T
  <2>1. PICK s \in Path : s # Append(r, c) /\ f[s] = f[Append(r, c)]
    BY <1>3
  <2>2. f[s] # NoNode /\ kind[f[s]] = "dir" /\ f[s] # Root
    BY <1>1, <1>3, <2>1
  <2>3. s # <<>>
    BY <2>2 DEF Follows
  <2>4. PICK u \in Path, d \in Names : s = Append(u, d)
    BY <2>3, SequenceEmptyOrAppend DEF Path
  <2>5. /\ f[r] \in Inos /\ f[u] \in Inos
        /\ f[s] = chld[f[u]][d] /\ f[s] = chld[f[r]][c]
    BY <2>1, <2>2, <2>4 DEF Follows, Maybe
  <2>6. f[r] = f[u] /\ c = d
    <3>1. PICK a \in Inos, b \in Inos : a = f[r] /\ b = f[u]
      BY <2>5
    <3>2. chld[a][c] = chld[b][d] /\ chld[a][c] # NoNode /\ kind[chld[a][c]] = "dir"
      BY <2>2, <2>5, <3>1
    <3>3. a = b /\ c = d
      BY ONLY TreeInv, <3>2, UniqueEntry
    <3> QED
      BY <3>1, <3>3
  <2>7. u # r
    BY <2>1, <2>4, <2>6
  <2>8. kind[f[r]] = "dir" /\ f[r] # NoNode
    BY <2>2, <2>5, EntryFacts DEF Directory, Inos, NoNode
  <2> QED
    BY <2>6, <2>7, <2>8
<1>4. T \in SUBSET Path
  OBVIOUS
<1>5. T = {}
  <2> HIDE DEF T
  <2> QED
    BY <1>2, <1>3, <1>4, PathInduction
<1> QED
  BY <1>5

\* Every node with a name, and the root, has a path.
LEMMA PathExists ==
    ASSUME TreeInv, NEW f, Follows(f, chld), NEW n \in Inos, n = Root \/ nlink[n] > 0
    PROVE  \E p \in Path : f[p] = n
<1> DEFINE S == {x \in Inos \ {Root} : nlink[x] > 0 /\ ~\E p \in Path : f[p] = x}
<1>1. <<>> \in Path /\ f[<<>>] = Root
  BY EmptySeq DEF Follows, Path
<1>2. S \in SUBSET {x \in Inos \ {Root} : nlink[x] > 0}
  OBVIOUS
<1>3. S = {}
  <2> SUFFICES ASSUME S # {} PROVE FALSE
    OBVIOUS
  <2>1. PICK x \in S, d \in Inos \ S :
           (d = Root \/ nlink[d] > 0) /\ \E c \in Names : chld[d][c] = x
    <3> HIDE DEF S
    <3> QED
      BY <1>2 DEF TreeInv, NamedNodesAreReachable
  <2>2. PICK c \in Names : chld[d][c] = x
    BY <2>1
  <2>3. PICK p \in Path : f[p] = d
    BY <1>1, <2>1
  <2>4. Append(p, c) \in Path
    BY AppendFacts
  <2>5. f[Append(p, c)] = x
    BY <2>2, <2>3 DEF Follows, Inos, NoNode
  <2> QED
    BY <2>4, <2>5
<1> QED
  BY <1>1, <1>3
\* No path is longer than there are nodes: those on the way are all different.
LEMMA PathsAreShort ==
    ASSUME TreeInv, NEW f, Follows(f, chld), NEW p \in Path, f[p] # NoNode
    PROVE  Len(p) < MaxNodes
<1> DEFINE Ways(r) == {S \in SUBSET Inos :
                          /\ IsFiniteSet(S) /\ Cardinality(S) = Len(r)
                          /\ \A x \in S : kind[x] = "dir" /\
                                \E q \in Path : f[q] = x /\ Len(q) < Len(r)}
           T == {r \in Path : f[r] # NoNode /\ Ways(r) = {}}
<1>1. ASSUME NEW r \in Path, NEW S \in Ways(r), f[r] # NoNode
      PROVE  /\ f[r] \in Inos /\ f[r] \notin S
             /\ IsFiniteSet(S \cup {f[r]}) /\ Cardinality(S \cup {f[r]}) = Len(r) + 1
  <2>1. f[r] \in Inos
    BY <1>1 DEF Follows, Maybe
  <2>2. f[r] \notin S
    <3> SUFFICES ASSUME f[r] \in S PROVE FALSE
      OBVIOUS
    <3>1. PICK q \in Path : f[q] = f[r] /\ Len(q) < Len(r)
      OBVIOUS
    <3>2. q = r
      BY <1>1, <3>1, UniquePath
    <3> QED
      BY <3>1, <3>2, LenProperties DEF Path
  <2>3. IsFiniteSet(S) /\ Cardinality(S) = Len(r)
    OBVIOUS
  <2>4. /\ IsFiniteSet(S \cup {f[r]})
        /\ Cardinality(S \cup {f[r]}) = IF f[r] \in S THEN Cardinality(S) ELSE Cardinality(S) + 1
    BY <2>3, FS_AddElement
  <2> QED
    BY <2>1, <2>2, <2>3, <2>4
<1>2. <<>> \notin T
  <2>1. IsFiniteSet({}) /\ Cardinality({}) = 0 /\ Len(<<>>) = 0
    BY FS_EmptySet
  <2>2. {} \in Ways(<<>>)
    BY <2>1
  <2> QED
    BY <2>2
<1>3. ASSUME NEW r \in Path, NEW c \in Names, Append(r, c) \in T PROVE r \in T
  <2> SUFFICES ASSUME NEW S \in Ways(r), f[r] # NoNode PROVE FALSE
    <3>1. f[r] # NoNode
      BY <1>3 DEF Follows
    <3> QED
      BY <3>1
  <2>1. f[r] \in Inos /\ chld[f[r]][c] # NoNode
    BY <1>1, <1>3 DEF Follows
  <2>2. kind[f[r]] = "dir"
    BY <2>1, EntryFacts DEF Directory
  <2>3. Len(r) \in Nat /\ Len(Append(r, c)) = Len(r) + 1
    BY AppendFacts
  <2>4. \A x \in S : kind[x] = "dir" /\ \E q \in Path : f[q] = x /\ Len(q) < Len(r)
    OBVIOUS
  <2>5. ASSUME NEW x \in S \cup {f[r]}
        PROVE  kind[x] = "dir" /\ \E q \in Path : f[q] = x /\ Len(q) < Len(r) + 1
    <3>1. CASE x \in S
      BY <2>3, <2>4, <3>1, LenProperties DEF Path
    <3>2. CASE x = f[r]
      BY <2>2, <2>3, <3>2
    <3> QED
      BY <3>1, <3>2
  <2>6. S \cup {f[r]} \in Ways(Append(r, c))
    BY <1>1, <2>1, <2>3, <2>5
  <2> QED
    BY <1>3, <2>6
<1>4. T = {}
  <2>1. T \in SUBSET Path
    OBVIOUS
  <2> HIDE DEF T
  <2> QED
    BY <1>2, <1>3, <2>1, PathInduction
<1>5. PICK S \in Ways(p) : TRUE
  BY <1>4
<1>6. f[p] \in Inos /\ Cardinality(S \cup {f[p]}) = Len(p) + 1 /\ S \cup {f[p]} \in SUBSET Inos
  BY <1>1
<1>7. IsFiniteSet(Inos) /\ Cardinality(Inos) = MaxNodes
  <2>1. 1 \in Int /\ MaxNodes \in Int /\ MaxNodes > 0
    BY MemfsAssumption
  <2>2. /\ IsFiniteSet(1..MaxNodes)
        /\ Cardinality(1..MaxNodes) = IF 1 > MaxNodes THEN 0 ELSE MaxNodes - 1 + 1
    BY ONLY <2>1, FS_Interval
  <2> QED
    BY <2>1, <2>2 DEF Inos
<1>8. Cardinality(S \cup {f[p]}) <= Cardinality(Inos)
  BY <1>6, <1>7, FS_Subset
<1>9. Len(p) \in Nat /\ MaxNodes \in Nat
  BY MemfsAssumption, LenProperties DEF Path
<1> QED
  BY <1>6, <1>7, <1>8, <1>9

\* The map of names that f makes of the paths.
NamesIn(f) == [p \in {q \in Path : f[q] # NoNode} |-> f[p]]

\* The paths that the refinement looks at are all that there are.
LEMMA AllNamed ==
    TreeInv => /\ [p \in Named |-> NodeAt(p)] = NamesIn(NodeMap)
               /\ \A p \in Path : NodeMap[p] # NoNode => p \in AllPaths
<1> SUFFICES ASSUME TreeInv
             PROVE  /\ [p \in Named |-> NodeAt(p)] = NamesIn(NodeMap)
                    /\ \A p \in Path : NodeMap[p] # NoNode => p \in AllPaths
  OBVIOUS
<1>1. Follows(NodeMap, chld)
  BY NodesFollow DEF TreeInv
<1>2. AllPaths = {p \in Seq(Names \ LongNames) : Len(p) < MaxNodes}
  <2>1. ASSUME NEW n \in 0..(MaxNodes - 1), NEW p \in [1..n -> Names \ LongNames]
        PROVE  p \in Seq(Names \ LongNames) /\ Len(p) < MaxNodes
    <3>1. p \in Seq(Names \ LongNames) /\ Len(p) = n
      BY MemfsAssumption
    <3> QED
      BY <3>1, MemfsAssumption
  <2>2. ASSUME NEW p \in Seq(Names \ LongNames), Len(p) < MaxNodes
        PROVE  p \in AllPaths
    <3>1. p \in [1..Len(p) -> Names \ LongNames] /\ Len(p) \in Nat
      BY LenProperties
    <3>2. Len(p) \in 0..(MaxNodes - 1)
      BY <2>2, <3>1, MemfsAssumption
    <3> QED
      BY <3>1, <3>2 DEF AllPaths
  <2> QED
    BY <2>1, <2>2 DEF AllPaths
<1> DEFINE T == {p \in Path : NodeMap[p] # NoNode /\ p \notin Seq(Names \ LongNames)}
<1>3. <<>> \notin T
  BY EmptySeq
<1>4. ASSUME NEW p \in Path, NEW c \in Names, Append(p, c) \in T PROVE p \in T
  <2>1. NodeMap[p] \in Inos /\ chld[NodeMap[p]][c] # NoNode
    BY <1>1, <1>4 DEF Follows, Maybe
  <2>2. c \in Names \ LongNames
    BY <2>1 DEF TreeInv, NamesAreShort
  <2>3. p \in Seq(Names \ LongNames) => Append(p, c) \in Seq(Names \ LongNames)
    BY <2>2, AppendProperties
  <2> QED
    BY <1>4, <2>1, <2>3 DEF Inos, NoNode
<1>5. T = {}
  <2>1. T \in SUBSET Path
    OBVIOUS
  <2> HIDE DEF T
  <2> QED
    BY <1>3, <1>4, <2>1, PathInduction
<1>6. \A p \in Path : NodeMap[p] # NoNode => p \in AllPaths
  BY <1>1, <1>2, <1>5, PathsAreShort
<1>7. AllPaths \subseteq Path
  BY <1>2, SeqMonotonic DEF Path
<1>8. \A p \in Path : NodeMap[p] = NodeAt(p)
  BY DEF NodeMap
<1>9. Named = {q \in Path : NodeMap[q] # NoNode}
  BY <1>6, <1>7, <1>8 DEF Named
<1>10. [p \in Named |-> NodeAt(p)] = NamesIn(NodeMap)
  BY <1>8, <1>9 DEF NamesIn
<1> QED
  BY <1>6, <1>10
\* Below a node without children, and below nothing, there is nothing.
LEMMA NothingBelow ==
    ASSUME NEW f, Follows(f, chld), NEW p \in Path, f[p] = NoNode \/ Childless(f[p])
    PROVE  \A r \in Path : Extends(p, r) /\ r # p => f[r] = NoNode
<1> DEFINE T == {r \in Path : Extends(p, r) /\ r # p /\ f[r] # NoNode}
<1>1. <<>> \notin T
  BY ExtendsFacts
<1>2. ASSUME NEW r \in Path, NEW c \in Names, Append(r, c) \in T PROVE r \in T
  <2>1. Extends(p, r)
    BY <1>2, ExtendsFacts
  <2>2. f[r] # NoNode /\ chld[f[r]][c] # NoNode
    BY <1>2 DEF Follows
  <2>3. r # p
    BY <2>2 DEF Childless
  <2> QED
    BY <2>1, <2>2, <2>3
<1>3. T = {}
  <2>1. T \in SUBSET Path
    OBVIOUS
  <2> HIDE DEF T
  <2> QED
    BY <1>1, <1>2, <2>1, PathInduction
<1> QED
  BY <1>3

\* p is the path of the entry c of d, and g is f with the node of p set.
Leads(f, p, d, c) == \E u \in Path : f[u] = d /\ p = Append(u, c)
PathSet(f, g, p, v) == \A r \in Path : g[r] = IF r = p THEN v ELSE f[r]

LEMMA EntryPath ==
    ASSUME TreeInv, NEW f, Follows(f, chld), NEW d \in Inos, NEW c \in Names, Directory(d)
    PROVE  \E p \in Path : Leads(f, p, d, c) /\ p # <<>> /\ f[p] = chld[d][c]
<1>1. PICK u \in Path : f[u] = d
  BY PathExists DEF Directory
<1>2. Append(u, c) \in Path /\ Append(u, c) # <<>>
  BY ONLY AppendFacts
<1>3. f[Append(u, c)] = chld[d][c]
  BY <1>1 DEF Follows, Inos, NoNode
<1> QED
  BY <1>1, <1>2, <1>3 DEF Leads

\* An entry that is set, from a node without children or none to another such,
\* changes the node of one path.
LEMMA EntryChanges ==
    ASSUME TreeInv, NEW f, Follows(f, chld), NEW g, NEW h, Follows(g, h),
           NEW d \in Inos, NEW c \in Names, NEW v \in Maybe, SetsEntry(chld, h, d, c, v),
           Directory(d), v # d, v # NoNode => Childless(v),
           chld[d][c] # NoNode => Childless(chld[d][c]),
           NEW p \in Path, Leads(f, p, d, c)
    PROVE  PathSet(f, g, p, v)
<1>0. PICK u \in Path : f[u] = d /\ p = Append(u, c)
  BY DEF Leads
<1> DEFINE Kept(r) == g[r] = IF r = p THEN v ELSE f[r]
           T == {r \in Path : ~Kept(r)}
<1>1. p # <<>>
  BY <1>0, AppendFacts
<1>2. <<>> \notin T
  BY <1>1 DEF Follows
<1>3. ASSUME NEW r \in Path, NEW y \in Names, Append(r, y) \in T PROVE r \in T
  <2> SUFFICES ASSUME Kept(r) PROVE Kept(Append(r, y))
    BY <1>3
  <2>1. /\ g[Append(r, y)] = IF g[r] = NoNode THEN NoNode ELSE h[g[r]][y]
        /\ f[Append(r, y)] = IF f[r] = NoNode THEN NoNode ELSE chld[f[r]][y]
        /\ f[r] \in Maybe
    BY DEF Follows
  <2>2. Append(r, y) = p <=> r = u /\ y = c
    BY <1>0, AppendInjective DEF Path
  <2>3. CASE r = p
    <3>1. r # u
      BY <1>0, <2>3, AppendFacts
    <3>2. f[r] = chld[d][c]
      BY <1>0, <2>3 DEF Follows, Inos, NoNode
    <3>3. f[Append(r, y)] = NoNode
      BY <2>1, <3>2 DEF Childless
    <3>4. g[r] = v
      BY <2>3
    <3>5. v # NoNode => h[v][y] = NoNode
      BY DEF Childless, SetsEntry, Maybe
    <3> QED
      BY <1>0, <2>1, <2>2, <3>1, <3>3, <3>4, <3>5
  <2>4. CASE r # p
    <3>1. g[r] = f[r]
      BY <2>4
    <3>2. CASE f[r] = NoNode
      BY <1>0, <2>1, <2>2, <3>1, <3>2 DEF Inos, NoNode
    <3>3. CASE f[r] # NoNode
      <4>1. f[r] \in Inos
        BY <2>1, <3>3 DEF Maybe
      <4>2. h[f[r]][y] = IF f[r] = d /\ y = c THEN v ELSE chld[f[r]][y]
        BY <4>1 DEF SetsEntry
      <4>3. f[r] = d => r = u
        BY <1>0, <3>3, UniquePath DEF Directory
      <4> QED
        BY <1>0, <2>1, <2>2, <3>1, <3>3, <4>2, <4>3
    <3> QED
      BY <3>2, <3>3
  <2> QED
    BY <2>3, <2>4
<1>4. T = {}
  <2>1. T \in SUBSET Path
    OBVIOUS
  <2> HIDE DEF T
  <2> QED
    BY <1>2, <1>3, <2>1, PathInduction
<1> QED
  BY <1>4 DEF PathSet

\* Where the refined requests may act.
LEMMA FreePath ==
    ASSUME TreeInv, NEW f, Follows(f, chld), NEW d \in Inos, NEW c \in Names,
           Directory(d), NEW p \in Path, Leads(f, p, d, c), f[p] = NoNode, p \in AllPaths
    PROVE  p \in PathMap!FreePaths(NamesIn(f))
<1>0. PICK u \in Path : f[u] = d /\ p = Append(u, c)
  BY DEF Leads
<1>1. p # <<>> /\ PathMap!Front(p) = u
  BY <1>0, AppendFacts
<1>2. f[u] \in Inos /\ f[u] # NoNode /\ Directory(f[u])
  BY <1>0 DEF Inos, NoNode
<1>3. p \notin DOMAIN NamesIn(f) /\ u \in DOMAIN NamesIn(f) /\ NamesIn(f)[u] = f[u]
  BY <1>2 DEF NamesIn
<1>4. f[u] \in {n \in 1..ino : kind[n] = "dir"}
  BY <1>2 DEF Directory, TreeInv, TreeTypeOK, FreshNodes, Inos
<1> QED
  BY <1>1, <1>3, <1>4 DEF PathMap!FreePaths

LEMMA RemovablePath ==
    ASSUME NEW f, Follows(f, chld), NEW p \in Path, p # <<>>, f[p] # NoNode, Childless(f[p])
    PROVE  p \in PathMap!Removable(NamesIn(f))
<1>1. p \in DOMAIN NamesIn(f)
  BY DEF NamesIn
<1>2. ASSUME NEW r \in DOMAIN NamesIn(f) PROVE ~PathMap!IsStrictPrefix(p, r)
  <2>1. r \in Path /\ f[r] # NoNode
    BY DEF NamesIn
  <2> QED
    BY <2>1, NothingBelow, ExtendsFacts DEF PathMap!IsStrictPrefix
<1> QED
  BY <1>1, <1>2 DEF PathMap!Removable, PathMap!Below

\* A move: what was below p is below q, and nothing is below p.
SubtreeMoves(f, g, p, q) ==
    /\ ~Extends(p, q)
    /\ \A r \in Path : ~Extends(p, r) /\ ~Extends(q, r) => g[r] = f[r]
    /\ \A r \in Path : Extends(p, r) /\ ~Extends(q, r) => g[r] = NoNode
    /\ \A r \in Path : Extends(q, r) /\ r # q => f[r] = NoNode
    /\ \A t \in Path : g[q \o t] = f[p \o t]

LEMMA PathsMove ==
    ASSUME TreeInv, NEW f, Follows(f, chld), NEW g, Follows(g, chld'),
           NEW od \in Inos, NEW oc \in Names, NEW nd \in Inos, NEW nc \in Names,
           Moved(od, oc, nd, nc),
           NEW p \in Path, NEW q \in Path, Leads(f, p, od, oc), Leads(f, q, nd, nc)
    PROVE  SubtreeMoves(f, g, p, q)
<1>0. PICK P \in Path, Q \in Path :
         f[P] = od /\ f[Q] = nd /\ p = Append(P, oc) /\ q = Append(Q, nc)
  BY DEF Leads
<1> DEFINE n == chld[od][oc]
           x == chld[nd][nc]
<1>1. /\ n \in Inos \ {Root} /\ n # NoNode /\ x # n /\ x \in Maybe
      /\ <<od, oc>> # <<nd, nc>> /\ Directory(od) /\ Directory(nd)
      /\ x = NoNode \/ Childless(x)
  BY EntryFacts DEF Moved, TreeInv, TreeTypeOK
<1>2. /\ \A d \in Inos, c \in Names :
            chld'[d][c] = IF d = nd /\ c = nc THEN n
                          ELSE IF d = od /\ c = oc THEN NoNode ELSE chld[d][c]
      /\ \A S \in SUBSET Inos : nd \in S /\ Root \notin S =>
            \E d \in Inos \ S : \E c \in Names : chld[d][c] \in S \ {n}
  <2>1. chld \in [Inos -> [Names -> Maybe]]
    BY DEF TreeInv, TreeTypeOK
  <2>2. chld' = [chld EXCEPT ![od][oc] = NoNode, ![nd][nc] = n]
    BY DEF Moved
  <2>3. \A d \in Inos, c \in Names :
           chld'[d][c] = IF d = nd /\ c = nc THEN n
                         ELSE IF d = od /\ c = oc THEN NoNode ELSE chld[d][c]
    BY ONLY <2>1, <2>2
  <2> QED
    BY <2>3 DEF Moved
<1>3. f[p] = n /\ f[q] = x
  BY <1>0 DEF Follows, Inos, NoNode
<1>4. chld[od][oc] = n /\ chld[nd][nc] = x
  OBVIOUS
<1> HIDE DEF n, x
<1>5. p # <<>> /\ q # <<>> /\ Len(p) = Len(P) + 1 /\ Len(q) = Len(Q) + 1
      /\ Len(P) \in Nat /\ Len(Q) \in Nat
  BY <1>0, AppendFacts
<1>6. ~Extends(p, Q)
  <2> SUFFICES ASSUME Extends(p, Q) PROVE FALSE
    OBVIOUS
  <2> DEFINE S == {z \in Inos : kind[z] = "dir" /\ \E s \in Path : f[p \o s] = z}
  <2>1. nd \in S
    BY <1>0, <1>1 DEF Extends, Directory
  <2>2. Root \notin S
    <3> SUFFICES ASSUME NEW s \in Path, f[p \o s] = Root PROVE FALSE
      OBVIOUS
    <3>1. p \o s \in Path /\ <<>> \in Path /\ f[<<>>] = Root /\ Root # NoNode
      BY ConcatFacts, AppendFacts DEF Follows, Root, NoNode
    <3>2. kind[Root] = "dir"
      BY DEF TreeInv, RootIsApart
    <3>3. p \o s = <<>>
      BY <3>1, <3>2, UniquePath
    <3> QED
      BY <1>5, <3>3, ConcatSimplifications DEF Path
  <2>3. PICK d \in Inos \ S, c \in Names : chld[d][c] \in S \ {n}
    <3>1. S \in SUBSET Inos
      OBVIOUS
    <3> HIDE DEF S
    <3> QED
      BY <1>2, <2>1, <2>2, <3>1
  <2>4. PICK s \in Path : f[p \o s] = chld[d][c]
    BY <2>3
  <2>5. s # <<>>
    BY <1>3, <2>3, <2>4, ConcatFacts
  <2>6. PICK w \in Path, y \in Names : s = Append(w, y)
    BY <2>5, SequenceEmptyOrAppend DEF Path
  <2>7. p \o w \in Path /\ p \o s = Append(p \o w, y)
    BY <2>6, ConcatAppend
  <2>8. chld[d][c] # NoNode /\ kind[chld[d][c]] = "dir"
    BY <2>3 DEF Inos, NoNode
  <2>9. PICK e \in Inos : e = f[p \o w] /\ chld[e][y] = chld[d][c]
    BY <2>4, <2>7, <2>8 DEF Follows, Maybe
  <2>10. d = e
    BY <2>8, <2>9, UniqueEntry
  <2>11. kind[e] = "dir"
    BY <2>8, <2>9, EntryFacts DEF Directory
  <2> QED
    BY <2>3, <2>9, <2>10, <2>11
<1>7. ~Extends(p, q)
  <2>1. Append(P, oc) = Append(Q, nc) => P = Q /\ oc = nc
    BY ONLY AppendInjective DEF Path
  <2>2. p # q
    BY <1>0, <1>1, <2>1
  <2>3. Extends(p, Append(Q, nc)) <=> p = Append(Q, nc) \/ Extends(p, Q)
    BY ONLY ExtendsFacts
  <2> QED
    BY <1>0, <1>6, <2>2, <2>3
<1>8. \A r \in Path : Extends(q, r) /\ r # q => f[r] = NoNode
  BY <1>1, <1>3, NothingBelow
<1>9. ~Extends(q, Q) /\ ~Extends(p, P)
  <2>1. Extends(q, Q) => Len(q) <= Len(Q)
    BY ONLY ExtendsFacts
  <2>2. Extends(p, P) => Len(p) <= Len(P)
    BY ONLY ExtendsFacts
  <2> QED
    BY ONLY <1>5, <2>1, <2>2
<1>10. ~Extends(q, P)
  <2>1. f[P] # NoNode
    BY <1>0 DEF Inos, NoNode
  <2>2. od # x
    BY <1>1, <1>4 DEF Childless, Inos, NoNode
  <2>3. P # q
    BY <1>0, <1>3, <2>2
  <2> QED
    BY <1>8, <2>1, <2>3
\* Two ways to the parents of the entries that change.
<1>11. \A r \in Path : f[r] = od => r = P
  BY <1>0, <1>1, UniquePath DEF Directory, Inos, NoNode
<1>12. \A r \in Path : f[r] = nd => r = Q
  BY <1>0, <1>1, UniquePath DEF Directory, Inos, NoNode
<1>13. ASSUME NEW r \in Path, NEW s \in Path, NEW y \in Names, g[s] = f[r],
              ~(r = P /\ y = oc), ~(r = Q /\ y = nc)
       PROVE  g[Append(s, y)] = f[Append(r, y)]
  <2>1. /\ g[Append(s, y)] = IF g[s] = NoNode THEN NoNode ELSE chld'[g[s]][y]
        /\ f[Append(r, y)] = IF f[r] = NoNode THEN NoNode ELSE chld[f[r]][y]
        /\ f[r] \in Maybe
    BY DEF Follows
  <2>2. f[r] # NoNode => chld'[f[r]][y] = chld[f[r]][y]
    BY <1>2, <1>11, <1>12, <1>13, <2>1 DEF Maybe
  <2> QED
    BY <1>13, <2>1, <2>2
<1>14. \A r \in Path : ~Extends(p, r) /\ ~Extends(q, r) => g[r] = f[r]
  <2> DEFINE T == {r \in Path : ~Extends(p, r) /\ ~Extends(q, r) /\ g[r] # f[r]}
  <2>1. <<>> \notin T
    BY DEF Follows
  <2>2. ASSUME NEW r \in Path, NEW y \in Names, Append(r, y) \in T PROVE r \in T
    <3>1. ~Extends(p, r) /\ ~Extends(q, r) /\ p # Append(r, y) /\ q # Append(r, y)
      BY <2>2, ExtendsFacts
    <3>2. ~(r = P /\ y = oc) /\ ~(r = Q /\ y = nc)
      BY <1>0, <3>1
    <3> QED
      BY <1>13, <2>2, <3>1, <3>2
  <2>3. T = {}
    <3>1. T \in SUBSET Path
      OBVIOUS
    <3> HIDE DEF T
    <3> QED
      BY <2>1, <2>2, <3>1, PathInduction
  <2> QED
    BY <2>3
<1>15. g[P] = od /\ g[Q] = nd
  BY <1>0, <1>6, <1>9, <1>10, <1>14
<1>16. g[p] = NoNode /\ g[q] = n
  BY <1>0, <1>1, <1>2, <1>15 DEF Follows, Inos, NoNode
<1>17. \A t \in Path : g[q \o t] = f[p \o t]
  <2> DEFINE T == {t \in Path : g[q \o t] # f[p \o t]}
  <2>1. <<>> \notin T
    BY <1>3, <1>16, ConcatFacts
  <2>2. ASSUME NEW t \in Path, NEW y \in Names, Append(t, y) \in T PROVE t \in T
    <3>1. q \o t \in Path /\ q \o Append(t, y) = Append(q \o t, y)
      BY ConcatAppend
    <3>2. p \o t \in Path /\ p \o Append(t, y) = Append(p \o t, y)
      BY ConcatAppend
    <3>3. p \o t # P /\ p \o t # Q
      BY <1>6, <1>9 DEF Extends
    <3>4. g[q \o t] = f[p \o t] => g[Append(q \o t, y)] = f[Append(p \o t, y)]
      BY <1>13, <3>1, <3>2, <3>3
    <3> QED
      BY ONLY <2>2, <3>1, <3>2, <3>4
  <2>3. T = {}
    <3>1. T \in SUBSET Path
      OBVIOUS
    <3> HIDE DEF T
    <3> QED
      BY <2>1, <2>2, <3>1, PathInduction
  <2> QED
    BY <2>3
<1>18. \A r \in Path : Extends(p, r) => g[r] = NoNode \/ Extends(q, r)
  <2> DEFINE T == {r \in Path : Extends(p, r) /\ ~Extends(q, r) /\ g[r] # NoNode}
  <2>1. <<>> \notin T
    BY <1>5, ExtendsFacts
  <2>2. ASSUME NEW r \in Path, NEW y \in Names, Append(r, y) \in T PROVE r \in T
    <3>1. g[r] # NoNode
      BY <2>2 DEF Follows
    <3>2. Extends(p, Append(r, y)) <=> p = Append(r, y) \/ Extends(p, r)
      BY ONLY ExtendsFacts
    <3>4. Extends(q, Append(r, y)) <=> q = Append(r, y) \/ Extends(q, r)
      BY ONLY ExtendsFacts
    <3>3. p # Append(r, y)
      BY <1>16, <2>2
    <3> QED
      BY <2>2, <3>1, <3>2, <3>3, <3>4
  <2>3. T = {}
    <3>1. T \in SUBSET Path
      OBVIOUS
    <3> HIDE DEF T
    <3> QED
      BY <2>1, <2>2, <3>1, PathInduction
  <2> QED
    BY <2>3
<1> QED
  BY <1>7, <1>8, <1>14, <1>17, <1>18 DEF SubtreeMoves
-----------------------------------------------------------------------------
(* The refinement of Namespace *)

\* One path more, one less, and a subtree moved.
LEMMA OneMore ==
    ASSUME NEW f, NEW g, NEW p \in Path, NEW n, n # NoNode, PathSet(f, g, p, n)
    PROVE  NamesIn(g) = PathMap!With(NamesIn(f), p, n)
<1> DEFINE D == {r \in Path : f[r] # NoNode}
<1>1. {r \in Path : g[r] # NoNode} = D \cup {p}
  BY DEF PathSet
<1>2. DOMAIN NamesIn(f) = D /\ \A r \in D : NamesIn(f)[r] = f[r]
  BY DEF NamesIn
<1>3. \A r \in D \cup {p} : g[r] = IF r = p THEN n ELSE NamesIn(f)[r]
  BY <1>2 DEF PathSet
<1> HIDE DEF D
<1> QED
  BY <1>1, <1>2, <1>3 DEF PathMap!With, NamesIn

Without(nm, p) == [r \in DOMAIN nm \ {p} |-> nm[r]]

LEMMA OneLess ==
    ASSUME NEW f, NEW g, NEW p \in Path, PathSet(f, g, p, NoNode)
    PROVE  NamesIn(g) = Without(NamesIn(f), p)
<1> DEFINE D == {r \in Path : f[r] # NoNode}
<1>1. {r \in Path : g[r] # NoNode} = D \ {p}
  BY DEF PathSet
<1>2. DOMAIN NamesIn(f) = D /\ \A r \in D : NamesIn(f)[r] = f[r]
  BY DEF NamesIn
<1>3. \A r \in D \ {p} : g[r] = NamesIn(f)[r]
  BY <1>2 DEF PathSet
<1> HIDE DEF D
<1> QED
  BY <1>1, <1>2, <1>3 DEF NamesIn, Without

LEMMA SubtreeMoved ==
    ASSUME NEW f, NEW g, NEW p \in Path, NEW q \in Path, SubtreeMoves(f, g, p, q),
           f[p] # NoNode
    PROVE  NamesIn(g) = PathMap!Rename(NamesIn(f), p, q)
<1>0. /\ ~Extends(p, q)
      /\ \A r \in Path : ~Extends(p, r) /\ ~Extends(q, r) => g[r] = f[r]
      /\ \A r \in Path : Extends(p, r) /\ ~Extends(q, r) => g[r] = NoNode
      /\ \A r \in Path : Extends(q, r) /\ r # q => f[r] = NoNode
      /\ \A t \in Path : g[q \o t] = f[p \o t]
  BY DEF SubtreeMoves
<1> DEFINE nm      == NamesIn(f)
           D       == {r \in Path : f[r] # NoNode}
           moved   == PathMap!Below(nm, p) \cup {p}
           rest    == D \ (moved \cup {q})
           dest(r) == q \o SubSeq(r, Len(p) + 1, Len(r))
           from(r) == CHOOSE s \in moved : dest(s) = r
           G       == {r \in Path : g[r] # NoNode}
<1>1. DOMAIN nm = D /\ \A r \in D : nm[r] = f[r]
  BY DEF NamesIn
<1>2. moved = {r \in D : Extends(p, r)}
  <2>1. \A r \in Path : PathMap!IsPrefix(p, r) <=> Extends(p, r)
    BY ExtendsFacts
  <2>2. Extends(p, p) /\ p \in D
    BY ExtendsFacts
  <2> QED
    BY <1>1, <2>1, <2>2 DEF PathMap!Below, PathMap!IsStrictPrefix
<1>3. PathMap!Rename(nm, p, q) =
         [r \in rest \cup {dest(s) : s \in moved} |-> IF r \in rest THEN nm[r] ELSE nm[from(r)]]
  BY <1>1 DEF PathMap!Rename
<1>4. ASSUME NEW t \in Path
      PROVE  p \o t \in Path /\ q \o t \in Path /\ Extends(p, p \o t) /\ dest(p \o t) = q \o t
  BY ConcatFacts DEF Extends
<1>5. \A s \in moved : \E t \in Path : s = p \o t /\ f[p \o t] # NoNode
  BY <1>2 DEF Extends
<1>6. ASSUME NEW r \in rest PROVE r \in G /\ g[r] = nm[r]
  <2>1. r \in D /\ ~Extends(p, r) /\ r # q
    BY <1>2
  <2>2. ~Extends(q, r)
    BY <1>0, <2>1
  <2> QED
    BY <1>0, <1>1, <2>1, <2>2
<1>7. ASSUME NEW r \in {dest(s) : s \in moved}
      PROVE  r \in G /\ g[r] = nm[from(r)]
  <2>1. PICK s \in moved : r = dest(s)
    OBVIOUS
  <2>2. from(r) \in moved /\ dest(from(r)) = r
    BY <2>1
  <2> HIDE DEF from, dest
  <2>3. PICK t \in Path : from(r) = p \o t /\ f[p \o t] # NoNode
    BY <1>5, <2>2
  <2>4. r = q \o t /\ r \in Path
    BY <1>4, <2>2, <2>3
  <2>5. nm[from(r)] = f[p \o t]
    BY <1>1, <1>4, <2>3
  <2> QED
    BY <1>0, <2>3, <2>4, <2>5
<1>8. ASSUME NEW r \in G PROVE r \in rest \cup {dest(s) : s \in moved}
  <2>1. CASE Extends(q, r)
    <3>1. PICK t \in Path : r = q \o t
      BY <2>1 DEF Extends
    <3>2. p \o t \in moved /\ dest(p \o t) = r
      BY <1>0, <1>2, <1>4, <3>1
    <3> QED
      BY <3>2
  <2>2. CASE ~Extends(q, r)
    <3>1. ~Extends(p, r) /\ f[r] # NoNode
      BY <1>0, <2>2
    <3>2. r # q
      BY <2>2, ExtendsFacts
    <3> QED
      BY <1>2, <3>1, <3>2
  <2> QED
    BY <2>1, <2>2
<1>9. G = rest \cup {dest(s) : s \in moved}
  BY <1>6, <1>7, <1>8
<1>10. \A r \in G : g[r] = IF r \in rest THEN nm[r] ELSE nm[from(r)]
  BY <1>6, <1>7, <1>9
<1>11. NamesIn(g) = [r \in G |-> g[r]]
  BY DEF NamesIn
<1> HIDE DEF nm, G, rest, moved, dest, from
<1>12. NamesIn(g) = PathMap!Rename(nm, p, q)
  BY <1>3, <1>9, <1>10, <1>11
<1> QED
  BY <1>12 DEF nm
\* Each change of the tree is one of Namespace, if f and g have the nodes of the
\* paths before and after it.
LEMMA AddedIsMade ==
    ASSUME TreeInv, NEW f, Follows(f, chld), NEW g, Follows(g, chld'),
           \A p \in Path : g[p] # NoNode => p \in AllPaths,
           NEW d \in Inos, NEW c \in Names, NEW k \in Kinds, Added(d, c, k)
    PROVE  NamesIn(g) \in PathMap!Made(NamesIn(f), ino + 1)
<1> DEFINE m == ino + 1
<1>1. m \in Inos /\ m > ino /\ nlink[m] = 0 /\ nlink[d] > 0
  BY MemfsAssumption DEF Added, TreeInv, TreeTypeOK, FreshNodes, Inos, Directory
<1>2. /\ Directory(d) /\ chld[d][c] = NoNode /\ chld' = [chld EXCEPT ![d][c] = m]
      /\ Childless(m) /\ m # d /\ m # NoNode /\ m \in Maybe
  BY <1>1 DEF Added, TreeInv, DirectoriesFormATree, Childless, Inos, NoNode, Maybe
<1> HIDE DEF m
<1>3. SetsEntry(chld, chld', d, c, m)
  BY <1>2 DEF SetsEntry, TreeInv, TreeTypeOK
<1>4. PICK p \in Path : Leads(f, p, d, c) /\ f[p] = NoNode
  BY <1>2, EntryPath
<1>5. PathSet(f, g, p, m)
  BY <1>2, <1>3, <1>4, EntryChanges
<1>6. p \in AllPaths
  BY <1>2, <1>5 DEF PathSet
<1>7. p \in PathMap!FreePaths(NamesIn(f))
  BY <1>2, <1>4, <1>6, FreePath
<1>8. NamesIn(g) = PathMap!With(NamesIn(f), p, m)
  BY <1>2, <1>5, OneMore
<1> QED
  BY <1>7, <1>8 DEF PathMap!Made, m

LEMMA LinkedIsLinked ==
    ASSUME TreeInv, NEW f, Follows(f, chld), NEW g, Follows(g, chld'),
           \A p \in Path : g[p] # NoNode => p \in AllPaths,
           NEW d \in Inos, NEW c \in Names, NEW n \in Inos, Linked(d, c, n)
    PROVE  NamesIn(g) \in PathMap!Linked(NamesIn(f))
<1>1. /\ Directory(d) /\ chld[d][c] = NoNode /\ chld' = [chld EXCEPT ![d][c] = n]
      /\ kind[n] # "dir" /\ nlink[n] > 0
  BY DEF Linked, Directory
<1>2. Childless(n) /\ n # d /\ n # NoNode /\ n \in Maybe
  BY <1>1 DEF TreeInv, TreeTypeOK, Kinds, DirectoriesFormATree, Childless, Directory,
              Inos, NoNode, Maybe
<1>3. SetsEntry(chld, chld', d, c, n)
  BY <1>1 DEF SetsEntry, TreeInv, TreeTypeOK
<1>4. PICK q \in Path : Leads(f, q, d, c) /\ f[q] = NoNode
  BY <1>1, EntryPath
<1>5. PICK p \in Path : f[p] = n
  BY <1>1, PathExists
<1>6. PathSet(f, g, q, n)
  BY <1>1, <1>2, <1>3, <1>4, EntryChanges
<1>7. q \in AllPaths
  BY <1>2, <1>6 DEF PathSet
<1>8. q \in PathMap!FreePaths(NamesIn(f))
  BY <1>1, <1>4, <1>7, FreePath
<1>9. NamesIn(g) = PathMap!With(NamesIn(f), q, n)
  BY <1>2, <1>6, OneMore
<1>10. p \in DOMAIN NamesIn(f) /\ NamesIn(f)[p] = n
  BY <1>2, <1>5 DEF NamesIn
<1>11. NamesIn(f)[p] \notin {x \in 1..ino : kind[x] = "dir"}
  BY <1>1, <1>10
<1> QED
  BY <1>8, <1>9, <1>10, <1>11 DEF PathMap!Linked

LEMMA RemovedIsRemoved ==
    ASSUME TreeInv, NEW f, Follows(f, chld), NEW g, Follows(g, chld'),
           NEW d \in Inos, NEW c \in Names, Removed(d, c)
    PROVE  NamesIn(g) \in PathMap!Removed(NamesIn(f))
<1>1. /\ chld[d][c] # NoNode /\ Childless(chld[d][c])
      /\ chld' = [chld EXCEPT ![d][c] = NoNode]
  BY DEF Removed
<1>2. Directory(d) /\ d # NoNode /\ NoNode \in Maybe
  BY <1>1, EntryFacts DEF Directory, Inos, NoNode, Maybe
<1>3. SetsEntry(chld, chld', d, c, NoNode)
  BY <1>1 DEF SetsEntry, TreeInv, TreeTypeOK
<1>4. PICK p \in Path : Leads(f, p, d, c) /\ p # <<>> /\ f[p] = chld[d][c]
  BY <1>2, EntryPath
<1>5. PathSet(f, g, p, NoNode)
  BY <1>1, <1>2, <1>3, <1>4, EntryChanges
<1>6. p \in PathMap!Removable(NamesIn(f))
  BY <1>1, <1>4, RemovablePath
<1>7. NamesIn(g) = Without(NamesIn(f), p)
  BY <1>5, OneLess
<1> QED
  BY <1>6, <1>7 DEF PathMap!Removed, Without

LEMMA MovedIsRenamed ==
    ASSUME TreeInv, NEW f, Follows(f, chld), NEW g, Follows(g, chld'),
           \A p \in Path : g[p] # NoNode => p \in AllPaths,
           NEW od \in Inos, NEW oc \in Names, NEW nd \in Inos, NEW nc \in Names,
           Moved(od, oc, nd, nc)
    PROVE  NamesIn(g) \in PathMap!Renamed(NamesIn(f))
<1> DEFINE n == chld[od][oc]
           x == chld[nd][nc]
<1>1. /\ n # NoNode /\ Directory(nd) /\ Directory(od) /\ n \in Inos
      /\ x # NoNode => Childless(x) /\ (kind[x] = "dir" <=> kind[n] = "dir") /\ x \in Inos
  BY EntryFacts DEF Moved, Directory
<1>2. PICK p \in Path : Leads(f, p, od, oc) /\ p # <<>> /\ f[p] = n
  BY <1>1, EntryPath
<1>3. PICK q \in Path : Leads(f, q, nd, nc) /\ q # <<>> /\ f[q] = x
  BY <1>1, EntryPath
<1>4. SubtreeMoves(f, g, p, q)
  BY <1>2, <1>3, PathsMove
<1>5. NamesIn(g) = PathMap!Rename(NamesIn(f), p, q)
  BY <1>1, <1>2, <1>4, SubtreeMoved
<1>6. q \in AllPaths
  <2>1. q \o <<>> = q /\ p \o <<>> = p /\ <<>> \in Path
    BY ConcatFacts, AppendFacts
  <2>2. g[q] = n
    BY <1>2, <1>4, <2>1 DEF SubtreeMoves
  <2> QED
    BY <1>1, <2>2
<1>7. ~PathMap!IsPrefix(p, q)
  BY <1>4, ExtendsFacts DEF SubtreeMoves
<1>8. p \in DOMAIN NamesIn(f) \ {<<>>} /\ NamesIn(f)[p] = n
  BY <1>1, <1>2 DEF NamesIn
<1> DEFINE Dirs == {y \in 1..ino : kind[y] = "dir"}
<1>9. CASE x = NoNode
  <2>1. q \in PathMap!FreePaths(NamesIn(f))
    BY <1>1, <1>3, <1>6, <1>9, FreePath
  <2> QED
    BY <1>5, <1>7, <1>8, <2>1 DEF PathMap!Renamed, PathMap!Targets
<1>10. CASE x # NoNode
  <2>1. q \in PathMap!Removable(NamesIn(f)) /\ NamesIn(f)[q] = x
    BY <1>1, <1>3, <1>10, RemovablePath DEF NamesIn
  <2>2. nlink[x] > 0 /\ nlink[n] > 0
    BY <1>1, <1>10, EntryFacts
  <2>3. x \in 1..ino /\ n \in 1..ino
    BY <1>1, <1>10, <2>2 DEF TreeInv, TreeTypeOK, FreshNodes, Inos
  <2>4. NamesIn(f)[q] \in Dirs <=> NamesIn(f)[p] \in Dirs
    BY <1>1, <1>8, <1>10, <2>1, <2>3
  <2> QED
    BY <1>5, <1>7, <1>8, <2>1, <2>4 DEF PathMap!Renamed, PathMap!Targets
<1> QED
  BY <1>9, <1>10

\* NodeMap has the node of every path, and the refinement names what it names.
NodesAreNamed ==
    /\ Follows(NodeMap, chld)
    /\ [p \in Named |-> NodeAt(p)] = NamesIn(NodeMap)
    /\ \A p \in Path : NodeMap[p] # NoNode => p \in AllPaths

LEMMA NamedNow == TreeInv => NodesAreNamed
BY NodesFollow, AllNamed DEF TreeInv, NodesAreNamed

LEMMA NamedNext == TreeInv' => NodesAreNamed'
BY NamedNow, PTL

\* A step of the file system is one of Namespace.
LEMMA NamesStep ==
    TreeInv /\ TreeInv' /\ [Next]_vars => [PathMap!NamespaceNext]_(PathMap!nvars)
<1> SUFFICES ASSUME TreeInv, TreeInv', [Next]_vars
             PROVE  PathMap!NamespaceNext \/ UNCHANGED PathMap!nvars
  OBVIOUS
<1> DEFINE f  == NodeMap
           g  == NodeMap'
           nm == [p \in Named |-> NodeAt(p)]
           ds == {n \in 1..ino : kind[n] = "dir"}
<1>1. Follows(f, chld) /\ nm = NamesIn(f)
  BY NamedNow DEF NodesAreNamed
<1>2. Follows(g, chld') /\ nm' = NamesIn(g) /\ \A p \in Path : g[p] # NoNode => p \in AllPaths
  BY NamedNext DEF NodesAreNamed
<1>3. CASE UNCHANGED treeVars
  <2>1. nm' = nm /\ ds' = ds /\ (1..ino)' = 1..ino
    BY <1>3 DEF treeVars, Named, NodeAt, Walk, Child
  <2> QED
    BY <2>1 DEF PathMap!nvars
<1>4. ASSUME NEW d \in Inos, NEW c \in Names, NEW k \in Kinds, Added(d, c, k)
      PROVE  PathMap!NamespaceNext
  <2>1. NamesIn(g) \in PathMap!Made(NamesIn(f), ino + 1)
    BY <1>1, <1>2, <1>4, AddedIsMade
  <2>2. ino' = ino + 1 /\ ino + 1 \in Inos \ 1..ino /\ kind' = [kind EXCEPT ![ino + 1] = k]
        /\ ino \in Nat /\ kind \in [Inos -> Kinds]
    BY <1>4, MemfsAssumption DEF Added, Inos, TreeInv, TreeTypeOK
  <2>3. 1..ino' = (1..ino) \cup {ino + 1}
    BY <2>2
  <2>4. ds' \in {ds, ds \cup {ino + 1}}
    <3>1. \A n \in 1..ino : n \in Inos /\ n # ino + 1 /\ kind'[n] = kind[n]
      BY <2>2, MemfsAssumption DEF Inos
    <3>2. kind'[ino + 1] = k
      BY <2>2
    <3>3. ds' = IF k = "dir" THEN ds \cup {ino + 1} ELSE ds
      BY <2>3, <3>1, <3>2
    <3> QED
      BY <3>3
  <2> QED
    BY <1>1, <1>2, <2>1, <2>2, <2>3, <2>4 DEF PathMap!NamespaceNext
<1>5. ASSUME NamesIn(g) \in PathMap!Linked(NamesIn(f)) \cup PathMap!Removed(NamesIn(f))
                                \cup PathMap!Renamed(NamesIn(f)),
             ino' = ino, kind' = kind
      PROVE  PathMap!NamespaceNext
  BY <1>1, <1>2, <1>5 DEF PathMap!NamespaceNext
<1>6. ASSUME NEW d \in Inos, NEW c \in Names, Removed(d, c)
      PROVE  PathMap!NamespaceNext
  BY <1>1, <1>2, <1>5, <1>6, RemovedIsRemoved DEF Removed
<1>7. ASSUME NEW d \in Inos, NEW c \in Names, NEW n \in Inos, Linked(d, c, n)
      PROVE  PathMap!NamespaceNext
  BY <1>1, <1>2, <1>5, <1>7, LinkedIsLinked DEF Linked
<1>8. ASSUME NEW d \in Inos, NEW c \in Names, NEW nd \in Inos, NEW nc \in Names,
             Moved(d, c, nd, nc)
      PROVE  PathMap!NamespaceNext
  BY <1>1, <1>2, <1>5, <1>8, MovedIsRenamed DEF Moved
<1>9. CASE Next
  <2> HIDE DEF f, g, nm, ds
  <2> QED
    BY <1>3, <1>4, <1>6, <1>7, <1>8, <1>9, TreeStep
<1>10. CASE UNCHANGED vars
  BY <1>3, <1>10 DEF vars, treeVars
<1> QED
  BY <1>9, <1>10

LEMMA NamesInit == Init => PathMap!NamespaceInit
<1> SUFFICES ASSUME Init PROVE PathMap!NamespaceInit
  OBVIOUS
<1>1. TreeInv
  BY InitInv DEF IInv
<1>2. NodesAreNamed
  BY <1>1, NamedNow
<1>3. \A p \in Path, c \in Names : NodeMap[Append(p, c)] = NoNode
  BY <1>2 DEF Init, NodesAreNamed, Follows, Maybe
<1>4. <<>> \in Path /\ \A p \in Path : p = <<>> \/ \E q \in Path, c \in Names : p = Append(q, c)
  BY SequenceEmptyOrAppend, EmptySeq DEF Path
<1>5. NodeMap[<<>>] = Root /\ Root # NoNode
  BY <1>2 DEF NodesAreNamed, Follows, Root, NoNode
<1>6. NamesIn(NodeMap) = [p \in {<<>>} |-> Root]
  <2>1. {p \in Path : NodeMap[p] # NoNode} = {<<>>}
    BY <1>3, <1>4, <1>5
  <2> QED
    BY <1>5, <2>1 DEF NamesIn
<1>7. 1..ino = {Root} /\ {n \in 1..ino : kind[n] = "dir"} = {Root} /\ Root \in Inos
  BY MemfsAssumption DEF Init, Root, Inos
<1> QED
  BY <1>2, <1>6, <1>7 DEF PathMap!NamespaceInit, NodesAreNamed

\* Every behaviour of memfs is, in the paths it names, one of Namespace
\* (memfs.go:126-195, 534-577).
THEOREM NamespaceRefinement == Spec => ImplementsNamespace
<1>1. IInv => TreeInv
  BY DEF IInv
<1> QED
  BY <1>1, NamesInit, NamesStep, Invariance, PTL
     DEF Spec, ImplementsNamespace, PathMap!NamespaceSpec
=============================================================================
