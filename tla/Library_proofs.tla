--------------------------- MODULE Library_proofs ---------------------------
(***************************************************************************)
(* The FUSE library that callers see is whole and loaded once, on UNIX     *)
(* (LibfuseLoader) and on Windows without cgo (NocgoHost), for any number  *)
(* of threads, libraries, paths, symbols and addresses; every call,        *)
(* with its arguments and its answer, crosses to Go and back as it was     *)
(* made (WinCalls), for words of any size; and OptParse parses what its    *)
(* documentation says it parses, for any format and arguments.             *)
(***************************************************************************)
EXTENDS LibfuseLoader, NocgoHost, WinCalls, OptParse, FiniteSetTheorems, SequenceTheorems, TLAPS

-----------------------------------------------------------------------------
(* Windows without cgo: calls and answers (WinCalls).  A value that a 32-bit *)
(* word cannot hold crosses in two, so what is proved first is that the two  *)
(* halves of a number make it again, its sign included; then that a call's   *)
(* words lie one after the other, so that the adapter finds each argument    *)
(* where it was pushed.                                                      *)

\* Every set of naturals that is not empty has a least element.
LEMMA LeastElement ==
    ASSUME NEW T \in SUBSET Nat, T # {}
    PROVE  \E m \in T : \A n \in T : m <= n
<1> DEFINE U == {0..n : n \in T}
<1>1. U \subseteq FiniteSubsetsOf(Nat)
  <2> SUFFICES ASSUME NEW n \in T PROVE 0..n \in FiniteSubsetsOf(Nat)
    OBVIOUS
  <2>1. IsFiniteSet(0..n)
    BY FS_Interval
  <2> QED
    BY <2>1 DEF FiniteSubsetsOf
<1>2. U # {}
  BY ONLY T # {}
<1> HIDE DEF U
<1>3. PICK x \in U : \A y \in U : ~ (<<y, x>> \in StrictSubsetOrdering(Nat))
  BY ONLY <1>1, <1>2, WFMin, FS_StrictSubsetOrderingWellFounded
<1>4. PICK m \in T : x = 0..m
  BY DEF U
<1>5. ASSUME NEW n \in T, n < m PROVE FALSE
  <2>1. 0..n \in U
    BY DEF U
  <2>2. 0..n \subseteq 0..m /\ 0..n # 0..m
    <3>1. m \in 0..m /\ m \notin 0..n
      BY <1>5
    <3> QED
      BY <1>5, <3>1
  <2>3. 0..n \in SUBSET Nat /\ 0..m \in SUBSET Nat
    OBVIOUS
  <2>4. <<0..n, 0..m>> \in StrictSubsetOrdering(Nat)
    BY <2>2, <2>3 DEF StrictSubsetOrdering
  <2> QED
    BY <1>3, <1>4, <2>1, <2>4
<1> QED
  BY <1>5

-----------------------------------------------------------------------------
(* Division *)

Divided(n, m, q, r) == q \in Int /\ r \in 0..(m - 1) /\ n = m * q + r

LEMMA DivMod == ASSUME NEW n \in Int, NEW m \in Nat \ {0} PROVE Divided(n, m, n \div m, n % m)
BY Z3 DEF Divided

LEMMA Multiple == ASSUME NEW m \in Nat \ {0}, NEW j \in Int, j >= 1 PROVE m * j >= m
BY Z3

LEMMA DivModUnique ==
    ASSUME NEW m \in Nat \ {0}, NEW n, NEW q, NEW r, NEW p, NEW s,
           Divided(n, m, q, r), Divided(n, m, p, s)
    PROVE  q = p /\ r = s
<1> USE DEF Divided
<1>1. m * (q - p) = s - r /\ m * (p - q) = r - s
  BY Z3
<1>2. q - p >= 1 => m * (q - p) >= m
  BY Multiple
<1>3. p - q >= 1 => m * (p - q) >= m
  BY Multiple
<1> QED
  BY <1>1, <1>2, <1>3, Z3

LEMMA DivModIs ==
    ASSUME NEW m \in Nat \ {0}, NEW n \in Int, NEW q, NEW r, Divided(n, m, q, r)
    PROVE  n \div m = q /\ n % m = r
<1>1. Divided(n, m, n \div m, n % m)
  BY DivMod
<1> QED
  BY ONLY <1>1, m \in Nat \ {0}, Divided(n, m, q, r), DivModUnique

\* The two halves of a number, signed or not.
HalvesOf(x, b, m) ==
    /\ m \in Nat \ {0}
    /\ x % b \in 0..(b - 1) /\ (x \div b) % b \in 0..(b - 1)
    /\ x % m = ((x \div b) % b) * b + (x % b)
    /\ (x % m) % b = x % b
    /\ (x % m) \div b = (x \div b) % b

LEMMA Halves ==
    ASSUME NEW b \in Nat \ {0}, NEW m, m = b * b, NEW x \in Int
    PROVE  HalvesOf(x, b, m)
<1>0. m \in Nat \ {0}
  BY Z3
<1>1. PICK q, r : Divided(x, b, q, r) /\ x \div b = q /\ x % b = r
  BY DivMod
<1>2. q \in Int
  BY <1>1 DEF Divided
<1>3. PICK p, s : Divided(q, b, p, s) /\ q \div b = p /\ q % b = s
  BY <1>2, DivMod
<1>4. Divided(x, m, p, s * b + r)
  <2>1. p \in Int /\ s \in 0..(b - 1) /\ r \in 0..(b - 1) /\ x = b * q + r /\ q = b * p + s
    BY <1>1, <1>3 DEF Divided
  <2>2. x = m * p + (s * b + r)
    BY <2>1, Z3
  <2>3. s * b \in Int /\ 0 <= s * b /\ s * b <= m - b
    BY <2>1, Z3
  <2>4. s * b + r \in 0..(m - 1)
    BY <1>0, <2>1, <2>3
  <2> QED
    BY <2>1, <2>2, <2>4 DEF Divided
<1>5. x % m = s * b + r
  BY <1>0, <1>4, DivModIs
<1>6. Divided(x % m, b, s, r)
  <2>1. s \in 0..(b - 1) /\ r \in 0..(b - 1)
    BY <1>1, <1>3 DEF Divided
  <2> QED
    BY <1>5, <2>1, Z3 DEF Divided
<1>7. x % m \in Int
  BY <1>0, DivMod DEF Divided
<1>8. (x % m) \div b = s /\ (x % m) % b = r
  BY <1>6, <1>7, DivModIs
<1> QED
  BY <1>0, <1>1, <1>3, <1>5, <1>8 DEF Divided, HalvesOf

\* A signed number survives its bit pattern.
LEMMA SignedBack ==
    ASSUME NEW half \in Nat \ {0}, NEW m, m = 2 * half, NEW x \in (-half)..(half - 1)
    PROVE  /\ Unsigned(x, m) \in 0..(m - 1)
           /\ Unsigned(x, m) = IF x >= 0 THEN x ELSE x + m
           /\ Signed(Unsigned(x, m), m) = x /\ Signed(x, m) = x
<1>1. m \in Nat \ {0} /\ m \div 2 = half
  OBVIOUS
<1>2. PICK y : y = IF x >= 0 THEN x ELSE x + m
  OBVIOUS
<1>3. y \in 0..(m - 1) /\ y \in Int
  BY <1>1, <1>2
<1>4. Divided(x, m, IF x >= 0 THEN 0 ELSE -1, y) /\ Divided(y, m, 0, y)
  BY <1>1, <1>2, <1>3 DEF Divided
<1>5. x % m = y /\ y % m = y
  BY <1>1, <1>3, <1>4, DivModIs
<1> QED
  BY <1>1, <1>2, <1>3, <1>5 DEF Signed, Unsigned

LEMMA SignedRange ==
    ASSUME NEW half \in Nat \ {0}, NEW m, m = 2 * half, NEW x \in Int
    PROVE  Signed(x, m) \in (-half)..(half - 1)
<1>1. PICK y : y = x % m
  OBVIOUS
<1>2. y \in 0..(m - 1) /\ m \div 2 = half
  BY <1>1, DivMod DEF Divided
<1> QED
  BY <1>1, <1>2 DEF Signed

LEMMA Sizes ==
    /\ Base \in Nat \ {0} /\ Sign \in Nat \ {0, 1} /\ Base = 2 * Sign /\ Base \div 2 = Sign
    /\ Base * Base \in Nat \ {0} /\ Base * Sign \in Nat \ {0, 1}
    /\ Base * Base = 2 * (Base * Sign) /\ (Base * Base) \div 2 = Base * Sign
<1>1. Base \in Nat \ {0} /\ Sign \in Nat \ {0, 1} /\ Base = 2 * Sign /\ Base \div 2 = Sign
  BY WinCallsAssumption DEF Base
<1>2. PICK half : half = Base * Sign
  OBVIOUS
<1>3. half \in Nat \ {0, 1}
  BY <1>1, <1>2, Z3
<1>4. Base * Base = 2 * half
  BY <1>1, <1>2, Z3
<1>5. (2 * half) \div 2 = half
  BY <1>3
<1> QED
  BY <1>1, <1>2, <1>3, <1>4, <1>5

-----------------------------------------------------------------------------
(* FlattenSeq *)

Joined(s, t) == s \o t

Flat(f, ss, n) == f[1] = ss[1] /\ \A i \in 2..n : f[i] = Joined(f[i - 1], ss[i])

LEMMA FlattenExists ==
    ASSUME NEW n \in Nat \ {0}, NEW ss \in [1..n -> Seq(Int)]
    PROVE  \E f \in [1..n -> Seq(Int)] : Flat(f, ss, n)
<1> DEFINE T == {m \in 1..n : ~ \E f \in [1..m -> Seq(Int)] : Flat(f, ss, m)}
<1> SUFFICES ASSUME T # {} PROVE FALSE
  OBVIOUS
<1>1. PICK m \in T : \A i \in T : m <= i
  <2>1. T \in SUBSET Nat
    OBVIOUS
  <2> HIDE DEF T
  <2> QED
    BY <2>1, LeastElement
<1>2. CASE m = 1
  <2>1. [i \in 1..1 |-> ss[1]] \in [1..1 -> Seq(Int)] /\ Flat([i \in 1..1 |-> ss[1]], ss, 1)
    BY DEF Flat
  <2> QED
    BY <1>2, <2>1
<1>3. CASE m # 1
  <2>0. m \in 2..n /\ m - 1 \in 1..n /\ m - 1 < m
    BY <1>3
  <2>1. m - 1 \notin T
    <3> HIDE DEF T
    <3> QED
      BY <1>1, <2>0
  <2>2. PICK v \in [1..(m - 1) -> Seq(Int)] : Flat(v, ss, m - 1)
    BY <2>0, <2>1
  <2>3. Joined(v[m - 1], ss[m]) \in Seq(Int)
    <3>1. v[m - 1] \in Seq(Int) /\ ss[m] \in Seq(Int)
      BY <2>0
    <3> QED
      BY ONLY <3>1, ConcatProperties DEF Joined
  <2> DEFINE w == [i \in 1..m |-> IF i = m THEN Joined(v[m - 1], ss[m]) ELSE v[i]]
  <2>4. w \in [1..m -> Seq(Int)]
    BY <2>0, <2>3
  <2>5. Flat(w, ss, m)
    BY <2>0, <2>2 DEF Flat
  <2> HIDE DEF w
  <2> QED
    BY <2>4, <2>5
<1> QED
  BY <1>2, <1>3

LEMMA FlattenSeqIs ==
    ASSUME NEW n \in Nat \ {0}, NEW ss \in [1..n -> Seq(Int)]
    PROVE  \E f : Flat(f, ss, n) /\ FlattenSeq(ss) = f[n]
<1>1. Len(ss) = n
  BY LenProperties
<1> DEFINE IsFlat(f) == f = [i \in 1..Len(ss) |-> IF i = 1 THEN ss[i] ELSE Joined(f[i - 1], ss[i])]
<1>2. FlattenSeq(ss) = (CHOOSE f : IsFlat(f))[n]
  BY <1>1 DEF FlattenSeq, Joined
<1>3. PICK v \in [1..n -> Seq(Int)] : Flat(v, ss, n)
  BY FlattenExists
<1>4. IsFlat(v)
  BY <1>1, <1>3 DEF Flat
<1> DEFINE w == CHOOSE f : IsFlat(f)
<1>5. IsFlat(w)
  BY <1>4
<1> HIDE DEF w
<1>6. \A i \in 1..n : w[i] = IF i = 1 THEN ss[i] ELSE Joined(w[i - 1], ss[i])
  BY <1>1, <1>5
<1>7. Flat(w, ss, n)
  BY <1>6 DEF Flat
<1> QED
  BY <1>2, <1>7 DEF w

\* Where the i-th of some sequences begins in their concatenation, when all have
\* one element but the p-th, which has two.
At(p, i) == IF p # 0 /\ i > p THEN i + 1 ELSE i

PlacedTo(s, ss, p, i) ==
    /\ s \in Seq(Int) /\ Len(s) = IF p # 0 /\ i >= p THEN i + 1 ELSE i
    /\ \A j \in 1..i : s[At(p, j)] = ss[j][1]
    /\ \A j \in 1..i : j = p => s[j + 1] = ss[j][2]

LEMMA Placed ==
    ASSUME NEW n \in Nat \ {0}, NEW ss \in [1..n -> Seq(Int)], NEW p \in 0..n,
           \A i \in 1..n : Len(ss[i]) = IF i = p THEN 2 ELSE 1
    PROVE  PlacedTo(FlattenSeq(ss), ss, p, n)
<1>1. PICK f : Flat(f, ss, n) /\ FlattenSeq(ss) = f[n]
  BY FlattenSeqIs
<1> DEFINE T == {i \in 1..n : ~PlacedTo(f[i], ss, p, i)}
<1>2. T = {}
  <2> SUFFICES ASSUME T # {} PROVE FALSE
    OBVIOUS
  <2>1. PICK m \in T : \A i \in T : m <= i
    <3>1. T \in SUBSET Nat
      OBVIOUS
    <3> HIDE DEF T
    <3> QED
      BY <3>1, LeastElement
  <2>2. ss[m] \in Seq(Int) /\ Len(ss[m]) = IF m = p THEN 2 ELSE 1
    OBVIOUS
  <2>3. CASE m = 1
    <3>1. f[1] = ss[1]
      BY <1>1 DEF Flat
    <3>2. PlacedTo(ss[1], ss, p, 1)
      BY <2>2, <2>3 DEF PlacedTo, At
    <3> QED
      BY <2>1, <2>3, <3>1, <3>2
  <2>4. CASE m # 1
    <3>1. m \in 2..n /\ m - 1 \in 1..n /\ m - 1 < m
      BY <2>4
    <3>2. m - 1 \notin T
      <4> HIDE DEF T
      <4> QED
        BY <2>1, <3>1
    <3>3. f[m] = f[m - 1] \o ss[m]
      BY <1>1, <3>1 DEF Flat, Joined
    <3>4. PICK s, t, r : s = f[m - 1] /\ t = ss[m] /\ r = f[m]
      OBVIOUS
    <3>5. PlacedTo(s, ss, p, m - 1) /\ t \in Seq(Int) /\ Len(t) = IF m = p THEN 2 ELSE 1
      BY <2>2, <3>1, <3>2, <3>4
    <3>6. /\ r \in Seq(Int) /\ Len(r) = Len(s) + Len(t)
          /\ \A i \in 1..(Len(s) + Len(t)) : r[i] = IF i <= Len(s) THEN s[i] ELSE t[i - Len(s)]
      <4>1. s \in Seq(Int) /\ t \in Seq(Int)
        BY <3>5 DEF PlacedTo
      <4>2. r = s \o t
        BY <3>3, <3>4
      <4> QED
        BY ONLY <4>1, <4>2, ConcatProperties
    <3>7. m \in Nat /\ p \in Nat /\ m >= 2
      BY <3>1
    <3>8. PICK a, b : /\ a = IF p # 0 /\ m - 1 >= p THEN m ELSE m - 1
                      /\ b = IF m = p THEN 2 ELSE 1
      OBVIOUS
    <3>9. /\ Len(s) = a /\ Len(t) = b /\ a \in Nat /\ b \in {1, 2}
      <4>1. Len(s) = a
        BY <3>5, <3>7, <3>8 DEF PlacedTo
      <4>2. Len(t) = b
        BY <3>5, <3>8
      <4> QED
        BY <3>7, <3>8, <4>1, <4>2
    <3>10. /\ r \in Seq(Int) /\ Len(r) = a + b
           /\ \A i \in 1..a : r[i] = s[i]
           /\ r[a + 1] = t[1]
           /\ b = 2 => r[a + 2] = t[2]
      <4>1. ASSUME NEW i \in 1..(a + b)
            PROVE  r[i] = IF i <= a THEN s[i] ELSE t[i - a]
        BY <3>6, <3>9
      <4>2. ASSUME NEW i \in 1..a PROVE r[i] = s[i]
        <5>1. i \in 1..(a + b) /\ i <= a
          BY <3>9
        <5> QED
          BY <4>1, <5>1
      <4>3. r[a + 1] = t[1]
        <5>1. a + 1 \in 1..(a + b) /\ ~(a + 1 <= a) /\ (a + 1) - a = 1
          BY <3>9
        <5> QED
          BY <4>1, <5>1
      <4>4. b = 2 => r[a + 2] = t[2]
        <5>1. b = 2 => a + 2 \in 1..(a + b) /\ ~(a + 2 <= a) /\ (a + 2) - a = 2
          BY <3>9
        <5> QED
          BY <4>1, <5>1
      <4> QED
        BY <3>6, <3>9, <4>2, <4>3, <4>4
    <3>11. PlacedTo(r, ss, p, m)
      <4>1. ASSUME NEW j \in 1..m PROVE r[At(p, j)] = ss[j][1]
        <5>1. CASE j = m
          <6>1. At(p, j) = a + 1
            BY ONLY <3>7, <3>8, <5>1 DEF At
          <6> QED
            BY ONLY <3>4, <3>10, <5>1, <6>1
        <5>2. CASE j # m
          <6>1. j \in 1..(m - 1) /\ At(p, j) \in 1..a
            BY <3>7, <3>8, <5>2 DEF At
          <6>2. r[At(p, j)] = s[At(p, j)]
            BY <3>10, <6>1
          <6> QED
            BY <3>5, <6>1, <6>2 DEF PlacedTo
        <5> QED
          BY <5>1, <5>2
      <4>2. ASSUME NEW j \in 1..m, j = p PROVE r[j + 1] = ss[j][2]
        <5>1. CASE j = m
          <6>1. j + 1 = a + 2 /\ b = 2
            BY <3>7, <3>8, <4>2, <5>1
          <6> QED
            BY ONLY <3>4, <3>10, <5>1, <6>1
        <5>2. CASE j # m
          <6>1. j \in 1..(m - 1) /\ j + 1 \in 1..a
            BY <3>7, <3>8, <4>2, <5>2
          <6>2. r[j + 1] = s[j + 1]
            BY <3>10, <6>1
          <6> QED
            BY <3>5, <4>2, <6>1, <6>2 DEF PlacedTo
        <5> QED
          BY <5>1, <5>2
      <4>3. a + b = IF p # 0 /\ m >= p THEN m + 1 ELSE m
        BY ONLY <3>7, <3>8
      <4> QED
        BY <3>10, <4>1, <4>2, <4>3 DEF PlacedTo
    <3> QED
      BY <3>4, <3>11
  <2> QED
    BY <2>3, <2>4
<1>3. n \in 1..n
  OBVIOUS
<1> HIDE DEF T
<1>4. n \notin T
  BY <1>2
<1> QED
  BY <1>1, <1>3, <1>4 DEF T

-----------------------------------------------------------------------------
(* The parameters *)

Kinds == {"word", "int32", "off", "time"}

\* Every handler has up to five parameters; the offset, if there is one, is the
\* one for which the 32-bit adapters take two words.
Match(ks, n, p) ==
    /\ n \in 1..5 /\ Len(ks) = n /\ ks \in [1..n -> Kinds] /\ p \in 0..n
    /\ \A i \in 1..n : ks[i] = "off" <=> i = p

LEMMA ParamsMatch == ASSUME NEW o \in Ops PROVE \E n : Match(Params(o), n, PairAt(o))
<1>1. CASE o \in OnePath
  <2>1. Params(o) = <<"word">> /\ PairAt(o) = 0
    BY <1>1 DEF Params, PairAt, OnePath, TwoPtrs, PathTime, PathInt
  <2>2. Match(<<"word">>, 1, 0)
    BY DEF Match, Kinds
  <2> QED
    BY <2>1, <2>2
<1>2. CASE o \in TwoPtrs
  <2>1. Params(o) = <<"word", "word">> /\ PairAt(o) = 0
    BY <1>2 DEF Params, PairAt, OnePath, TwoPtrs, PathTime, PathInt
  <2>2. Match(<<"word", "word">>, 2, 0)
    BY DEF Match, Kinds
  <2> QED
    BY <2>1, <2>2
<1>3. CASE o \in PathTime
  <2>1. Params(o) = <<"word", "time">> /\ PairAt(o) = 0
    BY <1>3 DEF Params, PairAt, OnePath, TwoPtrs, PathTime, PathInt
  <2>2. Match(<<"word", "time">>, 2, 0)
    BY DEF Match, Kinds
  <2> QED
    BY <2>1, <2>2
<1>4. CASE o \in PathInt
  <2>1. Params(o) = <<"word", "int32">> /\ PairAt(o) = 0
    BY <1>4 DEF Params, PairAt, OnePath, TwoPtrs, PathTime, PathInt
  <2>2. Match(<<"word", "int32">>, 2, 0)
    BY DEF Match, Kinds
  <2> QED
    BY <2>1, <2>2
<1>5. CASE o \in {"Mknod", "Chown"}
  <2>1. Params(o) = <<"word", "int32", "int32">> /\ PairAt(o) = 0
    BY <1>5 DEF Params, PairAt, OnePath, TwoPtrs, PathTime, PathInt
  <2>2. Match(<<"word", "int32", "int32">>, 3, 0)
    BY DEF Match, Kinds
  <2> QED
    BY <2>1, <2>2
<1>6. CASE o \in {"Fsync", "Fsyncdir", "Create"}
  <2>1. Params(o) = <<"word", "int32", "word">> /\ PairAt(o) = 0
    BY <1>6 DEF Params, PairAt, OnePath, TwoPtrs, PathTime, PathInt
  <2>2. Match(<<"word", "int32", "word">>, 3, 0)
    BY DEF Match, Kinds
  <2> QED
    BY <2>1, <2>2
<1>7. CASE o \in {"Readlink", "Listxattr"}
  <2>1. Params(o) = <<"word", "word", "word">> /\ PairAt(o) = 0
    BY <1>7 DEF Params, PairAt, OnePath, TwoPtrs, PathTime, PathInt
  <2>2. Match(<<"word", "word", "word">>, 3, 0)
    BY DEF Match, Kinds
  <2> QED
    BY <2>1, <2>2
<1>8. CASE o \in {"Getxattr", "Getpath"}
  <2>1. Params(o) = <<"word", "word", "word", "word">> /\ PairAt(o) = 0
    BY <1>8 DEF Params, PairAt, OnePath, TwoPtrs, PathTime, PathInt
  <2>2. Match(<<"word", "word", "word", "word">>, 4, 0)
    BY DEF Match, Kinds
  <2> QED
    BY <2>1, <2>2
<1>9. CASE o = "Setxattr"
  <2>1. Params(o) = <<"word", "word", "word", "word", "int32">> /\ PairAt(o) = 0
    BY <1>9 DEF Params, PairAt, OnePath, TwoPtrs, PathTime, PathInt
  <2>2. Match(<<"word", "word", "word", "word", "int32">>, 5, 0)
    BY DEF Match, Kinds
  <2> QED
    BY <2>1, <2>2
<1>10. CASE o = "Truncate"
  <2>1. Params(o) = <<"word", "off">> /\ PairAt(o) = 2
    BY <1>10 DEF Params, PairAt, OnePath, TwoPtrs, PathTime, PathInt
  <2>2. Match(<<"word", "off">>, 2, 2)
    BY DEF Match, Kinds
  <2> QED
    BY <2>1, <2>2
<1>11. CASE o = "Ftruncate"
  <2>1. Params(o) = <<"word", "off", "word">> /\ PairAt(o) = 2
    BY <1>11 DEF Params, PairAt, OnePath, TwoPtrs, PathTime, PathInt
  <2>2. Match(<<"word", "off", "word">>, 3, 2)
    BY DEF Match, Kinds
  <2> QED
    BY <2>1, <2>2
<1>12. CASE o \in {"Read", "Write", "Readdir"}
  <2>1. Params(o) = <<"word", "word", "word", "off", "word">> /\ PairAt(o) = 4
    BY <1>12 DEF Params, PairAt, OnePath, TwoPtrs, PathTime, PathInt
  <2>2. Match(<<"word", "word", "word", "off", "word">>, 5, 4)
    BY DEF Match, Kinds
  <2> QED
    BY <2>1, <2>2
<1> QED
  BY <1>1, <1>2, <1>3, <1>4, <1>5, <1>6, <1>7, <1>8, <1>9, <1>10, <1>11, <1>12 DEF Ops, Offs

-----------------------------------------------------------------------------
(* One argument *)

ArgIs(kind, x) ==
    /\ kind \in {"word", "int32"} => x \in 0..(Base - 1)
    /\ kind = "off" => x \in Offsets
    /\ kind = "time" => x \in IF wide THEN Offsets ELSE Ints

\* An argument is one word, but for an offset on a 32-bit machine.
OneWord(kind, x, s) ==
    \E w \in Int : s = <<w>> /\ (Converted(kind, w) = x \/ (kind = "time" /\ ~wide /\ x < 0))
TwoWords(x, s) == \E lo, hi \in Int : s = <<lo, hi>> /\ Join(lo, hi) = x

LEMMA PushedBack ==
    ASSUME NEW kind \in Kinds, NEW g \in {0, Base - 1}, NEW x, ArgIs(kind, x), wide \in BOOLEAN
    PROVE  IF kind = "off" /\ ~wide THEN TwoWords(x, Push(kind, x, g))
                                    ELSE OneWord(kind, x, Push(kind, x, g))
<1> DEFINE bb == Base * Base
           hb == Base * Sign
<1>1. /\ Base \in Nat \ {0} /\ Sign \in Nat \ {0} /\ Base = 2 * Sign /\ Base \div 2 = Sign
      /\ bb \in Nat \ {0} /\ hb \in Nat \ {0} /\ bb = 2 * hb /\ bb \div 2 = hb
  BY Sizes
<1>2. Offsets = (-hb)..(hb - 1) /\ Ints = (-Sign)..(Sign - 1)
  BY <1>1 DEF Offsets, Ints
<1>3. CASE kind = "word"
  BY <1>1, <1>3 DEF OneWord, Push, Converted, ArgIs
<1>4. CASE kind = "int32"
  <2>1. x \in 0..(Base - 1) /\ g \in Int
    BY <1>1, <1>4 DEF ArgIs
  <2>2. PICK w : w = x + g * Base
    OBVIOUS
  <2>3. w \in Int /\ Divided(w, Base, g, x) /\ Divided(x, Base, 0, x) /\ x \in Int
    BY <1>1, <2>1, <2>2, Z3 DEF Divided
  <2>4. w % Base = x /\ x % Base = x
    BY ONLY <1>1, <2>3, DivModIs
  <2>5. CASE wide
    <3>1. Push(kind, x, g) = <<w>>
      BY <1>4, <2>2, <2>5 DEF Push
    <3> QED
      BY <1>4, <2>3, <2>4, <2>5, <3>1 DEF OneWord, Converted, Unsigned
  <2>6. CASE ~wide
    <3>1. Push(kind, x, g) = <<x>>
      BY <1>4, <2>6 DEF Push
    <3> QED
      BY <1>4, <2>3, <2>4, <2>6, <3>1 DEF OneWord, Converted, Unsigned
  <2> QED
    BY <2>5, <2>6
<1>5. CASE wide /\ kind \in {"off", "time"}
  <2>1. x \in (-hb)..(hb - 1)
    BY <1>2, <1>5 DEF ArgIs
  <2> HIDE DEF bb, hb
  <2>2. PICK w : w = Unsigned(x, bb)
    OBVIOUS
  <2>3. w \in 0..(bb - 1) /\ Signed(w, bb) = x
    BY ONLY <1>1, <2>1, <2>2, SignedBack
  <2>4. Push(kind, x, g) = <<w>>
    BY <1>5, <2>2 DEF Push, bb
  <2>5. Converted(kind, w) = x
    BY <1>5, <2>3 DEF Converted, bb
  <2>6. w \in Int
    BY <1>1, <2>3
  <2> QED
    BY <1>5, <2>4, <2>5, <2>6 DEF OneWord
<1>6. CASE ~wide /\ kind = "time"
  <2>1. x \in (-Sign)..(Sign - 1)
    BY <1>2, <1>6 DEF ArgIs
  <2>2. PICK w : w = Unsigned(x, Base)
    OBVIOUS
  <2>3. w \in 0..(Base - 1) /\ w = IF x >= 0 THEN x ELSE x + Base
    BY ONLY <1>1, <2>1, <2>2, SignedBack
  <2>4. Push(kind, x, g) = <<w>> /\ Converted(kind, w) = w
    BY <1>6, <2>2 DEF Push, Converted
  <2>5. w \in Int /\ (w = x \/ x < 0)
    BY <1>1, <2>1, <2>3
  <2> QED
    BY <1>6, <2>4, <2>5 DEF OneWord
<1>7. CASE ~wide /\ kind = "off"
  <2>1. x \in (-hb)..(hb - 1)
    BY <1>2, <1>7 DEF ArgIs
  <2>2. PICK m : m = bb
    OBVIOUS
  <2>3. x \in Int
    BY <1>1, <2>1
  <2>0. PICK b : b = Base
    OBVIOUS
  <2>4. PICK lo, hi, q : lo = x % b /\ hi = (x % m) \div b /\ q = (x \div b) % b
    OBVIOUS
  <2>5. lo \in 0..(b - 1) /\ q \in 0..(b - 1) /\ x % m = q * b + lo /\ hi = q
    <3>1. b \in Nat \ {0} /\ m = b * b
      BY <1>1, <2>0, <2>2
    <3>2. HalvesOf(x, b, m)
      BY ONLY <2>3, <3>1, Halves
    <3>3. x % m = q * b + lo
      BY ONLY <2>4, <3>2 DEF HalvesOf
    <3>4. lo \in 0..(b - 1) /\ q \in 0..(b - 1) /\ hi = q
      BY ONLY <2>4, <3>2 DEF HalvesOf
    <3> QED
      BY ONLY <3>3, <3>4
  <2>6. Signed(Unsigned(x, m), m) = x
    <3>1. PICK half : half = hb
      OBVIOUS
    <3>2. half \in Nat \ {0} /\ m = 2 * half /\ x \in (-half)..(half - 1)
      BY ONLY <1>1, <2>1, <2>2, <3>1
    <3> QED
      BY ONLY <3>2, SignedBack
  <2>7. Push(kind, x, g) = <<lo, hi>>
    BY <1>7, <2>0, <2>2, <2>4 DEF Push, Unsigned
  <2>8. Join(lo, hi) = x
    <3>1. Signed(hi * b + lo, m) = x
      BY ONLY <2>5, <2>6 DEF Unsigned
    <3>2. m = Base * Base
      BY ONLY <2>2
    <3> QED
      BY ONLY <2>0, <3>1, <3>2 DEF Join
  <2>9. lo \in Int /\ hi \in Int
    BY <1>1, <2>0, <2>5
  <2> QED
    BY <1>7, <2>7, <2>8, <2>9 DEF TwoWords
<1> QED
  BY <1>3, <1>4, <1>5, <1>6, <1>7 DEF Kinds

-----------------------------------------------------------------------------
(* A call and its answer *)

HandedTo(o, ws) == IF wide THEN Adapter64(o, ws) ELSE Adapter32(o, ws)

\* The handler gets the arguments of the call, but for the sign of a time.
Crossed(o, as, gt) ==
    /\ DOMAIN gt = DOMAIN as
    /\ \A i \in DOMAIN as :
          gt[i] = as[i] \/ (~wide /\ Params(o)[i] = "time" /\ as[i] < 0)

CallInv ==
    /\ wide \in BOOLEAN
    /\ phase = "called" => Crossed(op, args, HandedTo(op, stack))
    /\ CallsCrossUnchanged

\* What WinFsp pushes for arguments xs comes back out of the adapter.
LEMMA AdapterUndoesPush ==
    ASSUME NEW o \in Ops, NEW g \in {0, Base - 1}, wide \in BOOLEAN,
           NEW xs, DOMAIN xs = DOMAIN Params(o),
           \A i \in DOMAIN Params(o) : ArgIs(Params(o)[i], xs[i])
    PROVE  Crossed(o, xs, HandedTo(o, FlattenSeq([i \in DOMAIN Params(o) |-> Push(Params(o)[i], xs[i], g)])))
<1>1. PICK ks, n, p : ks = Params(o) /\ p = PairAt(o) /\ Match(ks, n, p)
  BY ParamsMatch
<1>2. /\ n \in 1..5 /\ DOMAIN ks = 1..n /\ p \in 0..n /\ \A i \in 1..n : ks[i] \in Kinds
      /\ \A i \in 1..n : ks[i] = "off" <=> i = p
  BY <1>1 DEF Match
<1>3. PICK ss : ss = [i \in 1..n |-> Push(ks[i], xs[i], g)]
  OBVIOUS
<1>4. PICK d : d = IF wide THEN 0 ELSE p
  OBVIOUS
<1>5. d \in 0..n
  BY <1>2, <1>4
<1>6. ASSUME NEW i \in 1..n
      PROVE  IF i = d THEN TwoWords(xs[i], ss[i]) ELSE OneWord(ks[i], xs[i], ss[i])
  <2>1. ks[i] \in Kinds /\ ArgIs(ks[i], xs[i])
    BY <1>1, <1>2
  <2>2. IF ks[i] = "off" /\ ~wide THEN TwoWords(xs[i], Push(ks[i], xs[i], g))
                                  ELSE OneWord(ks[i], xs[i], Push(ks[i], xs[i], g))
    BY <2>1, PushedBack
  <2>3. i = d <=> ks[i] = "off" /\ ~wide
    BY <1>2, <1>4
  <2> QED
    BY <1>3, <2>2, <2>3
<1>7. ASSUME NEW i \in 1..n
      PROVE  ss[i] \in Seq(Int) /\ Len(ss[i]) = IF i = d THEN 2 ELSE 1
  <2>1. CASE i = d
    <3>1. PICK lo, hi \in Int : ss[i] = <<lo, hi>>
      BY <1>6, <2>1 DEF TwoWords
    <3>2. <<lo, hi>> \in Seq(Int) /\ Len(<<lo, hi>>) = 2
      OBVIOUS
    <3> QED
      BY <2>1, <3>1, <3>2
  <2>2. CASE i # d
    <3>1. PICK w \in Int : ss[i] = <<w>>
      BY <1>6, <2>2 DEF OneWord
    <3>2. <<w>> \in Seq(Int) /\ Len(<<w>>) = 1
      OBVIOUS
    <3> QED
      BY <2>2, <3>1, <3>2
  <2> QED
    BY <2>1, <2>2
<1>8. ss \in [1..n -> Seq(Int)] /\ n \in Nat \ {0}
  BY <1>2, <1>3, <1>7
<1>9. PICK ws : ws = FlattenSeq(ss)
  OBVIOUS
<1>10. PlacedTo(ws, ss, d, n)
  BY ONLY <1>5, <1>7, <1>8, <1>9, Placed
<1>11. ASSUME NEW i \in 1..n
       PROVE  ws[At(d, i)] = ss[i][1] /\ (i = d => ws[i + 1] = ss[i][2])
  BY <1>10 DEF PlacedTo
<1>12. PICK gt : gt = HandedTo(o, ws)
  OBVIOUS
<1>13. DOMAIN gt = 1..n
  BY <1>1, <1>2, <1>12 DEF HandedTo, Adapter64, Adapter32
<1>14. ASSUME NEW i \in 1..n
       PROVE  gt[i] = xs[i] \/ (~wide /\ ks[i] = "time" /\ xs[i] < 0)
  <2>1. CASE i = d
    <3>1. PICK lo, hi \in Int : ss[i] = <<lo, hi>> /\ Join(lo, hi) = xs[i]
      BY <1>6, <2>1 DEF TwoWords
    <3>2. ws[i] = lo /\ ws[i + 1] = hi
      BY <1>11, <2>1, <3>1 DEF At
    <3>3. ~wide /\ i = p
      BY <1>4, <2>1, <1>2
    <3>4. gt[i] = Join(ws[i], ws[i + 1])
      BY <1>1, <1>2, <1>12, <3>3 DEF HandedTo, Adapter32
    <3> QED
      BY <3>1, <3>2, <3>4
  <2>2. CASE i # d
    <3>1. PICK w \in Int : /\ ss[i] = <<w>>
                           /\ Converted(ks[i], w) = xs[i] \/ (ks[i] = "time" /\ ~wide /\ xs[i] < 0)
      BY <1>6, <2>2 DEF OneWord
    <3>2. ws[At(d, i)] = w
      BY <1>11, <3>1
    <3>3. gt[i] = Converted(ks[i], w)
      <4>1. CASE wide
        <5>1. At(d, i) = i
          BY <1>4, <4>1 DEF At
        <5>2. gt[i] = Converted(ks[i], ws[i])
          BY <1>1, <1>2, <1>12, <4>1 DEF HandedTo, Adapter64
        <5> QED
          BY <3>2, <5>1, <5>2
      <4>2. CASE ~wide
        <5>1. gt[i] = Converted(ks[i], ws[At(d, i)])
          BY <1>1, <1>2, <1>4, <1>12, <2>2, <4>2 DEF HandedTo, Adapter32, At
        <5> QED
          BY <3>2, <5>1
      <4> QED
        BY <4>1, <4>2
    <3> QED
      BY <3>1, <3>3
  <2> QED
    BY <2>1, <2>2
<1>15. DOMAIN xs = 1..n
  BY <1>1, <1>2
<1>16. Crossed(o, xs, gt)
  BY <1>1, <1>13, <1>14, <1>15 DEF Crossed
<1> QED
  BY <1>1, <1>2, <1>3, <1>9, <1>12, <1>16

LEMMA WinCallKeepsCallInv == ASSUME CallInv, WinCall PROVE CallInv'
<1>1. PICK o \in Ops, offset \in Offsets, g \in {0, Base - 1} :
         \E high \in SUBSET DOMAIN Params(o) :
           /\ op' = o
           /\ args' = [i \in DOMAIN Params(o) |->
                         IF Params(o)[i] = "off" THEN offset
                         ELSE IF Params(o)[i] = "time" THEN Narrow(offset)
                         ELSE IF i \in high THEN Base - 1 ELSE (i - 1) % Base]
           /\ stack' = FlattenSeq([i \in DOMAIN Params(o) |-> Push(Params(o)[i], args'[i], g)])
  BY DEF WinCall
<1>2. wide \in BOOLEAN /\ wide' = wide /\ phase' = "called"
  BY DEF WinCall, CallInv
<1>3. PICK xs : xs = args'
  OBVIOUS
<1>4. /\ Base \in Nat \ {0} /\ Sign \in Nat \ {0} /\ Base = 2 * Sign /\ Base \div 2 = Sign
      /\ Base * Base \in Nat \ {0} /\ Base * Sign \in Nat \ {0} /\ Base * Base = 2 * (Base * Sign)
      /\ (Base * Base) \div 2 = Base * Sign
  BY Sizes
<1>5. Narrow(offset) \in IF wide THEN Offsets ELSE Ints
  <2>1. PICK m, half : /\ m = IF wide THEN Base * Base ELSE Base
                    /\ half = IF wide THEN Base * Sign ELSE Sign
    OBVIOUS
  <2>2. offset \in Int /\ half \in Nat \ {0} /\ m = 2 * half
    <3>1. offset \in Int
      BY <1>4 DEF Offsets
    <3>2. CASE wide
      BY <1>4, <2>1, <3>1, <3>2
    <3>3. CASE ~wide
      BY <1>4, <2>1, <3>1, <3>3
    <3> QED
      BY <3>2, <3>3
  <2>3. Signed(offset, m) \in (-half)..(half - 1)
    BY ONLY <2>2, SignedRange
  <2>4. Narrow(offset) = Signed(offset, m)
    BY <2>1 DEF Narrow
  <2>5. CASE wide
    <3>1. Offsets = (-half)..(half - 1)
      BY <1>4, <2>1, <2>5 DEF Offsets
    <3> QED
      BY <2>3, <2>4, <2>5, <3>1
  <2>6. CASE ~wide
    <3>1. Ints = (-half)..(half - 1)
      BY <1>4, <2>1, <2>6 DEF Ints
    <3> QED
      BY <2>3, <2>4, <2>6, <3>1
  <2> QED
    BY <2>5, <2>6
<1>6. ASSUME NEW i \in DOMAIN Params(o) PROVE ArgIs(Params(o)[i], xs[i])
  <2>1. (i - 1) % Base \in 0..(Base - 1)
    <3>1. i \in Int
      BY ParamsMatch DEF Match
    <3> QED
      BY <1>4, <3>1, DivMod DEF Divided
  <2>2. CASE Params(o)[i] = "off"
    BY <1>1, <1>3, <2>2 DEF ArgIs
  <2>3. CASE Params(o)[i] = "time"
    BY <1>1, <1>3, <1>5, <2>3 DEF ArgIs
  <2>4. CASE Params(o)[i] \notin {"off", "time"}
    BY <1>1, <1>3, <1>4, <2>1, <2>4 DEF ArgIs
  <2> QED
    BY <2>2, <2>3, <2>4
<1>7. DOMAIN xs = DOMAIN Params(o)
  BY <1>1, <1>3
<1>8. Crossed(o, xs, HandedTo(o, FlattenSeq([i \in DOMAIN Params(o) |-> Push(Params(o)[i], xs[i], g)])))
  BY <1>2, <1>6, <1>7, AdapterUndoesPush
<1>9. Crossed(op', args', HandedTo(op', stack'))
  BY <1>1, <1>3, <1>8
<1>10. Crossed(op, args, HandedTo(op, stack))'
  BY <1>2, <1>9 DEF Crossed, HandedTo, Adapter64, Adapter32, Converted
<1> QED
  BY <1>2, <1>10 DEF CallInv, CallsCrossUnchanged

LEMMA NarrowKeeps ==
    ASSUME wide \in BOOLEAN, NEW x \in IF wide THEN Offsets ELSE Ints
    PROVE  Narrow(x) = x
<1>1. /\ Base \in Nat \ {0} /\ Sign \in Nat \ {0} /\ Base = 2 * Sign /\ Base \div 2 = Sign
      /\ Base * Base \in Nat \ {0} /\ Base * Sign \in Nat \ {0} /\ Base * Base = 2 * (Base * Sign)
      /\ (Base * Base) \div 2 = Base * Sign
  BY Sizes
<1>2. CASE wide
  <2>1. PICK m, half : m = Base * Base /\ half = Base * Sign
    OBVIOUS
  <2>2. half \in Nat \ {0} /\ m = 2 * half /\ x \in (-half)..(half - 1)
    BY <1>1, <1>2, <2>1 DEF Offsets
  <2>3. Signed(x, m) = x
    BY ONLY <2>2, SignedBack
  <2> QED
    BY <1>2, <2>1, <2>3 DEF Narrow
<1>3. CASE ~wide
  <2>1. PICK m, half : m = Base /\ half = Sign
    OBVIOUS
  <2>2. half \in Nat \ {0} /\ m = 2 * half /\ x \in (-half)..(half - 1)
    BY <1>1, <1>3, <2>1 DEF Ints
  <2>3. Signed(x, m) = x
    BY ONLY <2>2, SignedBack
  <2> QED
    BY <1>3, <2>1, <2>3 DEF Narrow
<1> QED
  BY <1>2, <1>3

LEMMA NarrowRange ==
    ASSUME wide \in BOOLEAN, NEW x \in Int
    PROVE  Narrow(x) \in IF wide THEN Offsets ELSE Ints
<1>1. /\ Base \in Nat \ {0} /\ Sign \in Nat \ {0} /\ Base = 2 * Sign /\ Base \div 2 = Sign
      /\ Base * Base \in Nat \ {0} /\ Base * Sign \in Nat \ {0} /\ Base * Base = 2 * (Base * Sign)
      /\ (Base * Base) \div 2 = Base * Sign
  BY Sizes
<1>2. CASE wide
  <2>1. PICK m, half : m = Base * Base /\ half = Base * Sign
    OBVIOUS
  <2>2. half \in Nat \ {0} /\ m = 2 * half
    BY <1>1, <2>1
  <2>3. Signed(x, m) \in (-half)..(half - 1)
    BY ONLY x \in Int, <2>2, SignedRange
  <2> QED
    BY <1>1, <1>2, <2>1, <2>3 DEF Narrow, Offsets
<1>3. CASE ~wide
  <2>1. PICK m, half : m = Base /\ half = Sign
    OBVIOUS
  <2>2. half \in Nat \ {0} /\ m = 2 * half
    BY <1>1, <2>1
  <2>3. Signed(x, m) \in (-half)..(half - 1)
    BY ONLY x \in Int, <2>2, SignedRange
  <2> QED
    BY <1>1, <1>3, <2>1, <2>3 DEF Narrow, Ints
<1> QED
  BY <1>2, <1>3

LEMMA OffsetBack ==
    ASSUME wide \in BOOLEAN, NEW x \in Offsets
    PROVE  LET ws == FillWords(x) IN
           Signed(IF wide THEN ws[1] ELSE ws[2] * Base + ws[1], Base * Base) = x
<1>1. /\ Base \in Nat \ {0} /\ Base * Base \in Nat \ {0} /\ Base * Sign \in Nat \ {0}
      /\ Base * Base = 2 * (Base * Sign) /\ (Base * Base) \div 2 = Base * Sign
  BY Sizes
<1>2. PICK b, m, half : b = Base /\ m = Base * Base /\ half = Base * Sign
  OBVIOUS
<1>3. /\ b \in Nat \ {0} /\ m = b * b /\ half \in Nat \ {0} /\ m = 2 * half
      /\ x \in (-half)..(half - 1) /\ x \in Int
  BY <1>1, <1>2 DEF Offsets
<1>4. Signed(Unsigned(x, m), m) = x
  BY ONLY <1>3, SignedBack
<1>5. x % m = ((x \div b) % b) * b + (x % b)
  <2>1. b \in Nat \ {0} /\ m = b * b /\ x \in Int
    BY ONLY <1>3
  <2>2. HalvesOf(x, b, m)
    BY ONLY <2>1, Halves
  <2> QED
    BY ONLY <2>2 DEF HalvesOf
<1>6. CASE wide
  BY <1>2, <1>4, <1>6 DEF FillWords
<1>7. CASE ~wide
  <2>1. PICK lo, hi : lo = x % b /\ hi = (x \div b) % b
    OBVIOUS
  <2>2. FillWords(x) = <<lo, hi>>
    BY <1>2, <1>7, <2>1 DEF FillWords, Unsigned
  <2>3. Signed(hi * b + lo, m) = x
    BY <1>4, <1>5, <2>1 DEF Unsigned
  <2> QED
    BY <1>2, <1>7, <2>2, <2>3
<1> QED
  BY <1>6, <1>7

LEMMA AnswerBack ==
    ASSUME wide \in BOOLEAN, NEW e \in Ints
    PROVE  Signed(Unsigned(e, IF wide THEN Base * Base ELSE Base), Base) = e
<1>1. /\ Base \in Nat \ {0} /\ Sign \in Nat \ {0} /\ Base = 2 * Sign /\ Base \div 2 = Sign
  BY Sizes
<1>2. PICK b, m, half : b = Base /\ m = Base * Base /\ half = Sign
  OBVIOUS
<1>3. b \in Nat \ {0} /\ m = b * b /\ half \in Nat \ {0} /\ b = 2 * half /\ e \in (-half)..(half - 1) /\ e \in Int
  BY <1>1, <1>2 DEF Ints
<1>4. Signed(Unsigned(e, b), b) = e /\ Signed(e, b) = e
  BY ONLY <1>3, SignedBack
<1>5. (e % m) % b = e % b
  <2>1. b \in Nat \ {0} /\ m = b * b /\ e \in Int
    BY ONLY <1>3
  <2>2. HalvesOf(e, b, m)
    BY ONLY <2>1, Halves
  <2> QED
    BY ONLY <2>2 DEF HalvesOf
<1>6. Signed(Unsigned(e, m), b) = e
  BY <1>4, <1>5 DEF Signed, Unsigned
<1> QED
  BY <1>2, <1>4, <1>6

LEMMA CallInvStep == ASSUME CallInv, [CallNext]_callVars PROVE CallInv'
<1>1. ASSUME Adapt PROVE CallInv'
  <2>1. /\ Crossed(op, args, got') /\ phase' = "go" /\ wide \in BOOLEAN
        /\ UNCHANGED <<wide, op, args, stack, off, errc, seen>>
    BY <1>1 DEF Adapt, CallInv, HandedTo
  <2> QED
    BY <2>1 DEF CallInv, CallsCrossUnchanged, Crossed, LosesItsSign
<1>2. ASSUME NEW o \in Offsets, Filldir(o) PROVE CallInv'
  <2>1. /\ phase = "go" /\ phase' = "filled" /\ op = "Readdir" /\ off' = <<o>>
        /\ UNCHANGED <<wide, op, args, stack, got, errc>> /\ wide \in BOOLEAN
    BY <1>2 DEF Filldir, CallInv
  <2>2. seen' = <<o>>
    BY <1>2, <2>1, OffsetBack DEF Filldir
  <2> QED
    BY <2>1, <2>2 DEF CallInv, CallsCrossUnchanged, LosesItsSign
<1>3. ASSUME NEW o \in Offsets, NEW b \in {0, 1}, Stat(o, Narrow(o), b) PROVE CallInv'
  <2>1. PICK c : c = Narrow(o)
    OBVIOUS
  <2>2. /\ phase = "go" /\ phase' = "filled" /\ op \in {"Getattr", "Fgetattr"} /\ off' = <<o, c, b>>
        /\ seen' = <<o, Narrow(c), Narrow(IF b # 0 THEN b ELSE c)>>
        /\ UNCHANGED <<wide, op, args, stack, got, errc>> /\ wide \in BOOLEAN
    BY <1>3, <2>1 DEF Stat, CallInv
  <2>3. c \in IF wide THEN Offsets ELSE Ints
    <3>1. o \in Int
      BY Sizes DEF Offsets
    <3> QED
      BY <2>1, <2>2, <3>1, NarrowRange
  <2>4. 1 \in IF wide THEN Offsets ELSE Ints
    BY Sizes DEF Offsets, Ints
  <2>5. Narrow(c) = c /\ Narrow(1) = 1
    BY <2>2, <2>3, <2>4, NarrowKeeps
  <2>6. seen' = <<o, c, IF b = 0 THEN c ELSE b>>
    BY <2>2, <2>5
  <2> QED
    BY <2>2, <2>6 DEF CallInv, CallsCrossUnchanged, LosesItsSign
<1>4. ASSUME NEW e \in Ints, Answer(e) PROVE CallInv'
  <2>1. /\ phase \in {"go", "filled"} /\ phase' = "back" /\ errc' = e /\ wide \in BOOLEAN
        /\ UNCHANGED <<wide, op, args, stack, got, off>>
    BY <1>4 DEF Answer, CallInv
  <2>2. seen' = <<e>>
    BY <1>4, <2>1, AnswerBack DEF Answer
  <2> QED
    BY <2>1, <2>2 DEF CallInv, CallsCrossUnchanged, LosesItsSign
<1>5. ASSUME Done PROVE CallInv'
  BY <1>5 DEF Done, CallInv, CallsCrossUnchanged
<1>6. CASE UNCHANGED callVars
  BY <1>6 DEF callVars, CallInv, CallsCrossUnchanged, LosesItsSign, Crossed, HandedTo,
              Adapter64, Adapter32, Converted
<1> QED
  BY <1>1, <1>2, <1>3, <1>4, <1>5, <1>6, WinCallKeepsCallInv DEF CallNext

\* Whatever the words' size, both tables of adapters hand on what was called with,
\* and WinFsp sees what Go meant (host_nocgo_windows.go:383-498, 735-1064).
THEOREM CallsArriveUnchanged == CallSpec => []CallsCrossUnchanged
<1>1. CallInit => CallInv
  BY DEF CallInit, CallInv, CallsCrossUnchanged
<1>2. CallInv /\ [CallNext]_callVars => CallInv'
  BY CallInvStep
<1>3. CallInv => CallsCrossUnchanged
  BY DEF CallInv
<1> QED
  BY <1>1, <1>2, <1>3, PTL DEF CallSpec

-----------------------------------------------------------------------------
(* Options (OptParse).  The numbers first: the bytes of a number, read back   *)
(* in their order, make it again; then the templates, by the type and syntax *)
(* of an option; the slots, which do not overlap; the values that are read   *)
(* from them; what is left, by the places it had among the arguments; and    *)
(* the invariant that follows a call through its stages.                     *)

\* The values of n bytes are those of one byte times those of the others.
LEMMA ProductIsNat == ASSUME NEW b \in Nat \ {0}, NEW c \in Nat \ {0} PROVE b * c \in Nat \ {0}
BY Z3

IsWeight(w) == w = [n \in 0..8 |-> IF n = 0 THEN 1 ELSE Byte * w[n - 1]]

LEMMA WeightExists == \E w : IsWeight(w)
<1>1. Byte \in Nat
  BY OptParseAssumption
<1>2. PICK b1, b2, b3, b4, b5, b6, b7, b8 :
        /\ b1 = Byte * 1 /\ b2 = Byte * b1 /\ b3 = Byte * b2 /\ b4 = Byte * b3
        /\ b5 = Byte * b4 /\ b6 = Byte * b5 /\ b7 = Byte * b6 /\ b8 = Byte * b7
  OBVIOUS
<1> DEFINE w == [n \in 0..8 |-> CASE n = 0 -> 1 [] n = 1 -> b1 [] n = 2 -> b2 [] n = 3 -> b3
                                  [] n = 4 -> b4 [] n = 5 -> b5 [] n = 6 -> b6 [] n = 7 -> b7
                                  [] OTHER -> b8]
<1>3. ASSUME NEW n \in 0..8 PROVE w[n] = IF n = 0 THEN 1 ELSE Byte * w[n - 1]
  <2>1. w[0] = 1 /\ w[1] = b1 /\ w[2] = b2 /\ w[3] = b3 /\ w[4] = b4 /\ w[5] = b5 /\ w[6] = b6 /\ w[7] = b7 /\ w[8] = b8
    OBVIOUS
  <2> HIDE DEF w
  <2>2. n = 0 \/ n = 1 \/ n = 2 \/ n = 3 \/ n = 4 \/ n = 5 \/ n = 6 \/ n = 7 \/ n = 8
    BY <1>3
  <2> QED
    BY <1>2, <2>1, <2>2
<1>4. w = [n \in 0..8 |-> w[n]]
  OBVIOUS
<1> HIDE DEF w
<1>5. w = [n \in 0..8 |-> IF n = 0 THEN 1 ELSE Byte * w[n - 1]]
  BY <1>3, <1>4
<1> QED
  BY <1>5 DEF IsWeight

LEMMA WeightIs ==
    /\ Weight[0] = 1
    /\ \A n \in 1..8 : Weight[n] = Byte * Weight[n - 1]
    /\ \A n \in 0..8 : Weight[n] \in Nat \ {0}
<1>1. IsWeight(Weight)
  <2>1. Weight = CHOOSE w : IsWeight(w)
    BY DEF Weight, IsWeight
  <2> QED
    BY <2>1, WeightExists
<1>2. \A n \in 0..8 : Weight[n] = IF n = 0 THEN 1 ELSE Byte * Weight[n - 1]
  BY <1>1 DEF IsWeight
<1>3. Weight[0] = 1 /\ \A n \in 1..8 : Weight[n] = Byte * Weight[n - 1]
  BY ONLY <1>2
<1> DEFINE T == {n \in 0..8 : Weight[n] \notin Nat \ {0}}
<1>4. T = {}
  <2> SUFFICES ASSUME T # {} PROVE FALSE
    OBVIOUS
  <2>1. PICK n \in T : \A i \in T : n <= i
    <3>1. T \in SUBSET Nat
      OBVIOUS
    <3> HIDE DEF T
    <3> QED
      BY <3>1, LeastElement
  <2>2. n \in 1..8 /\ n - 1 \in 0..8
    BY <1>3, <2>1
  <2>3. Weight[n - 1] \in Nat \ {0}
    BY <2>1, <2>2
  <2>4. Byte * Weight[n - 1] \in Nat \ {0}
    BY <2>3, ProductIsNat, OptParseAssumption
  <2> QED
    BY <1>3, <2>1, <2>2, <2>4
<1> QED
  BY <1>3, <1>4

\* The lowest byte of what is above w, put on top of what is below.
LEMMA OneByteMore ==
    ASSUME NEW x \in Int, NEW w \in Nat \ {0}, NEW b \in Nat \ {0}, NEW m, m = b * w
    PROVE  m \in Nat \ {0} /\ x % m = (x % w) + (((x \div w) % b) * w)
<1>0. m \in Nat \ {0}
  BY ProductIsNat
<1>1. PICK q, r : Divided(x, w, q, r) /\ x \div w = q /\ x % w = r
  BY DivMod
<1>2. q \in Int
  BY <1>1 DEF Divided
<1>3. PICK p, s : Divided(q, b, p, s) /\ q \div b = p /\ q % b = s
  BY <1>2, DivMod
<1>4. Divided(x, m, p, r + (s * w))
  <2>1. p \in Int /\ s \in 0..(b - 1) /\ r \in 0..(w - 1) /\ x = w * q + r /\ q = b * p + s
    BY <1>1, <1>3 DEF Divided
  <2>2. x = m * p + (r + (s * w))
    BY <2>1, Z3
  <2>3. s * w \in Int /\ 0 <= s * w /\ s * w <= m - w
    <3>1. s * w \in Int /\ 0 <= s * w
      BY <2>1, Z3
    <3>2. (b - 1 - s) * w >= 0
      BY <2>1, Z3
    <3>3. (b - 1 - s) * w = m - w - (s * w)
      BY <2>1, Z3
    <3> QED
      BY <1>0, <3>1, <3>2, <3>3
  <2>4. r + (s * w) \in 0..(m - 1)
    BY <1>0, <2>1, <2>3
  <2> QED
    BY <2>1, <2>2, <2>4 DEF Divided
<1>5. x % m = r + (s * w)
  BY <1>0, <1>4, DivModIs
<1> QED
  BY <1>0, <1>1, <1>3, <1>5

\* Bytes that are those of x make x again, as far as they go.
LEMMA RawIs ==
    ASSUME NEW x \in Int, NEW at \in Nat, NEW width \in 0..8,
           \A b \in 0..(width - 1) : mem[at + b] = ByteOf(x, b)
    PROVE  RawAt(at, width) = x % Weight[width]
<1> DEFINE IsSum(f) == f = [n \in 0..width |-> IF n = 0 THEN 0 ELSE f[n - 1] + mem[at + n - 1] * Weight[n - 1]]
<1>1. RawAt(at, width) = (CHOOSE f : IsSum(f))[width]
  BY DEF RawAt
<1>2. ASSUME NEW n \in 0..8 PROVE x % Weight[n] \in Int
  <2>1. Weight[n] \in Nat \ {0}
    BY WeightIs
  <2> QED
    BY <2>1, DivMod DEF Divided
<1>3. x % Weight[0] = 0
  <2>1. x % 1 = 0
    OBVIOUS
  <2> QED
    BY <2>1, WeightIs
<1>4. ASSUME NEW n \in 1..width
      PROVE  x % Weight[n] = (x % Weight[n - 1]) + (mem[at + n - 1] * Weight[n - 1])
  <2>1. n - 1 \in 0..(width - 1) /\ n - 1 \in 0..8 /\ n \in 1..8 /\ at + (n - 1) = at + n - 1
    OBVIOUS
  <2>2. mem[at + n - 1] = (x \div Weight[n - 1]) % Byte
    BY <2>1 DEF ByteOf
  <2>3. Weight[n - 1] \in Nat \ {0} /\ Byte \in Nat \ {0} /\ Weight[n] = Byte * Weight[n - 1]
    BY <2>1, WeightIs, OptParseAssumption
  <2>4. PICK w, b, m : w = Weight[n - 1] /\ b = Byte /\ m = Weight[n]
    OBVIOUS
  <2>5. w \in Nat \ {0} /\ b \in Nat \ {0} /\ m = b * w
    BY ONLY <2>3, <2>4
  <2>6. x % m = (x % w) + (((x \div w) % b) * w)
    BY ONLY x \in Int, <2>5, OneByteMore
  <2>7. mem[at + n - 1] = (x \div w) % b
    BY ONLY <2>2, <2>4
  <2>8. x % m = (x % w) + (mem[at + n - 1] * w)
    BY ONLY <2>6, <2>7
  <2> QED
    BY ONLY <2>4, <2>8
<1> DEFINE v == [n \in 0..width |-> x % Weight[n]]
<1>5. IsSum(v)
  <2>1. ASSUME NEW n \in 0..width
        PROVE  v[n] = IF n = 0 THEN 0 ELSE v[n - 1] + mem[at + n - 1] * Weight[n - 1]
    <3>1. CASE n = 0
      BY <1>3, <3>1
    <3>2. CASE n # 0
      <4>1. n \in 1..width /\ n - 1 \in 0..width
        BY <3>2
      <4> QED
        BY <1>4, <3>2, <4>1
    <3> QED
      BY <3>1, <3>2
  <2>2. v = [n \in 0..width |-> v[n]]
    OBVIOUS
  <2> HIDE DEF v
  <2> QED
    BY <2>1, <2>2
<1>6. PICK f : IsSum(f) /\ RawAt(at, width) = f[width]
  BY <1>1, <1>5
<1>7. f[0] = 0 /\ \A n \in 1..width : f[n] = f[n - 1] + mem[at + n - 1] * Weight[n - 1]
  <2>1. \A n \in 0..width : f[n] = IF n = 0 THEN 0 ELSE f[n - 1] + mem[at + n - 1] * Weight[n - 1]
    BY <1>6
  <2> QED
    BY ONLY <2>1, width \in 0..8
<1> HIDE DEF IsSum
<1> DEFINE T == {n \in 0..width : f[n] # x % Weight[n]}
<1>8. T = {}
  <2> SUFFICES ASSUME T # {} PROVE FALSE
    OBVIOUS
  <2>1. PICK n \in T : \A i \in T : n <= i
    <3>1. T \in SUBSET Nat
      OBVIOUS
    <3> HIDE DEF T
    <3> QED
      BY <3>1, LeastElement
  <2>2. n \in 1..width /\ n - 1 \in 0..width /\ n - 1 < n
    BY <1>3, <1>7, <2>1
  <2>3. n - 1 \notin T
    <3> HIDE DEF T
    <3> QED
      BY <2>1, <2>2
  <2>4. f[n - 1] = x % Weight[n - 1]
    BY <2>2, <2>3
  <2> QED
    BY <1>4, <1>7, <2>1, <2>2, <2>4
<1> QED
  BY <1>6, <1>8

-----------------------------------------------------------------------------
(* Templates *)

\* What the templates stand for, by the type and the syntax of an option.
TemplOf(o, t) ==
    \/ o.type = "bool" /\ o.syntax = "" /\ t = Bare
    \/ o.type = "bool" /\ o.syntax \in {"=", "v"} /\ t = Set
    \/ o.type = "bool" /\ o.syntax \in {"d", "o", "x", "X"} /\ t = Scanf("", o.syntax)
    \/ o.type \in IntTypes /\ o.syntax \in {"", "=", "v"} /\ t = Scanf(Modifier(o.type), "i")
    \/ o.type \in IntTypes /\ o.syntax \in {"d", "o", "x", "X"} /\ t = Scanf(Modifier(o.type), o.syntax)
    \/ o.type = "string" /\ o.syntax \in {"", "=", "s", "v"} /\ t = Str

LEMMA TypesDiffer == "bool" \notin IntTypes /\ "string" \notin IntTypes
BY DEF IntTypes, Ints8, Ints16, Ints32, Ints64

LEMMA TemplatesDiffer ==
    /\ Unknown \notin {Bare, Set, Str} /\ Bare # Set /\ Bare # Str /\ Set # Str
    /\ \A m, v : Scanf(m, v) \notin {Unknown, Bare, Set, Str}
    /\ Bare[1] # "scanf" /\ Set[1] # "scanf" /\ Str[1] # "scanf"
    /\ \A m, v : Scanf(m, v)[1] = "scanf" /\ Scanf(m, v)[2] = m /\ Scanf(m, v)[3] = v
<1>1. Unknown[1] = "unknown" /\ Bare[1] = "bare" /\ Set[1] = "set" /\ Str[1] = "str"
  BY DEF Unknown, Bare, Set, Str
<1>2. ASSUME NEW m, NEW v PROVE Scanf(m, v)[1] = "scanf" /\ Scanf(m, v)[2] = m /\ Scanf(m, v)[3] = v
  BY DEF Scanf
<1> QED
  BY <1>1, <1>2

LEMMA AllowedIs ==
    ASSUME NEW o
    PROVE  /\ Allowed(o) => TemplOf(o, Templ(o)) /\ Templ(o) # Unknown
           /\ ~Allowed(o) => Templ(o) = Unknown
<1>1. CASE o.type = "bool"
  BY <1>1, TypesDiffer, TemplatesDiffer DEF Allowed, Templ, optNormBool, TemplOf
<1>2. CASE o.type \in IntTypes
  BY <1>2, TypesDiffer, TemplatesDiffer DEF Allowed, Templ, optNormInt, TemplOf
<1>3. CASE o.type = "string"
  BY <1>3, TypesDiffer, TemplatesDiffer DEF Allowed, Templ, optNormStr, TemplOf
<1>4. CASE o.type # "bool" /\ o.type \notin IntTypes /\ o.type # "string"
  BY <1>4 DEF Allowed, Templ
<1> QED
  BY <1>1, <1>2, <1>3, <1>4

LEMMA TemplFacts ==
    ASSUME NEW o, NEW t, TemplOf(o, t)
    PROVE  /\ t = Bare <=> o.type = "bool" /\ o.syntax = ""
           /\ t = Str <=> o.type = "string"
           /\ t \in {Bare, Set} <=> o.type = "bool" /\ ~Reads(o)
           /\ t[1] = "scanf" <=> Reads(o)
           /\ Reads(o) => /\ t[3] = Verb(o) /\ t[2] = (IF o.type = "bool" THEN "" ELSE Modifier(o.type))
                          /\ o.type # "string" /\ Verb(o) \in Verbs
                          /\ o.type = "bool" => Verb(o) = o.syntax
           /\ o.type = "bool" \/ o.type = "string" \/ o.type \in IntTypes
           /\ o.type \in IntTypes => Reads(o)
<1>0. ASSUME NEW v, NEW w, t = Scanf(w, v)
      PROVE  t[1] = "scanf" /\ t[2] = w /\ t[3] = v /\ t \notin {Bare, Set, Str}
  BY <1>0, TemplatesDiffer
<1>1. CASE o.type = "bool" /\ o.syntax \in {"", "=", "v"} /\ t \in {Bare, Set} /\ (t = Bare <=> o.syntax = "")
  <2>1. ~Reads(o)
    BY <1>1 DEF Reads
  <2>2. t # Str /\ t[1] # "scanf" /\ o.type # "string" /\ o.type \notin IntTypes
    BY <1>1, TemplatesDiffer, TypesDiffer
  <2> QED
    BY <1>1, <2>1, <2>2
<1>2. CASE o.type = "bool" /\ o.syntax \in {"d", "o", "x", "X"} /\ t = Scanf("", o.syntax)
  <2>1. Reads(o) /\ Verb(o) = o.syntax /\ Verb(o) \in Verbs /\ o.syntax # ""
    BY <1>2 DEF Reads, Verb, Verbs
  <2>2. t[1] = "scanf" /\ t[2] = "" /\ t[3] = o.syntax /\ t \notin {Bare, Set, Str} /\ o.type # "string" /\ o.type \notin IntTypes
    BY <1>0, <1>2, TypesDiffer
  <2> QED
    BY <1>2, <2>1, <2>2
<1>3. CASE o.type \in IntTypes /\ o.syntax \in {"", "=", "v", "d", "o", "x", "X"} /\ t = Scanf(Modifier(o.type), Verb(o))
  <2>1. Reads(o) /\ Verb(o) \in Verbs /\ o.type # "bool" /\ o.type # "string"
    BY <1>3, TypesDiffer DEF Reads, Verb, Verbs
  <2>2. t[1] = "scanf" /\ t[2] = Modifier(o.type) /\ t[3] = Verb(o) /\ t \notin {Bare, Set, Str}
    BY <1>0, <1>3
  <2> QED
    BY <1>3, <2>1, <2>2
<1>4. CASE o.type = "string" /\ o.syntax \in {"", "=", "s", "v"} /\ t = Str
  <2>1. ~Reads(o) /\ o.type # "bool" /\ o.type \notin IntTypes
    BY <1>4, TypesDiffer DEF Reads
  <2>2. t \notin {Bare, Set} /\ t[1] # "scanf"
    BY <1>4, TemplatesDiffer
  <2> QED
    BY <1>4, <2>1, <2>2
<1>5. \/ o.type = "bool" /\ o.syntax \in {"", "=", "v"} /\ t \in {Bare, Set} /\ (t = Bare <=> o.syntax = "")
      \/ o.type = "bool" /\ o.syntax \in {"d", "o", "x", "X"} /\ t = Scanf("", o.syntax)
      \/ o.type \in IntTypes /\ o.syntax \in {"", "=", "v", "d", "o", "x", "X"} /\ t = Scanf(Modifier(o.type), Verb(o))
      \/ o.type = "string" /\ o.syntax \in {"", "=", "s", "v"} /\ t = Str
  BY TemplatesDiffer DEF TemplOf, Verb
<1> QED
  BY <1>1, <1>2, <1>3, <1>4, <1>5

\* How many bytes are written for an option, how many are read back,
Stores(o) == IF o.type = "bool" THEN 4 ELSE IF o.type = "string" THEN SizeT ELSE Width(Modifier(o.type))
Loads(o)  == IF o.type = "bool" THEN 4 ELSE IF o.type = "string" THEN SizeT ELSE Bytes(o.type)

\* and what is written for the n-th argument.
ValueFor(o, n) ==
    IF Reads(o) THEN Scan[input.args[n].text][Verb(o)] ELSE IF o.type = "string" THEN n ELSE 1

LEMMA WidthIs == Width("hh") = 1 /\ Width("h") = 2 /\ Width("") = 4 /\ Width("ll") = 8
BY DEF Width

LEMMA WidthsFit ==
    ASSUME NEW o, o.type = "bool" \/ o.type = "string" \/ o.type \in IntTypes
    PROVE  Stores(o) \in 1..8 /\ Loads(o) \in 1..Stores(o)
<1>1. CASE o.type \in {"bool", "string"}
  BY <1>1, OptParseAssumption DEF Stores, Loads
<1>2. CASE o.type \in IntTypes
  <2>1. o.type # "bool" /\ o.type # "string"
    BY <1>2, TypesDiffer
  <2>2. Width(Modifier(o.type)) \in 1..8 /\ Bytes(o.type) \in 1..Width(Modifier(o.type))
    <3> USE DEF Ints8, Ints16, Ints32, Ints64
    <3>1. CASE o.type \in Ints8
      <4>1. Modifier(o.type) = "hh" /\ Bytes(o.type) = 1
        BY <3>1 DEF Modifier, Bytes
      <4>2. Width(Modifier(o.type)) = 1
        BY ONLY <4>1, WidthIs, Zenon
      <4> QED
        BY ONLY <4>1, <4>2
    <3>2. CASE o.type \in Ints16
      <4>1. Modifier(o.type) = "h" /\ Bytes(o.type) = 2
        BY <3>2 DEF Modifier, Bytes
      <4>2. Width(Modifier(o.type)) = 2
        BY ONLY <4>1, WidthIs, Zenon
      <4> QED
        BY ONLY <4>1, <4>2
    <3>3. CASE o.type \in Ints32
      <4>1. Modifier(o.type) = "" /\ Bytes(o.type) = 4
        BY <3>3 DEF Modifier, Bytes
      <4>2. Width(Modifier(o.type)) = 4
        BY ONLY <4>1, WidthIs, Zenon
      <4>3. Bytes(o.type) = 4
        BY <4>1
      <4> QED
        BY ONLY <4>2, <4>3
    <3>4. CASE o.type \in {"int64", "uint64"}
      <4>1. Modifier(o.type) = "ll" /\ Bytes(o.type) = 8
        BY <3>4 DEF Modifier, Bytes
      <4>2. Width(Modifier(o.type)) = 8
        BY ONLY <4>1, WidthIs, Zenon
      <4> QED
        BY ONLY <4>1, <4>2
    <3>5. CASE o.type = "uintptr"
      <4>1. Modifier(o.type) = "ll" /\ Bytes(o.type) = SizeT
        BY <3>5 DEF Modifier, Bytes
      <4>2. Width(Modifier(o.type)) = 8
        BY ONLY <4>1, WidthIs, Zenon
      <4>3. SizeT \in {4, 8}
        BY OptParseAssumption
      <4> QED
        BY ONLY <4>1, <4>2, <4>3
    <3> QED
      BY <1>2, <3>1, <3>2, <3>3, <3>4, <3>5 DEF IntTypes
  <2> QED
    BY <2>1, <2>2 DEF Stores, Loads
<1> QED
  BY <1>1, <1>2

LEMMA ApplyIs ==
    ASSUME NEW m, NEW i, NEW n, TemplOf(fmt[i], templs[i])
    PROVE  Apply(m, i, n) = WriteAt(m, (i - 1) * align, Stores(fmt[i]), ValueFor(fmt[i], n))
<1> DEFINE o == fmt[i]
           t == templs[i]
<1>1. /\ t = Str <=> o.type = "string"
      /\ t \in {Bare, Set} <=> o.type = "bool" /\ ~Reads(o)
      /\ t[1] = "scanf" <=> Reads(o)
      /\ Reads(o) => /\ t[3] = Verb(o) /\ t[2] = (IF o.type = "bool" THEN "" ELSE Modifier(o.type))
                     /\ o.type # "string"
      /\ o.type = "bool" \/ o.type = "string" \/ o.type \in IntTypes
      /\ o.type \in IntTypes => Reads(o)
  BY TemplFacts
<1>2. Apply(m, i, n) = CASE t \in {Bare, Set} -> WriteAt(m, (i - 1) * align, 4, 1)
                         [] t = Str -> WriteAt(m, (i - 1) * align, SizeT, n)
                         [] t[1] = "scanf" -> WriteAt(m, (i - 1) * align, Width(t[2]), Scan[input.args[n].text][t[3]])
  BY DEF Apply
<1> HIDE DEF o, t
<1>3. CASE o.type = "bool" /\ ~Reads(o)
  <2>1. Stores(o) = 4 /\ ValueFor(o, n) = 1 /\ t \in {Bare, Set}
    BY <1>1, <1>3, TemplatesDiffer DEF Stores, ValueFor
  <2>2. t # Str /\ t[1] # "scanf"
    BY <1>1, <1>3
  <2>3. Apply(m, i, n) = WriteAt(m, (i - 1) * align, 4, 1)
    BY <1>2, <2>1, <2>2
  <2> QED
    BY <2>1, <2>3 DEF o
<1>4. CASE o.type = "string"
  <2>1. Stores(o) = SizeT /\ ValueFor(o, n) = n /\ t = Str /\ t \notin {Bare, Set} /\ t[1] # "scanf"
    BY <1>1, <1>4 DEF Stores, ValueFor
  <2>3. Apply(m, i, n) = WriteAt(m, (i - 1) * align, SizeT, n)
    BY <1>2, <2>1
  <2> QED
    BY <2>1, <2>3 DEF o
<1>5. CASE Reads(o)
  <2>1. /\ Stores(o) = Width(t[2]) /\ ValueFor(o, n) = Scan[input.args[n].text][t[3]]
        /\ t # Str /\ t \notin {Bare, Set} /\ t[1] = "scanf"
    BY <1>1, <1>5, WidthIs DEF Stores, ValueFor
  <2>3. Apply(m, i, n) = WriteAt(m, (i - 1) * align, Width(t[2]), Scan[input.args[n].text][t[3]])
    BY <1>2, <2>1
  <2> QED
    BY <2>1, <2>3 DEF o
<1> QED
  BY <1>1, <1>3, <1>4, <1>5

-----------------------------------------------------------------------------
(* Slots *)

SlotOf(i) == (i - 1) * align
IsMem(m) == m \in [0..(Len(fmt) * align - 1) -> Int]

Apart(n, i, j, b, w) ==
    /\ SlotOf(i) \in Nat /\ SlotOf(i) + b \in 0..(n * align - 1)
    /\ SlotOf(i) + b \in SlotOf(j)..(SlotOf(j) + w - 1) <=> i = j /\ b < w
    /\ i = j => (SlotOf(i) + b) - SlotOf(j) = b

LEMMA SlotsApart ==
    ASSUME NEW n \in Nat, NEW i \in 1..n, NEW j \in 1..n, NEW b \in 0..7, NEW w \in 1..8
    PROVE  Apart(n, i, j, b, w)
<1> USE DEF Apart
<1>1. align = 8 \/ align = 16
  BY OptParseAssumption DEF align
<1>2. CASE align = 8
  BY <1>2 DEF SlotOf
<1>3. CASE align = 16
  BY <1>3 DEF SlotOf
<1> QED
  BY <1>1, <1>2, <1>3

LEMMA BytesAreInts == ASSUME NEW x \in Int, NEW b \in 0..8 PROVE ByteOf(x, b) \in Int
<1>1. Weight[b] \in Nat \ {0} /\ Byte \in Nat \ {0}
  BY WeightIs, OptParseAssumption
<1>2. PICK q : q = x \div Weight[b]
  OBVIOUS
<1>3. q \in Int
  BY <1>1, <1>2, DivMod DEF Divided
<1>4. q % Byte \in Int
  BY <1>1, <1>3, DivMod DEF Divided
<1> QED
  BY <1>2, <1>4 DEF ByteOf

\* g is m with w bytes of x in slot j.
WroteTo(g, m, j, w, x) ==
    /\ IsMem(g)
    /\ \A i \in 1..Len(fmt), b \in 0..7 :
         g[SlotOf(i) + b] = IF i = j /\ b < w THEN ByteOf(x, b) ELSE m[SlotOf(i) + b]

LEMMA WriteAtIs ==
    ASSUME NEW m, IsMem(m), Len(fmt) \in Nat, NEW j \in 1..Len(fmt), NEW w \in 1..8, NEW x \in Int
    PROVE  WroteTo(WriteAt(m, SlotOf(j), w, x), m, j, w, x)
<1> DEFINE d == 0..(Len(fmt) * align - 1)
           g == WriteAt(m, SlotOf(j), w, x)
<1>0. SlotOf(j) \in Nat
  <2>1. 0 \in 0..7
    OBVIOUS
  <2>2. Apart(Len(fmt), j, j, 0, 1)
    BY <2>1, SlotsApart
  <2> QED
    BY <2>2 DEF Apart
<1>1. g = [a \in d |-> IF a \in SlotOf(j)..(SlotOf(j) + w - 1) THEN ByteOf(x, a - SlotOf(j)) ELSE m[a]]
  BY DEF WriteAt, IsMem
<1>2. ASSUME NEW a \in d PROVE g[a] \in Int
  <2>1. CASE a \in SlotOf(j)..(SlotOf(j) + w - 1)
    <3>1. a - SlotOf(j) \in 0..8
      BY <1>0, <2>1
    <3>2. ByteOf(x, a - SlotOf(j)) \in Int
      BY <3>1, BytesAreInts
    <3> QED
      BY <1>1, <2>1, <3>2
  <2>2. CASE a \notin SlotOf(j)..(SlotOf(j) + w - 1)
    <3>1. m[a] \in Int
      BY DEF IsMem
    <3> QED
      BY <1>1, <2>2, <3>1
  <2> QED
    BY <2>1, <2>2
<1>3. ASSUME NEW i \in 1..Len(fmt), NEW b \in 0..7
      PROVE  g[SlotOf(i) + b] = IF i = j /\ b < w THEN ByteOf(x, b) ELSE m[SlotOf(i) + b]
  <2>1. /\ SlotOf(i) + b \in d
        /\ SlotOf(i) + b \in SlotOf(j)..(SlotOf(j) + w - 1) <=> i = j /\ b < w
        /\ i = j => (SlotOf(i) + b) - SlotOf(j) = b
    <3>1. Apart(Len(fmt), i, j, b, w)
      BY SlotsApart
    <3> QED
      BY <3>1 DEF Apart
  <2> HIDE DEF d, g
  <2>2. g[SlotOf(i) + b] = IF SlotOf(i) + b \in SlotOf(j)..(SlotOf(j) + w - 1)
                           THEN ByteOf(x, (SlotOf(i) + b) - SlotOf(j)) ELSE m[SlotOf(i) + b]
    BY <1>1, <2>1
  <2> QED
    BY <2>1, <2>2
<1>4. g = [a \in d |-> g[a]]
  BY <1>1
<1>5. g \in [d -> Int]
  <2> HIDE DEF g, d
  <2> QED
    BY <1>2, <1>4
<1> QED
  BY <1>3, <1>5 DEF IsMem, WroteTo

\* After the first j templates that are found were applied.
Applied(m, found, n, j) ==
    /\ IsMem(m)
    /\ \A i \in 1..Len(fmt), b \in 0..7 :
         m[SlotOf(i) + b] = IF i <= j /\ i \in found /\ b < Stores(fmt[i])
                            THEN ByteOf(ValueFor(fmt[i], n), b) ELSE mem[SlotOf(i) + b]

IsMemOf(f, found, n, j) ==
    f = [i \in 0..j |-> IF i = 0 THEN mem ELSE IF i \in found THEN Apply(f[i - 1], i, n) ELSE f[i - 1]]

LEMMA MemOfExists ==
    ASSUME NEW z \in Nat, NEW found, NEW n
    PROVE  \E f : IsMemOf(f, found, n, z)
<1> DEFINE T == {m \in 0..z : ~ \E f : IsMemOf(f, found, n, m)}
<1> SUFFICES ASSUME T # {} PROVE FALSE
  OBVIOUS
<1>1. PICK m \in T : \A i \in T : m <= i
  <2>1. T \in SUBSET Nat
    OBVIOUS
  <2> HIDE DEF T
  <2> QED
    BY <2>1, LeastElement
<1>2. CASE m = 0
  <2>1. IsMemOf([i \in 0..0 |-> mem], found, n, 0)
    BY DEF IsMemOf
  <2> QED
    BY <1>2, <2>1
<1>3. CASE m # 0
  <2>0. m \in 1..z /\ m - 1 \in 0..z /\ m - 1 < m
    BY <1>3
  <2>1. m - 1 \notin T
    <3> HIDE DEF T
    <3> QED
      BY <1>1, <2>0
  <2>2. PICK v : IsMemOf(v, found, n, m - 1)
    BY <2>0, <2>1
  <2> DEFINE w == [i \in 0..m |-> IF i = m THEN IF m \in found THEN Apply(v[m - 1], m, n) ELSE v[m - 1] ELSE v[i]]
  <2>3. ASSUME NEW i \in 0..m
        PROVE  w[i] = IF i = 0 THEN mem ELSE IF i \in found THEN Apply(w[i - 1], i, n) ELSE w[i - 1]
    <3>1. CASE i = m
      <4>1. w[i - 1] = v[m - 1] /\ i # 0
        BY <2>0, <3>1
      <4>2. w[i] = IF m \in found THEN Apply(v[m - 1], m, n) ELSE v[m - 1]
        BY <3>1
      <4> HIDE DEF w
      <4> QED
        BY <3>1, <4>1, <4>2
    <3>2. CASE i # m
      <4>1. i \in 0..(m - 1) /\ w[i] = v[i] /\ (i # 0 => w[i - 1] = v[i - 1])
        BY <2>0, <3>2
      <4>2. v[i] = IF i = 0 THEN mem ELSE IF i \in found THEN Apply(v[i - 1], i, n) ELSE v[i - 1]
        BY <2>2, <4>1 DEF IsMemOf
      <4> HIDE DEF w
      <4> QED
        BY <4>1, <4>2
    <3> QED
      BY <3>1, <3>2
  <2>4. w = [i \in 0..m |-> w[i]]
    OBVIOUS
  <2> HIDE DEF w
  <2>5. IsMemOf(w, found, n, m)
    BY <2>3, <2>4 DEF IsMemOf
  <2> QED
    BY <2>5
<1> QED
  BY <1>2, <1>3

LEMMA WrittenIs ==
    ASSUME IsMem(mem), Len(fmt) \in Nat, NEW found \in SUBSET (1..Len(fmt)), NEW n,
           \A i \in found : TemplOf(fmt[i], templs[i]) /\ ValueFor(fmt[i], n) \in Int
    PROVE  Applied(Written(found, n), found, n, Len(fmt))
<1>1. Written(found, n) = (CHOOSE f : IsMemOf(f, found, n, Len(fmt)))[Len(fmt)]
  BY DEF Written, IsMemOf
<1>2. PICK f : IsMemOf(f, found, n, Len(fmt)) /\ Written(found, n) = f[Len(fmt)]
  BY <1>1, MemOfExists
<1>3. f[0] = mem
  BY <1>2 DEF IsMemOf
<1>4. ASSUME NEW j \in 1..Len(fmt)
      PROVE  f[j] = IF j \in found THEN Apply(f[j - 1], j, n) ELSE f[j - 1]
  BY <1>2 DEF IsMemOf
<1> DEFINE T == {j \in 0..Len(fmt) : ~Applied(f[j], found, n, j)}
<1>5. T = {}
  <2> SUFFICES ASSUME T # {} PROVE FALSE
    OBVIOUS
  <2>1. PICK j \in T : \A i \in T : j <= i
    <3>1. T \in SUBSET Nat
      OBVIOUS
    <3> HIDE DEF T
    <3> QED
      BY <3>1, LeastElement
  <2>2. j # 0
    <3>1. Applied(mem, found, n, 0)
      BY DEF Applied
    <3> QED
      BY <1>3, <2>1, <3>1
  <2>3. j \in 1..Len(fmt) /\ j - 1 \in 0..Len(fmt) /\ j - 1 < j
    BY <2>1, <2>2
  <2>4. j - 1 \notin T
    <3> HIDE DEF T
    <3> QED
      BY <2>1, <2>3
  <2>5. Applied(f[j - 1], found, n, j - 1)
    BY <2>3, <2>4
  <2>6. ~Applied(f[j], found, n, j)
    BY <2>1
  <2> HIDE DEF T
  <2>7. CASE j \notin found
    <3>1. f[j] = f[j - 1]
      BY <1>4, <2>3, <2>7
    <3>2. \A i \in 1..Len(fmt) : (i <= j /\ i \in found) <=> (i <= j - 1 /\ i \in found)
      BY <2>3, <2>7
    <3>3. Applied(f[j - 1], found, n, j)
      BY <2>5, <3>2 DEF Applied
    <3> QED
      BY <2>6, <3>1, <3>3
  <2>8. CASE j \in found
    <3> DEFINE w == Stores(fmt[j])
               x == ValueFor(fmt[j], n)
    <3>1. TemplOf(fmt[j], templs[j]) /\ x \in Int
      BY <2>8
    <3>2. w \in 1..8
      BY <3>1, TemplFacts, WidthsFit
    <3>3. f[j] = WriteAt(f[j - 1], SlotOf(j), w, x)
      <4>1. Apply(f[j - 1], j, n) = WriteAt(f[j - 1], SlotOf(j), w, x)
        BY <3>1, ApplyIs DEF SlotOf
      <4> QED
        BY <1>4, <2>3, <2>8, <4>1
    <3> HIDE DEF w, x
    <3>4. WroteTo(f[j], f[j - 1], j, w, x)
      <4>1. IsMem(f[j - 1])
        BY <2>5 DEF Applied
      <4> QED
        BY <2>3, <3>1, <3>2, <3>3, <4>1, WriteAtIs
    <3>5. ASSUME NEW i \in 1..Len(fmt), NEW b \in 0..7
          PROVE  f[j][SlotOf(i) + b] = IF i <= j /\ i \in found /\ b < Stores(fmt[i])
                                       THEN ByteOf(ValueFor(fmt[i], n), b) ELSE mem[SlotOf(i) + b]
      <4>1. f[j][SlotOf(i) + b] = IF i = j /\ b < w THEN ByteOf(x, b) ELSE f[j - 1][SlotOf(i) + b]
        BY <3>4 DEF WroteTo
      <4>2. f[j - 1][SlotOf(i) + b] = IF i <= j - 1 /\ i \in found /\ b < Stores(fmt[i])
                                      THEN ByteOf(ValueFor(fmt[i], n), b) ELSE mem[SlotOf(i) + b]
        BY <2>5 DEF Applied
      <4>3. CASE i = j
        BY <2>3, <2>8, <4>1, <4>2, <4>3 DEF w, x
      <4>4. CASE i # j
        <5>1. i <= j <=> i <= j - 1
          BY <2>3, <4>4
        <5> QED
          BY <4>1, <4>2, <4>4, <5>1
      <4> QED
        BY <4>3, <4>4
    <3> QED
      BY <2>6, <3>4, <3>5 DEF Applied, WroteTo
  <2> QED
    BY <2>7, <2>8
<1>6. Len(fmt) \in 0..Len(fmt)
  OBVIOUS
<1> QED
  BY <1>2, <1>5, <1>6

-----------------------------------------------------------------------------
(* Values *)

\* A call, as OptParseAssumption has it.
CallOk ==
    /\ Len(fmt) \in Nat /\ Opts = 1..Len(fmt) /\ input.nvals \in Nat
    /\ input.args \in Seq({input.args[n] : n \in DOMAIN input.args})
    /\ Len(input.args) \in Nat /\ DOMAIN input.args = 1..Len(input.args)
    /\ Len(input.args) < Weight[SizeT]
    /\ \A n \in DOMAIN input.args : IsArg(input.args[n])

LEMMA SeqFacts == ASSUME NEW s, IsSeq(s) PROVE Len(s) \in Nat /\ DOMAIN s = 1..Len(s)
BY LenProperties DEF IsSeq

LEMMA CallIsOk == ASSUME input \in Inputs PROVE CallOk
<1>1. IsSeq(fmt) /\ IsSeq(input.args) /\ input.nvals \in Nat /\ Len(input.args) < Weight[SizeT]
      /\ \A n \in DOMAIN input.args : IsArg(input.args[n])
  BY OptParseAssumption DEF fmt
<1>2. Len(fmt) \in Nat /\ DOMAIN fmt = 1..Len(fmt)
  BY <1>1, SeqFacts
<1>3. Len(input.args) \in Nat /\ DOMAIN input.args = 1..Len(input.args)
  BY <1>1, SeqFacts
<1> QED
  BY <1>1, <1>2, <1>3 DEF CallOk, Opts, IsSeq

LEMMA MaxIs ==
    ASSUME NEW S \in SUBSET Nat, NEW n \in S, \A p \in S : p <= n
    PROVE  Max(S) = n
<1>1. PICK x \in S : x = Max(S) /\ \A y \in S : x >= y
  <2>1. \A y \in S : n >= y
    OBVIOUS
  <2> QED
    BY <2>1 DEF Max
<1>2. x >= n /\ x <= n
  BY <1>1
<1> QED
  BY <1>1, <1>2

\* The slot of option i holds x, as far as it was written.
HasValue(i, x) == \A b \in 0..(Stores(fmt[i]) - 1) : mem[SlotOf(i) + b] = ByteOf(x, b)

\* What the slot of option i holds when the arguments before z have been parsed.
Holds(i, z) ==
    \/ (\A n \in For(fmt[i]) : n >= z) /\ HasValue(i, 0)
    \/ \E n \in For(fmt[i]) :
          /\ n < z /\ \A p \in For(fmt[i]) : p < z => p <= n
          /\ ValueFor(fmt[i], n) \in Int /\ HasValue(i, ValueFor(fmt[i], n))

LEMMA ReadBack ==
    ASSUME Len(fmt) \in Nat, NEW i \in 1..Len(fmt), NEW t, TemplOf(fmt[i], t), NEW x \in Int, HasValue(i, x)
    PROVE  RawAt(SlotOf(i), Loads(fmt[i])) = x % Weight[Loads(fmt[i])]
<1>1. Stores(fmt[i]) \in 1..8 /\ Loads(fmt[i]) \in 1..Stores(fmt[i])
  BY TemplFacts, WidthsFit
<1>2. SlotOf(i) \in Nat
  <2>1. Apart(Len(fmt), i, i, 0, 1)
    BY SlotsApart
  <2> QED
    BY <2>1 DEF Apart
<1>3. PICK at, width : at = SlotOf(i) /\ width = Loads(fmt[i])
  OBVIOUS
<1>4. at \in Nat /\ width \in 0..8 /\ \A b \in 0..(width - 1) : mem[at + b] = ByteOf(x, b)
  BY <1>1, <1>2, <1>3 DEF HasValue
<1>5. RawAt(at, width) = x % Weight[width]
  BY ONLY x \in Int, <1>4, RawIs
<1> QED
  BY <1>3, <1>5

LEMMA WeightBig == ASSUME NEW b \in 1..8 PROVE Weight[b] \in Nat /\ Weight[b] >= 2 /\ Weight[b] \div 2 >= 1
<1>1. PICK w, v : w = Weight[b - 1] /\ v = Weight[b]
  OBVIOUS
<1>2. v = Byte * w /\ w \in Nat \ {0} /\ Byte \in Nat \ {0, 1}
  <2>1. b - 1 \in 0..8
    OBVIOUS
  <2> QED
    BY <1>1, <2>1, WeightIs, OptParseAssumption
<1>3. v >= 2 /\ v \in Nat
  BY <1>2, Z3
<1>4. v \div 2 >= 1
  BY <1>3, Z3
<1> QED
  BY <1>1, <1>3, <1>4

LEMMA SmallIs == ASSUME NEW w \in Nat, NEW n \in Nat, n < w PROVE n % w = n
<1>1. Divided(n, w, 0, n) /\ w \in Nat \ {0} /\ n \in Int
  BY DEF Divided
<1> QED
  BY <1>1, DivModIs

LEMMA ValueAtIs ==
    ASSUME NEW i, NEW t, TemplOf(fmt[i], t), NEW v, v = RawAt(SlotOf(i), Loads(fmt[i]))
    PROVE  LET o == fmt[i] IN
           /\ o.type = "bool" => ValueAt(i) = (v # 0)
           /\ o.type = "string" => ValueAt(i) = IF v = 0 THEN "" ELSE input.args[v].text
           /\ o.type \in IntTypes => ValueAt(i) = IF o.type \in Unsigneds THEN v ELSE TwosComplement(v, Bytes(o.type))
<1> DEFINE o == fmt[i]
<1>1. o.type = "bool" \/ o.type = "string" \/ o.type \in IntTypes
  BY TemplFacts
<1>2. "bool" \notin Unsigneds /\ "string" \notin Unsigneds /\ Unsigneds \subseteq IntTypes
  BY DEF Unsigneds, IntTypes, Ints8, Ints16, Ints32, Ints64
<1>3. CASE o.type = "bool"
  <2>1. Loads(o) = 4
    BY <1>3 DEF Loads
  <2> QED
    BY <1>2, <1>3, <2>1, TypesDiffer DEF ValueAt, SlotOf
<1>4. CASE o.type = "string"
  <2>1. Loads(o) = SizeT
    BY <1>4 DEF Loads
  <2> QED
    BY <1>2, <1>4, <2>1, TypesDiffer DEF ValueAt, SlotOf
<1>5. CASE o.type \in IntTypes
  <2>1. Loads(o) = Bytes(o.type) /\ o.type # "bool" /\ o.type # "string"
    BY <1>5, TypesDiffer DEF Loads
  <2>2. ValueAt(i) = IF o.type \in Unsigneds THEN RawAt(SlotOf(i), Bytes(o.type))
                     ELSE TwosComplement(RawAt(SlotOf(i), Bytes(o.type)), Bytes(o.type))
    BY <1>2, <1>5, <2>1 DEF ValueAt, SlotOf
  <2> QED
    BY <2>1, <2>2
<1> QED
  BY <1>1, <1>3, <1>4, <1>5

\* When every argument has been parsed, the values are those of the documentation.
LEMMA ValuesAreExpected ==
    ASSUME CallOk, NEW i \in Opts, NEW t, TemplOf(fmt[i], t), NEW z, z = Len(input.args) + 1, Holds(i, z)
    PROVE  ValueAt(i) = Expected(fmt[i])
<1> DEFINE o == fmt[i]
<1>0. For(o) \in SUBSET (1..Len(input.args)) /\ Len(input.args) \in Nat /\ Len(fmt) \in Nat /\ i \in 1..Len(fmt)
  BY DEF CallOk, For, Before
<1>1. PICK v : v = RawAt(SlotOf(i), Loads(o))
  OBVIOUS
<1>2. /\ o.type = "bool" => ValueAt(i) = (v # 0)
      /\ o.type = "string" => ValueAt(i) = IF v = 0 THEN "" ELSE input.args[v].text
      /\ o.type \in IntTypes => ValueAt(i) = IF o.type \in Unsigneds THEN v ELSE TwosComplement(v, Bytes(o.type))
  BY <1>1, ValueAtIs
<1>3. /\ o.type = "bool" \/ o.type = "string" \/ o.type \in IntTypes
      /\ o.type \in IntTypes => Reads(o)
      /\ Reads(o) /\ o.type = "bool" => Verb(o) = o.syntax
      /\ Reads(o) => o.type # "string"
  BY TemplFacts
<1>4. Loads(o) \in 1..8 /\ (o.type = "bool" => Loads(o) = 4) /\ (o.type = "string" => Loads(o) = SizeT)
      /\ (o.type \in IntTypes => Loads(o) = Bytes(o.type))
  BY <1>3, WidthsFit, TypesDiffer DEF Loads
<1>5. PICK w : w = Weight[Loads(o)] /\ w \in Nat /\ w >= 2 /\ w \div 2 >= 1
  BY <1>4, WeightBig
<1>6. CASE (\A n \in For(o) : n >= z) /\ HasValue(i, 0)
  <2>1. For(o) = {}
    BY <1>0, <1>6
  <2>2. v = 0
    <3>1. v = 0 % w
      <4>1. HasValue(i, 0) /\ 0 \in Int
        BY <1>6
      <4> QED
        BY <1>0, <1>1, <1>5, <4>1, ReadBack
    <3> QED
      BY <1>5, <3>1, SmallIs
  <2>3. CASE o.type = "bool"
    <3>1. Expected(o) = FALSE
      BY <2>1, <2>3 DEF Expected
    <3> QED
      BY <1>2, <2>2, <2>3, <3>1
  <2>4. CASE o.type = "string"
    <3>1. Expected(o) = ""
      BY <2>1, <2>4 DEF Expected
    <3> QED
      BY <1>2, <2>2, <2>4, <3>1
  <2>5. CASE o.type \in IntTypes
    <3>1. o.type # "bool" /\ o.type # "string"
      BY <2>5, TypesDiffer
    <3>2. Expected(o) = 0
      BY <2>1, <3>1 DEF Expected
    <3>3. TwosComplement(0, Bytes(o.type)) = 0
      <4>1. w = Weight[Bytes(o.type)]
        BY <1>4, <1>5, <2>5
      <4>2. ~(0 >= w \div 2)
        BY <1>5
      <4> QED
        BY <4>1, <4>2 DEF TwosComplement
    <3> QED
      BY <1>2, <2>2, <2>5, <3>2, <3>3
  <2> QED
    BY <1>3, <2>3, <2>4, <2>5
<1>7. CASE \E n \in For(o) : /\ n < z /\ \A p \in For(o) : p < z => p <= n
                             /\ ValueFor(o, n) \in Int /\ HasValue(i, ValueFor(o, n))
  <2>1. PICK n \in For(o) : /\ n < z /\ \A p \in For(o) : p < z => p <= n
                            /\ ValueFor(o, n) \in Int /\ HasValue(i, ValueFor(o, n))
    BY <1>7
  <2>2. Max(For(o)) = n /\ For(o) # {} /\ n \in 1..Len(input.args)
    <3>1. For(o) \in SUBSET Nat /\ \A p \in For(o) : p <= n
      BY <1>0, <2>1
    <3> QED
      BY <1>0, <3>1, MaxIs
  <2>3. PICK x : x = ValueFor(o, n) /\ x \in Int
    BY <2>1
  <2>4. v = x % w
    BY <1>0, <1>1, <1>5, <2>1, <2>3, ReadBack
  <2>5. PICK last : last = input.args[n].text
    OBVIOUS
  <2>6. Expected(o) = CASE o.type = "string" -> last
                        [] o.type = "bool" -> Reads(o) => AsType(Scan[last][o.syntax], "int") # 0
                        [] OTHER -> AsType(Scan[last][Verb(o)], o.type)
    BY <2>2, <2>5 DEF Expected
  <2>7. CASE o.type = "bool"
    <3>1. Expected(o) = (Reads(o) => AsType(Scan[last][o.syntax], "int") # 0)
      BY <2>6, <2>7
    <3>2. CASE Reads(o)
      <4>1. x = Scan[last][o.syntax]
        BY <1>3, <2>3, <2>5, <2>7, <3>2 DEF ValueFor
      <4>2. "int" \notin Unsigneds /\ Bytes("int") = 4
        BY DEF Unsigneds, Bytes, Ints8, Ints16, Ints32
      <4>3. w = Weight[Bytes("int")]
        BY <1>4, <1>5, <2>7, <4>2
      <4>4. AsType(x, "int") = IF v >= w \div 2 THEN v - w ELSE v
        BY <2>4, <4>2, <4>3 DEF AsType
      <4>5. v \in 0..(w - 1)
        <5>1. w \in Nat \ {0}
          BY <1>5
        <5> QED
          BY <2>3, <2>4, <5>1, DivMod DEF Divided
      <4>6. AsType(x, "int") # 0 <=> v # 0
        BY <1>5, <4>4, <4>5
      <4> QED
        BY <1>2, <2>7, <3>1, <3>2, <4>1, <4>6
    <3>3. CASE ~Reads(o)
      <4>1. x = 1
        BY <2>3, <2>7, <3>3 DEF ValueFor
      <4>2. v = 1
        BY <1>5, <2>4, <4>1, SmallIs
      <4> QED
        BY <1>2, <2>7, <3>1, <3>3, <4>2
    <3> QED
      BY <3>2, <3>3
  <2>8. CASE o.type = "string"
    <3>1. x = n
      BY <1>3, <2>3, <2>8 DEF ValueFor
    <3>2. n < w /\ n \in Nat /\ n # 0
      BY <1>4, <1>5, <2>2, <2>8 DEF CallOk
    <3>3. v = n
      BY <1>5, <2>4, <3>1, <3>2, SmallIs
    <3> QED
      BY <1>2, <2>5, <2>6, <2>8, <3>2, <3>3
  <2>9. CASE o.type \in IntTypes
    <3>1. o.type # "bool" /\ o.type # "string"
      BY <2>9, TypesDiffer
    <3>2. x = Scan[last][Verb(o)]
      BY <1>3, <2>3, <2>5, <2>9 DEF ValueFor
    <3>3. Expected(o) = AsType(x, o.type)
      BY <2>6, <3>1, <3>2
    <3>4. w = Weight[Bytes(o.type)]
      BY <1>4, <1>5, <2>9
    <3>5. AsType(x, o.type) = IF o.type \in Unsigneds THEN v ELSE IF v >= w \div 2 THEN v - w ELSE v
      BY <2>4, <3>4 DEF AsType
    <3>6. TwosComplement(v, Bytes(o.type)) = IF v >= w \div 2 THEN v - w ELSE v
      BY <3>4 DEF TwosComplement
    <3> QED
      BY <1>2, <2>9, <3>3, <3>5, <3>6
  <2> QED
    BY <1>3, <2>7, <2>8, <2>9
<1> QED
  BY <1>6, <1>7 DEF Holds

-----------------------------------------------------------------------------
(* What is left *)

ArgSet == {input.args[n] : n \in DOMAIN input.args}

\* What is left is gathered or not.
LeftOf(g, n) == Left(n) /\ (Listed(n) <=> g)

\* The arguments outs of a call are those at these places, in their order.
Places(g, place, outs, z) ==
    /\ outs \in Seq(ArgSet) /\ place \in [1..Len(outs) -> 1..(z - 1)]
    /\ \A p \in 1..Len(outs) : LeftOf(g, place[p]) /\ outs[p] = input.args[place[p]]
    /\ \A p, q \in 1..Len(outs) : p < q => place[p] < place[q]

\* outs is all that is left of the arguments before z, gathered or not.
Kept(g, outs, z) ==
    \E place : /\ Places(g, place, outs, z)
               /\ \A n \in 1..(z - 1) : LeftOf(g, n) => \E p \in 1..Len(outs) : place[p] = n

\* rest is all that is not gathered, but for the one separator,
Rest(rest) ==
    \E place : /\ Places(FALSE, place, rest, Len(input.args) + 1)
               /\ \A n \in 1..Len(input.args) : LeftOf(FALSE, n) =>
                    \/ \E p \in 1..Len(rest) : place[p] = n
                    \/ Droppable(n) /\ \A p \in 1..Len(rest) : rest[p] # Dashes

\* and outs is that with what is gathered before it.
Filed(outs) ==
    \E place : /\ outs \in Seq(ArgSet) /\ place \in [1..Len(outs) -> 1..Len(input.args)]
               /\ \A p \in 1..Len(outs) : Left(place[p]) /\ outs[p] = input.args[place[p]]
               /\ \A p, q \in 1..Len(outs) : p < q => Precedes(place[p], place[q])
               /\ \A n \in 1..Len(input.args) : Left(n) =>
                    \/ \E p \in 1..Len(outs) : place[p] = n
                    \/ Droppable(n) /\ \A p \in 1..Len(outs) : outs[p] # Dashes

InOrder(outs) ==
    \E place \in [DOMAIN outs -> DOMAIN input.args] :
        /\ \A p \in DOMAIN outs : Left(place[p]) /\ outs[p] = input.args[place[p]]
        /\ \A p, q \in DOMAIN outs : p < q => Precedes(place[p], place[q])
        /\ \A n \in DOMAIN input.args :
              Left(n) => Droppable(n) \/ \E p \in DOMAIN outs : place[p] = n

LEMMA DashesAre ==
    ASSUME CallOk, NEW n \in 1..Len(input.args)
    PROVE  /\ input.args[n].k = "--" <=> input.args[n] = Dashes
           /\ input.args[n] = Dashes => \A m \in n..Len(input.args) : LeftOf(FALSE, m)
<1>1. IsArg(input.args[n])
  BY DEF CallOk
<1>2. input.args[n].k = "--" <=> input.args[n] = Dashes
  BY <1>1 DEF IsArg, Dashes
<1>3. ASSUME input.args[n] = Dashes, NEW m \in n..Len(input.args) PROVE LeftOf(FALSE, m)
  <2>1. n \in 1..m
    BY <1>3 DEF CallOk
  <2>2. m \notin Before
    BY <1>2, <1>3, <2>1 DEF Before
  <2> QED
    BY <2>2 DEF Left, Listed, LeftOf
<1> QED
  BY <1>2, <1>3

LEMMA KeptMore ==
    ASSUME CallOk, NEW z \in 1..Len(input.args), NEW outs, NEW g, Kept(g, outs, z)
    PROVE  Kept(g, IF LeftOf(g, z) THEN Append(outs, input.args[z]) ELSE outs, z + 1)
<1>1. PICK place : /\ Places(g, place, outs, z)
                   /\ \A n \in 1..(z - 1) : LeftOf(g, n) => \E p \in 1..Len(outs) : place[p] = n
  BY DEF Kept
<1>2. PICK n : n = Len(outs) /\ n \in Nat
  BY <1>1 DEF Places
<1>3. CASE ~LeftOf(g, z)
  <2>1. Places(g, place, outs, z + 1)
    BY <1>1 DEF Places
  <2>2. \A m \in 1..z : LeftOf(g, m) => \E p \in 1..Len(outs) : place[p] = m
    BY <1>1, <1>3
  <2>3. (z + 1) - 1 = z
    OBVIOUS
  <2> QED
    BY <1>3, <2>1, <2>2, <2>3 DEF Kept
<1>4. CASE LeftOf(g, z)
  <2> DEFINE more == Append(outs, input.args[z])
             w == [p \in 1..(n + 1) |-> IF p = n + 1 THEN z ELSE place[p]]
  <2>1. /\ more \in Seq(ArgSet) /\ Len(more) = n + 1 /\ more[n + 1] = input.args[z]
        /\ \A p \in 1..n : more[p] = outs[p]
    <3>1. input.args[z] \in ArgSet /\ outs \in Seq(ArgSet)
      BY <1>1 DEF ArgSet, CallOk, Places
    <3> QED
      BY <1>2, <3>1, AppendProperties
  <2>2. /\ place \in [1..n -> 1..(z - 1)]
        /\ \A p \in 1..n : LeftOf(g, place[p]) /\ outs[p] = input.args[place[p]]
        /\ \A p, q \in 1..n : p < q => place[p] < place[q]
    BY <1>1, <1>2 DEF Places
  <2>3. w \in [1..(n + 1) -> 1..z] /\ w[n + 1] = z /\ \A p \in 1..n : w[p] = place[p] /\ place[p] \in 1..(z - 1)
    BY <1>2, <2>2
  <2> HIDE DEF more, w
  <2>4. \A p \in 1..(n + 1) : LeftOf(g, w[p]) /\ more[p] = input.args[w[p]]
    <3> SUFFICES ASSUME NEW p \in 1..(n + 1) PROVE LeftOf(g, w[p]) /\ more[p] = input.args[w[p]]
      OBVIOUS
    <3>1. CASE p = n + 1
      BY <1>4, <2>1, <2>3, <3>1
    <3>2. CASE p # n + 1
      <4>1. p \in 1..n
        BY <1>2, <3>2
      <4> QED
        BY <2>1, <2>2, <2>3, <4>1
    <3> QED
      BY <3>1, <3>2
  <2>5. \A p, q \in 1..(n + 1) : p < q => w[p] < w[q]
    <3> SUFFICES ASSUME NEW p \in 1..(n + 1), NEW q \in 1..(n + 1), p < q PROVE w[p] < w[q]
      OBVIOUS
    <3>1. p \in 1..n
      BY <1>2
    <3>2. CASE q = n + 1
      BY <2>3, <3>1, <3>2
    <3>3. CASE q # n + 1
      <4>1. q \in 1..n
        BY <1>2, <3>3
      <4> QED
        BY <2>2, <2>3, <3>1, <4>1
    <3> QED
      BY <3>2, <3>3
  <2>6. Places(g, w, more, z + 1)
    BY <2>1, <2>3, <2>4, <2>5 DEF Places
  <2>7. ASSUME NEW m \in 1..z, LeftOf(g, m) PROVE \E p \in 1..(n + 1) : w[p] = m
    <3>1. CASE m = z
      <4>1. n + 1 \in 1..(n + 1)
        BY <1>2
      <4> QED
        BY <2>3, <3>1, <4>1
    <3>2. CASE m # z
      <4>1. PICK p \in 1..n : place[p] = m
        BY <1>1, <1>2, <2>7, <3>2
      <4> QED
        BY <1>2, <2>3, <4>1
    <3> QED
      BY <3>1, <3>2
  <2>8. 1..((z + 1) - 1) = 1..z
    OBVIOUS
  <2>9. \A m \in 1..((z + 1) - 1) : LeftOf(g, m) => \E p \in 1..Len(more) : w[p] = m
    BY ONLY <2>1, <2>7, <2>8
  <2>10. Kept(g, more, z + 1)
    BY ONLY <2>6, <2>9 DEF Kept
  <2> QED
    BY <1>4, <2>10 DEF more
<1> QED
  BY <1>3, <1>4

\* The end of fuse_opt_parse.
LEMMA KeptIsRest ==
    ASSUME CallOk, NEW outs, Kept(FALSE, outs, Len(input.args) + 1)
    PROVE  /\ Rest(outs)
           /\ outs # <<>> /\ outs[Len(outs)] = Dashes /\ (\A n \in 1..(Len(outs) - 1) : outs[n] # Dashes)
              => Rest(SubSeq(outs, 1, Len(outs) - 1))
<1> DEFINE z == Len(input.args)
<1>0. z \in Nat /\ (z + 1) - 1 = z
  BY DEF CallOk
<1>1. PICK place : /\ Places(FALSE, place, outs, z + 1)
                   /\ \A n \in 1..z : LeftOf(FALSE, n) => \E p \in 1..Len(outs) : place[p] = n
  BY <1>0 DEF Kept
<1>2. PICK n : n = Len(outs) /\ n \in Nat
  BY <1>1 DEF Places
<1>3. /\ outs \in Seq(ArgSet) /\ place \in [1..n -> 1..z]
      /\ \A p \in 1..n : LeftOf(FALSE, place[p])
      /\ \A p \in 1..n : outs[p] = input.args[place[p]]
      /\ \A p, q \in 1..n : p < q => place[p] < place[q]
  BY <1>0, <1>1, <1>2 DEF Places
<1>4. Rest(outs)
  BY <1>1 DEF Rest
<1>5. ASSUME outs # <<>>, outs[n] = Dashes, \A p \in 1..(n - 1) : outs[p] # Dashes
      PROVE  Rest(SubSeq(outs, 1, n - 1))
  <2> DEFINE g == SubSeq(outs, 1, n - 1)
             w == [p \in 1..(n - 1) |-> place[p]]
  <2>0. n >= 1
    BY <1>2, <1>3, <1>5, EmptySeq
  <2>1. g \in Seq(ArgSet) /\ Len(g) = n - 1 /\ \A p \in 1..(n - 1) : g[p] = outs[p]
    BY <1>2, <1>3, <2>0, SubSeqProperties
  <2>2. w \in [1..(n - 1) -> 1..z] /\ \A p \in 1..(n - 1) : w[p] = place[p] /\ p \in 1..n
    BY <1>2, <1>3, <2>0
  <2> HIDE DEF g, w
  <2>3. Places(FALSE, w, g, z + 1)
    BY <1>0, <1>3, <2>1, <2>2 DEF Places
  <2>4. n \in 1..n /\ place[n] \in 1..z /\ input.args[place[n]] = Dashes
    BY <1>2, <1>3, <1>5, <2>0
  <2>5. ASSUME NEW m \in 1..(place[n] - 1) PROVE input.args[m] # Dashes
    <3> SUFFICES ASSUME input.args[m] = Dashes PROVE FALSE
      OBVIOUS
    <3>1. m \in 1..z /\ m \in m..z
      BY <1>0, <2>4
    <3>2. LeftOf(FALSE, m)
      BY <3>1, DashesAre
    <3>3. PICK p \in 1..n : place[p] = m
      BY <1>1, <1>2, <3>1, <3>2
    <3>4. p # n
      BY <2>4, <3>3
    <3>5. p \in 1..(n - 1) /\ outs[p] = Dashes
      BY <1>2, <1>3, <3>3, <3>4
    <3> QED
      BY <1>5, <3>5
  <2>6. place[n] = z
    <3> SUFFICES ASSUME place[n] # z PROVE FALSE
      OBVIOUS
    <3>1. z \in 1..z /\ z \in place[n]..z
      BY <1>0, <2>4
    <3>2. LeftOf(FALSE, z)
      BY <2>4, <3>1, DashesAre
    <3>3. PICK p \in 1..n : place[p] = z
      BY <1>1, <1>2, <3>1, <3>2
    <3>4. p < n
      BY <1>2, <3>3
    <3>5. place[p] < place[n]
      BY <1>3, <2>4, <3>4
    <3> QED
      BY <1>0, <2>4, <3>3, <3>5
  <2>7. Droppable(place[n])
    BY <2>4, <2>5, <2>6 DEF Droppable
  <2>8. \A m \in 1..z : LeftOf(FALSE, m) =>
           \/ \E p \in 1..Len(g) : w[p] = m
           \/ Droppable(m) /\ \A p \in 1..Len(g) : g[p] # Dashes
    <3> SUFFICES ASSUME NEW m \in 1..z, LeftOf(FALSE, m), ~ \E p \in 1..Len(g) : w[p] = m
                 PROVE  Droppable(m) /\ \A p \in 1..Len(g) : g[p] # Dashes
      OBVIOUS
    <3>1. PICK p \in 1..n : place[p] = m
      BY <1>1, <1>2
    <3>2. p \notin 1..(n - 1)
      BY <2>1, <2>2, <3>1
    <3>3. p = n
      BY <1>2, <3>2
    <3> QED
      BY <1>5, <2>1, <2>7, <3>1, <3>3
  <2>9. Rest(g)
    BY <2>3, <2>8 DEF Rest
  <2> QED
    BY <2>9 DEF g
<1> QED
  BY <1>2, <1>4, <1>5

LEMMA RestIsFiled ==
    ASSUME CallOk, NEW front, Kept(TRUE, front, Len(input.args) + 1), NEW rest, Rest(rest)
    PROVE  Filed(front \o rest)
<1> DEFINE z == Len(input.args)
<1>0. z \in Nat /\ (z + 1) - 1 = z
  BY DEF CallOk
<1>1. PICK u : /\ Places(TRUE, u, front, z + 1)
               /\ \A n \in 1..z : LeftOf(TRUE, n) => \E p \in 1..Len(front) : u[p] = n
  BY <1>0 DEF Kept
<1>2. PICK v : /\ Places(FALSE, v, rest, z + 1)
               /\ \A n \in 1..z : LeftOf(FALSE, n) =>
                    \/ \E p \in 1..Len(rest) : v[p] = n
                    \/ Droppable(n) /\ \A p \in 1..Len(rest) : rest[p] # Dashes
  BY DEF Rest
<1>3. PICK a, b : a = Len(front) /\ b = Len(rest) /\ a \in Nat /\ b \in Nat
  <2>1. Len(front) \in Nat /\ Len(rest) \in Nat
    BY <1>1, <1>2 DEF Places
  <2> QED
    BY ONLY <2>1
<1>4. /\ front \in Seq(ArgSet) /\ u \in [1..a -> 1..z]
      /\ \A p \in 1..a : Left(u[p]) /\ Listed(u[p]) /\ front[p] = input.args[u[p]]
      /\ \A p, q \in 1..a : p < q => u[p] < u[q]
  BY <1>0, <1>1, <1>3 DEF Places, LeftOf
<1>5. /\ rest \in Seq(ArgSet) /\ v \in [1..b -> 1..z]
      /\ \A p \in 1..b : Left(v[p]) /\ ~Listed(v[p]) /\ rest[p] = input.args[v[p]]
      /\ \A p, q \in 1..b : p < q => v[p] < v[q]
  BY <1>0, <1>2, <1>3 DEF Places, LeftOf
<1> DEFINE outs == front \o rest
           w == [p \in 1..(a + b) |-> IF p <= a THEN u[p] ELSE v[p - a]]
<1>6. /\ outs \in Seq(ArgSet) /\ Len(outs) = a + b
      /\ \A p \in 1..a : outs[p] = front[p]
      /\ \A p \in 1..b : outs[a + p] = rest[p]
  <2>1. /\ outs \in Seq(ArgSet) /\ Len(outs) = a + b
        /\ \A p \in 1..(a + b) : outs[p] = IF p <= a THEN front[p] ELSE rest[p - a]
    BY <1>3, <1>4, <1>5, ConcatProperties
  <2>2. \A p \in 1..b : a + p \in 1..(a + b) /\ ~(a + p <= a) /\ (a + p) - a = p
    BY <1>3
  <2>3. \A p \in 1..a : p \in 1..(a + b) /\ p <= a
    BY <1>3
  <2> HIDE DEF outs
  <2> QED
    BY <2>1, <2>2, <2>3
<1>7. /\ w \in [1..(a + b) -> 1..z]
      /\ \A p \in 1..a : w[p] = u[p] /\ u[p] \in 1..z
      /\ \A p \in 1..b : w[a + p] = v[p] /\ v[p] \in 1..z
  <2>1. \A p \in 1..(a + b) : p <= a => p \in 1..a
    BY <1>3
  <2>2. \A p \in 1..(a + b) : ~(p <= a) => p - a \in 1..b
    BY <1>3
  <2>3. \A p \in 1..b : a + p \in 1..(a + b) /\ ~(a + p <= a) /\ (a + p) - a = p
    BY <1>3
  <2>4. \A p \in 1..a : p \in 1..(a + b) /\ p <= a
    BY <1>3
  <2> QED
    BY <1>4, <1>5, <2>1, <2>2, <2>3, <2>4
<1> HIDE DEF outs, w
<1>8. ASSUME NEW p \in 1..(a + b) PROVE p \in 1..a \/ \E q \in 1..b : p = a + q
  <2>1. CASE p <= a
    BY <1>3, <2>1
  <2>2. CASE ~(p <= a)
    <3>1. p - a \in 1..b /\ p = a + (p - a)
      BY <1>3, <2>2
    <3> QED
      BY <3>1
  <2> QED
    BY <2>1, <2>2
<1>9. ASSUME NEW p \in 1..(a + b) PROVE Left(w[p]) /\ outs[p] = input.args[w[p]]
  <2>1. CASE p \in 1..a
    BY <1>4, <1>6, <1>7, <2>1
  <2>2. ASSUME NEW q \in 1..b, p = a + q PROVE Left(w[p]) /\ outs[p] = input.args[w[p]]
    BY <1>5, <1>6, <1>7, <2>2
  <2> QED
    BY <1>8, <2>1, <2>2
<1>10. ASSUME NEW p \in 1..(a + b), NEW q \in 1..(a + b), p < q PROVE Precedes(w[p], w[q])
  <2>1. CASE p \in 1..a /\ q \in 1..a
    BY <1>4, <1>7, <1>10, <2>1 DEF Precedes
  <2>2. ASSUME p \in 1..a, NEW j \in 1..b, q = a + j PROVE Precedes(w[p], w[q])
    BY <1>4, <1>5, <1>7, <2>2 DEF Precedes
  <2>3. ASSUME q \in 1..a, NEW i \in 1..b, p = a + i PROVE FALSE
    BY <1>3, <1>10, <2>3
  <2>4. ASSUME NEW i \in 1..b, NEW j \in 1..b, p = a + i, q = a + j PROVE Precedes(w[p], w[q])
    <3>1. i < j
      BY <1>3, <1>10, <2>4
    <3> QED
      BY <1>5, <1>7, <2>4, <3>1 DEF Precedes
  <2> QED
    BY <1>8, <2>1, <2>2, <2>3, <2>4
<1>11. ASSUME NEW n \in 1..z, Left(n)
       PROVE  \/ \E p \in 1..(a + b) : w[p] = n
              \/ Droppable(n) /\ \A p \in 1..(a + b) : outs[p] # Dashes
  <2>1. CASE Listed(n)
    <3>1. PICK p \in 1..a : u[p] = n
      BY <1>1, <1>3, <1>11, <2>1 DEF LeftOf
    <3>2. p \in 1..(a + b)
      BY <1>3
    <3> QED
      BY <1>7, <3>1, <3>2
  <2>2. ASSUME NEW p \in 1..b, v[p] = n PROVE \E q \in 1..(a + b) : w[q] = n
    <3>1. a + p \in 1..(a + b)
      BY <1>3
    <3> QED
      BY <1>7, <2>2, <3>1
  <2>3. ASSUME \A p \in 1..b : rest[p] # Dashes, NEW p \in 1..(a + b) PROVE outs[p] # Dashes
    <3>1. CASE p \in 1..a
      <4>1. outs[p].k = "o"
        BY <1>4, <1>6, <3>1 DEF Listed
      <4> QED
        BY <4>1 DEF Dashes
    <3>2. ASSUME NEW q \in 1..b, p = a + q PROVE outs[p] # Dashes
      BY <1>6, <2>3, <3>2
    <3> QED
      BY <1>8, <3>1, <3>2
  <2>4. CASE ~Listed(n)
    <3>1. LeftOf(FALSE, n)
      BY <1>11, <2>4 DEF LeftOf
    <3>2. \/ \E p \in 1..b : v[p] = n
          \/ Droppable(n) /\ \A p \in 1..b : rest[p] # Dashes
      BY <1>2, <1>3, <3>1
    <3> QED
      BY <2>2, <2>3, <3>2
  <2> QED
    BY <2>1, <2>4
<1>12. Filed(outs)
  BY <1>6, <1>7, <1>9, <1>10, <1>11 DEF Filed
<1> QED
  BY <1>12 DEF outs

\* With an empty format nothing is gathered.
LEMMA NoneListed ==
    ASSUME nonopts, NEW m, NEW n, Left(m), Left(n)
    PROVE  Precedes(m, n) <=> m < n
BY DEF Left, Listed, Precedes

\* The end of OptParse.
LEMMA FiledIsLeft ==
    ASSUME CallOk, NEW outs, Filed(outs)
    PROVE  InOrder(IF nonopts /\ outs # <<>> /\ outs[1] = Dashes THEN Tail(outs) ELSE outs)
<1> DEFINE z == Len(input.args)
<1>0. z \in Nat /\ (z + 1) - 1 = z /\ DOMAIN input.args = 1..z
  BY DEF CallOk
<1>1. PICK place : /\ outs \in Seq(ArgSet) /\ place \in [1..Len(outs) -> 1..z]
                   /\ \A p \in 1..Len(outs) : Left(place[p]) /\ outs[p] = input.args[place[p]]
                   /\ \A p, q \in 1..Len(outs) : p < q => Precedes(place[p], place[q])
                   /\ \A n \in 1..z : Left(n) =>
                        \/ \E p \in 1..Len(outs) : place[p] = n
                        \/ Droppable(n) /\ \A p \in 1..Len(outs) : outs[p] # Dashes
  BY DEF Filed
<1>2. PICK n : n = Len(outs) /\ n \in Nat
  BY <1>1
<1>3. /\ outs \in Seq(ArgSet) /\ place \in [1..n -> 1..z] /\ DOMAIN outs = 1..n
      /\ \A p \in 1..n : Left(place[p]) /\ outs[p] = input.args[place[p]]
      /\ \A p, q \in 1..n : p < q => Precedes(place[p], place[q])
  BY <1>0, <1>1, <1>2
<1>4. InOrder(outs)
  BY <1>0, <1>1, <1>2, <1>3 DEF InOrder
<1>5. ASSUME nonopts, outs # <<>>, outs[1] = Dashes PROVE InOrder(Tail(outs))
  <2> DEFINE g == Tail(outs)
             w == [p \in 1..(n - 1) |-> place[p + 1]]
  <2>0. n >= 1 /\ 1 \in 1..n
    BY <1>2, <1>3, <1>5, EmptySeq
  <2>1. Len(g) = n - 1 /\ DOMAIN g = 1..(n - 1) /\ \A p \in 1..(n - 1) : g[p] = outs[p + 1]
    BY <1>2, <1>3, <1>5, HeadTailProperties
  <2>2. w \in [1..(n - 1) -> 1..z] /\ \A p \in 1..(n - 1) : w[p] = place[p + 1] /\ p + 1 \in 1..n
    BY <1>2, <1>3, <2>0
  <2> HIDE DEF g, w
  <2>3. \A p \in 1..(n - 1) : Left(w[p]) /\ g[p] = input.args[w[p]]
    BY <1>3, <2>1, <2>2
  <2>4. \A p, q \in 1..(n - 1) : p < q => Precedes(w[p], w[q])
    BY <1>3, <2>2
  <2>5. place[1] \in 1..z /\ input.args[place[1]] = Dashes
    BY <1>3, <1>5, <2>0
  <2>6. ASSUME NEW m \in 1..z, Left(m) PROVE Droppable(m) \/ \E p \in 1..(n - 1) : w[p] = m
    <3>1. PICK p \in 1..n : place[p] = m
      BY <1>1, <1>2, <1>5, <2>0, <2>6
    <3>2. CASE p = 1
      <4>1. ASSUME NEW l \in 1..(m - 1) PROVE input.args[l] # Dashes
        <5> SUFFICES ASSUME input.args[l] = Dashes PROVE FALSE
          OBVIOUS
        <5>1. l \in 1..z /\ l \in l..z /\ l < m
          BY <1>0
        <5>2. LeftOf(FALSE, l)
          BY <5>1, DashesAre
        <5>3. PICK q \in 1..n : place[q] = l
          BY <1>1, <1>2, <1>5, <2>0, <5>1, <5>2 DEF LeftOf
        <5>4. CASE q = 1
          BY <3>1, <3>2, <5>1, <5>3, <5>4
        <5>5. CASE 1 < q
          <6>1. Precedes(m, l)
            BY <1>3, <2>0, <3>1, <3>2, <5>3, <5>5
          <6>2. Left(m) /\ Left(l)
            BY <2>6, <5>2 DEF LeftOf
          <6>3. m < l
            BY <1>5, <6>1, <6>2, NoneListed
          <6> QED
            BY <5>1, <6>3
        <5> QED
          BY <5>4, <5>5
      <4> QED
        BY <1>5, <2>5, <3>1, <3>2, <4>1 DEF Droppable
    <3>3. CASE p # 1
      <4>1. p - 1 \in 1..(n - 1) /\ (p - 1) + 1 = p
        BY <1>2, <3>3
      <4> QED
        BY <2>2, <3>1, <4>1
    <3> QED
      BY <3>2, <3>3
  <2>7. InOrder(g)
    <3>1. w \in [DOMAIN g -> DOMAIN input.args]
      BY <1>0, <2>1, <2>2
    <3>2. \A p \in DOMAIN g : Left(w[p]) /\ g[p] = input.args[w[p]]
      BY <2>1, <2>3
    <3>3. \A p, q \in DOMAIN g : p < q => Precedes(w[p], w[q])
      BY <2>1, <2>4
    <3>4. \A m \in DOMAIN input.args : Left(m) => Droppable(m) \/ \E p \in DOMAIN g : w[p] = m
      BY <1>0, <2>1, <2>6
    <3> QED
      BY ONLY <3>1, <3>2, <3>3, <3>4 DEF InOrder
  <2> QED
    BY <2>7 DEF g
<1> QED
  BY <1>4, <1>5

-----------------------------------------------------------------------------
(* The stages of a call *)

\* While the arguments are parsed: the templates are those of the options, the
\* slots hold what the last arguments for them say, and none of them was bad.
ParseInv ==
    /\ Len(fmt) <= input.nvals
    /\ \A i \in Opts : Allowed(fmt[i])
    /\ templs = [i \in Opts |-> Templ(fmt[i])]
    /\ next \in 1..(Len(input.args) + 1)
    /\ nonopt \in BOOLEAN /\ (nonopt <=> \E n \in 1..(next - 1) : input.args[n].k = "--")
    /\ IsMem(mem)
    /\ \A i \in Opts : Holds(i, next)
    /\ \A i \in Opts : \A n \in For(fmt[i]) :
          n < next /\ Reads(fmt[i]) => Scan[input.args[n].text][Verb(fmt[i])] # Fail

OptInv ==
    /\ stage \in {"idle", "norm", "parse", "store", "done"}
    /\ stage # "idle" => input \in Inputs
    /\ stage \in {"idle", "norm"} => gathered = <<>> /\ outargs = <<>> /\ next = 1 /\ nonopt = FALSE
    /\ stage # "done" => err = FALSE
    /\ stage \in {"norm", "parse", "store"} => vals = [i \in 1..input.nvals |-> Old]
    /\ stage \in {"parse", "store"} => ParseInv
    /\ stage = "parse" => Kept(TRUE, gathered, next) /\ Kept(FALSE, outargs, next)
    /\ stage = "store" => next = Len(input.args) + 1 /\ Filed(outargs)
    /\ ParsesAsDocumented

\* The documentation's reading does not change during a call.
Unmoved ==
    /\ fmt' = fmt /\ Opts' = Opts /\ (nonopts' <=> nonopts) /\ (CallOk' <=> CallOk)
    /\ \A o : For(o)' = For(o) /\ Expected(o)' = Expected(o)
    /\ \A o, n : ValueFor(o, n)' = ValueFor(o, n)
    /\ \A n : (Left(n)' <=> Left(n)) /\ (Droppable(n)' <=> Droppable(n)) /\ (Listed(n)' <=> Listed(n))
    /\ ErrorExpected' <=> ErrorExpected

LEMMA InputStays == ASSUME input' = input PROVE Unmoved
<1>1. fmt' = fmt /\ Opts' = Opts /\ (nonopts' <=> nonopts)
  BY DEF fmt, Opts, nonopts
<1>2. CallOk' <=> CallOk
  BY <1>1 DEF CallOk
<1>3. Before' = Before
  BY DEF Before
<1>4. ASSUME NEW o PROVE For(o)' = For(o)
  BY <1>3 DEF For
<1>5. ASSUME NEW o PROVE Expected(o)' = Expected(o)
  BY <1>4 DEF Expected
<1>6. ASSUME NEW o, NEW n PROVE ValueFor(o, n)' = ValueFor(o, n)
  BY DEF ValueFor
<1>7. ASSUME NEW n PROVE Left(n)' <=> Left(n)
  BY <1>1, <1>3, <1>4 DEF Left
<1>8. ASSUME NEW n PROVE Droppable(n)' <=> Droppable(n)
  BY <1>1 DEF Droppable
<1>9. ASSUME NEW n PROVE Listed(n)' <=> Listed(n)
  BY <1>3 DEF Listed
<1>10. ErrorExpected' <=> ErrorExpected
  BY <1>1, <1>4 DEF ErrorExpected
<1> QED
  BY <1>1, <1>2, <1>4, <1>5, <1>6, <1>7, <1>8, <1>9, <1>10 DEF Unmoved

LEMMA OrderStays ==
    ASSUME input' = input, NEW outs, NEW z, NEW g
    PROVE  /\ Kept(g, outs, z)' <=> Kept(g, outs, z)
           /\ Rest(outs)' <=> Rest(outs)
           /\ Filed(outs)' <=> Filed(outs)
           /\ InOrder(outs)' <=> InOrder(outs)
<1>1. \A n : (Left(n)' <=> Left(n)) /\ (Droppable(n)' <=> Droppable(n)) /\ (Listed(n)' <=> Listed(n))
  BY InputStays DEF Unmoved
<1>2. ArgSet' = ArgSet /\ Len(input.args)' = Len(input.args)
  BY DEF ArgSet
<1>3. ASSUME NEW f, NEW n PROVE LeftOf(f, n)' <=> LeftOf(f, n)
  BY <1>1 DEF LeftOf
<1>4. ASSUME NEW m, NEW n PROVE Precedes(m, n)' <=> Precedes(m, n)
  BY <1>1 DEF Precedes
<1>5. ASSUME NEW f, NEW place, NEW y PROVE Places(f, place, outs, y)' <=> Places(f, place, outs, y)
  BY <1>2, <1>3 DEF Places
<1>6. Kept(g, outs, z)' <=> Kept(g, outs, z)
  BY <1>3, <1>5 DEF Kept
<1>7. Rest(outs)' <=> Rest(outs)
  <2>1. ASSUME NEW place
        PROVE  Places(FALSE, place, outs, Len(input.args) + 1)' <=> Places(FALSE, place, outs, Len(input.args) + 1)
    BY <1>2, <1>5
  <2> QED
    BY <1>1, <1>2, <1>3, <2>1 DEF Rest
<1>8. Filed(outs)' <=> Filed(outs)
  BY <1>1, <1>2, <1>4 DEF Filed
<1>9. InOrder(outs)' <=> InOrder(outs)
  BY <1>1, <1>4 DEF InOrder
<1> QED
  BY <1>6, <1>7, <1>8, <1>9

-----------------------------------------------------------------------------
(* The steps *)

LEMMA ForIs ==
    ASSUME CallOk, NEW o
    PROVE  For(o) \in SUBSET (1..Len(input.args)) /\ Len(input.args) \in Nat
BY DEF CallOk, For, Before

LEMMA AskedKeepsOptInv == ASSUME OptInv, Asked PROVE OptInv'
BY DEF Asked, OptInv, ParsesAsDocumented

\* A call that is refused for a reason.
LEMMA RefuseKeepsOptInv ==
    ASSUME OptInv, stage \in {"norm", "parse"}, Refuse, ErrorExpected
    PROVE  OptInv'
<1>1. /\ stage' = "done" /\ err' = TRUE /\ outargs' = <<>>
      /\ UNCHANGED <<input, templs, next, mem, nonopt, gathered, vals>>
  BY DEF Refuse
<1>2. ErrorExpected'
  BY <1>1, InputStays DEF Unmoved
<1>3. vals' = [i \in 1..input.nvals |-> Old] /\ input' \in Inputs
  BY <1>1 DEF OptInv
<1>4. ParsesAsDocumented'
  <2>1. err' = ErrorExpected'
    <3>1. ErrorExpected' \in BOOLEAN
      BY DEF ErrorExpected
    <3> QED
      BY <1>1, <1>2, <3>1
  <2>2. \A i \in DOMAIN vals' : vals'[i] = Old
    BY <1>3
  <2> QED
    BY <1>1, <2>1, <2>2 DEF ParsesAsDocumented
<1> QED
  BY <1>1, <1>3, <1>4 DEF OptInv

LEMMA NormaliseKeepsOptInv == ASSUME OptInv, Normalise PROVE OptInv'
<1>1. stage = "norm" /\ input \in Inputs /\ gathered = <<>> /\ outargs = <<>> /\ next = 1 /\ nonopt = FALSE /\ err = FALSE
      /\ vals = [i \in 1..input.nvals |-> Old]
  BY DEF Normalise, OptInv
<1>2. CallOk
  BY <1>1, CallIsOk
<1>3. input.nvals \in Nat /\ Len(fmt) \in Nat /\ Opts = 1..Len(fmt) /\ Len(input.args) \in Nat
  BY <1>2 DEF CallOk
<1>4. CASE input.nvals < Len(fmt) \/ \E i \in Opts : Templ(fmt[i]) = Unknown
  <2>1. Refuse
    BY <1>4 DEF Normalise
  <2>2. ErrorExpected
    BY <1>4, AllowedIs DEF ErrorExpected
  <2> QED
    BY <1>1, <2>1, <2>2, RefuseKeepsOptInv
<1>5. CASE ~(input.nvals < Len(fmt)) /\ \A i \in Opts : Templ(fmt[i]) # Unknown
  <2>1. /\ stage' = "parse"
        /\ templs' = [i \in Opts |-> Templ(fmt[i])]
        /\ mem' = [a \in 0..(Len(fmt) * align - 1) |-> 0]
        /\ UNCHANGED <<input, next, nonopt, gathered, outargs, err, vals>>
    BY <1>5 DEF Normalise
  <2>2. /\ fmt' = fmt /\ Opts' = Opts /\ \A o : For(o)' = For(o)
        /\ \A o, n : ValueFor(o, n)' = ValueFor(o, n)
    BY <2>1, InputStays DEF Unmoved
  <2>3. \A i \in Opts : Allowed(fmt[i])
    BY <1>5, AllowedIs
  <2>4. IsMem(mem)'
    BY <2>1, <2>2 DEF IsMem
  <2>5. ASSUME NEW i \in Opts PROVE Holds(i, 1)'
    <3>1. \A n \in For(fmt[i]) : n >= 1
      <4>1. For(fmt[i]) \in SUBSET (1..Len(input.args)) /\ Len(input.args) \in Nat
        BY <1>2, ForIs
      <4> QED
        BY <4>1
    <3>2. ASSUME NEW b \in 0..(Stores(fmt[i]) - 1) PROVE mem'[SlotOf(i) + b] = ByteOf(0, b)
      <4>1. b \in 0..7
        <5>1. TemplOf(fmt[i], Templ(fmt[i]))
          BY <2>3, AllowedIs
        <5>2. Stores(fmt[i]) \in 1..8
          BY <5>1, TemplFacts, WidthsFit
        <5> QED
          BY <5>2
      <4>2. SlotOf(i) + b \in 0..(Len(fmt) * align - 1)
        <5>1. Apart(Len(fmt), i, i, b, 1)
          BY <1>3, <4>1, SlotsApart
        <5> QED
          BY <5>1 DEF Apart
      <4>3. mem'[SlotOf(i) + b] = 0
        BY <2>1, <4>2
      <4>4. ByteOf(0, b) = 0
        <5>1. PICK w : w = Weight[b] /\ w \in Nat \ {0}
          BY <4>1, WeightIs
        <5>2. Divided(0, w, 0, 0) /\ Divided(0, Byte, 0, 0) /\ Byte \in Nat \ {0}
          BY <5>1, OptParseAssumption DEF Divided
        <5>3. 0 \div w = 0 /\ 0 % Byte = 0
          BY <5>1, <5>2, DivModIs
        <5> QED
          BY <5>1, <5>3 DEF ByteOf
      <4> QED
        BY <4>3, <4>4
    <3>3. HasValue(i, 0)'
      BY <2>2, <3>2 DEF HasValue
    <3> QED
      BY <2>2, <3>1, <3>3 DEF Holds
  <2>6. ParseInv'
    <3>1. ASSUME NEW i \in Opts', NEW n \in For(fmt[i])' PROVE ~(n < next')
      <4>1. n \in For(fmt[i])
        BY <2>1, <2>2
      <4>2. For(fmt[i]) \in SUBSET (1..Len(input.args)) /\ Len(input.args) \in Nat
        BY <1>2, ForIs
      <4> QED
        BY <1>1, <2>1, <4>1, <4>2
    <3>2. (\A i \in Opts : Holds(i, next))'
      BY <1>1, <2>1, <2>2, <2>5
    <3>3. (Len(fmt) <= input.nvals)' /\ (\A i \in Opts : Allowed(fmt[i]))'
      BY <1>3, <1>5, <2>1, <2>2, <2>3
    <3>4. (templs = [i \in Opts |-> Templ(fmt[i])])'
      BY <2>1, <2>2
    <3>5. (next \in 1..(Len(input.args) + 1))'
      BY <1>1, <1>3, <2>1
    <3>6. (nonopt \in BOOLEAN /\ (nonopt <=> \E n \in 1..(next - 1) : input.args[n].k = "--"))'
      <4>1. next' = 1 /\ nonopt' = FALSE /\ 1..(1 - 1) = {}
        BY <1>1, <2>1
      <4> QED
        BY <4>1
    <3> QED
      BY <2>4, <3>1, <3>2, <3>3, <3>4, <3>5, <3>6 DEF ParseInv
  <2>7. ASSUME NEW g PROVE Kept(g, <<>>, 1)
    <3> DEFINE none == [p \in 1..0 |-> 1]
    <3>1. <<>> \in Seq(ArgSet) /\ Len(<<>>) = 0 /\ none \in [1..0 -> 1..0]
      BY EmptySeq
    <3>2. Places(g, none, <<>>, 1)
      BY <3>1 DEF Places
    <3> QED
      BY <3>2 DEF Kept
  <2>8. Kept(TRUE, gathered, next)' /\ Kept(FALSE, outargs, next)'
    <3>1. ASSUME NEW g PROVE Kept(g, <<>>, 1)'
      BY <2>1, <2>7, OrderStays
    <3>2. gathered' = <<>> /\ outargs' = <<>> /\ next' = 1
      BY <1>1, <2>1
    <3>3. Kept(TRUE, <<>>, 1)' /\ Kept(FALSE, <<>>, 1)'
      BY <3>1
    <3> QED
      BY <3>2, <3>3
  <2> QED
    BY <1>1, <2>1, <2>6, <2>8 DEF OptInv, ParsesAsDocumented
<1> QED
  BY <1>4, <1>5

LEMMA EndParseKeepsOptInv == ASSUME OptInv, EndParse PROVE OptInv'
<1>1. /\ stage = "parse" /\ stage' = "store" /\ next > Len(input.args)
      /\ UNCHANGED <<input, templs, next, mem, nonopt, gathered, err, vals>>
      /\ input \in Inputs /\ err = FALSE /\ vals = [i \in 1..input.nvals |-> Old]
      /\ ParseInv /\ Kept(TRUE, gathered, next) /\ Kept(FALSE, outargs, next)
  BY DEF EndParse, OptInv
<1>2. CallOk
  BY <1>1, CallIsOk
<1>3. next = Len(input.args) + 1
  <2>1. next \in 1..(Len(input.args) + 1) /\ Len(input.args) \in Nat
    BY <1>1, <1>2 DEF ParseInv, CallOk
  <2> QED
    BY <1>1, <2>1
<1>4. Filed(outargs')
  <2>1. PICK drop \in BOOLEAN :
          /\ drop => Trailing
          /\ outargs' = gathered \o IF drop THEN SubSeq(outargs, 1, Len(outargs) - 1) ELSE outargs
    BY DEF EndParse
  <2>2. Kept(TRUE, gathered, Len(input.args) + 1) /\ Kept(FALSE, outargs, Len(input.args) + 1)
    BY <1>1, <1>3
  <2>3. Rest(outargs) /\ (Trailing => Rest(SubSeq(outargs, 1, Len(outargs) - 1)))
    BY <1>2, <2>2, KeptIsRest DEF Trailing
  <2>4. CASE drop
    BY <1>2, <2>1, <2>2, <2>3, <2>4, RestIsFiled
  <2>5. CASE ~drop
    BY <1>2, <2>1, <2>2, <2>3, <2>5, RestIsFiled
  <2> QED
    BY <2>1, <2>4, <2>5
<1>5. Filed(outargs)'
  BY <1>1, <1>4, OrderStays
<1>6. ParseInv'
  <2>1. /\ fmt' = fmt /\ Opts' = Opts /\ \A o : For(o)' = For(o)
        /\ \A o, n : ValueFor(o, n)' = ValueFor(o, n)
    BY <1>1, InputStays DEF Unmoved
  <2>2. IsMem(mem)'
    BY <1>1, <2>1 DEF IsMem, ParseInv
  <2>3. ASSUME NEW i \in Opts PROVE Holds(i, next)'
    <3>1. \A x : HasValue(i, x)' <=> HasValue(i, x)
      BY <1>1, <2>1 DEF HasValue
    <3>2. Holds(i, next)
      BY <1>1 DEF ParseInv
    <3> QED
      BY <1>1, <2>1, <3>1, <3>2 DEF Holds
  <2> QED
    BY <1>1, <2>1, <2>2, <2>3 DEF ParseInv
<1> QED
  BY <1>1, <1>3, <1>5, <1>6 DEF OptInv, ParsesAsDocumented

LEMMA StoreKeepsOptInv == ASSUME OptInv, Store PROVE OptInv'
<1>1. /\ stage = "store" /\ stage' = "done"
      /\ UNCHANGED <<input, templs, next, mem, nonopt, gathered, err>>
      /\ input \in Inputs /\ err = FALSE /\ vals = [i \in 1..input.nvals |-> Old]
      /\ ParseInv /\ next = Len(input.args) + 1 /\ Filed(outargs)
  BY DEF Store, OptInv
<1>2. CallOk
  BY <1>1, CallIsOk
<1>3. ~ErrorExpected
  <2>1. Len(fmt) \in Nat /\ input.nvals \in Nat /\ Len(input.args) \in Nat /\ DOMAIN input.args = 1..Len(input.args)
    BY <1>2 DEF CallOk
  <2>2. ASSUME NEW o, NEW n \in For(o) PROVE n < next
    <3>1. For(o) \in SUBSET (1..Len(input.args))
      BY <1>2, ForIs
    <3> QED
      BY <1>1, <2>1, <3>1
  <2> QED
    BY <1>1, <2>1, <2>2 DEF ErrorExpected, ParseInv
<1>4. InOrder(outargs')
  BY <1>1, <1>2, FiledIsLeft DEF Store
<1>5. ASSUME NEW i \in Opts PROVE vals'[i] = Expected(fmt[i])
  <2>1. Holds(i, next) /\ TemplOf(fmt[i], Templ(fmt[i]))
    BY <1>1, AllowedIs DEF ParseInv
  <2>2. ValueAt(i) = Expected(fmt[i])
    BY <1>1, <1>2, <2>1, ValuesAreExpected
  <2>3. i \in DOMAIN vals
    BY <1>1, <1>2 DEF ParseInv, CallOk
  <2> QED
    BY <2>2, <2>3 DEF Store
<1>6. ParsesAsDocumented'
  <2>1. fmt' = fmt /\ Opts' = Opts /\ (\A o : Expected(o)' = Expected(o)) /\ ~ErrorExpected'
    BY <1>1, <1>3, InputStays DEF Unmoved
  <2>2. LeftInOrder'
    <3>1. InOrder(outargs)'
      BY <1>1, <1>4, OrderStays
    <3> QED
      BY <3>1 DEF InOrder, LeftInOrder
  <2>3. err' = ErrorExpected' /\ ~err'
    <3>1. ErrorExpected' \in BOOLEAN
      BY DEF ErrorExpected
    <3> QED
      BY <1>1, <2>1, <3>1
  <2>4. \A i \in Opts' : vals'[i] = Expected(fmt[i])'
    BY <1>5, <2>1
  <2> QED
    BY <2>2, <2>3, <2>4 DEF ParsesAsDocumented
<1> QED
  BY <1>1, <1>6 DEF OptInv

\* The argument that is parsed: is it for an option, and for which.
IsOpt == input.args[next].k \in {"opt", "o"} /\ ~nonopt
Found == IF IsOpt THEN Matching(input.args[next]) ELSE {}

LEMMA ForOptions ==
    ASSUME CallOk, ParseInv, next <= Len(input.args)
    PROVE  /\ IsOpt <=> next \in Before /\ input.args[next].k \in {"opt", "o"}
           /\ Found = {i \in Opts : next \in For(fmt[i])}
<1>1. next \in 1..Len(input.args) /\ Len(input.args) \in Nat /\ DOMAIN input.args = 1..Len(input.args)
  BY DEF CallOk, ParseInv
<1>2. IsOpt <=> next \in Before /\ input.args[next].k \in {"opt", "o"}
  <2>1. nonopt <=> \E n \in 1..(next - 1) : input.args[n].k = "--"
    BY DEF ParseInv
  <2>2. next \in Before <=> \A p \in 1..next : input.args[p].k # "--"
    BY <1>1 DEF Before
  <2>3. CASE input.args[next].k \in {"opt", "o"}
    <3>1. ASSUME next \in Before PROVE ~nonopt
      <4> SUFFICES ASSUME NEW n \in 1..(next - 1), input.args[n].k = "--" PROVE FALSE
        BY <2>1
      <4>1. n \in 1..next
        BY <1>1
      <4> QED
        BY <2>2, <3>1, <4>1
    <3>2. ASSUME ~nonopt PROVE next \in Before
      <4> SUFFICES ASSUME NEW p \in 1..next PROVE input.args[p].k # "--"
        BY <2>2
      <4>1. CASE p = next
        BY <2>3, <4>1
      <4>2. CASE p # next
        <5>1. p \in 1..(next - 1)
          BY <1>1, <4>2
        <5> QED
          BY <2>1, <3>2, <5>1
      <4> QED
        BY <4>1, <4>2
    <3> QED
      BY <2>3, <3>1, <3>2 DEF IsOpt
  <2> QED
    BY <2>3 DEF IsOpt
<1>3. ASSUME NEW i \in Opts, IsOpt PROVE i \in Matching(input.args[next]) <=> next \in For(fmt[i])
  <2>1. TemplOf(fmt[i], templs[i])
    BY AllowedIs DEF ParseInv
  <2>2. templs[i] = Bare <=> fmt[i].type = "bool" /\ fmt[i].syntax = ""
    BY <2>1, TemplFacts
  <2>3. next \in For(fmt[i]) <=>
          /\ input.args[next].name = fmt[i].name
          /\ (input.args[next].text # NoText) = (fmt[i].type # "bool" \/ fmt[i].syntax # "")
    BY <1>2, <1>3 DEF For
  <2>4. i \in Matching(input.args[next]) <=>
          /\ input.args[next].name = fmt[i].name
          /\ (input.args[next].text = NoText) = (templs[i] = Bare)
    BY DEF Matching, Matches
  <2> QED
    BY <2>2, <2>3, <2>4
<1>4. ASSUME ~IsOpt, NEW i \in Opts PROVE next \notin For(fmt[i])
  BY <1>2, <1>4 DEF For
<1>5. Found = {i \in Opts : next \in For(fmt[i])}
  <2>1. CASE IsOpt
    <3>1. Found = Matching(input.args[next]) /\ Matching(input.args[next]) \subseteq Opts
      BY <2>1 DEF Found, Matching
    <3> QED
      BY <1>3, <2>1, <3>1
  <2>2. CASE ~IsOpt
    <3>1. Found = {}
      BY <2>2 DEF Found
    <3> QED
      BY <1>4, <2>2, <3>1
  <2> QED
    BY <2>1, <2>2
<1> QED
  BY <1>2, <1>5

\* A bad parameter is one that the documentation calls bad.
LEMMA BadIsBad ==
    ASSUME CallOk, ParseInv, next <= Len(input.args), IsOpt
    PROVE  BadParam(input.args[next]) <=>
             \E i \in Found : Reads(fmt[i]) /\ Scan[input.args[next].text][Verb(fmt[i])] = Fail
<1>1. Found = Matching(input.args[next]) /\ Found \subseteq Opts
  BY DEF Found, Matching
<1>2. ASSUME NEW i \in Found
      PROVE  (templs[i][1] = "scanf" <=> Reads(fmt[i])) /\ (Reads(fmt[i]) => templs[i][3] = Verb(fmt[i]))
  <2>1. TemplOf(fmt[i], templs[i])
    BY <1>1, AllowedIs DEF ParseInv
  <2> QED
    BY <2>1, TemplFacts
<1> QED
  BY <1>1, <1>2 DEF BadParam

LEMMA ValuesAreInts ==
    ASSUME CallOk, ParseInv, next <= Len(input.args), IsOpt, ~BadParam(input.args[next]), NEW i \in Found
    PROVE  TemplOf(fmt[i], templs[i]) /\ ValueFor(fmt[i], next) \in Int
<1> DEFINE arg == input.args[next]
<1>1. i \in Opts /\ Matches(i, arg) /\ next \in Int /\ next \in DOMAIN input.args
  BY DEF Found, Matching, ParseInv, CallOk
<1>2. TemplOf(fmt[i], templs[i])
  BY <1>1, AllowedIs DEF ParseInv
<1>3. CASE ~Reads(fmt[i])
  BY <1>1, <1>2, <1>3 DEF ValueFor
<1>4. CASE Reads(fmt[i])
  <2>1. Verb(fmt[i]) \in Verbs /\ templs[i][1] = "scanf"
    BY <1>2, <1>4, TemplFacts
  <2>2. templs[i] # Bare
    BY <2>1, TemplatesDiffer
  <2>3. arg.text # NoText
    BY <1>1, <2>2 DEF Matches
  <2>4. IsArg(arg) /\ arg.k \in {"opt", "o"}
    BY <1>1 DEF CallOk, IsOpt
  <2>5. arg # Dashes
    BY <2>4 DEF Dashes
  <2>6. Scan[arg.text][Verb(fmt[i])] \in Int \cup {Fail}
    BY <2>1, <2>3, <2>4, <2>5 DEF IsArg
  <2>7. Scan[arg.text][Verb(fmt[i])] # Fail
    BY <1>4, BadIsBad
  <2>8. ValueFor(fmt[i], next) = Scan[arg.text][Verb(fmt[i])]
    BY <1>4 DEF ValueFor
  <2> QED
    BY <1>2, <2>6, <2>7, <2>8
<1> QED
  BY <1>2, <1>3, <1>4

\* Of a set of arguments, the last before z and before z + 1.
LastOf(S, n, z) == n \in S /\ n < z /\ \A p \in S : p < z => p <= n

LEMMA LastMoves ==
    ASSUME NEW S \in SUBSET Int, NEW z \in Int
    PROVE  /\ z \in S => LastOf(S, z, z + 1)
           /\ z \notin S => \A n : LastOf(S, n, z) => LastOf(S, n, z + 1)
           /\ z \notin S /\ (\A n \in S : n >= z) => \A n \in S : n >= z + 1
<1>1. ASSUME z \in S PROVE LastOf(S, z, z + 1)
  <2>1. ASSUME NEW p \in S, p < z + 1 PROVE p <= z
    BY <2>1
  <2> QED
    BY <1>1, <2>1 DEF LastOf
<1>2. ASSUME z \notin S, NEW n, LastOf(S, n, z) PROVE LastOf(S, n, z + 1)
  <2>1. n \in S /\ n < z /\ \A p \in S : p < z => p <= n
    BY <1>2 DEF LastOf
  <2>2. ASSUME NEW p \in S, p < z + 1 PROVE p <= n
    <3>1. p < z
      BY <1>2, <2>2
    <3> QED
      BY <2>1, <3>1
  <2>3. n < z + 1
    BY <2>1
  <2> QED
    BY <2>1, <2>2, <2>3 DEF LastOf
<1>3. ASSUME z \notin S, \A n \in S : n >= z, NEW n \in S PROVE n >= z + 1
  BY <1>3
<1> QED
  BY <1>1, <1>2, <1>3

LEMMA HoldsIs ==
    ASSUME NEW i, NEW z
    PROVE  Holds(i, z) <=>
             \/ (\A n \in For(fmt[i]) : n >= z) /\ HasValue(i, 0)
             \/ \E n : /\ LastOf(For(fmt[i]), n, z)
                       /\ ValueFor(fmt[i], n) \in Int /\ HasValue(i, ValueFor(fmt[i], n))
BY DEF Holds, LastOf

LEMMA HoldsMore ==
    ASSUME CallOk, ParseInv, next <= Len(input.args), input' = input,
           Applied(mem', Found, next, Len(fmt)), \A i \in Found : ValueFor(fmt[i], next) \in Int,
           NEW i \in Opts, NEW z, z = next
    PROVE  Holds(i, z + 1)'
<1> DEFINE S == For(fmt[i])
<1>1. fmt' = fmt /\ Opts' = Opts /\ For(fmt[i])' = S /\ \A o, n : ValueFor(o, n)' = ValueFor(o, n)
  BY InputStays DEF Unmoved
<1>2. S \in SUBSET Int /\ next \in Int /\ i \in 1..Len(fmt) /\ Len(fmt) \in Nat
  BY ForIs DEF ParseInv, CallOk
<1>3. (i \in Found <=> next \in S)
  BY ForOptions
<1>4. Stores(fmt[i]) \in 1..8
  <2>1. TemplOf(fmt[i], Templ(fmt[i]))
    BY AllowedIs DEF ParseInv
  <2> QED
    BY <2>1, TemplFacts, WidthsFit
<1>5. ASSUME NEW b \in 0..(Stores(fmt[i]) - 1)
      PROVE  mem'[SlotOf(i) + b] = IF i \in Found THEN ByteOf(ValueFor(fmt[i], next), b) ELSE mem[SlotOf(i) + b]
  <2>1. b \in 0..7 /\ b < Stores(fmt[i]) /\ i <= Len(fmt)
    BY <1>2, <1>4
  <2> QED
    BY <1>2, <2>1 DEF Applied
<1>6. (SlotOf(i) = SlotOf(i)') /\ Stores(fmt[i])' = Stores(fmt[i])
  BY <1>1 DEF SlotOf
<1>7. z = next /\ z \in Int
  BY <1>2
<1>8. CASE i \in Found
  <2>1. PICK x : x = ValueFor(fmt[i], next) /\ x \in Int
    BY <1>8
  <2>2. HasValue(i, x)'
    BY <1>1, <1>5, <1>8, <2>1 DEF HasValue
  <2>3. LastOf(S, z, z + 1)
    BY <1>2, <1>3, <1>7, <1>8, LastMoves
  <2>4. z \in S /\ z < z + 1 /\ \A p \in S : p < z + 1 => p <= z
    BY <2>3 DEF LastOf
  <2> HIDE DEF S
  <2>5. ValueFor(fmt[i], z)' = x
    BY <1>1, <1>7, <2>1
  <2>6. \E n \in For(fmt[i])' :
          /\ n < z + 1 /\ \A p \in For(fmt[i])' : p < z + 1 => p <= n
          /\ ValueFor(fmt[i], n)' \in Int /\ HasValue(i, ValueFor(fmt[i], n))'
    <3>1. z \in For(fmt[i])' /\ \A p \in For(fmt[i])' : p < z + 1 => p <= z
      BY <1>1, <2>4
    <3>2. ValueFor(fmt[i], z)' \in Int /\ HasValue(i, ValueFor(fmt[i], z))'
      BY <2>1, <2>2, <2>5
    <3> QED
      BY <2>4, <3>1, <3>2
  <2> QED
    BY <2>6 DEF Holds
<1>9. CASE i \notin Found
  <2>1. \A x : HasValue(i, x)' <=> HasValue(i, x)
    BY <1>1, <1>5, <1>9 DEF HasValue
  <2>2. Holds(i, z)
    BY <1>7 DEF ParseInv
  <2>3. Holds(i, z + 1)
    <3>1. z \notin S
      BY <1>3, <1>7, <1>9
    <3>2. CASE (\A n \in S : n >= z) /\ HasValue(i, 0)
      <4>1. \A n \in S : n >= z + 1
        BY <1>2, <1>7, <3>1, <3>2, LastMoves
      <4> QED
        BY <3>2, <4>1, HoldsIs
    <3>3. ASSUME NEW n, LastOf(S, n, z), ValueFor(fmt[i], n) \in Int, HasValue(i, ValueFor(fmt[i], n))
          PROVE  Holds(i, z + 1)
      <4>1. LastOf(S, n, z + 1)
        BY <1>2, <1>7, <3>1, <3>3, LastMoves
      <4> QED
        BY <3>3, <4>1, HoldsIs
    <3> QED
      BY <2>2, <3>2, <3>3, HoldsIs
  <2> HIDE DEF S
  <2> QED
    BY <1>1, <2>1, <2>3 DEF Holds, S
<1> QED
  BY <1>8, <1>9

LEMMA ParseArgKeepsOptInv == ASSUME OptInv, ParseArg PROVE OptInv'
<1> DEFINE arg == input.args[next]
<1>1. /\ stage = "parse" /\ next <= Len(input.args)
      /\ input \in Inputs /\ err = FALSE /\ vals = [i \in 1..input.nvals |-> Old]
      /\ ParseInv /\ Kept(TRUE, gathered, next) /\ Kept(FALSE, outargs, next)
  BY DEF ParseArg, OptInv
<1>2. CallOk
  BY <1>1, CallIsOk
<1>3. /\ next \in 1..Len(input.args) /\ Len(fmt) \in Nat /\ Opts = 1..Len(fmt) /\ Len(input.args) \in Nat
      /\ DOMAIN input.args = 1..Len(input.args)
  BY <1>1, <1>2 DEF ParseInv, CallOk
<1>4. CASE IsOpt /\ BadParam(arg)
  <2>1. Refuse
    BY <1>4 DEF ParseArg, IsOpt
  <2>2. ErrorExpected
    <3>1. PICK i \in Found : Reads(fmt[i]) /\ Scan[arg.text][Verb(fmt[i])] = Fail
      BY <1>1, <1>2, <1>4, BadIsBad
    <3>2. i \in Opts /\ next \in For(fmt[i])
      BY <1>1, <1>2, ForOptions
    <3> QED
      BY <3>1, <3>2 DEF ErrorExpected
  <2> QED
    BY <1>1, <2>1, <2>2, RefuseKeepsOptInv
<1>5. CASE ~(IsOpt /\ BadParam(arg))
  <2>1. /\ next' = next + 1
        /\ mem' = Written(Found, next)
        /\ LET keep == IF IsOpt THEN Found = {} /\ ~nonopts ELSE TRUE IN
           /\ gathered' = IF keep /\ IsOpt /\ arg.k = "o" THEN Append(gathered, arg) ELSE gathered
           /\ outargs' = IF keep /\ ~(IsOpt /\ arg.k = "o") THEN Append(outargs, arg) ELSE outargs
        /\ nonopt' = (nonopt \/ arg.k = "--")
        /\ UNCHANGED <<input, stage, templs, err, vals>>
    BY <1>5 DEF ParseArg, IsOpt, Found
  <2>2. /\ fmt' = fmt /\ Opts' = Opts /\ \A o : For(o)' = For(o)
    BY <2>1, InputStays DEF Unmoved
  <2>3. Found = {i \in Opts : next \in For(fmt[i])} /\ (IsOpt <=> next \in Before /\ arg.k \in {"opt", "o"})
    BY <1>1, <1>2, ForOptions
  <2>4. ASSUME NEW i \in Found PROVE TemplOf(fmt[i], templs[i]) /\ ValueFor(fmt[i], next) \in Int
    <3>1. IsOpt /\ ~BadParam(arg)
      BY <1>5, <2>4 DEF Found
    <3> QED
      BY <1>1, <1>2, <3>1, ValuesAreInts
  <2>5. Applied(mem', Found, next, Len(fmt))
    <3>1. IsMem(mem) /\ Found \in SUBSET (1..Len(fmt))
      BY <1>1, <1>3, <2>3 DEF ParseInv
    <3> QED
      BY <1>3, <2>1, <2>4, <3>1, WrittenIs
  <2>6. PICK z : z = next
    OBVIOUS
  <2>7. ASSUME NEW i \in Opts PROVE Holds(i, next)'
    <3>1. Holds(i, z + 1)'
      BY <1>1, <1>2, <2>1, <2>4, <2>5, <2>6, HoldsMore
    <3> QED
      BY <2>1, <2>6, <3>1
  <2>8. IsMem(mem)'
    BY <2>2, <2>5 DEF Applied, IsMem
  <2>9. ASSUME NEW i \in Opts, NEW n \in For(fmt[i]), n < next + 1, Reads(fmt[i])
        PROVE  Scan[input.args[n].text][Verb(fmt[i])] # Fail
    <3>1. CASE n = next
      <4>1. i \in Found
        BY <2>3, <2>9, <3>1
      <4>2. IsOpt /\ ~BadParam(arg)
        BY <1>5, <4>1 DEF Found
      <4> QED
        BY <1>1, <1>2, <2>9, <3>1, <4>1, <4>2, BadIsBad
    <3>2. CASE n # next
      <4>1. For(fmt[i]) \in SUBSET (1..Len(input.args))
        BY <1>2, ForIs
      <4>2. n < next
        BY <1>3, <2>9, <3>2, <4>1
      <4> QED
        BY <1>1, <2>9, <4>2 DEF ParseInv
    <3> QED
      BY <3>1, <3>2
  <2>10. (nonopt \in BOOLEAN /\ (nonopt <=> \E n \in 1..(next - 1) : input.args[n].k = "--"))'
    <3>1. nonopt \in BOOLEAN /\ (nonopt <=> \E n \in 1..(next - 1) : input.args[n].k = "--")
      BY <1>1 DEF ParseInv
    <3>2. 1..((next + 1) - 1) = 1..(next - 1) \cup {next}
      BY <1>3
    <3>3. nonopt' \in BOOLEAN /\ (nonopt' <=> nonopt \/ arg.k = "--")
      BY <2>1, <3>1
    <3>4. nonopt' <=> \E n \in 1..((next + 1) - 1) : input.args[n].k = "--"
      BY <3>1, <3>2, <3>3
    <3> QED
      BY <2>1, <3>3, <3>4
  <2>11. ParseInv'
    <3>1. (Len(fmt) <= input.nvals)' /\ (\A i \in Opts : Allowed(fmt[i]))'
          /\ (templs = [i \in Opts |-> Templ(fmt[i])])'
      BY <1>1, <2>1, <2>2 DEF ParseInv
    <3>2. (next \in 1..(Len(input.args) + 1))'
      BY <1>3, <2>1
    <3>3. (\A i \in Opts : Holds(i, next))'
      BY <2>2, <2>7
    <3>4. (\A i \in Opts : \A n \in For(fmt[i]) :
             n < next /\ Reads(fmt[i]) => Scan[input.args[n].text][Verb(fmt[i])] # Fail)'
      BY <2>1, <2>2, <2>9
    <3> QED
      BY <2>8, <2>10, <3>1, <3>2, <3>3, <3>4 DEF ParseInv
  <2>12. Kept(TRUE, gathered', z + 1) /\ Kept(FALSE, outargs', z + 1)
    <3>1. Found = {} <=> ~ \E i \in Opts : next \in For(fmt[i])
      BY <2>3
    <3>2. Left(next) <=> IF IsOpt THEN Found = {} /\ ~nonopts ELSE TRUE
      BY <2>3, <3>1 DEF Left
    <3>3. Listed(next) <=> IsOpt /\ arg.k = "o"
      BY <2>3 DEF Listed
    <3>4. gathered' = IF LeftOf(TRUE, z) THEN Append(gathered, input.args[z]) ELSE gathered
      BY <2>1, <2>6, <3>2, <3>3 DEF LeftOf
    <3>5. outargs' = IF LeftOf(FALSE, z) THEN Append(outargs, input.args[z]) ELSE outargs
      BY <2>1, <2>6, <3>2, <3>3 DEF LeftOf
    <3>6. z \in 1..Len(input.args) /\ Kept(TRUE, gathered, z) /\ Kept(FALSE, outargs, z)
      BY <1>1, <1>3, <2>6
    <3>7. /\ Kept(TRUE, IF LeftOf(TRUE, z) THEN Append(gathered, input.args[z]) ELSE gathered, z + 1)
          /\ Kept(FALSE, IF LeftOf(FALSE, z) THEN Append(outargs, input.args[z]) ELSE outargs, z + 1)
      BY <1>2, <3>6, KeptMore
    <3> QED
      BY ONLY <3>4, <3>5, <3>7
  <2>13. Kept(TRUE, gathered, next)' /\ Kept(FALSE, outargs, next)'
    <3>1. PICK front, outs : front = gathered' /\ outs = outargs'
      OBVIOUS
    <3>2. Kept(TRUE, front, z + 1)' /\ Kept(FALSE, outs, z + 1)'
      BY <2>1, <2>12, <3>1, OrderStays
    <3> QED
      BY <2>1, <2>6, <3>1, <3>2
  <2> QED
    BY <1>1, <2>1, <2>11, <2>13 DEF OptInv, ParsesAsDocumented
<1> QED
  BY <1>4, <1>5

LEMMA StutterKeepsOptInv == ASSUME OptInv, UNCHANGED optVars PROVE OptInv'
<1>1. UNCHANGED <<input, stage, templs, next, mem, nonopt, gathered, outargs, err, vals>>
  BY DEF optVars
<1>2. /\ fmt' = fmt /\ Opts' = Opts /\ (ErrorExpected' <=> ErrorExpected)
      /\ \A o : For(o)' = For(o) /\ Expected(o)' = Expected(o)
      /\ \A o, n : ValueFor(o, n)' = ValueFor(o, n)
  BY <1>1, InputStays DEF Unmoved
<1>3. ParseInv' <=> ParseInv
  <2>1. IsMem(mem)' <=> IsMem(mem)
    BY <1>1, <1>2 DEF IsMem
  <2>2. ASSUME NEW i PROVE Holds(i, next)' <=> Holds(i, next)
    <3>1. \A x : HasValue(i, x)' <=> HasValue(i, x)
      BY <1>1, <1>2 DEF HasValue
    <3> QED
      BY <1>1, <1>2, <3>1 DEF Holds
  <2> QED
    BY <1>1, <1>2, <2>1, <2>2 DEF ParseInv
<1>4. /\ Kept(TRUE, gathered, next)' <=> Kept(TRUE, gathered, next)
      /\ Kept(FALSE, outargs, next)' <=> Kept(FALSE, outargs, next)
      /\ Filed(outargs)' <=> Filed(outargs)
      /\ LeftInOrder' <=> LeftInOrder
  <2>1. PICK front, outs, z : front = gathered /\ outs = outargs /\ z = next
    OBVIOUS
  <2>2. /\ Kept(TRUE, front, z)' <=> Kept(TRUE, front, z)
        /\ Kept(FALSE, outs, z)' <=> Kept(FALSE, outs, z)
        /\ Filed(outs)' <=> Filed(outs)
        /\ InOrder(outs)' <=> InOrder(outs)
    BY <1>1, OrderStays
  <2>3. InOrder(outargs)' <=> InOrder(outargs)
    BY <1>1, <2>1, <2>2
  <2> QED
    BY <1>1, <2>1, <2>2, <2>3 DEF InOrder, LeftInOrder
<1>5. ParsesAsDocumented' <=> ParsesAsDocumented
  <2>1. err' = ErrorExpected' <=> err = ErrorExpected
    <3>1. ErrorExpected' = ErrorExpected
      BY <1>2 DEF ErrorExpected
    <3> QED
      BY <1>1, <3>1
  <2> QED
    BY <1>1, <1>2, <1>4, <2>1 DEF ParsesAsDocumented
<1> QED
  BY <1>1, <1>3, <1>4, <1>5 DEF OptInv

\* For any format, arguments and values, and for any sscanf: OptParse reports an
\* error exactly when the documentation asks for one, and has then changed
\* nothing and returned nothing; otherwise every value is that of the last
\* argument for its option, in the width and sign of its type, and what no option
\* takes is left: the options of -o at the front and all else behind them, each
\* in its order (opt.go:22-270, opt_test.go:51-77).
THEOREM ArgumentsParseAsDocumented == OptSpec => []ParsesAsDocumented
<1>1. OptInit => OptInv
  BY DEF OptInit, OptInv, ParsesAsDocumented
<1>2. OptInv /\ [OptNext]_optVars => OptInv'
  BY AskedKeepsOptInv, NormaliseKeepsOptInv, ParseArgKeepsOptInv, EndParseKeepsOptInv,
     StoreKeepsOptInv, StutterKeepsOptInv DEF OptNext
<1>3. OptInv => ParsesAsDocumented
  BY DEF OptInv
<1> QED
  BY <1>1, <1>2, <1>3, PTL DEF OptSpec

-----------------------------------------------------------------------------
(* UNIX *)

\* Who is past Lock holds the mutex, and past Check found no module.
MutexInv ==
    \A t \in Threads :
        /\ pc[t] \in {"check", "open", "sym", "publish", "unlock"} => mutex = t
        /\ pc[t] \in {"open", "sym", "publish"} => module = NoLib

\* The symbols before k are resolved in the library that was opened.
ResolveInv ==
    \A t \in Threads :
        /\ pc[t] = "sym" => h[t] # NoLib /\ \A i \in 1..(k[t] - 1) : pfn[i] = h[t]
        /\ pc[t] = "publish" /\ h[t] # NoLib => \A i \in Syms : pfn[i] = h[t]

LoaderInv == TypeOK /\ MutexInv /\ ResolveInv /\ PublishedLibraryIsWhole /\ CallersHaveALibrary

LEMMA LoaderTypeStep == ASSUME TypeOK, [Next]_vars PROVE TypeOK'
<1> USE LoaderAssumption DEF TypeOK, Goto, Call, Syms, MaybeLib, PCs
<1>1. ASSUME NEW t \in Threads, NEW p \in Paths \cup {NoPath}, CallMount(t, p)
      PROVE TypeOK'
    BY <1>1 DEF CallMount
<1>2. ASSUME NEW t \in Threads, CallOptParse(t) PROVE TypeOK' BY <1>2 DEF CallOptParse
<1>3. ASSUME NEW t \in Threads, SetPathFree(t) PROVE TypeOK' BY <1>3 DEF SetPathFree
<1>4. ASSUME NEW t \in Threads, SetPathStore(t) PROVE TypeOK' BY <1>4 DEF SetPathStore
<1>5. ASSUME NEW t \in Threads, InitFast(t) PROVE TypeOK' BY <1>5 DEF InitFast
<1>6. ASSUME NEW t \in Threads, Lock(t) PROVE TypeOK' BY <1>6 DEF Lock
<1>7. ASSUME NEW t \in Threads, Check(t) PROVE TypeOK' BY <1>7 DEF Check
<1>8. ASSUME NEW t \in Threads, Open(t) PROVE TypeOK' BY <1>8 DEF Open, Opened
<1>9. ASSUME NEW t \in Threads, GetApi(t) PROVE TypeOK'
  <2>1. h[t] \in MaybeLib /\ k[t] \in Syms OBVIOUS
  <2>2. pfn' \in [Syms -> MaybeLib] /\ h' \in [Threads -> MaybeLib]
    BY <1>9, <2>1 DEF GetApi
  <2>3. pc' \in [Threads -> PCs]
    <3>1. pc' = [pc EXCEPT ![t] = "sym"] \/ pc' = [pc EXCEPT ![t] = "publish"]
      BY ONLY <1>9, Zenon DEF GetApi, Goto
    <3> QED BY <3>1
  <2>4. k' \in [Threads -> Syms]
    <3>1. CASE UNCHANGED k BY <3>1
    <3>2. CASE k[t] < NSyms /\ k' = [k EXCEPT ![t] = @ + 1]
      <4>1. k[t] + 1 \in Syms BY <2>1, <3>2
      <4> QED BY <3>2, <4>1
    <3> QED BY <1>9, <3>1, <3>2 DEF GetApi
  <2> QED BY <1>9, <2>2, <2>3, <2>4 DEF GetApi
<1>10. ASSUME NEW t \in Threads, Publish(t) PROVE TypeOK' BY <1>10 DEF Publish
<1>11. ASSUME NEW t \in Threads, Unlock(t) PROVE TypeOK' BY <1>11 DEF Unlock
<1>12. ASSUME NEW t \in Threads, Return(t) PROVE TypeOK' BY <1>12 DEF Return
<1>13. CASE UNCHANGED vars BY <1>13 DEF vars
<1> QED
    BY <1>1, <1>2, <1>3, <1>4, <1>5, <1>6, <1>7, <1>8, <1>9, <1>10, <1>11, <1>12,
       <1>13
    DEF Next, Work

\* The mutex separates the loads, so each one finds no module and writes the
\* pointers alone; what it publishes is whole.
LEMMA LoaderInvStep == ASSUME LoaderInv, [Next]_vars PROVE LoaderInv'
<1> USE LoaderAssumption
    DEF LoaderInv, TypeOK, MutexInv, ResolveInv, PublishedLibraryIsWhole, CallersHaveALibrary,
        Goto, Syms, MaybeLib
<1>0. TypeOK' BY LoaderTypeStep
<1>1. ASSUME NEW t \in Threads, NEW p \in Paths \cup {NoPath}, CallMount(t, p)
      PROVE LoaderInv'
    BY <1>0, <1>1 DEF CallMount
<1>2. ASSUME NEW t \in Threads, CallOptParse(t) PROVE LoaderInv'
    BY <1>0, <1>2 DEF CallOptParse
<1>3. ASSUME NEW t \in Threads, SetPathFree(t) \/ SetPathStore(t) PROVE LoaderInv'
    BY <1>0, <1>3 DEF SetPathFree, SetPathStore
<1>4. ASSUME NEW t \in Threads, InitFast(t) PROVE LoaderInv' BY <1>0, <1>4 DEF InitFast
<1>5. ASSUME NEW t \in Threads, Lock(t) PROVE LoaderInv' BY <1>0, <1>5 DEF Lock
<1>6. ASSUME NEW t \in Threads, Check(t) PROVE LoaderInv' BY <1>0, <1>6 DEF Check
<1>7. ASSUME NEW t \in Threads, Open(t) PROVE LoaderInv' BY <1>0, <1>7 DEF Open, Opened
<1>8. ASSUME NEW t \in Threads, GetApi(t) PROVE LoaderInv'
  <2>1. MutexInv' BY <1>8 DEF GetApi
  <2>2. ResolveInv' BY <1>8, <1>0, <2>1 DEF GetApi
  <2>3. PublishedLibraryIsWhole' /\ CallersHaveALibrary' BY <1>8 DEF GetApi
  <2> QED BY <1>0, <2>1, <2>2, <2>3
<1>9. ASSUME NEW t \in Threads, Publish(t) PROVE LoaderInv' BY <1>0, <1>9 DEF Publish
<1>10. ASSUME NEW t \in Threads, Unlock(t) PROVE LoaderInv' BY <1>0, <1>10 DEF Unlock
<1>11. ASSUME NEW t \in Threads, Return(t) PROVE LoaderInv' BY <1>0, <1>11 DEF Return
<1>12. CASE UNCHANGED vars BY <1>0, <1>12 DEF vars
<1> QED
    BY <1>1, <1>2, <1>3, <1>4, <1>5, <1>6, <1>7, <1>8, <1>9, <1>10, <1>11, <1>12
    DEF Next, Work

LEMMA InitLoaderInv == Init => LoaderInv
<1> SUFFICES ASSUME Init PROVE LoaderInv OBVIOUS
<1> USE LoaderAssumption DEF Init
<1>1. 1 \in Syms BY DEF Syms
<1>2. TypeOK BY <1>1 DEF TypeOK, MaybeLib, PCs
<1>3. MutexInv /\ ResolveInv BY DEF MutexInv, ResolveInv
<1>4. PublishedLibraryIsWhole BY DEF PublishedLibraryIsWhole
<1>5. CallersHaveALibrary BY DEF CallersHaveALibrary
<1> QED BY <1>2, <1>3, <1>4, <1>5 DEF LoaderInv

\* A visible library is resolved completely, from one library, and whoever
\* calls has one (cgofuse_cgo.h:70-94, 127-152, 223-230).
THEOREM LoaderSafety == Spec => [](PublishedLibraryIsWhole /\ CallersHaveALibrary)
<1>1. Spec => []LoaderInv BY InitLoaderInv, LoaderInvStep, PTL DEF Spec
<1>2. LoaderInv => PublishedLibraryIsWhole /\ CallersHaveALibrary BY DEF LoaderInv
<1> QED BY <1>1, <1>2, PTL

\* Once visible, the library and the pointers never change (cgofuse_cgo.h:60-61).
THEOREM LoaderLoadsOnce == Spec => LoadedOnce
<1>1. ASSUME LoaderInv, [Next]_vars, module # NoLib PROVE UNCHANGED <<module, pfn>>
  <2> USE DEF LoaderInv, MutexInv, Goto
  <2>1. ASSUME NEW t \in Threads, Open(t) \/ GetApi(t) \/ Publish(t) PROVE FALSE
    BY <1>1, <2>1 DEF Open, GetApi, Publish, TypeOK, PCs
  <2>2. ASSUME NEW t \in Threads, NEW p \in Paths \cup {NoPath}, CallMount(t, p)
        PROVE UNCHANGED <<module, pfn>>
    BY <2>2 DEF CallMount
  <2>3. ASSUME NEW t \in Threads,
               \/ CallOptParse(t) \/ SetPathFree(t) \/ SetPathStore(t) \/ InitFast(t)
               \/ Lock(t) \/ Check(t) \/ Unlock(t) \/ Return(t)
        PROVE UNCHANGED <<module, pfn>>
    BY <2>3 DEF CallOptParse, SetPathFree, SetPathStore, InitFast, Lock, Check,
                Unlock, Return
  <2>4. CASE UNCHANGED vars BY <2>4 DEF vars
  <2> QED BY <1>1, <2>1, <2>2, <2>3, <2>4 DEF Next, Work
<1>2. Spec => []LoaderInv BY InitLoaderInv, LoaderInvStep, PTL DEF Spec
<1>3. LoaderInv /\ [Next]_vars => [module # NoLib => UNCHANGED <<module, pfn>>]_vars
  BY <1>1
<1> QED BY <1>2, <1>3, PTL DEF LoadedOnce, Spec

-----------------------------------------------------------------------------
(* Windows without cgo.  One invariant, LoadInv, follows the Once: who runs  *)
(* it is alone, and what it has found so far is in place.  The other,        *)
(* TableInv, follows the heap: the blocks of two mounts differ as long as    *)
(* both hold one.                                                            *)

USE NocgoAssumption

NocgoPCs == {"idle", "setpath", "stored", "init", "load", "find", "use", "enter",
        "main", "delete", "free"}

\* Where a thread holds a block, and where the block has an entry.
Holding == {"enter", "main", "delete", "free"}
Entered == {"main", "delete"}

Types ==
    /\ npc \in [Threads -> NocgoPCs]
    /\ nk \in [Threads -> Procs]
    /\ fuseDll \in MaybeLib
    /\ proc \in [Procs -> MaybeLib]
    /\ heap \subseteq Addresses
    /\ hostTable \in [Addresses -> Threads \cup {NoLib}]
    /\ hndl \in [Threads -> Addresses \cup {NoLib}]

LoadInv ==
    /\ \A t \in Threads : npc[t] \in {"load", "find"} => once = t
    /\ \A t \in Threads : npc[t] \in {"use", "enter", "main"} =>
          once = "done" /\ fuseDll # NoLib
    /\ \A t \in Threads : npc[t] = "find" =>
          /\ fuseDll # NoLib
          /\ \A i \in Required : i < nk[t] => proc[i] = fuseDll
    /\ once = "done" /\ fuseDll # NoLib /\ ~panicked =>
          \A i \in Required : proc[i] = fuseDll

TableInv ==
    /\ \A t \in Threads : npc[t] \in Holding => hndl[t] \in heap
    /\ \A s, t \in Threads : s # t /\ npc[s] \in Holding /\ npc[t] \in Holding =>
          hndl[s] # hndl[t]
    /\ \A t \in Threads : npc[t] \in Entered => hostTable[hndl[t]] = t

NocgoInv == Types /\ LoadInv /\ TableInv

-----------------------------------------------------------------------------
LEMMA InitNocgoInv ==
    ASSUME NocgoInit
    PROVE  NocgoInv
<1>1. 1 \in Procs
  BY DEF Procs, Optional
<1>2. Types
  BY <1>1 DEF NocgoInit, Types, NocgoPCs, MaybeLib
<1>3. LoadInv
  BY DEF NocgoInit, LoadInv
<1>4. TableInv
  BY DEF NocgoInit, TableInv, Holding, Entered
<1> QED
  BY <1>2, <1>3, <1>4 DEF NocgoInv

\* What the library is depends neither on the path nor on the handles.
LEMMA PathStepsKeepNocgoInv ==
    ASSUME NocgoInv, NEW t \in Threads,
           (\E p \in Paths \cup {NoPath} : NocgoCall(t, p)) \/ SetPath(t)
    PROVE  NocgoInv'
<1>1. PICK s \in {"setpath", "stored", "init"} :
        npc[t] \in {"idle", "setpath", "stored"} /\ npc' = [npc EXCEPT ![t] = s]
  BY DEF NocgoCall, SetPath, Move
<1>2. UNCHANGED <<nk, fuseDll, proc, once, panicked, heap, hostTable, hndl>>
  BY DEF NocgoCall, SetPath, tblVars, libVars
<1>3. Types'
  BY <1>1, <1>2 DEF NocgoInv, Types, NocgoPCs
<1>4. LoadInv'
  BY <1>1, <1>2 DEF NocgoInv, Types, LoadInv
<1>5. TableInv'
  BY <1>1, <1>2 DEF NocgoInv, Types, TableInv, Holding, Entered
<1> QED
  BY <1>3, <1>4, <1>5 DEF NocgoInv

\* The Once: only a thread that finds it new runs it.
LEMMA FuseInitKeepsNocgoInv ==
    ASSUME NocgoInv, NEW t \in Threads, FuseInit(t)
    PROVE  NocgoInv'
<1>1. PICK s \in {"load", "use", "idle"} : npc[t] = "init" /\ npc' = [npc EXCEPT ![t] = s]
  BY DEF FuseInit, Move
<1>2. UNCHANGED <<nk, fuseDll, proc, panicked, heap, hostTable, hndl>>
  BY DEF FuseInit, tblVars
<1>3. Types'
  BY <1>1, <1>2 DEF NocgoInv, Types, NocgoPCs
<1>4. TableInv'
  BY <1>1, <1>2 DEF NocgoInv, Types, TableInv, Holding, Entered
<1>5. LoadInv'
  <2>1. CASE once = "new" /\ once' = t /\ Move(t, "init", "load")
    BY <1>2, <2>1 DEF NocgoInv, Types, LoadInv, Move
  <2>2. CASE once = "done" /\ once' = once
             /\ Move(t, "init", IF fuseDll # NoLib THEN "use" ELSE "idle")
    BY <1>2, <2>2 DEF NocgoInv, Types, LoadInv, Move
  <2> QED
    BY <2>1, <2>2 DEF FuseInit
<1> QED
  BY <1>3, <1>4, <1>5 DEF NocgoInv

\* While a thread loads the library nobody else is past the Once.
LEMMA LoaderIsAlone ==
    ASSUME NocgoInv, NEW t \in Threads, npc[t] \in {"load", "find"}
    PROVE  /\ once = t /\ t # "done"
           /\ \A s \in Threads \ {t} :
                 npc[s] \notin {"load", "find", "use", "enter", "main"}
BY DEF NocgoInv, LoadInv

LEMMA FsploadKeepsNocgoInv ==
    ASSUME NocgoInv, NEW t \in Threads, Fspload(t)
    PROVE  NocgoInv'
<1>1. PICK p : /\ fuseDll' = Loaded(p)
               /\ once' = IF Loaded(p) = NoLib THEN "done" ELSE once
               /\ Move(t, "load", IF Loaded(p) = NoLib THEN "idle" ELSE "find")
               /\ nk' = [nk EXCEPT ![t] = 1]
               /\ UNCHANGED <<nocgoPath, proc, panicked, tblVars, nlibpath, ncalls>>
  BY DEF Fspload
<1>2. Loaded(p) \in MaybeLib
  BY DEF Loaded
<1>3. npc[t] = "load"
  BY <1>1 DEF Move
<1>4. /\ once = t /\ t # "done"
      /\ \A s \in Threads \ {t} : npc[s] \notin {"load", "find", "use", "enter", "main"}
  BY <1>3, LoaderIsAlone
<1>5. Types'
  <2>1. 1 \in Procs
    BY DEF Procs, Optional
  <2> QED
    BY <1>1, <1>2, <2>1 DEF NocgoInv, Types, NocgoPCs, Move, tblVars
<1>6. TableInv'
  BY <1>1 DEF NocgoInv, Types, TableInv, Holding, Entered, Move, tblVars
<1>7. LoadInv'
  <2>1. CASE Loaded(p) = NoLib
    <3>1. npc' = [npc EXCEPT ![t] = "idle"] /\ fuseDll' = NoLib /\ once' = "done"
      BY <1>1, <2>1 DEF Move
    <3> QED
      BY <1>4, <3>1 DEF NocgoInv, Types, LoadInv
  <2>2. CASE Loaded(p) # NoLib
    <3>1. npc' = [npc EXCEPT ![t] = "find"] /\ fuseDll' # NoLib /\ once' = t /\ nk'[t] = 1
      BY <1>1, <1>4, <2>2 DEF Move, NocgoInv, Types
    <3>2. \A i \in Required : ~(i < 1)
      BY DEF Required
    <3> QED
      BY <1>4, <3>1, <3>2 DEF NocgoInv, Types, LoadInv
  <2> QED
    BY <2>1, <2>2
<1> QED
  BY <1>5, <1>6, <1>7 DEF NocgoInv

\* Each procedure that is found points into the library; a required one that is
\* not ends the function with a panic.
LEMMA FindProcKeepsNocgoInv ==
    ASSUME NocgoInv, NEW t \in Threads, FindProc(t)
    PROVE  NocgoInv'
<1> DEFINE i == nk[t]
           found == i \in ProcsOf[fuseDll]
           fails == i \in Required /\ ~found
           last == fails \/ i = Optional
<1>1. /\ npc[t] = "find"
      /\ npc' = [npc EXCEPT ![t] = IF fails THEN "idle" ELSE IF last THEN "use" ELSE "find"]
      /\ proc' = [proc EXCEPT ![i] = IF found THEN fuseDll ELSE NoLib]
      /\ nk' = [nk EXCEPT ![t] = IF last THEN 1 ELSE @ + 1]
      /\ once' = IF last THEN "done" ELSE once
      /\ panicked' = (panicked \/ fails)
      /\ UNCHANGED <<fuseDll, heap, hostTable, hndl>>
  BY DEF FindProc, Move, tblVars
<1>2. /\ once = t /\ t # "done"
      /\ \A s \in Threads \ {t} : npc[s] \notin {"load", "find", "use", "enter", "main"}
  BY <1>1, LoaderIsAlone
<1>3. i \in Procs /\ NProcs \in Nat \ {0}
  BY DEF NocgoInv, Types
<1>4. fuseDll # NoLib /\ \A j \in Required : j < i => proc[j] = fuseDll
  BY <1>1 DEF NocgoInv, LoadInv
<1>5. Types'
  <2>1. (IF last THEN 1 ELSE i + 1) \in Procs
    BY <1>3 DEF Procs, Optional
  <2>2. fuseDll \in MaybeLib /\ NoLib \in MaybeLib
    BY DEF NocgoInv, Types, MaybeLib
  <2>3. nk' \in [Threads -> Procs]
    BY <1>1, <2>1 DEF NocgoInv, Types
  <2>4. proc' \in [Procs -> MaybeLib]
    BY <1>1, <2>2 DEF NocgoInv, Types
  <2>5. npc' \in [Threads -> NocgoPCs]
    BY <1>1 DEF NocgoInv, Types, NocgoPCs
  <2> QED
    BY <1>1, <2>3, <2>4, <2>5 DEF NocgoInv, Types
<1>6. TableInv'
  BY <1>1 DEF NocgoInv, Types, TableInv, Holding, Entered
<1>7. ~fails => \A j \in Required : j <= i => proc'[j] = fuseDll'
  <2> SUFFICES ASSUME ~fails, NEW j \in Required, j <= i
               PROVE  proc'[j] = fuseDll'
    OBVIOUS
  <2>1. j \in Procs
    BY <1>3 DEF Required, Procs, Optional
  <2>2. CASE j = i
    BY <1>1, <2>1, <2>2 DEF NocgoInv, Types
  <2>3. CASE j # i
    <3>1. j < i
      BY <1>3, <2>1, <2>3 DEF Procs, Optional
    <3> QED
      BY <1>1, <1>4, <2>1, <2>3, <3>1 DEF NocgoInv, Types
  <2> QED
    BY <2>2, <2>3
<1>8. LoadInv'
  <2>1. CASE fails
    <3>1. npc' = [npc EXCEPT ![t] = "idle"] /\ once' = "done" /\ panicked'
      BY <1>1, <2>1
    <3> QED
      BY <1>2, <3>1 DEF NocgoInv, Types, LoadInv
  <2>2. CASE ~fails /\ i = Optional
    <3>1. npc' = [npc EXCEPT ![t] = "use"] /\ once' = "done"
      BY <1>1, <2>2
    <3>2. \A j \in Required : j <= i
      BY <1>3, <2>2 DEF Required, Optional
    <3>3. \A j \in Required : proc'[j] = fuseDll'
      BY <1>7, <2>2, <3>2
    <3> HIDE DEF i, found, fails, last
    <3> QED
      BY <1>1, <1>2, <1>4, <3>1, <3>3 DEF NocgoInv, Types, LoadInv
  <2>3. CASE ~fails /\ i # Optional
    <3>1. npc' = [npc EXCEPT ![t] = "find"] /\ once' = once /\ nk'[t] = i + 1
      BY <1>1, <2>3 DEF NocgoInv, Types
    <3>2. \A j \in Required : j < i + 1 => proc'[j] = fuseDll'
      BY <1>3, <1>7, <2>3 DEF Required, Procs, Optional
    <3>3. npc' \in [Threads -> NocgoPCs] /\ npc'[t] = "find"
          /\ \A s \in Threads \ {t} : npc'[s] \notin {"load", "find", "use", "enter", "main"}
      BY <1>2, <3>1, <1>5 DEF NocgoInv, Types
    <3> HIDE DEF i, found, fails, last
    <3> QED
      BY <1>1, <1>2, <1>4, <3>1, <3>2, <3>3 DEF LoadInv
  <2> QED
    BY <2>1, <2>2, <2>3
<1> QED
  BY <1>5, <1>6, <1>8 DEF NocgoInv

\* Leaving, and the return of fuse_main_real, move the thread alone.
LEMMA MovesKeepNocgoInv ==
    ASSUME NocgoInv, NEW t \in Threads, Leave(t) \/ MainReturns(t)
    PROVE  NocgoInv'
<1>1. /\ \/ npc[t] = "use" /\ npc' = [npc EXCEPT ![t] = "idle"]
         \/ npc[t] = "main" /\ npc' = [npc EXCEPT ![t] = "delete"]
      /\ UNCHANGED <<nk, fuseDll, proc, once, panicked, heap, hostTable, hndl>>
  BY DEF Leave, MainReturns, Move, libVars, tblVars
<1>2. Types'
  BY <1>1 DEF NocgoInv, Types, NocgoPCs
<1>3. LoadInv'
  BY <1>1 DEF NocgoInv, Types, LoadInv
<1>4. TableInv'
  BY <1>1 DEF NocgoInv, Types, TableInv, Holding, Entered
<1> QED
  BY <1>2, <1>3, <1>4 DEF NocgoInv

\* The heap gives out no address that is in use.
LEMMA HandleNewKeepsNocgoInv ==
    ASSUME NocgoInv, NEW t \in Threads, HandleMalloc(t) \/ HandleEnter(t)
    PROVE  NocgoInv'
<1>1. UNCHANGED <<nk, fuseDll, proc, once, panicked>>
  BY DEF HandleMalloc, HandleEnter, libVars
<1>2. CASE HandleMalloc(t)
  <2>1. PICK a \in Addresses \ heap :
          /\ heap' = heap \cup {a} /\ hndl' = [hndl EXCEPT ![t] = a]
          /\ npc[t] = "use" /\ npc' = [npc EXCEPT ![t] = "enter"] /\ hostTable' = hostTable
    BY <1>2 DEF HandleMalloc, Move
  <2>2. Types'
    BY <1>1, <2>1 DEF NocgoInv, Types, NocgoPCs
  <2>3. LoadInv'
    BY <1>1, <2>1 DEF NocgoInv, Types, LoadInv
  <2>4. TableInv'
    BY <2>1 DEF NocgoInv, Types, TableInv, Holding, Entered
  <2> QED
    BY <2>2, <2>3, <2>4 DEF NocgoInv
<1>3. CASE HandleEnter(t)
  <2>1. /\ npc[t] = "enter" /\ npc' = [npc EXCEPT ![t] = "main"]
        /\ hostTable' = [hostTable EXCEPT ![hndl[t]] = t]
        /\ UNCHANGED <<heap, hndl>>
    BY <1>3 DEF HandleEnter, Move
  <2>2. hndl[t] \in Addresses
    BY <2>1 DEF NocgoInv, Types, TableInv, Holding
  <2>3. Types'
    BY <1>1, <2>1 DEF NocgoInv, Types, NocgoPCs
  <2>4. LoadInv'
    BY <1>1, <2>1 DEF NocgoInv, Types, LoadInv
  <2>5. TableInv'
    BY <2>1, <2>2 DEF NocgoInv, Types, TableInv, Holding, Entered
  <2> QED
    BY <2>3, <2>4, <2>5 DEF NocgoInv
<1> QED
  BY <1>2, <1>3

\* The entry goes before the block does.
LEMMA HandleDelKeepsNocgoInv ==
    ASSUME NocgoInv, NEW t \in Threads, HandleDel(t)
    PROVE  NocgoInv'
<1>1. UNCHANGED <<nk, fuseDll, proc, once, panicked>>
  BY DEF HandleDel, libVars
<1>2. CASE /\ Move(t, "delete", "free")
           /\ hostTable' = [hostTable EXCEPT ![hndl[t]] = NoLib]
           /\ UNCHANGED <<heap, hndl>>
  <2>1. Types'
    BY <1>1, <1>2 DEF NocgoInv, Types, NocgoPCs, Move
  <2>2. LoadInv'
    BY <1>1, <1>2 DEF NocgoInv, Types, LoadInv, Move
  <2>3. TableInv'
    BY <1>2 DEF NocgoInv, Types, TableInv, Holding, Entered, Move
  <2> QED
    BY <2>1, <2>2, <2>3 DEF NocgoInv
<1>3. CASE /\ Move(t, "free", "idle")
           /\ heap' = heap \ {hndl[t]}
           /\ hndl' = [hndl EXCEPT ![t] = NoLib]
           /\ UNCHANGED hostTable
  <2>1. Types'
    BY <1>1, <1>3 DEF NocgoInv, Types, NocgoPCs, Move
  <2>2. LoadInv'
    BY <1>1, <1>3 DEF NocgoInv, Types, LoadInv, Move
  <2>3. TableInv'
    BY <1>3 DEF NocgoInv, Types, TableInv, Holding, Entered, Move
  <2> QED
    BY <2>1, <2>2, <2>3 DEF NocgoInv
<1> QED
  BY <1>2, <1>3 DEF HandleDel

LEMMA NocgoInvariance ==
    NocgoSpec => []NocgoInv
<1>1. NocgoInit => NocgoInv
  BY InitNocgoInv
<1>2. NocgoInv /\ [NocgoNext]_nocgoVars => NocgoInv'
  <2> SUFFICES ASSUME NocgoInv, [NocgoNext]_nocgoVars PROVE NocgoInv'
    OBVIOUS
  <2>1. CASE UNCHANGED nocgoVars
    BY <2>1 DEF nocgoVars, libVars, tblVars, NocgoInv, Types, LoadInv, TableInv
  <2>2. CASE NocgoNext
    <3>1. PICK t \in Threads :
            \/ \E p \in Paths \cup {NoPath} : NocgoCall(t, p)
            \/ SetPath(t) \/ FuseInit(t) \/ Fspload(t) \/ FindProc(t) \/ Leave(t)
            \/ HandleMalloc(t) \/ HandleEnter(t) \/ MainReturns(t)
            \/ HandleDel(t)
      BY <2>2 DEF NocgoNext
    <3> QED
      BY <3>1, PathStepsKeepNocgoInv, FuseInitKeepsNocgoInv, FsploadKeepsNocgoInv, FindProcKeepsNocgoInv,
         MovesKeepNocgoInv, HandleNewKeepsNocgoInv, HandleDelKeepsNocgoInv
  <2> QED
    BY <2>1, <2>2
<1> QED
  BY <1>1, <1>2, PTL DEF NocgoSpec

\* Whoever gets past c_hostFuseInit has the library and, unless MustFindProc has
\* panicked, every required procedure of it (host_nocgo_windows.go:501-518).
THEOREM LoadedLibraryIsWhole ==
    NocgoSpec => []LibraryIsWhole
<1>1. NocgoInv => LibraryIsWhole
  BY DEF NocgoInv, LoadInv, LibraryIsWhole
<1> QED
  BY <1>1, NocgoInvariance, PTL

\* The table leads a callback to the host of its own mount, though addresses are
\* used again (host_nocgo_windows.go:310-328).
THEOREM CallbacksFindTheirHost ==
    NocgoSpec => []HandleFindsItsHost
<1>1. NocgoInv => HandleFindsItsHost
  BY DEF NocgoInv, TableInv, HandleFindsItsHost, Entered
<1> QED
  BY <1>1, NocgoInvariance, PTL
=============================================================================
