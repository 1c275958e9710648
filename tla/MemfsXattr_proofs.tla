------------------------- MODULE MemfsXattr_proofs -------------------------
(***************************************************************************)
(* A value that is copied outside the lock comes whole; a buffer of the    *)
(* size that was asked for suffices, for a list of names in any order, too;*)
(* and a node's attributes stay sound.  For any number of threads,         *)
(* attributes and bytes.                                                   *)
(***************************************************************************)
EXTENDS MCMemfsData, Integers, FiniteSetTheorems, FunctionTheorems, SequenceTheorems, TLAPS

MaybeArray == Arrays \cup {Nil}

\* Types; the allocator's arrays are all in xatr and rslt, and the attribute
\* that Setxattr refuses never has one.
TypeInv ==
    /\ xatr \in [Names -> MaybeArray]
    /\ Reserved \in Names => xatr[Reserved] = Nil
    /\ bytes \in [Arrays -> Seq(Nat)]
    /\ pc \in [Threads -> {"idle", "copy", "done"}]
    /\ rslt \in [Threads -> MaybeArray]
    /\ op = [t \in Threads |-> op[t]] /\ room \in [Threads -> Nat]
    /\ buf = [t \in Threads |-> buf[t]] /\ saw = [t \in Threads |-> saw[t]]
    /\ answer = [t \in Threads |-> answer[t]]

\* The copy so far: rslt still holds the value that was looked up, and the
\* buffer its first bytes.
CopyInv ==
    \A t \in Threads :
        /\ pc[t] = "idle" => buf[t] = <<>>
        /\ pc[t] = "copy" =>
              /\ rslt[t] \in Arrays /\ saw[t] = bytes[rslt[t]]
              /\ buf[t] \in Seq(Nat) /\ Len(buf[t]) <= Len(saw[t])
              /\ \A i \in 1..Len(buf[t]) : buf[t][i] = saw[t][i]

IInv == TypeInv /\ CopyInv /\ ValuesComeWhole

-----------------------------------------------------------------------------
\* There is always an array to write to: each attribute and each thread keeps
\* at most one.
LEMMA FreshIsFree == ASSUME TypeInv PROVE Fresh \in Arrays /\ Fresh \notin InUse
<1> DEFINE Own  == Names \ {Reserved}
           ofN  == [x \in Own |-> xatr[x]]
           ofT  == [t \in Threads |-> rslt[t]]
           N    == {xatr[x] : x \in Own}
           T    == {rslt[t] : t \in Threads}
<1>1. IsFiniteSet(Own) BY XattrAssumption, FS_RemoveElement
<1>2. IsFiniteSet(N) /\ Cardinality(N) <= Cardinality(Own)
  <2>1. ofN \in Surjection(Own, N) BY Fun_IsSurj
  <2> HIDE DEF ofN, N, Own
  <2> QED BY <1>1, <2>1, FS_Surjection
<1>3. IsFiniteSet(T) /\ Cardinality(T) <= Cardinality(Threads)
  <2>1. ofT \in Surjection(Threads, T) BY Fun_IsSurj
  <2> HIDE DEF ofT, T
  <2> QED BY <2>1, XattrAssumption, FS_Surjection
<1>4. IsFiniteSet(N \cup T) /\ Cardinality(N \cup T) <= Cardinality(Own) + Cardinality(Threads)
  <2> HIDE DEF N, T, Own
  <2>1. Cardinality(N \cup T) = Cardinality(N) + Cardinality(T) - Cardinality(N \cap T)
    BY <1>2, <1>3, FS_Union
  <2>2. IsFiniteSet(N \cup T) BY <1>2, <1>3, FS_Union
  <2>3. IsFiniteSet(N \cap T) BY <1>2, FS_Subset
  <2>4. /\ Cardinality(N) \in Nat /\ Cardinality(T) \in Nat /\ Cardinality(N \cap T) \in Nat
        /\ Cardinality(Own) \in Nat /\ Cardinality(Threads) \in Nat
    BY <1>1, <1>2, <1>3, <2>3, XattrAssumption, FS_CardinalityType
  <2> QED BY <1>2, <1>3, <2>1, <2>2, <2>4
<1>5. InUse \subseteq N \cup T \cup {Nil} BY DEF InUse, TypeInv
<1>6. Arrays \ InUse # {}
  <2> SUFFICES ASSUME Arrays \subseteq InUse PROVE FALSE OBVIOUS
  <2>1. Arrays \subseteq N \cup T BY <1>5, XattrAssumption
  <2> HIDE DEF N, T
  <2>2. Cardinality(Arrays) <= Cardinality(N \cup T) BY <1>4, <2>1, FS_Subset
  <2>3. /\ Cardinality(Arrays) \in Nat /\ Cardinality(N \cup T) \in Nat
        /\ Cardinality(Own) \in Nat /\ Cardinality(Threads) \in Nat
    BY <1>1, <1>4, XattrAssumption, FS_CardinalityType
  <2> QED BY <1>4, <2>2, <2>3, XattrAssumption
<1> QED BY <1>6 DEF Fresh

\* Writing to the array a: what is in use keeps its bytes.
LEMMA WrittenFacts ==
    ASSUME TypeInv, NEW a \in Arrays, a \notin InUse, NEW v \in Values, bytes' = Written(a, v)
    PROVE  /\ bytes' \in [Arrays -> Seq(Nat)]
           /\ \A t \in Threads : rslt[t] \in Arrays => bytes'[rslt[t]] = bytes[rslt[t]]
<1>1. <<>> \in Seq(Nat) /\ v \in Seq(Nat) BY XattrAssumption
<1>2. \A t \in Threads : rslt[t] \in InUse BY DEF InUse
<1> QED BY <1>1, <1>2 DEF TypeInv, Written

\* What changes an attribute leaves the requests under way alone.
LEMMA ChangeStep ==
    ASSUME IInv, TypeInv', UNCHANGED <<reqVars, saw>>,
           \A t \in Threads : rslt[t] \in Arrays => bytes'[rslt[t]] = bytes[rslt[t]]
    PROVE  IInv'
<1>1. CopyInv' BY DEF IInv, CopyInv, reqVars
<1>2. ValuesComeWhole' BY DEF IInv, ValuesComeWhole, reqVars
<1> QED BY <1>1, <1>2 DEF IInv

LEMMA SetxattrKeepsIInv ==
    ASSUME IInv, NEW x \in Names, NEW v \in Values, NEW flags, Setxattr(x, v, flags)
    PROVE  IInv'
<1>1. /\ x # Reserved /\ bytes' = Written(Fresh, v) /\ xatr' = [xatr EXCEPT ![x] = Fresh]
      /\ UNCHANGED <<reqVars, saw>>
  BY DEF Setxattr, MaySet, Changed
<1>2. Fresh \in Arrays /\ Fresh \notin InUse BY FreshIsFree DEF IInv
<1> HIDE DEF Fresh
<1>3. /\ bytes' \in [Arrays -> Seq(Nat)]
      /\ \A t \in Threads : rslt[t] \in Arrays => bytes'[rslt[t]] = bytes[rslt[t]]
  <2>1. PICK a : a = Fresh OBVIOUS
  <2> QED BY <1>1, <1>2, <2>1, WrittenFacts DEF IInv
<1>4. TypeInv' BY <1>1, <1>2, <1>3 DEF IInv, TypeInv, MaybeArray, reqVars
<1> QED BY <1>1, <1>3, <1>4, ChangeStep

LEMMA RemovexattrKeepsIInv ==
    ASSUME IInv, NEW x \in Names, Removexattr(x) PROVE IInv'
<1>1. /\ x # Reserved /\ xatr' = [xatr EXCEPT ![x] = Nil]
      /\ UNCHANGED <<bytes, reqVars, saw>>
  BY DEF Removexattr, Changed
<1>2. TypeInv' BY <1>1 DEF IInv, TypeInv, MaybeArray, reqVars
<1> QED BY <1>1, <1>2, ChangeStep

-----------------------------------------------------------------------------
\* A step of thread t that leaves the attributes alone concerns t only.
Mine(t) ==
    /\ UNCHANGED <<xatr, bytes>>
    /\ \A s \in Threads \ {t} :
          /\ pc'[s] = pc[s] /\ op'[s] = op[s] /\ room'[s] = room[s] /\ rslt'[s] = rslt[s]
          /\ buf'[s] = buf[s] /\ answer'[s] = answer[s] /\ saw'[s] = saw[s]

\* CopyInv and ValuesComeWhole, for one thread.
CopyOf(t) ==
    /\ pc[t] = "idle" => buf[t] = <<>>
    /\ pc[t] = "copy" =>
          /\ rslt[t] \in Arrays /\ saw[t] = bytes[rslt[t]]
          /\ buf[t] \in Seq(Nat) /\ Len(buf[t]) <= Len(saw[t])
          /\ \A i \in 1..Len(buf[t]) : buf[t][i] = saw[t][i]
    /\ pc[t] = "done" /\ op[t] \in Names /\ answer[t].err = "ok" =>
          /\ answer[t].n = Len(saw[t])
          /\ room[t] # 0 => buf[t] = saw[t] /\ answer[t].n <= room[t]

LEMMA ThreadStep ==
    ASSUME IInv, TypeInv', NEW t \in Threads, Mine(t),
           \A s \in Threads : s = t => CopyOf(s)'
    PROVE  IInv'
<1>1. ASSUME NEW s \in Threads PROVE CopyOf(s)'
  <2>1. CASE s = t BY <2>1
  <2>2. CASE s # t
    <3>1. CopyOf(s) BY DEF IInv, CopyInv, ValuesComeWhole, CopyOf
    <3> QED BY <2>2, <3>1 DEF Mine, CopyOf
  <2> QED BY <2>1, <2>2
<1>2. CopyInv' BY <1>1 DEF CopyInv, CopyOf
<1>3. ValuesComeWhole' BY <1>1 DEF ValuesComeWhole, CopyOf
<1> QED BY <1>2, <1>3 DEF IInv

LEMMA GetxattrKeepsIInv ==
    ASSUME IInv, NEW t \in Threads, NEW x \in Names, NEW n \in 0..MaxSize, Getxattr(t, x, n)
    PROVE  IInv'
<1> USE DEF IInv
<1>1. /\ pc[t] = "idle" /\ xatr[x] \in Arrays /\ n \in Nat
      /\ pc' = [pc EXCEPT ![t] = "copy"] /\ op' = [op EXCEPT ![t] = x]
      /\ room' = [room EXCEPT ![t] = n] /\ rslt' = [rslt EXCEPT ![t] = xatr[x]]
      /\ saw' = [saw EXCEPT ![t] = bytes[xatr[x]]]
      /\ UNCHANGED <<xatr, bytes, buf, answer>>
  BY XattrAssumption DEF Getxattr, Begin, TypeInv, MaybeArray
<1>2. TypeInv' BY <1>1 DEF TypeInv, MaybeArray
<1>3. Mine(t) BY <1>1 DEF Mine, TypeInv
<1>4. /\ pc'[t] = "copy" /\ rslt'[t] = xatr[x] /\ saw'[t] = bytes[xatr[x]]
      /\ buf'[t] = <<>> /\ bytes' = bytes
  BY <1>1 DEF TypeInv, CopyInv
<1>5. bytes[xatr[x]] \in Seq(Nat) BY <1>1 DEF TypeInv
<1>6. /\ saw'[t] = bytes'[rslt'[t]] /\ saw'[t] \in Seq(Nat) /\ rslt'[t] \in Arrays
      /\ buf'[t] \in Seq(Nat) /\ Len(buf'[t]) = 0 /\ 0 <= Len(saw'[t]) /\ 1..0 = {}
  BY <1>1, <1>4, <1>5
<1>7. \A s \in Threads : s = t => CopyOf(s)' BY <1>4, <1>6 DEF CopyOf
<1> QED BY <1>2, <1>3, <1>7, ThreadStep

LEMMA CopyOutKeepsIInv ==
    ASSUME IInv, NEW t \in Threads, CopyOut(t) PROVE IInv'
<1> USE DEF IInv
<1> DEFINE have == Len(bytes[rslt[t]])
           done == Len(buf[t])
<1>1. /\ pc[t] = "copy" /\ rslt[t] \in Arrays /\ saw[t] = bytes[rslt[t]]
      /\ saw[t] \in Seq(Nat) /\ buf[t] \in Seq(Nat) /\ done <= have
      /\ have \in Nat /\ done \in Nat /\ room[t] \in Nat
      /\ \A i \in 1..done : buf[t][i] = saw[t][i]
  BY DEF CopyOut, TypeInv, CopyInv
<1>2. UNCHANGED <<xatr, bytes, op, room, rslt, saw>> BY DEF CopyOut, hist
<1>3. CASE room[t] # 0 /\ ~(have > room[t]) /\ done < have
  <2>1. /\ buf' = [buf EXCEPT ![t] = Append(@, bytes[rslt[t]][done + 1])]
        /\ UNCHANGED <<pc, answer>>
    BY <1>3 DEF CopyOut
  <2>2. buf'[t] = Append(buf[t], saw[t][done + 1]) BY <1>1, <2>1 DEF TypeInv
  <2>3. TypeInv' BY <1>2, <2>1 DEF TypeInv
  <2>4. Mine(t) BY <1>2, <2>1 DEF Mine, TypeInv
  <2>5. /\ buf'[t] \in Seq(Nat) /\ Len(buf'[t]) = done + 1
        /\ \A i \in 1..(done + 1) : buf'[t][i] = saw[t][i]
    <3>1. saw[t][done + 1] \in Nat BY <1>1, <1>3
    <3> QED BY <1>1, <2>2, <3>1
  <2>6. pc'[t] = "copy" BY <1>1, <2>1
  <2>7. \A s \in Threads : s = t => CopyOf(s)'
    <3>1. /\ saw'[t] = bytes'[rslt'[t]] /\ rslt'[t] \in Arrays /\ saw' = saw
          /\ Len(saw[t]) = have
      BY <1>1, <1>2
    <3>2. Len(buf'[t]) <= Len(saw'[t]) BY <1>1, <1>3, <2>5, <3>1
    <3>3. \A i \in 1..Len(buf'[t]) : buf'[t][i] = saw'[t][i] BY <2>5, <3>1
    <3> HIDE DEF have, done
    <3> QED BY <2>5, <2>6, <3>1, <3>2, <3>3 DEF CopyOf
  <2> QED BY <2>3, <2>4, <2>7, ThreadStep
<1>4. CASE room[t] # 0 /\ have > room[t]
  <2>1. /\ pc' = [pc EXCEPT ![t] = "done"]
        /\ answer' = [answer EXCEPT ![t] = Error("ERANGE")] /\ UNCHANGED buf
    BY <1>4 DEF CopyOut, Finish
  <2>2. TypeInv' BY <1>2, <2>1 DEF TypeInv
  <2>3. Mine(t) BY <1>2, <2>1 DEF Mine, TypeInv
  <2>4. pc'[t] = "done" /\ answer'[t].err = "ERANGE" BY <2>1 DEF TypeInv, Error
  <2>5. \A s \in Threads : s = t => CopyOf(s)' BY <2>4 DEF CopyOf
  <2> QED BY <2>2, <2>3, <2>5, ThreadStep
<1>5. CASE ~(room[t] # 0 /\ have > room[t]) /\ ~(room[t] # 0 /\ done < have)
  <2>1. /\ pc' = [pc EXCEPT ![t] = "done"]
        /\ answer' = [answer EXCEPT ![t] = Number(have)] /\ UNCHANGED buf
    BY <1>5 DEF CopyOut, Finish
  <2>2. TypeInv' BY <1>2, <2>1 DEF TypeInv
  <2>3. Mine(t) BY <1>2, <2>1 DEF Mine, TypeInv
  <2>4. pc'[t] = "done" /\ answer'[t].n = have BY <2>1 DEF TypeInv, Number
  <2>5. room[t] # 0 => buf[t] = saw[t] /\ have <= room[t]
    <3> SUFFICES ASSUME room[t] # 0 PROVE buf[t] = saw[t] /\ have <= room[t] OBVIOUS
    <3>1. done = have /\ have <= room[t] BY <1>1, <1>5
    <3>2. Len(saw[t]) = done /\ Len(buf[t]) = done BY <1>1, <3>1
    <3> HIDE DEF done, have
    <3>3. buf[t] = saw[t] BY <1>1, <3>2, SeqEqual
    <3> QED BY <3>1, <3>3
  <2>6. buf' = buf /\ saw' = saw /\ room' = room BY <1>2, <2>1
  <2>7. \A s \in Threads : s = t => CopyOf(s)'
    BY <1>1, <2>4, <2>5, <2>6 DEF CopyOf
  <2> QED BY <2>2, <2>3, <2>7, ThreadStep
<1> QED BY <1>3, <1>4, <1>5

LEMMA ListxattrKeepsIInv ==
    ASSUME IInv, NEW t \in Threads, NEW n \in 0..MaxSize, Listxattr(t, n) PROVE IInv'
<1> USE DEF IInv
<1>0. PICK order \in Orders(Present) : \E m, new, said :
          /\ Begin(t, "list", n, m) /\ Finish(t, said)
          /\ buf' = [buf EXCEPT ![t] = new] /\ saw' = [saw EXCEPT ![t] = order]
          /\ UNCHANGED rslt
  BY ZenonT(30) DEF Listxattr
<1>1. PICK new, said :
          /\ pc' = [pc EXCEPT ![t] = "done"] /\ op' = [op EXCEPT ![t] = "list"]
          /\ room' = [room EXCEPT ![t] = n] /\ buf' = [buf EXCEPT ![t] = new]
          /\ answer' = [answer EXCEPT ![t] = said] /\ saw' = [saw EXCEPT ![t] = order]
          /\ UNCHANGED <<xatr, bytes, rslt>>
  BY <1>0 DEF Begin, Finish
<1>2. n \in Nat BY XattrAssumption
<1>3. TypeInv' BY <1>1, <1>2 DEF TypeInv
<1>4. Mine(t) BY <1>1 DEF Mine, TypeInv
<1>5. pc'[t] = "done" /\ op'[t] \notin Names BY <1>1, XattrAssumption DEF TypeInv
<1>6. \A s \in Threads : s = t => CopyOf(s)' BY <1>5 DEF CopyOf
<1> QED BY <1>3, <1>4, <1>6, ThreadStep

LEMMA ReplyKeepsIInv ==
    ASSUME IInv, NEW t \in Threads, Reply(t) PROVE IInv'
<1> USE DEF IInv
<1>1. /\ pc' = [pc EXCEPT ![t] = "idle"] /\ op' = [op EXCEPT ![t] = Nil]
      /\ room' = [room EXCEPT ![t] = 0] /\ rslt' = [rslt EXCEPT ![t] = Nil]
      /\ buf' = [buf EXCEPT ![t] = <<>>] /\ answer' = [answer EXCEPT ![t] = Number(0)]
      /\ saw' = [saw EXCEPT ![t] = <<>>] /\ UNCHANGED <<xatr, bytes>>
  BY DEF Reply
<1>2. TypeInv' BY <1>1 DEF TypeInv, MaybeArray
<1>3. Mine(t) BY <1>1 DEF Mine, TypeInv
<1>4. pc'[t] = "idle" /\ buf'[t] = <<>> BY <1>1 DEF TypeInv
<1>5. \A s \in Threads : s = t => CopyOf(s)' BY <1>4 DEF CopyOf
<1> QED BY <1>2, <1>3, <1>5, ThreadStep

LEMMA InitIInv == XattrInit => IInv
<1> SUFFICES ASSUME XattrInit PROVE IInv OBVIOUS
<1>1. TypeInv BY DEF XattrInit, TypeInv, MaybeArray, Each
<1>2. CopyInv BY DEF XattrInit, CopyInv, Each
<1>3. ValuesComeWhole BY DEF XattrInit, ValuesComeWhole, Each
<1> QED BY <1>1, <1>2, <1>3 DEF IInv

-----------------------------------------------------------------------------
LEMMA StepIInv == IInv /\ [XattrNext]_xattrVars => IInv'
<1> SUFFICES ASSUME IInv, [XattrNext]_xattrVars PROVE IInv'
  OBVIOUS
<1>1. CASE XattrNext
  BY <1>1, SetxattrKeepsIInv, RemovexattrKeepsIInv, GetxattrKeepsIInv,
     CopyOutKeepsIInv, ListxattrKeepsIInv, ReplyKeepsIInv
  DEF XattrNext
<1>2. CASE UNCHANGED xattrVars
  BY <1>2 DEF IInv, TypeInv, CopyInv, ValuesComeWhole, xattrVars, reqVars, hist
<1> QED
  BY <1>1, <1>2

\* What a Getxattr copies into the caller's buffer is the value it looked up,
\* whole, although others set and remove the attribute while it copies without
\* the lock (dispatch.go:356-374, memfs.go:399-441).
THEOREM CopiedValuesAreWhole == XattrSpec => []ValuesComeWhole
<1>1. IInv => ValuesComeWhole BY DEF IInv
<1> QED BY <1>1, InitIInv, StepIInv, PTL DEF XattrSpec

-----------------------------------------------------------------------------
(* The size of a list *)

LEMMA LeastElement ==
    ASSUME NEW T \in SUBSET Nat, T # {}
    PROVE  \E m \in T : \A n \in T : m <= n
<1> DEFINE U == {0..n : n \in T}
<1>1. U \subseteq FiniteSubsetsOf(Nat)
  <2> SUFFICES ASSUME NEW n \in T PROVE 0..n \in FiniteSubsetsOf(Nat)
    OBVIOUS
  <2>1. IsFiniteSet(0..n)
    BY FS_Interval
  <2> QED
    BY <2>1 DEF FiniteSubsetsOf
<1>2. U # {}
  OBVIOUS
<1> HIDE DEF U
<1>3. PICK x \in U : \A y \in U : ~ (<<y, x>> \in StrictSubsetOrdering(Nat))
  BY ONLY <1>1, <1>2, WFMin, FS_StrictSubsetOrderingWellFounded
<1>4. PICK m \in T : x = 0..m
  BY DEF U
<1>5. ASSUME NEW n \in T, n < m PROVE FALSE
  <2>1. 0..n \in U
    BY DEF U
  <2>2. 0..n \subseteq 0..m /\ 0..n # 0..m
    <3>1. m \in 0..m /\ m \notin 0..n
      BY <1>5
    <3> QED
      BY <1>5, <3>1
  <2>3. 0..n \in SUBSET Nat /\ 0..m \in SUBSET Nat
    OBVIOUS
  <2>4. <<0..n, 0..m>> \in StrictSubsetOrdering(Nat)
    BY <2>2, <2>3 DEF StrictSubsetOrdering
  <2> QED
    BY <1>3, <1>4, <2>1, <2>4
<1> QED
  BY <1>5

\* The bytes of the names of S, each with its NUL: a byte is a name and a place.
BytesOf(S) == {e \in S \X Nat : e[2] <= NameLen[e[1]]}
SizeOf(S)  == Cardinality(BytesOf(S))

LEMMA OneName ==
    ASSUME NEW x \in Names
    PROVE  IsFiniteSet(BytesOf({x})) /\ SizeOf({x}) = NameLen[x] + 1
<1>1. NameLen[x] \in Nat
  BY XattrAssumption
<1>2. BytesOf({x}) = {x} \X (0..NameLen[x])
  BY <1>1 DEF BytesOf
<1>3. IsFiniteSet(0..NameLen[x]) /\ Cardinality(0..NameLen[x]) = NameLen[x] + 1
  <2>1. 0 \in Int /\ NameLen[x] \in Int /\ ~(0 > NameLen[x])
    BY <1>1
  <2>2. /\ IsFiniteSet(0..NameLen[x])
        /\ Cardinality(0..NameLen[x]) = IF 0 > NameLen[x] THEN 0 ELSE NameLen[x] - 0 + 1
    BY ONLY <2>1, FS_Interval
  <2> QED
    BY <1>1, <2>1, <2>2
<1>4. IsFiniteSet({x}) /\ Cardinality({x}) = 1
  BY FS_Singleton
<1>5. /\ IsFiniteSet({x} \X (0..NameLen[x]))
      /\ Cardinality({x} \X (0..NameLen[x])) = 1 * (NameLen[x] + 1)
  <2>1. PICK a, b, m, k : a = {x} /\ b = 0..NameLen[x] /\ m = 1 /\ k = NameLen[x] + 1
    OBVIOUS
  <2>2. IsFiniteSet(a) /\ Cardinality(a) = m /\ IsFiniteSet(b) /\ Cardinality(b) = k
    BY ONLY <1>3, <1>4, <2>1
  <2>3. IsFiniteSet(a \X b) /\ Cardinality(a \X b) = Cardinality(a) * Cardinality(b)
    BY ONLY <2>2, FS_Product
  <2>4. Cardinality(a \X b) = m * k
    BY ONLY <2>2, <2>3
  <2> QED
    BY ONLY <2>1, <2>3, <2>4
<1>6. PICK B : B = BytesOf({x})
  OBVIOUS
<1>7. IsFiniteSet(B) /\ Cardinality(B) = 1 * (NameLen[x] + 1)
  BY ONLY <1>2, <1>5, <1>6
<1> QED
  BY ONLY <1>1, <1>6, <1>7 DEF SizeOf

LEMMA OneNameMore ==
    ASSUME NEW S \in SUBSET Names, IsFiniteSet(BytesOf(S)), NEW x \in Names \ S
    PROVE  /\ IsFiniteSet(BytesOf(S \cup {x}))
           /\ SizeOf(S \cup {x}) = SizeOf(S) + NameLen[x] + 1
<1>1. BytesOf(S \cup {x}) = BytesOf(S) \cup BytesOf({x})
  BY DEF BytesOf
<1>2. BytesOf(S) \cap BytesOf({x}) = {}
  BY DEF BytesOf
<1>3. IsFiniteSet(BytesOf({x})) /\ SizeOf({x}) = NameLen[x] + 1 /\ NameLen[x] \in Nat
  BY OneName, XattrAssumption
<1>4. Cardinality({}) = 0
  BY FS_EmptySet
<1>5. /\ IsFiniteSet(BytesOf(S) \cup BytesOf({x}))
      /\ Cardinality(BytesOf(S) \cup BytesOf({x}))
          = Cardinality(BytesOf(S)) + Cardinality(BytesOf({x}))
              - Cardinality(BytesOf(S) \cap BytesOf({x}))
  BY <1>3, FS_Union
<1>6. Cardinality(BytesOf(S)) \in Nat
  BY FS_CardinalityType
<1>7. Cardinality(BytesOf({x})) = NameLen[x] + 1
  BY <1>3 DEF SizeOf
<1>8. Cardinality(BytesOf(S) \cap BytesOf({x})) = 0
  BY ONLY <1>2, <1>4
<1>9. PICK B : B = BytesOf(S \cup {x})
  OBVIOUS
<1>10. IsFiniteSet(B) /\ Cardinality(B) = Cardinality(BytesOf(S)) + (NameLen[x] + 1) - 0
  BY ONLY <1>1, <1>5, <1>7, <1>8, <1>9
<1> QED
  BY ONLY <1>3, <1>6, <1>9, <1>10 DEF SizeOf

\* nbyt counts the bytes of the first names of the order s.
Counts(nbyt, s, k) ==
    nbyt[0] = 0 /\ \A i \in 1..k : nbyt[i] = nbyt[i - 1] + NameLen[s[i]] + 1

LEMMA CountsExist ==
    ASSUME NEW k \in Nat, NEW s \in [1..k -> Names]
    PROVE  \E nbyt \in [0..k -> Nat] : Counts(nbyt, s, k)
<1> DEFINE T == {m \in 0..k : ~ \E nbyt \in [0..m -> Nat] : Counts(nbyt, s, m)}
<1> SUFFICES ASSUME T # {} PROVE FALSE
  OBVIOUS
<1>1. PICK m \in T : \A i \in T : m <= i
  <2>1. T \in SUBSET Nat
    OBVIOUS
  <2> HIDE DEF T
  <2> QED
    BY <2>1, LeastElement
<1>2. CASE m = 0
  <2>1. [i \in 0..0 |-> 0] \in [0..0 -> Nat] /\ Counts([i \in 0..0 |-> 0], s, 0)
    BY DEF Counts
  <2> QED
    BY <1>2, <2>1
<1>3. CASE m # 0
  <2>0. m \in 1..k /\ m - 1 \in 0..k /\ m - 1 < m
    BY <1>3
  <2>1. m - 1 \in 0..k /\ m - 1 \notin T /\ m \in 1..k
    <3> HIDE DEF T
    <3> QED
      BY <1>1, <2>0
  <2>2. PICK v \in [0..(m - 1) -> Nat] : Counts(v, s, m - 1)
    BY <2>1
  <2> DEFINE w == [i \in 0..m |-> IF i = m THEN v[m - 1] + NameLen[s[m]] + 1 ELSE v[i]]
  <2>3. NameLen[s[m]] \in Nat /\ v[m - 1] \in Nat
    BY <2>1, XattrAssumption
  <2>4. w \in [0..m -> Nat]
    BY <2>1, <2>3
  <2>5. Counts(w, s, m)
    BY <2>1, <2>2, <2>3 DEF Counts
  <2> HIDE DEF w
  <2> QED
    BY <2>4, <2>5
<1> QED
  BY <1>2, <1>3

LEMMA NbytFacts ==
    ASSUME NEW k \in Nat, NEW s \in [1..k -> Names]
    PROVE  Nbyt(s) \in [0..k -> Nat] /\ Counts(Nbyt(s), s, k) /\ Len(s) = k
<1>1. Len(s) = k
  BY LenProperties
<1> DEFINE IsNbyt(n) == n = [i \in 0..Len(s) |-> IF i = 0 THEN 0 ELSE n[i - 1] + NameLen[s[i]] + 1]
<1>2. Nbyt(s) = CHOOSE n : IsNbyt(n)
  BY DEF Nbyt
<1>3. PICK v \in [0..k -> Nat] : Counts(v, s, k)
  BY CountsExist
<1>4. IsNbyt(v)
  BY <1>1, <1>3 DEF Counts
<1> DEFINE w == Nbyt(s)
<1>5. IsNbyt(w)
  BY <1>2, <1>4
<1> HIDE DEF w
<1>6. DOMAIN w = 0..k /\ Counts(w, s, k)
  <2>1. \A i \in 0..k : w[i] = IF i = 0 THEN 0 ELSE w[i - 1] + NameLen[s[i]] + 1
    BY <1>1, <1>5
  <2> QED
    BY <1>1, <1>5, <2>1 DEF Counts
<1> DEFINE T == {i \in 0..k : w[i] # v[i]}
<1>7. T = {}
  <2> SUFFICES ASSUME T # {} PROVE FALSE
    OBVIOUS
  <2>1. PICK m \in T : \A i \in T : m <= i
    <3>1. T \in SUBSET Nat
      OBVIOUS
    <3> HIDE DEF T
    <3> QED
      BY <3>1, LeastElement
  <2>2. m # 0
    BY <1>3, <1>6 DEF Counts
  <2>3. m \in 1..k /\ m - 1 \in 0..k /\ m - 1 \notin T
    BY <2>1, <2>2
  <2> QED
    BY <1>3, <1>6, <2>1, <2>3 DEF Counts
<1>8. w = [i \in 0..k |-> w[i]]
  BY <1>1, <1>5
<1>9. w \in [0..k -> Nat]
  BY <1>7, <1>8
<1> QED
  BY <1>1, <1>6, <1>9 DEF w

\* Whatever the order, the names take the same room.
LEMMA PrefixSize ==
    ASSUME NEW S \in SUBSET Names, IsFiniteSet(S), NEW s \in Orders(S)
    PROVE  LET k == Cardinality(S) IN
           /\ k \in Nat /\ s \in [1..k -> S] /\ Len(s) = k /\ Nbyt(s) \in [0..k -> Nat]
           /\ Counts(Nbyt(s), s, k) /\ Nbyt(s)[k] = SizeOf(S)
           /\ \A i \in 0..k : Nbyt(s)[i] <= SizeOf(S)
<1> DEFINE k    == Cardinality(S)
           n    == Nbyt(s)
           P(i) == {s[j] : j \in 1..i}
<1>1. k \in Nat /\ s \in [1..k -> S] /\ P(k) = S
  BY FS_CardinalityType DEF Orders
<1>2. n \in [0..k -> Nat] /\ Counts(n, s, k) /\ Len(s) = k
  BY <1>1, NbytFacts
<1>3. \A i, j \in 1..k : s[i] = s[j] => i = j
  <2>1. s \in Surjection(1..k, S)
    BY <1>1, Fun_IsSurj
  <2>2. IsFiniteSet(1..k) /\ Cardinality(1..k) = k
    <3>1. 1 \in Int /\ k \in Int
      BY <1>1
    <3>2. IsFiniteSet(1..k) /\ Cardinality(1..k) = IF 1 > k THEN 0 ELSE k - 1 + 1
      BY ONLY <3>1, FS_Interval
    <3> QED
      BY <1>1, <3>2
  <2>3. s \in Injection(1..k, S)
    BY <2>1, <2>2, FS_SurjSameCardinalityImpliesInj
  <2> QED
    BY <2>3 DEF Injection, IsInjective
<1> HIDE DEF k, n
<1> DEFINE T == {i \in 0..k : ~(IsFiniteSet(BytesOf(P(i))) /\ n[i] = SizeOf(P(i)))}
<1>4. T = {}
  <2> SUFFICES ASSUME T # {} PROVE FALSE
    OBVIOUS
  <2>1. PICK m \in T : \A i \in T : m <= i
    <3>1. T \in SUBSET Nat
      BY <1>1
    <3> HIDE DEF T
    <3> QED
      BY <3>1, LeastElement
  <2>2. m # 0
    <3>1. P(0) = {}
      OBVIOUS
    <3>2. BytesOf({}) = {}
      BY DEF BytesOf
    <3>3. IsFiniteSet(BytesOf(P(0))) /\ SizeOf(P(0)) = 0
      BY <3>1, <3>2, FS_EmptySet DEF SizeOf
    <3> QED
      BY <1>2, <2>1, <3>3 DEF Counts
  <2>0. m \in 1..k /\ m - 1 \in 0..k /\ m - 1 < m
    BY <1>1, <2>2
  <2>3. m \in 1..k /\ m - 1 \in 0..k /\ m - 1 \notin T
    <3> HIDE DEF T
    <3> QED
      BY <2>0, <2>1
  <2>4. P(m) = P(m - 1) \cup {s[m]} /\ P(m - 1) \in SUBSET Names /\ s[m] \in Names
    BY <1>1, <2>3
  <2>5. s[m] \notin P(m - 1)
    BY <1>1, <1>3, <2>3
  <2>6. IsFiniteSet(BytesOf(P(m - 1))) /\ n[m - 1] = SizeOf(P(m - 1))
    BY <2>3
  <2> HIDE DEF P
  <2>7. /\ IsFiniteSet(BytesOf(P(m - 1) \cup {s[m]}))
        /\ SizeOf(P(m - 1) \cup {s[m]}) = SizeOf(P(m - 1)) + NameLen[s[m]] + 1
    BY <2>4, <2>5, <2>6, OneNameMore
  <2>8. n[m] = n[m - 1] + NameLen[s[m]] + 1
    BY <1>2, <2>3 DEF Counts
  <2> QED
    BY <2>1, <2>4, <2>6, <2>7, <2>8
<1>5. IsFiniteSet(BytesOf(S)) /\ n[k] = SizeOf(S)
  BY <1>1, <1>4
<1>6. ASSUME NEW i \in 0..k PROVE n[i] <= SizeOf(S)
  <2>1. P(i) \subseteq S
    BY <1>1
  <2>2. BytesOf(P(i)) \in SUBSET BytesOf(S)
    BY <2>1 DEF BytesOf
  <2>3. n[i] = SizeOf(P(i))
    BY <1>4
  <2> QED
    BY <1>5, <2>2, <2>3, FS_Subset DEF SizeOf
<1> QED
  BY <1>1, <1>2, <1>5, <1>6 DEF k, n

-----------------------------------------------------------------------------
(* The sizes that are asked for *)

AskTypes ==
    /\ asked = [t \in Threads |-> asked[t]] /\ promised = [t \in Threads |-> promised[t]]
    /\ IsFiniteSet(Present)

\* What a thread has asked is still so;
AskedIs(t) ==
    \/ asked[t] = NotAsked
    \/ asked[t] = <<"list", SizeOf(Present)>>
    \/ \E x \in Names : asked[t] = <<x, Len(bytes[xatr[x]])>>

\* so a request for as much as that fits.
PromiseOf(t) ==
    /\ pc[t] = "copy" => op[t] \in Names
    /\ pc[t] = "copy" /\ promised[t] => room[t] = 0 \/ room[t] = Len(saw[t])
    /\ pc[t] = "done" /\ promised[t] => answer[t].err = "ok"
    /\ pc[t] = "done" /\ op[t] = "list" /\ answer[t].err = "ok" /\ room[t] # 0 =>
          buf[t] = saw[t] /\ answer[t].n <= room[t]

AskInv == IInv /\ AskTypes /\ \A t \in Threads : AskedIs(t) /\ PromiseOf(t)

\* A change takes back what was asked.
LEMMA ChangeKeepsAskInv ==
    ASSUME AskInv, IInv', Changed, UNCHANGED reqVars
    PROVE  AskInv'
<1>1. asked' = [t \in Threads |-> NotAsked] /\ UNCHANGED <<promised, saw>>
  BY DEF Changed, Each
<1>2. AskTypes'
  <2>1. Present' \in SUBSET Names /\ IsFiniteSet(Names)
    BY XattrAssumption DEF Present
  <2>2. IsFiniteSet(Present')
    BY <2>1, FS_Subset
  <2> QED
    BY <1>1, <2>2 DEF AskInv, AskTypes
<1>3. ASSUME NEW t \in Threads PROVE AskedIs(t)' /\ PromiseOf(t)'
  BY <1>1 DEF AskInv, AskedIs, PromiseOf, reqVars
<1> QED
  BY <1>2, <1>3 DEF AskInv

\* A step of thread t that leaves the attributes alone concerns t only.
LEMMA RequestStep ==
    ASSUME AskInv, IInv', NEW t \in Threads, Mine(t),
           asked' = [asked EXCEPT ![t] = asked'[t]],
           promised' = [promised EXCEPT ![t] = promised'[t]],
           \A s \in Threads : s = t => AskedIs(s)' /\ PromiseOf(s)'
    PROVE  AskInv'
<1>1. UNCHANGED <<xatr, bytes>> /\ Present' = Present
  BY DEF Mine, Present
<1>2. ASSUME NEW s \in Threads PROVE AskedIs(s)' /\ PromiseOf(s)'
  <2>1. CASE s = t
    BY <2>1
  <2>2. CASE s # t
    <3>1. asked'[s] = asked[s] /\ promised'[s] = promised[s]
      BY <2>2 DEF AskInv, AskTypes
    <3>2. AskedIs(s)'
      BY <1>1, <3>1 DEF AskInv, AskedIs
    <3>3. PromiseOf(s)'
      BY <2>2, <3>1 DEF AskInv, PromiseOf, Mine
    <3> QED
      BY <3>2, <3>3
  <2> QED
    BY <2>1, <2>2
<1>3. AskTypes'
  BY <1>1 DEF AskInv, AskTypes
<1> QED
  BY <1>2, <1>3 DEF AskInv

LEMMA GetxattrKeepsAskInv ==
    ASSUME AskInv, IInv', NEW t \in Threads, NEW x \in Names, NEW n \in 0..MaxSize,
           Getxattr(t, x, n)
    PROVE  AskInv'
<1> DEFINE size_ == Len(bytes[xatr[x]])
<1>1. /\ TypeInv /\ AskTypes /\ pc[t] = "idle"
      /\ pc' = [pc EXCEPT ![t] = "copy"] /\ op' = [op EXCEPT ![t] = x]
      /\ room' = [room EXCEPT ![t] = n] /\ rslt' = [rslt EXCEPT ![t] = xatr[x]]
      /\ saw' = [saw EXCEPT ![t] = bytes[xatr[x]]]
      /\ promised' = [promised EXCEPT ![t] = asked[t] = <<x, n>>]
      /\ asked' = IF n = 0 THEN [asked EXCEPT ![t] = <<x, size_>>] ELSE asked
      /\ UNCHANGED <<xatr, bytes, buf, answer>>
  BY DEF Getxattr, Begin, AskInv, IInv
<1>2. Mine(t)
  BY <1>1 DEF Mine, TypeInv
<1>3. asked' = [asked EXCEPT ![t] = asked'[t]] /\ promised' = [promised EXCEPT ![t] = promised'[t]]
  BY <1>1 DEF AskTypes
<1>4. AskedIs(t)'
  <2>1. asked'[t] = asked[t] \/ asked'[t] = <<x, size_>>
    BY <1>1 DEF AskTypes
  <2>2. Present' = Present /\ AskedIs(t)
    BY <1>1 DEF Present, AskInv
  <2> QED
    BY <1>1, <2>1, <2>2 DEF AskedIs
<1>5. promised'[t] => n = size_
  <2> SUFFICES ASSUME asked[t] = <<x, n>> PROVE n = size_
    BY <1>1 DEF AskTypes
  <2>1. x # Nil /\ x # "list"
    BY XattrAssumption
  <2>2. AskedIs(t)
    BY DEF AskInv
  <2> QED
    BY <2>1, <2>2 DEF AskedIs, NotAsked
<1>6. /\ pc'[t] = "copy" /\ op'[t] = x /\ room'[t] = n /\ saw'[t] = bytes[xatr[x]]
  BY <1>1 DEF TypeInv
<1>7. PromiseOf(t)'
  BY <1>5, <1>6 DEF PromiseOf
<1> QED
  BY <1>2, <1>3, <1>4, <1>7, RequestStep

LEMMA CopyOutKeepsAskInv ==
    ASSUME AskInv, IInv', NEW t \in Threads, CopyOut(t)
    PROVE  AskInv'
<1> DEFINE have == Len(bytes[rslt[t]])
<1>1. /\ TypeInv /\ AskTypes /\ pc[t] = "copy" /\ saw[t] = bytes[rslt[t]]
      /\ AskedIs(t) /\ PromiseOf(t) /\ room[t] \in Nat /\ have \in Nat
  BY DEF CopyOut, AskInv, IInv, CopyInv, TypeInv
<1>2. UNCHANGED <<xatr, bytes, op, room, rslt, saw, asked, promised>>
  BY DEF CopyOut, hist
<1>3. \/ pc' = pc /\ answer' = answer /\ \E v : buf' = [buf EXCEPT ![t] = v]
      \/ /\ pc' = [pc EXCEPT ![t] = "done"] /\ UNCHANGED buf
         /\ \/ answer' = [answer EXCEPT ![t] = Number(have)]
            \/ room[t] # 0 /\ have > room[t] /\ answer' = [answer EXCEPT ![t] = Error("ERANGE")]
  BY DEF CopyOut, Finish
<1>4. Mine(t)
  BY <1>1, <1>2, <1>3 DEF Mine, TypeInv
<1>5. AskedIs(t)'
  BY <1>1, <1>2 DEF AskedIs, Present
<1>6. op[t] \in Names /\ op[t] # "list" /\ (promised[t] => room[t] = 0 \/ room[t] = have)
  BY <1>1, XattrAssumption DEF PromiseOf
<1>7. PromiseOf(t)'
  <2>1. CASE pc' = pc
    BY <1>1, <1>2, <1>6, <2>1 DEF PromiseOf
  <2>2. CASE pc' # pc
    <3>1. pc'[t] = "done"
      BY <1>1, <1>3, <2>2 DEF TypeInv
    <3>2. promised[t] => answer'[t].err = "ok"
      BY <1>1, <1>3, <1>6, <2>2 DEF TypeInv, Number
    <3> QED
      BY <1>2, <1>6, <3>1, <3>2 DEF PromiseOf
  <2> QED
    BY <2>1, <2>2
<1>8. asked' = [asked EXCEPT ![t] = asked'[t]] /\ promised' = [promised EXCEPT ![t] = promised'[t]]
  BY <1>1, <1>2 DEF AskTypes
<1> QED
  BY <1>4, <1>5, <1>7, <1>8, RequestStep

\* The places of a list that do not fit, and the list as far as it was filled.
Stuck(order, n)   == {i \in DOMAIN order : ~FitsIn(Nbyt(order)[i - 1], order[i], n)}
Filling(order, n) == {i \in DOMAIN order : \A j \in Stuck(order, n) : i < j}
FilledBy(order, n) == [i \in Filling(order, n) |-> order[i]]

\* A list is whole, or does not fit; and what was counted fits.
LEMMA ListFits ==
    ASSUME NEW S \in SUBSET Names, IsFiniteSet(S), NEW order \in Orders(S), NEW n \in Nat
    PROVE  /\ Nbyt(order)[Len(order)] = SizeOf(S)
           /\ n = 0 \/ n = SizeOf(S) => Stuck(order, n) = {}
           /\ Stuck(order, n) = {} => FilledBy(order, n) = order
           /\ Stuck(order, n) = {} /\ n # 0 => SizeOf(S) <= n
<1> DEFINE k      == Cardinality(S)
           nbyt   == Nbyt(order)
           stuck  == {i \in DOMAIN order : ~FitsIn(nbyt[i - 1], order[i], n)}
           filled == {i \in DOMAIN order : \A j \in stuck : i < j}
<1>1. /\ k \in Nat /\ order \in [1..k -> S] /\ Len(order) = k /\ nbyt \in [0..k -> Nat]
      /\ Counts(nbyt, order, k) /\ nbyt[k] = SizeOf(S)
      /\ \A i \in 0..k : nbyt[i] <= SizeOf(S)
  BY PrefixSize
<1> HIDE DEF k, nbyt
<1>2. ASSUME NEW i \in 1..k
      PROVE  /\ nbyt[i] = nbyt[i - 1] + NameLen[order[i]] + 1
             /\ FitsIn(nbyt[i - 1], order[i], n) <=> n = 0 \/ nbyt[i] <= n
  BY <1>1, <1>2 DEF Counts, FitsIn
<1>3. n = 0 \/ n = SizeOf(S) => stuck = {}
  <2>1. ASSUME n = 0 \/ n = SizeOf(S), NEW i \in 1..k PROVE FitsIn(nbyt[i - 1], order[i], n)
    <3>1. nbyt[i] <= SizeOf(S)
      BY <1>1
    <3> QED
      BY <1>2, <2>1, <3>1
  <2> QED
    BY <1>1, <2>1
<1>4. ASSUME stuck = {} PROVE [i \in filled |-> order[i]] = order
  <2>1. filled = 1..k
    BY <1>1, <1>4
  <2> QED
    BY <1>1, <2>1
<1>5. ASSUME stuck = {}, n # 0 PROVE SizeOf(S) <= n
  <2>1. CASE k = 0
    BY <1>1, <2>1 DEF Counts
  <2>2. CASE k # 0
    <3>1. k \in 1..k
      BY <1>1, <2>2
    <3>2. FitsIn(nbyt[k - 1], order[k], n)
      BY <1>1, <1>5, <3>1
    <3> QED
      BY <1>1, <1>2, <1>5, <3>1, <3>2
  <2> QED
    BY <2>1, <2>2
<1>6. nbyt[Len(order)] = SizeOf(S)
  BY <1>1
<1> QED
  BY <1>3, <1>4, <1>5, <1>6 DEF nbyt, Stuck, Filling, FilledBy

LEMMA ListxattrKeepsAskInv ==
    ASSUME AskInv, IInv', NEW t \in Threads, NEW n \in 0..MaxSize, Listxattr(t, n)
    PROVE  AskInv'
<1> DEFINE size_ == SizeOf(Present)
<1>1. PICK order \in Orders(Present) :
         LET nbyt   == Nbyt(order)
             stuck  == {i \in DOMAIN order : ~FitsIn(nbyt[i - 1], order[i], n)}
             filled == {i \in DOMAIN order : \A j \in stuck : i < j}
         IN  /\ Begin(t, "list", n, nbyt[Len(order)])
             /\ Finish(t, IF stuck = {} THEN Number(nbyt[Len(order)]) ELSE Error("ERANGE"))
             /\ buf' = [buf EXCEPT ![t] = IF n = 0 THEN <<>> ELSE [i \in filled |-> order[i]]]
             /\ saw' = [saw EXCEPT ![t] = order]
             /\ UNCHANGED rslt
  BY DEF Listxattr
<1>2. n \in Nat /\ Present \in SUBSET Names /\ IsFiniteSet(Present)
  BY XattrAssumption DEF AskInv, AskTypes, Present
<1> DEFINE stuck == Stuck(order, n)
           part_ == FilledBy(order, n)
<1>3. /\ Nbyt(order)[Len(order)] = size_
      /\ n = 0 \/ n = size_ => stuck = {}
      /\ stuck = {} => part_ = order
      /\ stuck = {} /\ n # 0 => size_ <= n
  BY ONLY <1>2, order \in Orders(Present), ListFits
<1>4. /\ Begin(t, "list", n, size_)
      /\ Finish(t, IF stuck = {} THEN Number(size_) ELSE Error("ERANGE"))
      /\ buf' = [buf EXCEPT ![t] = IF n = 0 THEN <<>> ELSE part_]
      /\ saw' = [saw EXCEPT ![t] = order] /\ UNCHANGED rslt
  BY <1>1, <1>3 DEF Stuck, Filling, FilledBy
<1> HIDE DEF stuck, part_, size_
<1>5. /\ TypeInv /\ AskTypes /\ AskedIs(t)
      /\ pc' = [pc EXCEPT ![t] = "done"] /\ op' = [op EXCEPT ![t] = "list"]
      /\ room' = [room EXCEPT ![t] = n]
      /\ answer' = [answer EXCEPT ![t] = IF stuck = {} THEN Number(size_) ELSE Error("ERANGE")]
      /\ promised' = [promised EXCEPT ![t] = asked[t] = <<"list", n>>]
      /\ asked' = IF n = 0 THEN [asked EXCEPT ![t] = <<"list", size_>>] ELSE asked
      /\ UNCHANGED <<xatr, bytes>>
  BY <1>4 DEF Begin, Finish, AskInv, IInv
<1>6. Mine(t)
  BY <1>4, <1>5 DEF Mine, TypeInv
<1>7. asked' = [asked EXCEPT ![t] = asked'[t]] /\ promised' = [promised EXCEPT ![t] = promised'[t]]
  BY <1>5 DEF AskTypes
<1>8. AskedIs(t)'
  <2>1. asked'[t] = asked[t] \/ asked'[t] = <<"list", size_>>
    BY <1>5 DEF AskTypes
  <2>2. Present' = Present
    BY <1>5 DEF Present
  <2> QED
    BY <1>5, <2>1, <2>2 DEF AskedIs, size_
<1>9. promised'[t] => n = 0 \/ n = size_
  <2> SUFFICES ASSUME asked[t] = <<"list", n>> PROVE n = 0 \/ n = size_
    BY <1>5 DEF AskTypes
  <2> QED
    BY <1>5, XattrAssumption DEF AskedIs, NotAsked, size_
<1>10. /\ pc'[t] = "done" /\ op'[t] = "list" /\ room'[t] = n
       /\ answer'[t] = IF stuck = {} THEN Number(size_) ELSE Error("ERANGE")
       /\ saw'[t] = order
       /\ n # 0 => buf'[t] = part_
  BY <1>4, <1>5 DEF TypeInv
<1>11. answer'[t].err = "ok" <=> stuck = {}
  BY <1>10 DEF Number, Error
<1>12. stuck = {} => answer'[t].n = size_
  BY <1>10 DEF Number
<1>13. PromiseOf(t)'
  <2>1. promised'[t] => answer'[t].err = "ok"
    BY <1>3, <1>9, <1>11
  <2>2. ASSUME answer'[t].err = "ok", room'[t] # 0
        PROVE  buf'[t] = saw'[t] /\ answer'[t].n <= room'[t]
    <3>1. stuck = {} /\ n # 0
      BY <1>10, <1>11, <2>2
    <3>2. buf'[t] = saw'[t]
      BY <1>3, <1>10, <3>1
    <3>3. answer'[t].n <= room'[t]
      BY <1>3, <1>10, <1>12, <3>1
    <3> QED
      BY <3>2, <3>3
  <2>3. pc'[t] # "copy"
    BY <1>10
  <2> QED
    BY <2>1, <2>2, <2>3 DEF PromiseOf
<1> QED
  BY <1>6, <1>7, <1>8, <1>13, RequestStep

LEMMA ReplyKeepsAskInv ==
    ASSUME AskInv, IInv', NEW t \in Threads, Reply(t)
    PROVE  AskInv'
<1>1. /\ TypeInv /\ AskTypes /\ AskedIs(t)
      /\ pc' = [pc EXCEPT ![t] = "idle"] /\ op' = [op EXCEPT ![t] = Nil]
      /\ room' = [room EXCEPT ![t] = 0] /\ rslt' = [rslt EXCEPT ![t] = Nil]
      /\ buf' = [buf EXCEPT ![t] = <<>>] /\ answer' = [answer EXCEPT ![t] = Number(0)]
      /\ promised' = [promised EXCEPT ![t] = FALSE] /\ saw' = [saw EXCEPT ![t] = <<>>]
      /\ UNCHANGED <<xatr, bytes, asked>>
  BY DEF Reply, AskInv, IInv
<1>2. Mine(t)
  BY <1>1 DEF Mine, TypeInv
<1>3. asked' = [asked EXCEPT ![t] = asked'[t]] /\ promised' = [promised EXCEPT ![t] = promised'[t]]
  BY <1>1 DEF AskTypes
<1>4. AskedIs(t)' /\ PromiseOf(t)'
  BY <1>1 DEF AskedIs, PromiseOf, Present, TypeInv
<1> QED
  BY <1>2, <1>3, <1>4, RequestStep

\* A buffer of the size that was asked for suffices while nothing changes, and a
\* list that is answered is whole, in whatever order the map gives the names
\* (dispatch.go:376-400).
THEOREM SizesSuffice == XattrSpec => []AskedSizeSuffices
<1>1. XattrInit => AskInv
  <2> SUFFICES ASSUME XattrInit PROVE AskInv
    OBVIOUS
  <2>1. IInv
    BY InitIInv
  <2>2. Present = {}
    BY DEF XattrInit, Present
  <2>3. AskTypes
    BY <2>2, FS_EmptySet DEF XattrInit, Each, AskTypes
  <2>4. \A t \in Threads : AskedIs(t) /\ PromiseOf(t)
    BY DEF XattrInit, Each, AskedIs, PromiseOf
  <2> QED
    BY <2>1, <2>3, <2>4 DEF AskInv
<1>2. AskInv /\ [XattrNext]_xattrVars => AskInv'
  <2> SUFFICES ASSUME AskInv, [XattrNext]_xattrVars PROVE AskInv'
    OBVIOUS
  <2>1. IInv'
    BY StepIInv DEF AskInv
  <2>2. ASSUME NEW x \in Names, NEW v \in Values, NEW flags, Setxattr(x, v, flags)
        PROVE  AskInv'
    BY <2>1, <2>2, ChangeKeepsAskInv DEF Setxattr
  <2>3. ASSUME NEW x \in Names, Removexattr(x) PROVE AskInv'
    BY <2>1, <2>3, ChangeKeepsAskInv DEF Removexattr, reqVars
  <2>4. CASE XattrNext
    BY <2>1, <2>2, <2>3, <2>4, GetxattrKeepsAskInv, ListxattrKeepsAskInv,
       CopyOutKeepsAskInv, ReplyKeepsAskInv DEF XattrNext
  <2>5. CASE UNCHANGED xattrVars
    BY <2>1, <2>5 DEF AskInv, AskTypes, AskedIs, PromiseOf, Present, xattrVars, reqVars, hist
  <2> QED
    BY <2>4, <2>5
<1>3. AskInv => AskedSizeSuffices
  BY DEF AskInv, PromiseOf, AskedSizeSuffices
<1> QED
  BY <1>1, <1>2, <1>3, PTL DEF XattrSpec

-----------------------------------------------------------------------------
(* The attributes of MemfsAttrs *)

AttrTypes ==
    /\ now \in A!Times
    /\ node \in [type : Types, perm : Perms, uid : Ids, gid : Ids,
                 atim : A!Requested, mtim : A!Requested, ctim : A!Times, birthtim : A!Times,
                 flags : Flags]

AttrInv == AttrTypes /\ A!AttributesMakeSense

LEMMA UtimensKeepsAttrInv ==
    ASSUME AttrInv, NEW a \in A!Requested, NEW m \in A!Requested, A!Utimens(a, m)
    PROVE  AttrInv'
<1> DEFINE tmsp == A!HostTimes(a, m)
<1>1. /\ now \in A!Times /\ node' = [node EXCEPT !.ctim = now, !.atim = tmsp[1], !.mtim = tmsp[2]]
      /\ mixed' = (mixed \/ A!UTIME_OMIT \in {a, m} \/ (a = A!UTIME_NOW) # (m = A!UTIME_NOW))
      /\ UNCHANGED <<now, born>>
  BY DEF A!Utimens, AttrInv, AttrTypes
<1>2. tmsp[1] \in A!Requested /\ tmsp[2] \in A!Requested
  BY <1>1 DEF A!HostTimes, A!Requested
<1>3. ~mixed' => ~mixed /\ tmsp[1] \in A!Times /\ tmsp[2] \in A!Times
  BY <1>1 DEF A!HostTimes, A!Requested
<1> HIDE DEF tmsp
<1>4. /\ node'.ctim = now /\ node'.atim = tmsp[1] /\ node'.mtim = tmsp[2]
      /\ node'.type = node.type /\ node'.birthtim = node.birthtim
  BY <1>1 DEF AttrInv, AttrTypes
<1>5. AttrTypes'
  BY <1>1, <1>2 DEF AttrInv, AttrTypes
<1>6. A!AttributesMakeSense'
  BY <1>1, <1>3, <1>4 DEF AttrInv, A!AttributesMakeSense
<1> QED
  BY <1>5, <1>6 DEF AttrInv

LEMMA AttrStep == ASSUME AttrInv, A!Next PROVE AttrInv'
<1> USE DEF AttrInv, AttrTypes, A!AttributesMakeSense
<1>1. CASE A!Clock
  BY <1>1, AAssumption DEF A!Clock, A!Times, A!AttrsAssumption
<1>2. ASSUME NEW type \in Types, NEW perm \in Perms, A!Chmod(type, perm) PROVE AttrInv'
  BY <1>2 DEF A!Chmod, A!Hist
<1>3. ASSUME NEW uid \in Ids \cup {A!NoId}, NEW gid \in Ids \cup {A!NoId}, A!Chown(uid, gid)
      PROVE  AttrInv'
  BY <1>3 DEF A!Chown, A!Hist
<1>4. ASSUME NEW fl \in Flags, A!Chflags(fl) PROVE AttrInv'
  BY <1>4 DEF A!Chflags, A!Hist
<1>5. ASSUME NEW t \in A!Times, A!Setcrtime(t) \/ A!Setchgtime(t) PROVE AttrInv'
  BY <1>5 DEF A!Setcrtime, A!Setchgtime, A!Hist
<1> QED
  BY <1>1, <1>2, <1>3, <1>4, <1>5, UtimensKeepsAttrInv DEF A!Next

\* A node stays what it was made as, and its times are times unless a request
\* mixed the markers for now and for none (dispatch.go:590-618, memfs.go:197-242).
THEOREM AttributesStaySound == SumSpec => []AttributesMakeSense
<1>1. SumInit => AttrInv
  <2> SUFFICES ASSUME A!Init PROVE AttrInv
    BY DEF SumInit
  <2>1. PICK type \in Types, perm \in Perms, uid \in Ids, gid \in Ids :
           node = A!New(type, perm, uid, gid, now) /\ born = type
    BY DEF A!Init
  <2>2. now \in A!Times /\ 0 \in Flags
    BY AAssumption DEF A!Init, A!AttrsAssumption
  <2> QED
    BY <2>1, <2>2 DEF AttrInv, AttrTypes, A!AttributesMakeSense, A!New, A!Requested
<1>2. AttrInv /\ [SumNext]_<<part, vars, xattrVars, attrsVars>> => AttrInv'
  <2> SUFFICES ASSUME AttrInv, [SumNext]_<<part, vars, xattrVars, attrsVars>> PROVE AttrInv'
    OBVIOUS
  <2>1. CASE A!Next
    BY <2>1, AttrStep
  <2>2. CASE UNCHANGED attrsVars
    BY <2>2 DEF attrsVars, AttrInv, AttrTypes, A!AttributesMakeSense
  <2> QED
    BY <2>1, <2>2 DEF SumNext
<1>3. AttrInv => AttributesMakeSense
  BY DEF AttrInv, AttributesMakeSense
<1> QED
  BY <1>1, <1>2, <1>3, PTL DEF SumSpec
=============================================================================
