-------------------------- MODULE MemfsData_proofs --------------------------
(***************************************************************************)
(* The slices of memfs implement files that are sequences of bytes, for    *)
(* any allocation unit, any width of the integers and any amount of space. *)
(***************************************************************************)
EXTENDS MemfsData, TLAPS

LEMMA DivFacts ==
    ASSUME NEW x \in Nat, NEW u \in Nat \ {0}
    PROVE  /\ x \div u \in Nat
           /\ (x \div u) * u \in Nat
           /\ (x \div u) * u <= x
           /\ x < (x \div u) * u + u
<1>1. x \div u \in Int BY SMT
<1>2. x = u * (x \div u) + (x % u) /\ x % u \in 0..(u - 1) BY SMT
<1> QED BY <1>1, <1>2, SMT

\* An allocation size is a multiple of the unit that holds n bytes, or so far
\* below zero that no capacity is equal to it: the integers wrapped around.
LEMMA AllocSizeFacts ==
    ASSUME NEW n \in Offsets
    PROVE  /\ allocsize(n) \in Int
           /\ allocsize(n) <= MaxInt
           /\ allocsize(n) >= 0 => n <= allocsize(n)
<1> USE DataAssumption DEF Offsets
<1> DEFINE up == n + Unit - 1
<1>1. n \in Nat /\ up \in Nat BY SMT
<1>2. CASE up <= MaxInt
  <2>1. Wrap(up) = up BY <1>1, <1>2, SMT DEF Wrap
  <2>2. /\ up \div Unit \in Nat /\ (up \div Unit) * Unit \in Nat
        /\ (up \div Unit) * Unit <= up /\ up < (up \div Unit) * Unit + Unit
    BY <1>1, DivFacts
  <2> DEFINE all == (up \div Unit) * Unit
  <2>3. Wrap(all) = all BY <1>1, <1>2, <2>2, SMT DEF Wrap
  <2>4. allocsize(n) = all
    <3>1. Quo(Wrap(up), Unit) = up \div Unit BY <2>1, <1>1, SMT DEF Quo
    <3> HIDE DEF up
    <3>2. allocsize(n) = Wrap(Quo(Wrap(up), Unit) * Unit) BY Zenon DEF allocsize, up
    <3> QED BY <3>1, <3>2, <2>3
  <2> HIDE DEF all
  <2>5. all \in Nat /\ all <= up /\ up < all + Unit BY <2>2 DEF all
  <2> QED BY <2>4, <2>5, <1>1, <1>2, SMT
<1>3. CASE ~(up <= MaxInt)
  <2> DEFINE low == up - 2 * (MaxInt + 1)
             x   == -low
  <2>1. Wrap(up) = low BY <1>1, <1>3, SMT DEF Wrap
  <2>2. low \in Int /\ x \in Nat /\ x > Unit /\ low < 0 BY <1>1, SMT
  <2> DEFINE all == (x \div Unit) * Unit
  <2>3. /\ x \div Unit \in Nat /\ all \in Nat /\ all <= x /\ x < all + Unit
    BY <2>2, DivFacts
  <2>4. Quo(low, Unit) = -(x \div Unit) BY <2>2, SMT DEF Quo
  <2>5. Quo(low, Unit) * Unit = -all
    <3> HIDE DEF x
    <3>1. (-(x \div Unit)) * Unit = -((x \div Unit) * Unit) BY <2>3, SMT
    <3> QED BY <3>1, <2>4
  <2>6. allocsize(n) = Wrap(-all)
    <3> HIDE DEF low, up, all
    <3>1. allocsize(n) = Wrap(Quo(Wrap(up), Unit) * Unit) BY Zenon DEF allocsize, up
    <3> QED BY <3>1, <2>1, <2>5
  <2> HIDE DEF all
  <2>7. Wrap(-all) = -all BY <2>3, SMT DEF Wrap
  <2>8. all > 0 BY <2>2, <2>3, SMT
  <2> QED BY <2>6, <2>7, <2>8, <2>3, SMT
<1> QED BY <1>2, <1>3

\* A slice: cap bytes, of which the first len are its own.
IsSlice(s) ==
    /\ s = [cap |-> s.cap, len |-> s.len, at |-> s.at]
    /\ s.cap \in Offsets /\ s.len \in 0..s.cap
    /\ s.at \in [0..(s.cap - 1) -> Bytes]

\* The contents that a slice stands for.
View(s) == [size |-> s.len, byte |-> [i \in 0..(s.len - 1) |-> s.at[i]]]

\* What resize returns: a slice of n bytes, which keeps the old ones and reads
\* as zero behind them.
LEMMA ResizeFacts ==
    ASSUME NEW s, IsSlice(s), NEW n \in Offsets, CanResize(s, n)
    PROVE  /\ IsSlice(resize(s, n))
           /\ resize(s, n).len = n
           /\ \A i \in 0..(n - 1) : resize(s, n).at[i] = IF i < s.len THEN s.at[i] ELSE 0
<1> DEFINE r == resize(s, n)
           a == allocsize(n)
<1> USE DataAssumption DEF Offsets
<1>1. a \in Int /\ a <= MaxInt /\ (a >= 0 => n <= a) BY AllocSizeFacts
<1>2. /\ s.cap \in Offsets /\ s.len \in 0..s.cap
      /\ s.at \in [0..(s.cap - 1) -> Bytes]
  BY DEF IsSlice
<1>3. CASE s.cap = a
  <2> DEFINE at == [i \in 0..(s.cap - 1) |-> IF i >= s.len /\ i < n THEN 0 ELSE s.at[i]]
  <2>1. r = [cap |-> s.cap, len |-> n, at |-> at] BY <1>3 DEF resize
  <2>2. n \in 0..s.cap BY <1>1, <1>2, <1>3, SMT
  <2>3. at \in [0..(s.cap - 1) -> Bytes] BY <1>2
  <2>4. \A i \in 0..(n - 1) : at[i] = IF i < s.len THEN s.at[i] ELSE 0 BY <1>2, <2>2
  <2> HIDE DEF r, at
  <2>5. r.cap = s.cap /\ r.len = n /\ r.at = at BY <2>1
  <2>6. IsSlice(r) BY <1>2, <2>1, <2>2, <2>3, <2>5 DEF IsSlice
  <2> QED BY <2>4, <2>5, <2>6 DEF r
<1>4. CASE s.cap # a
  <2> DEFINE at == [i \in 0..(a - 1) |-> IF i < s.len /\ i < n THEN s.at[i] ELSE 0]
  <2>1. r = [cap |-> a, len |-> n, at |-> at] BY <1>4 DEF resize
  <2>2. a \in Offsets /\ n \in 0..a BY <1>1, <1>4, SMT DEF CanResize
  <2>3. at \in [0..(a - 1) -> Bytes] BY <1>2, <1>1
  <2>4. \A i \in 0..(n - 1) : at[i] = IF i < s.len THEN s.at[i] ELSE 0 BY <1>2, <1>1, <2>2
  <2> HIDE DEF r, at, a
  <2>5. r.cap = a /\ r.len = n /\ r.at = at BY <2>1
  <2>6. IsSlice(r) BY <2>1, <2>2, <2>3, <2>5 DEF IsSlice
  <2> QED BY <2>4, <2>5, <2>6 DEF r
<1> QED BY <1>3, <1>4

\* In the abstract file, a slice that was resized is the contents resized.
LEMMA ResizeImplements ==
    ASSUME NEW s, IsSlice(s), NEW n \in Offsets, CanResize(s, n)
    PROVE  View(resize(s, n)) = Content!Resized(View(s), n)
<1>1. /\ resize(s, n).len = n
      /\ \A i \in 0..(n - 1) : resize(s, n).at[i] = IF i < s.len THEN s.at[i] ELSE 0
  BY ResizeFacts
<1>2. \A i \in 0..(n - 1) : i < s.len => View(s).byte[i] = s.at[i]
  BY DEF View, IsSlice, Offsets
<1> DEFINE b1 == [i \in 0..(n - 1) |-> resize(s, n).at[i]]
           b2 == [i \in 0..(n - 1) |-> IF i < s.len THEN View(s).byte[i] ELSE 0]
<1>3. b1 = b2 BY <1>1, <1>2
<1>4. View(resize(s, n)) = [size |-> n, byte |-> b1] BY <1>1 DEF View
<1>5. View(s).size = s.len BY DEF View
<1>6. Content!Resized(View(s), n) = [size |-> n, byte |-> b2] BY <1>5 DEF Content!Resized
<1> QED BY <1>3, <1>4, <1>6

\* A slice made longer, if need be.
Longer(s, n) == IF n > s.len THEN resize(s, n) ELSE s

LEMMA LongerFacts ==
    ASSUME NEW s, IsSlice(s), NEW n \in Offsets, n <= s.len \/ CanResize(s, n)
    PROVE  /\ IsSlice(Longer(s, n))
           /\ Longer(s, n).len = IF n > s.len THEN n ELSE s.len
           /\ \A i \in 0..(s.len - 1) : Longer(s, n).at[i] = s.at[i]
           /\ View(Longer(s, n)) = Content!Extended(View(s), n)
<1>1. s.len \in Nat /\ n \in Nat BY DataAssumption DEF IsSlice, Offsets
<1>2. View(s).size = s.len BY DEF View
<1>3. CASE n > s.len
  <2>1. CanResize(s, n) BY <1>1, <1>3
  <2>2. /\ IsSlice(resize(s, n)) /\ resize(s, n).len = n
        /\ \A i \in 0..(n - 1) : resize(s, n).at[i] = IF i < s.len THEN s.at[i] ELSE 0
    BY <2>1, ResizeFacts
  <2>3. View(resize(s, n)) = Content!Resized(View(s), n) BY <2>1, ResizeImplements
  <2>4. Longer(s, n) = resize(s, n) BY <1>3 DEF Longer
  <2>5. \A i \in 0..(s.len - 1) : resize(s, n).at[i] = s.at[i] BY <1>1, <1>3, <2>2
  <2>6. Content!Extended(View(s), n) = Content!Resized(View(s), n)
    BY <1>2, <1>3 DEF Content!Extended
  <2> QED BY <1>3, <2>2, <2>3, <2>4, <2>5, <2>6
<1>4. CASE ~(n > s.len)
  <2>1. Longer(s, n) = s BY <1>4 DEF Longer
  <2>2. Content!Extended(View(s), n) = View(s) BY <1>2, <1>4 DEF Content!Extended
  <2> QED BY <1>4, <2>1, <2>2
<1> QED BY <1>3, <1>4

\* copy into a slice, of bytes that it has or has been made longer for.
LEMMA OverlaidFacts ==
    ASSUME NEW s, IsSlice(s), NEW ofst \in Offsets, NEW n \in Offsets,
           ofst + n <= MaxInt, NEW b \in Buffers(n),
           ofst + n <= s.len \/ CanResize(s, ofst + n)
    PROVE  LET o == Overlaid(Longer(s, ofst + n), ofst, n, b) IN
           /\ IsSlice(o)
           /\ o.len = IF ofst + n > s.len THEN ofst + n ELSE s.len
           /\ View(o) = Content!Overlaid(View(s), ofst, n, b)
<1> DEFINE e == Longer(s, ofst + n)
           o == Overlaid(e, ofst, n, b)
           at == [i \in 0..(e.cap - 1) |->
                    IF i >= ofst /\ i < ofst + n THEN b[i - ofst] ELSE e.at[i]]
<1>0. ofst \in Nat /\ n \in Nat /\ ofst + n \in Offsets BY DataAssumption DEF Offsets
<1>1. /\ IsSlice(e) /\ e.len = (IF ofst + n > s.len THEN ofst + n ELSE s.len)
      /\ View(e) = Content!Extended(View(s), ofst + n)
  BY <1>0, LongerFacts
<1> HIDE DEF e
<1>2. /\ e = [cap |-> e.cap, len |-> e.len, at |-> e.at]
      /\ e.cap \in Nat /\ e.len \in Nat /\ e.len <= e.cap /\ e.cap \in Offsets
      /\ e.at \in [0..(e.cap - 1) -> Bytes]
  BY <1>1, DataAssumption DEF IsSlice, Offsets
<1>3. o = [cap |-> e.cap, len |-> e.len, at |-> at]
  <2>1. o = [e EXCEPT !.at = at] BY DEF Overlaid
  <2> HIDE DEF o, at
  <2> QED BY <2>1, <1>2
<1>4. at \in [0..(e.cap - 1) -> Bytes]
  <2> SUFFICES ASSUME NEW i \in 0..(e.cap - 1)
               PROVE  (IF i >= ofst /\ i < ofst + n THEN b[i - ofst] ELSE e.at[i]) \in Bytes
    OBVIOUS
  <2>1. CASE i >= ofst /\ i < ofst + n
    <3>1. i - ofst \in 0..(n - 1) BY <1>0, <1>2, <2>1
    <3> QED BY <2>1, <3>1 DEF Buffers
  <2>2. CASE ~(i >= ofst /\ i < ofst + n) BY <1>2, <2>2
  <2> QED BY <2>1, <2>2
<1>5. o.cap = e.cap /\ o.len = e.len /\ o.at = at
  <2> HIDE DEF o, at
  <2> QED BY <1>3
<1>6. IsSlice(o)
  <2> HIDE DEF o, at
  <2> QED BY <1>2, <1>3, <1>4, <1>5 DEF IsSlice
<1>7. View(o) = Content!Overlaid(View(s), ofst, n, b)
  <2> DEFINE b1 == [i \in 0..(e.len - 1) |-> at[i]]
             b2 == [i \in 0..(e.len - 1) |->
                      IF i >= ofst /\ i < ofst + n THEN b[i - ofst] ELSE View(e).byte[i]]
  <2>1. View(o) = [size |-> e.len, byte |-> b1]
    <3> HIDE DEF o, at
    <3> QED BY <1>5 DEF View
  <2>2. b1 = b2
    <3>1. \A i \in 0..(e.len - 1) : View(e).byte[i] = e.at[i] BY DEF View
    <3>2. \A i \in 0..(e.len - 1) : i \in 0..(e.cap - 1) BY <1>2
    <3> QED BY <3>1, <3>2
  <2>3. View(e) = [size |-> e.len, byte |-> View(e).byte] BY DEF View
  <2>4. Content!Overlaid(View(s), ofst, n, b) = [View(e) EXCEPT !.byte = b2]
    <3>1. View(e).size = e.len BY <2>3
    <3> QED BY <1>1, <3>1 DEF Content!Overlaid
  <2>5. [View(e) EXCEPT !.byte = b2] = [size |-> e.len, byte |-> b2]
    <3> HIDE DEF b2
    <3> QED BY <2>3
  <2> QED BY <2>1, <2>2, <2>4, <2>5
<1>8. Overlaid(Longer(s, ofst + n), ofst, n, b) = o BY DEF e
<1> HIDE DEF o
<1> QED BY <1>1, <1>5, <1>6, <1>7, <1>8

-----------------------------------------------------------------------------
\* Every node holds a slice as long as stat.Size says.
DataInv ==
    /\ size \in [Files -> Offsets] /\ data = [f \in Files |-> data[f]]
    /\ \A f \in Files : IsSlice(data[f]) /\ data[f].len = size[f]

IInv == DataInv /\ reply.err \in {"ok", "ENOSPC", "ENOSYS"}

\* The abstract file's variable, as the refinement has it.
Contents ==
    [f \in Files |->
        [size |-> size[f], byte |-> [i \in 0..(size[f] - 1) |-> data[f].at[i]]]]

LEMMA ContentsAreViews ==
    ASSUME DataInv PROVE \A f \in Files : Contents[f] = View(data[f])
BY DEF DataInv, Contents, View

\* An operation that gives one node another slice.
LEMMA ChangeFacts ==
    ASSUME DataInv, NEW g \in Files, NEW STATE s, IsSlice(s),
           data' = [data EXCEPT ![g] = s], size' = [size EXCEPT ![g] = s.len]
    PROVE  DataInv' /\ Contents' = [Contents EXCEPT ![g] = View(s)]
<1>1. s.len \in Offsets BY DataAssumption DEF IsSlice, Offsets
<1>2. \A f \in Files : /\ data'[f] = IF f = g THEN s ELSE data[f]
                       /\ size'[f] = IF f = g THEN s.len ELSE size[f]
  BY DEF DataInv
<1>3. DataInv'
  <2>1. size' \in [Files -> Offsets] BY <1>1 DEF DataInv
  <2>2. data' = [f \in Files |-> data'[f]] BY <1>2 DEF DataInv
  <2>3. \A f \in Files : IsSlice(data'[f]) /\ data'[f].len = size'[f]
    BY <1>2 DEF DataInv
  <2> QED BY <2>1, <2>2, <2>3 DEF DataInv
<1>4. Contents' = [f \in Files |-> IF f = g THEN View(s) ELSE Contents[f]]
  <2>1. \A f \in Files :
            [size |-> size'[f], byte |-> [i \in 0..(size'[f] - 1) |-> data'[f].at[i]]]
                = IF f = g THEN View(s) ELSE Contents[f]
    BY <1>2 DEF View, Contents
  <2> QED BY <2>1 DEF Contents
<1>5. Contents = [f \in Files |-> Contents[f]] BY DEF Contents
<1> HIDE DEF Contents
<1>6. [Contents EXCEPT ![g] = View(s)]
        = [f \in Files |-> IF f = g THEN View(s) ELSE Contents[f]]
  BY <1>5
<1> QED BY <1>3, <1>4, <1>6

\* A request that is refused, or has nothing to do.
LEMMA NoChange ==
    ASSUME DataInv, UNCHANGED <<data, size>> PROVE DataInv' /\ Contents' = Contents
BY DEF DataInv, Contents

LEMMA NoSpaceStep ==
    ASSUME IInv, NoSpace PROVE IInv' /\ Content!Refuse
<1>1. reply' = Refused("ENOSPC") /\ UNCHANGED <<data, size>> BY DEF NoSpace
<1>2. DataInv' /\ Contents' = Contents BY <1>1, NoChange DEF IInv
<1>3. Content!Refuse
  BY <1>1, <1>2 DEF Content!Refuse, Content!Refused, Refused, Contents, Empty, Content!Empty
<1> QED BY <1>1, <1>2, <1>3 DEF Refused, IInv

\* Wrap-around does not touch a range of the kernel's.
LEMMA InRangeFacts ==
    ASSUME NEW ofst \in Offsets, NEW n \in Offsets, InRange(ofst, n)
    PROVE  Wrap(ofst + n) = ofst + n /\ ofst + n \in Offsets
BY DataAssumption DEF Wrap, InRange, Offsets

LEMMA TruncateStep ==
    ASSUME IInv, NEW f \in Files, NEW n \in Offsets, Truncate(f, n)
    PROVE  IInv' /\ (Content!Truncated(f, n) \/ Content!Refuse)
<1> USE DEF IInv
<1>1. CASE CanResize(data[f], n)
  <2> DEFINE s == resize(data[f], n)
  <2>1. IsSlice(s) /\ s.len = n /\ View(s) = Content!Resized(View(data[f]), n)
    BY <1>1, ResizeFacts, ResizeImplements DEF DataInv
  <2>2. /\ data' = [data EXCEPT ![f] = s] /\ size' = [size EXCEPT ![f] = s.len]
        /\ reply' = Answer(0)
    BY <1>1, <2>1 DEF Truncate
  <2> HIDE DEF s
  <2>3. DataInv' /\ Contents' = [Contents EXCEPT ![f] = View(s)]
    BY <2>1, <2>2, ChangeFacts
  <2>4. Contents' = [Contents EXCEPT ![f] = Content!Resized(@, n)]
    BY <2>1, <2>3, ContentsAreViews DEF Contents
  <2>5. Content!Truncated(f, n)
    BY <2>2, <2>4 DEF Content!Truncated, Contents, Answer, Empty,
                      Content!Answer, Content!Empty
  <2> QED BY <2>2, <2>3, <2>5 DEF Answer
<1>2. CASE ~CanResize(data[f], n) BY <1>2, NoSpaceStep DEF Truncate
<1> QED BY <1>1, <1>2

LEMMA FallocateStep ==
    ASSUME IInv, NEW f \in Files, NEW punch \in BOOLEAN,
           NEW ofst \in Offsets, NEW n \in Offsets, InRange(ofst, n),
           Fallocate(f, punch, ofst, n)
    PROVE  IInv' /\ (Content!Allocated(f, ofst + n) \/ Content!Refuse)
<1> USE DEF IInv
<1> DEFINE end == ofst + n
<1>0. Wrap(ofst + n) = end /\ end \in Offsets BY InRangeFacts
<1> HIDE DEF end
<1>1. CASE punch
  <2>1. reply' = Refused("ENOSYS") /\ UNCHANGED <<data, size>> BY <1>1 DEF Fallocate
  <2>2. DataInv' /\ Contents' = Contents BY <2>1, NoChange
  <2>3. Content!Refuse
    BY <2>1, <2>2 DEF Content!Refuse, Content!Refused, Refused, Contents, Empty, Content!Empty
  <2> QED BY <2>1, <2>2, <2>3 DEF Refused
<1>2. CASE ~punch /\ Fits(f, end)
  <2> DEFINE s == Longer(data[f], end)
  <2>0. data[f].len = size[f] /\ IsSlice(data[f]) BY DEF DataInv
  <2>1. /\ IsSlice(s) /\ s.len = SizeFor(f, end)
        /\ View(s) = Content!Extended(View(data[f]), end)
    BY <1>0, <1>2, <2>0, LongerFacts DEF Fits, SizeFor
  <2>2. s = Extended(f, end) BY <2>0 DEF Longer, Extended
  <2>3. /\ data' = [data EXCEPT ![f] = s] /\ size' = [size EXCEPT ![f] = s.len]
        /\ reply' = Answer(0)
    BY <1>0, <1>2, <2>1, <2>2 DEF Fallocate
  <2> HIDE DEF s
  <2>4. DataInv' /\ Contents' = [Contents EXCEPT ![f] = View(s)]
    BY <2>1, <2>3, ChangeFacts
  <2>5. Contents' = [Contents EXCEPT ![f] = Content!Extended(@, end)]
    BY <2>1, <2>4, ContentsAreViews DEF Contents
  <2>6. Content!Allocated(f, end)
    BY <2>3, <2>5 DEF Content!Allocated, Contents, Answer, Empty,
                      Content!Answer, Content!Empty
  <2> QED BY <2>3, <2>4, <2>6 DEF Answer, end
<1>3. CASE ~punch /\ ~Fits(f, end) BY <1>0, <1>3, NoSpaceStep DEF Fallocate
<1> QED BY <1>1, <1>2, <1>3

LEMMA WriteStep ==
    ASSUME IInv, NEW f \in Files, NEW ofst \in Offsets, NEW n \in Offsets,
           InRange(ofst, n), NEW b \in Buffers(n), Write(f, ofst, n, b)
    PROVE  IInv' /\ (Content!Written(f, ofst, n, b) \/ Content!Refuse)
<1> USE DEF IInv
<1>0. Wrap(ofst + n) = ofst + n /\ ofst + n \in Offsets BY InRangeFacts
<1>1. CASE Fits(f, ofst + n)
  <2> DEFINE s == Overlaid(Longer(data[f], ofst + n), ofst, n, b)
  <2>0. data[f].len = size[f] /\ IsSlice(data[f]) BY DEF DataInv
  <2>1. /\ IsSlice(s) /\ s.len = SizeFor(f, ofst + n)
        /\ View(s) = Content!Overlaid(View(data[f]), ofst, n, b)
    <3>1. ofst + n <= MaxInt BY DEF InRange
    <3>2. ofst + n <= data[f].len \/ CanResize(data[f], ofst + n)
      BY <1>1, <2>0 DEF Fits
    <3>3. /\ IsSlice(s)
          /\ s.len = IF ofst + n > data[f].len THEN ofst + n ELSE data[f].len
          /\ View(s) = Content!Overlaid(View(data[f]), ofst, n, b)
      BY <2>0, <3>1, <3>2, OverlaidFacts
    <3> QED BY <2>0, <3>3 DEF SizeFor
  <2>2. Longer(data[f], ofst + n) = Extended(f, ofst + n) BY <2>0 DEF Longer, Extended
  <2>3. /\ data' = [data EXCEPT ![f] = s] /\ size' = [size EXCEPT ![f] = s.len]
        /\ reply' = Answer(n)
    BY <1>0, <1>1, <2>1, <2>2 DEF Write
  <2> HIDE DEF s
  <2>4. DataInv' /\ Contents' = [Contents EXCEPT ![f] = View(s)]
    BY <2>1, <2>3, ChangeFacts
  <2>5. Contents' = [Contents EXCEPT ![f] = Content!Overlaid(@, ofst, n, b)]
    BY <2>1, <2>4, ContentsAreViews DEF Contents
  <2>6. Content!Written(f, ofst, n, b)
    BY <2>3, <2>5 DEF Content!Written, Contents, Answer, Empty,
                      Content!Answer, Content!Empty
  <2> QED BY <2>3, <2>4, <2>6 DEF Answer
<1>2. CASE ~Fits(f, ofst + n) BY <1>0, <1>2, NoSpaceStep DEF Write
<1> QED BY <1>1, <1>2

\* The bytes of a slice, taken from the slice or from its contents.
LEMMA SliceFacts ==
    ASSUME NEW s, IsSlice(s), NEW ofst \in Offsets, NEW k \in Offsets, ofst + k <= s.len
    PROVE  /\ Slice(s, ofst, k) = Content!Part(View(s), ofst, k)
           /\ Slice(s, ofst, k) \in Buffers(k)
<1>1. \A i \in 0..(k - 1) : ofst + i \in 0..(s.len - 1) /\ ofst + i \in 0..(s.cap - 1)
  BY DataAssumption DEF IsSlice, Offsets
<1>2. \A i \in 0..(k - 1) : View(s).byte[ofst + i] = s.at[ofst + i] BY <1>1 DEF View
<1>3. \A i \in 0..(k - 1) : s.at[ofst + i] \in Bytes BY <1>1 DEF IsSlice
<1> QED BY <1>2, <1>3 DEF Slice, Content!Part, Buffers

LEMMA ReadStep ==
    ASSUME IInv, NEW f \in Files, NEW ofst \in Offsets, NEW n \in Offsets,
           InRange(ofst, n), Read(f, ofst, n)
    PROVE  IInv' /\ Content!ReadOut(f, ofst, n)
<1> USE DEF IInv
<1> DEFINE k == Content!Available(Contents[f], ofst, n)
<1>0. Wrap(ofst + n) = ofst + n /\ ofst + n \in Offsets BY InRangeFacts
<1>1. /\ Contents[f].size = size[f] /\ size[f] \in Nat /\ size[f] <= MaxInt
      /\ ofst \in Nat /\ n \in Nat
  BY DataAssumption DEF Contents, DataInv, Offsets
<1>2. k \in Offsets /\ (k # 0 => ofst + k <= size[f])
  BY <1>1, DataAssumption DEF Content!Available, Offsets
<1>3. /\ reply' = [err |-> "ok", n |-> k, data |-> Slice(data[f], ofst, k)]
      /\ UNCHANGED <<data, size>>
  <2> DEFINE end == IF ofst + n > size[f] THEN size[f] ELSE ofst + n
             m   == IF end < ofst THEN 0 ELSE end - ofst
  <2>1. m = k BY <1>1 DEF Content!Available
  <2>2. /\ reply' = [err |-> "ok", n |-> m, data |-> Slice(data[f], ofst, m)]
        /\ UNCHANGED <<data, size>>
    BY <1>0 DEF Read
  <2> HIDE DEF m, k
  <2> QED BY <2>1, <2>2
<1>4. Slice(data[f], ofst, k) = Content!Part(Contents[f], ofst, k)
  <2>1. Contents[f] = View(data[f]) /\ IsSlice(data[f]) /\ data[f].len = size[f]
    BY ContentsAreViews DEF DataInv
  <2>2. CASE k # 0
    <3> HIDE DEF k
    <3> QED BY <1>2, <2>1, <2>2, SliceFacts
  <2>3. CASE k = 0
    <3> HIDE DEF k
    <3>1. 0..(k - 1) = {} BY <2>3
    <3> QED BY <3>1 DEF Slice, Content!Part
  <2> QED BY <2>2, <2>3
<1>5. DataInv' /\ Contents' = Contents BY <1>3, NoChange
<1>6. Content!ReadOut(f, ofst, n)
  BY <1>3, <1>4, <1>5 DEF Content!ReadOut, Contents
<1>7. reply'.err = "ok"
  <2> HIDE DEF k
  <2> QED BY <1>3
<1> QED BY <1>5, <1>6, <1>7

LEMMA CopyStep ==
    ASSUME IInv, NEW f \in Files, NEW g \in Files,
           NEW ofst \in Offsets, NEW to \in Offsets, NEW n \in Offsets,
           InRange(ofst, n), InRange(to, n), CopyFileRange(f, ofst, g, to, n)
    PROVE  /\ IInv'
           /\ \/ Content!Refuse
              \/ \E k \in 0..n : Content!Copied(f, ofst, g, to, k)
<1> USE DEF IInv
<1>0. Wrap(ofst + n) = ofst + n /\ ofst + n \in Offsets BY InRangeFacts
<1>1. /\ Contents[f].size = size[f] /\ size[f] \in Nat /\ size[f] <= MaxInt
      /\ ofst \in Nat /\ to \in Nat /\ n \in Nat /\ MaxInt \in Nat
  BY DataAssumption DEF Contents, DataInv, Offsets
<1>6. PICK k \in Int : k = (IF ofst + n > size[f] THEN size[f] ELSE ofst + n) - ofst
  BY <1>1
<1> DEFINE grown == [data EXCEPT ![g] = Extended(g, to + k)]
<1>2. /\ k <= n /\ ofst + k <= size[f]
      /\ k > 0 => k \in Offsets /\ to + k <= MaxInt /\ InRange(to, k)
  BY <1>1, <1>6 DEF Offsets, InRange
<1>5. \/ k <= 0 /\ reply' = Answer(0) /\ UNCHANGED <<data, size>>
      \/ /\ k > 0 /\ Fits(g, Wrap(to + k))
         /\ LET new == [data EXCEPT ![g] = Extended(g, Wrap(to + k))] IN
               data' = [new EXCEPT ![g] = Overlaid(new[g], to, k, Slice(new[f], ofst, k))]
         /\ size' = [size EXCEPT ![g] = SizeFor(g, Wrap(to + k))]
         /\ reply' = Answer(k)
      \/ k > 0 /\ ~Fits(g, Wrap(to + k)) /\ NoSpace
  <2>1. PICK new : new = [data EXCEPT ![g] = Extended(g, Wrap(to + k))] OBVIOUS
  <2>2. k = (IF Wrap(ofst + n) > size[f] THEN size[f] ELSE Wrap(ofst + n)) - ofst
    BY <1>0, <1>6
  <2>3. \/ k <= 0 /\ reply' = Answer(0) /\ UNCHANGED <<data, size>>
        \/ /\ ~(k <= 0) /\ Fits(g, Wrap(to + k))
           /\ data' = [new EXCEPT ![g] = Overlaid(new[g], to, k, Slice(new[f], ofst, k))]
           /\ size' = [size EXCEPT ![g] = SizeFor(g, Wrap(to + k))]
           /\ reply' = Answer(k)
        \/ ~(k <= 0) /\ ~Fits(g, Wrap(to + k)) /\ NoSpace
    BY ONLY <2>1, <2>2, CopyFileRange(f, ofst, g, to, n), Zenon DEF CopyFileRange
  <2>4. ~(k <= 0) <=> k > 0 OBVIOUS
  <2> QED BY <2>1, <2>3, <2>4, Zenon
<1>3. CASE k <= 0
  <2>1. reply' = Answer(0) /\ UNCHANGED <<data, size>>
    <3> QED BY <1>2, <1>3, <1>5
  <2>2. DataInv' /\ Contents' = Contents BY <2>1, NoChange
  <2>3. 0 <= Content!Available(Contents[f], ofst, 0) BY <1>1 DEF Content!Available
  <2>4. Content!Copied(f, ofst, g, to, 0)
    BY <2>1, <2>2, <2>3 DEF Content!Copied, Contents, Answer, Empty,
                            Content!Answer, Content!Empty
  <2> QED BY <1>1, <2>1, <2>2, <2>4 DEF Answer
<1>4. CASE k > 0
  <2>0. Wrap(to + k) = to + k /\ to + k \in Offsets
    <3> QED BY <1>2, <1>4, InRangeFacts
  <2>1. CASE ~Fits(g, to + k)
    <3>1. NoSpace
      <4> QED BY <1>2, <1>4, <1>5, <2>0, <2>1
    <3> QED BY <3>1, NoSpaceStep
  <2>2. CASE Fits(g, to + k)
    <3> DEFINE b == Slice(grown[f], ofst, k)
               s == Overlaid(Longer(data[g], to + k), to, k, b)
    <3>1. /\ data[f].len = size[f] /\ IsSlice(data[f])
          /\ data[g].len = size[g] /\ IsSlice(data[g])
      BY DEF DataInv
    <3>2. Longer(data[g], to + k) = Extended(g, to + k) BY <3>1 DEF Longer, Extended
    <3>3. to + k <= data[g].len \/ CanResize(data[g], to + k) BY <2>2, <3>1 DEF Fits
    <3>4. b = Slice(data[f], ofst, k)
      <4>1. CASE f # g BY <4>1 DEF DataInv
      <4>2. CASE f = g
        <5>1. \A i \in 0..(data[g].len - 1) : Longer(data[g], to + k).at[i] = data[g].at[i]
          <6> QED BY <2>0, <3>1, <3>3, LongerFacts
        <5>2. grown[f] = Longer(data[g], to + k) BY <3>2, <4>2 DEF DataInv
        <5> HIDE DEF grown
        <5>3. \A i \in 0..(k - 1) : ofst + i \in 0..(data[g].len - 1)
          BY <1>1, <1>2, <3>1, <4>2
        <5>4. \A i \in 0..(k - 1) : grown[f].at[ofst + i] = data[f].at[ofst + i]
          BY <5>1, <5>2, <5>3, <4>2
        <5> QED BY <5>4 DEF Slice
      <4> QED BY <4>1, <4>2
    <3>5. b = Content!Part(View(data[f]), ofst, k) /\ b \in Buffers(k)
      <4> HIDE DEF b
      <4> QED BY <1>2, <1>4, <3>1, <3>4, SliceFacts
    <3>6. /\ data' = [data EXCEPT ![g] = s] /\ size' = [size EXCEPT ![g] = SizeFor(g, to + k)]
          /\ reply' = Answer(k)
      <4>1. /\ data' = [grown EXCEPT ![g] = Overlaid(grown[g], to, k, b)]
            /\ size' = [size EXCEPT ![g] = SizeFor(g, to + k)]
            /\ reply' = Answer(k)
        <5> QED BY <1>2, <1>4, <1>5, <2>0, <2>2
      <4>2. grown[g] = Longer(data[g], to + k) BY <3>2 DEF DataInv
      <4>3. [grown EXCEPT ![g] = s] = [data EXCEPT ![g] = s]
        <5> HIDE DEF s
        <5> QED BY DEF DataInv
      <4> HIDE DEF grown, b
      <4> QED BY <4>1, <4>2, <4>3
    <3> HIDE DEF b
    <3>7. /\ IsSlice(s)
          /\ s.len = IF to + k > data[g].len THEN to + k ELSE data[g].len
          /\ View(s) = Content!Overlaid(View(data[g]), to, k, b)
      BY <1>2, <1>4, <3>1, <3>3, <3>5, OverlaidFacts
    <3> HIDE DEF s
    <3>8. s.len = SizeFor(g, to + k) BY <3>1, <3>7 DEF SizeFor
    <3>9. DataInv' /\ Contents' = [Contents EXCEPT ![g] = View(s)]
      BY <3>6, <3>7, <3>8, ChangeFacts
    <3>10. Contents' = [Contents EXCEPT ![g] =
                           Content!Overlaid(@, to, k, Content!Part(Contents[f], ofst, k))]
      <4>1. Contents[f] = View(data[f]) /\ Contents[g] = View(data[g])
        BY ContentsAreViews
      <4>2. View(s) = Content!Overlaid(Contents[g], to, k, Content!Part(Contents[f], ofst, k))
        BY <3>5, <3>7, <4>1
      <4> QED BY <3>9, <4>2 DEF Contents
    <3>11. k <= Content!Available(Contents[f], ofst, k)
      BY <1>1, <1>2 DEF Content!Available
    <3>12. Content!Copied(f, ofst, g, to, k)
      BY <1>4, <3>6, <3>10, <3>11 DEF Content!Copied, Contents, Answer, Empty,
                                      Content!Answer, Content!Empty
    <3>13. k \in 0..n BY <1>1, <1>2, <1>4
    <3>14. reply'.err = "ok" BY <3>6 DEF Answer
    <3>15. \E i \in 0..n : Content!Copied(f, ofst, g, to, i)
      BY <3>12, <3>13, Zenon
    <3> QED BY <3>9, <3>14, <3>15
  <2> QED BY <2>1, <2>2
<1> QED BY <1>2, <1>3, <1>4

LEMMA InitIInv == Init => IInv /\ Content!AbstractInit
<1> SUFFICES ASSUME Init PROVE IInv /\ Content!AbstractInit OBVIOUS
<1>1. 0 \in Offsets /\ 0..(0 - 1) = {} BY DataAssumption DEF Offsets
<1>2. /\ size = [f \in Files |-> 0] /\ reply = Answer(0)
      /\ data = [f \in Files |-> [cap |-> 0, len |-> 0, at |-> Empty]]
  BY DEF Init
<1>3. Empty \in [0..(0 - 1) -> Bytes] BY <1>1 DEF Empty
<1>4. \A f \in Files : IsSlice(data[f]) /\ data[f].len = size[f]
  <2> DEFINE s == [cap |-> 0, len |-> 0, at |-> Empty]
  <2>1. s.cap = 0 /\ s.len = 0 /\ s.at = Empty OBVIOUS
  <2>2. s = [cap |-> s.cap, len |-> s.len, at |-> s.at] OBVIOUS
  <2>3. 0 \in 0..0 OBVIOUS
  <2>4. IsSlice(s)
    <3> HIDE DEF s
    <3> QED BY <1>1, <1>3, <2>1, <2>2, <2>3 DEF IsSlice
  <2>5. \A f \in Files : data[f] = s /\ size[f] = 0 BY <1>2
  <2> HIDE DEF s
  <2> QED BY <2>1, <2>4, <2>5
<1>5. IInv BY <1>1, <1>2, <1>4 DEF IInv, DataInv, Answer
<1>6. Contents = [f \in Files |-> [size |-> 0, byte |-> Empty]]
  <2>1. \A f \in Files : [i \in 0..(size[f] - 1) |-> data[f].at[i]] = Empty
    BY <1>1, <1>2 DEF Empty
  <2> QED BY <1>2, <2>1 DEF Contents
<1>7. Content!AbstractInit
  BY <1>2, <1>6 DEF Content!AbstractInit, Contents, Empty, Content!Empty,
                    Answer, Content!Answer
<1> QED BY <1>5, <1>7

\* Every step keeps the invariant, and is a step of the abstract file or leaves
\* it alone.
LEMMA NextStep ==
    ASSUME IInv, [Next]_vars
    PROVE  IInv' /\ [Content!AbstractNext]_(Content!avars)
<1> USE DataAssumption
<1>0. Offsets = Content!Sizes BY DEF Offsets, Content!Sizes
<1>1. ASSUME NEW f \in Files, NEW n \in Offsets, Truncate(f, n)
      PROVE  IInv' /\ Content!AbstractNext
  BY <1>0, <1>1, TruncateStep DEF Content!AbstractNext
<1>2. ASSUME NEW f \in Files, NEW ofst \in Offsets, NEW n \in Offsets,
             InRange(ofst, n), Read(f, ofst, n)
      PROVE  IInv' /\ Content!AbstractNext
  <2>1. IInv' /\ Content!ReadOut(f, ofst, n) BY <1>2, ReadStep
  <2>2. ofst \in 0..(MaxInt - n) BY <1>2 DEF InRange, Offsets
  <2> QED BY <1>0, <2>1, <2>2 DEF Content!AbstractNext
<1>3. ASSUME NEW f \in Files, NEW punch \in BOOLEAN, NEW ofst \in Offsets,
             NEW n \in Offsets, InRange(ofst, n), Fallocate(f, punch, ofst, n)
      PROVE  IInv' /\ Content!AbstractNext
  <2>1. IInv' /\ (Content!Allocated(f, ofst + n) \/ Content!Refuse)
    BY <1>3, FallocateStep
  <2>2. ofst + n \in Offsets BY <1>3, InRangeFacts
  <2> QED BY <1>0, <2>1, <2>2 DEF Content!AbstractNext
<1>4. ASSUME NEW f \in Files, NEW ofst \in Offsets, NEW n \in Lens, NEW b \in Buffers(n),
             InRange(ofst, n), Write(f, ofst, n, b)
      PROVE  IInv' /\ Content!AbstractNext
  <2>1. n \in Offsets /\ n <= MaxLen BY DEF Lens, Offsets
  <2>2. IInv' /\ (Content!Written(f, ofst, n, b) \/ Content!Refuse)
    BY <1>4, <2>1, WriteStep
  <2>3. ofst \in 0..(MaxInt - n) BY <1>4, <2>1 DEF InRange, Offsets
  <2>4. b \in [0..(n - 1) -> Bytes] BY DEF Buffers
  <2> QED BY <1>0, <2>1, <2>2, <2>3, <2>4 DEF Content!AbstractNext
<1>5. ASSUME NEW f \in Files, NEW g \in Files, NEW ofst \in Offsets,
             NEW to \in Offsets, NEW n \in Offsets,
             InRange(ofst, n), InRange(to, n), CopyFileRange(f, ofst, g, to, n)
      PROVE  IInv' /\ Content!AbstractNext
  <2>1. /\ IInv'
        /\ \/ Content!Refuse
           \/ \E k \in 0..n : Content!Copied(f, ofst, g, to, k)
    BY <1>5, CopyStep
  <2>2. ASSUME NEW k \in 0..n, Content!Copied(f, ofst, g, to, k)
        PROVE  Content!AbstractNext
    <3>1. k \in Offsets /\ ofst \in 0..(MaxInt - k) /\ to \in 0..(MaxInt - k)
      BY <1>5 DEF InRange, Offsets
    <3> QED BY <1>0, <2>2, <3>1 DEF Content!AbstractNext
  <2> QED BY <2>1, <2>2 DEF Content!AbstractNext
<1>6. CASE UNCHANGED vars
  <2>1. DataInv' /\ Contents' = Contents BY <1>6, NoChange DEF IInv, vars
  <2>2. UNCHANGED Content!avars BY <1>6, <2>1 DEF Content!avars, vars, Contents
  <2>3. IInv' BY <1>6, <2>1 DEF IInv, vars
  <2> QED BY <2>2, <2>3
<1>7. CASE Next
  <2>1. PICK f \in Files, ofst \in Offsets :
            \/ Truncate(f, ofst)
            \/ \E n \in Offsets \ {0} :
                /\ InRange(ofst, n)
                /\ \/ Read(f, ofst, n)
                   \/ \E punch \in BOOLEAN : Fallocate(f, punch, ofst, n)
                   \/ \E g \in Files, to \in Offsets :
                         InRange(to, n) /\ CopyFileRange(f, ofst, g, to, n)
            \/ \E n \in Lens : \E b \in Buffers(n) :
                  InRange(ofst, n) /\ Write(f, ofst, n, b)
    BY <1>7 DEF Next
  <2>2. IInv' /\ Content!AbstractNext BY <1>1, <1>2, <1>3, <1>4, <1>5, <2>1
  <2> QED BY <2>2
<1> QED BY <1>6, <1>7

-----------------------------------------------------------------------------
\* A slice never leaves its array and is as long as stat.Size says, so that no
\* slice expression of Read, Write or CopyFileRange is out of range, whatever
\* the sizes and wherever the integers wrap around (memfs.go:35-58, 271-362).
THEOREM SlicesAreInRange == Spec => []TypeOK
<1>1. Spec => []IInv BY InitIInv, NextStep, PTL DEF Spec
<1>2. IInv => TypeOK BY DEF IInv, DataInv, IsSlice, TypeOK
<1> QED BY <1>1, <1>2, PTL

\* memfs implements files that are sequences of bytes, whatever the allocation
\* unit, the width of the integers and the space: what was never written or was
\* cut off reads as zero, and a failed allocation changes nothing
\* (memfs.go:35-58, 261-362).
THEOREM ContentsRefinement == Spec => ImplementsAbstractFile
<1>1. Spec => []IInv BY InitIInv, NextStep, PTL DEF Spec
<1> QED BY <1>1, InitIInv, NextStep, PTL DEF Spec, ImplementsAbstractFile, Content!AbstractSpec
=============================================================================
