--------------------------- MODULE StorageProofs ---------------------------
(***************************************************************************)
(* Every transaction of ChainDb finds and leaves a well-formed database,   *)
(* also when it fails half way and commits: the lemmas SupervisorProofs    *)
(* rests on.                                                               *)
(***************************************************************************)
EXTENDS ChainDb, SequenceTheorems, WellFoundedInduction, TLAPS

-----------------------------------------------------------------------------
(* Numbers *)

\* The least-number principle, for sets.
LEMMA LeastNumber ==
  ASSUME NEW S \in SUBSET Nat, S # {}
  PROVE  \E x \in S : \A y \in S : x <= y
<1>1. PICK x \in S : \A y \in S : ~(<<y, x>> \in OpToRel(<, Nat))
  BY NatLessThanWellFounded, WFMin, ZenonT(30)
<1>2. \A y \in S : ~(y < x)
  BY <1>1, Zenon DEF OpToRel
<1> QED BY <1>2

\* A set of numbers with a bound has a greatest one.
LEMMA GreatestNumber ==
  ASSUME NEW S \in SUBSET Nat, S # {}, NEW bound \in Nat, \A x \in S : x <= bound
  PROVE  \E x \in S : \A y \in S : y <= x
<1> DEFINE gaps == {bound - x : x \in S}
<1>1. gaps \in SUBSET Nat /\ gaps # {}
  <2>1. \A x \in S : x \in Nat /\ x <= bound
    OBVIOUS
  <2>2. \A x \in S : bound - x \in Nat
    BY <2>1
  <2> QED BY <2>2, ZenonT(30)
<1>2. PICK g \in gaps : \A h \in gaps : g <= h
  BY <1>1, LeastNumber, ZenonT(30)
<1>3. PICK x \in S : g = bound - x
  BY <1>2
<1>4. \A y \in S : bound - x <= bound - y
  BY <1>2, <1>3
<1> QED BY <1>4

\* Numbers grow by one along the tree, and a parent is of the same kind.
LEMMA Numbers ==
  /\ \A b \in Block \cup Source : Number[b] \in Nat
  /\ \A b \in Block : Parent[b] # None =>
       Parent[b] \in Block /\ Number[b] = Number[Parent[b]] + 1
  /\ \A s \in Source : Parent[s] # None =>
       Parent[s] \in Source /\ Number[s] = Number[Parent[s]] + 1
BY TreeAssumption
-----------------------------------------------------------------------------
(* Tables *)

\* A table without gaps from key 0, or empty.
FromZero(t) == DOMAIN t = {} \/ \E l \in Nat : DOMAIN t = 0..l

\* A table without gaps, or empty.
NoGaps(t) == DOMAIN t = {} \/ \E f, l \in Nat : f <= l /\ DOMAIN t = f..l

\* The first and last key of a segment.
LEMMA Keys ==
  ASSUME NEW t, NEW f \in Nat, NEW l \in Nat, f <= l, DOMAIN t = f..l
  PROVE  FirstKey(t) = f /\ LastKey(t) = l /\ LastRow(t) = t[l] /\ ~IsEmpty(t)
BY SMTT(40) DEF FirstKey, LastKey, LastRow, IsEmpty

\* The keys of a segment below n.
LEMMA Segment ==
  ASSUME NEW f \in Nat, NEW l \in Nat, f <= l, NEW n \in Nat
  PROVE  /\ n > l => {k \in f..l : k < n} = f..l
         /\ n > f /\ n <= l => {k \in f..l : k < n} = f..(n - 1)
<1>1. ASSUME n > l
      PROVE  {k \in f..l : k < n} = f..l
  <2>1. \A k \in f..l : k < n
    BY <1>1
  <2> QED BY <2>1
<1>2. ASSUME n > f, n <= l
      PROVE  {k \in f..l : k < n} = f..(n - 1)
  <2>1. \A k : (k \in f..l /\ k < n) <=> k \in f..(n - 1)
    BY <1>2
  <2> QED BY <2>1
<1> QED BY <1>1, <1>2

\* Truncate keeps the rows before a key.
LEMMA TruncateRows ==
  ASSUME NEW t, NEW n
  PROVE  /\ DOMAIN Truncate(t, n) = {k \in DOMAIN t : k < n}
         /\ \A k \in DOMAIN Truncate(t, n) : Truncate(t, n)[k] = t[k]
BY DEF Truncate

\* Cutting a table that starts at zero leaves one that does.
LEMMA TruncateFromZero ==
  ASSUME NEW t, FromZero(t), NEW n \in Nat
  PROVE  FromZero(Truncate(t, n))
<1>1. CASE DOMAIN t = {}
  BY <1>1, TruncateRows, ZenonT(30) DEF FromZero
<1>2. ASSUME NEW l \in Nat, DOMAIN t = 0..l
      PROVE  FromZero(Truncate(t, n))
  <2>0. DOMAIN Truncate(t, n) = {k \in 0..l : k < n}
    BY <1>2, TruncateRows, Zenon
  <2>1. CASE n = 0
    BY <1>2, <2>1, TruncateRows DEF FromZero
  <2>2. CASE n > l
    <3>1. DOMAIN Truncate(t, n) = 0..l
      BY <1>2, <2>0, <2>2, Segment
    <3> QED BY <3>1 DEF FromZero
  <2>3. CASE n > 0 /\ n <= l
    <3>1. DOMAIN Truncate(t, n) = 0..(n - 1) /\ n - 1 \in Nat
      BY <1>2, <2>0, <2>3, Segment
    <3> QED BY <3>1 DEF FromZero
  <2> QED BY <2>1, <2>2, <2>3
<1> QED BY <1>1, <1>2 DEF FromZero

\* Cutting a table without gaps leaves one.
LEMMA TruncateNoGaps ==
  ASSUME NEW t, NoGaps(t), NEW n \in Nat
  PROVE  NoGaps(Truncate(t, n))
<1>1. CASE DOMAIN t = {}
  BY <1>1, TruncateRows DEF NoGaps
<1>2. ASSUME NEW f \in Nat, NEW l \in Nat, f <= l, DOMAIN t = f..l
      PROVE  NoGaps(Truncate(t, n))
  <2>0. DOMAIN Truncate(t, n) = {k \in f..l : k < n}
    BY <1>2, TruncateRows, Zenon
  <2>1. CASE n <= f
    <3>1. DOMAIN Truncate(t, n) = {}
      BY <2>0, <2>1
    <3> QED BY <3>1 DEF NoGaps
  <2>2. CASE n > l
    <3>1. DOMAIN Truncate(t, n) = f..l
      BY <1>2, <2>0, <2>2, Segment
    <3> QED BY <1>2, <3>1 DEF NoGaps
  <2>3. CASE n > f /\ n <= l
    <3>1. DOMAIN Truncate(t, n) = f..(n - 1) /\ n - 1 \in Nat /\ f <= n - 1
      BY <1>2, <2>0, <2>3, Segment
    <3> QED BY <3>1 DEF NoGaps
  <2> QED BY <2>1, <2>2, <2>3
<1> QED BY <1>1, <1>2 DEF NoGaps

-----------------------------------------------------------------------------
(* Vec::retain on the numbers of the blocks derived from a source *)

Increasing(s) == \A i, j \in 1..Len(s) : i < j => s[i] < s[j]

\* The first k elements.
Upto(s, k) == SubSeq(s, 1, k)

\* A prefix of a sequence.
LEMMA UptoFacts ==
  ASSUME NEW s \in Seq(Nat), NEW k \in 0..Len(s)
  PROVE  /\ Upto(s, k) \in Seq(Nat) /\ Len(Upto(s, k)) = k
         /\ \A i \in 1..k : Upto(s, k)[i] = s[i]
         /\ k = 0 => Upto(s, k) = << >>
         /\ k > 0 => Upto(s, k) = Append(Upto(s, k - 1), s[k])
<1>1. \A j \in 0..Len(s) : /\ Upto(s, j) \in Seq(Nat) /\ Len(Upto(s, j)) = j
                           /\ \A i \in 1..j : Upto(s, j)[i] = s[i]
  BY SMTT(40) DEF Upto
<1>2. k = 0 => Upto(s, k) = << >>
  BY <1>1
<1>3. ASSUME k > 0
      PROVE  Upto(s, k) = Append(Upto(s, k - 1), s[k])
  <2> DEFINE a == Upto(s, k)
             b == Append(Upto(s, k - 1), s[k])
  <2>1. k - 1 \in 0..Len(s) /\ s[k] \in Nat
    BY <1>3
  <2>2. a \in Seq(Nat) /\ Len(a) = k /\ \A i \in 1..k : a[i] = s[i]
    BY <1>1
  <2>3. b \in Seq(Nat) /\ Len(b) = k /\ \A i \in 1..k : b[i] = s[i]
    <3>1. /\ Upto(s, k - 1) \in Seq(Nat) /\ Len(Upto(s, k - 1)) = k - 1
          /\ \A i \in 1..(k - 1) : Upto(s, k - 1)[i] = s[i]
      BY <1>1, <2>1, SMTT(40)
    <3> QED BY <3>1, <2>1, SMTT(40)
  <2> HIDE DEF a, b
  <2>4. a = b
    BY <2>2, <2>3, SeqEqual, ZenonT(30)
  <2> QED BY <2>4 DEF a, b
<1> QED BY <1>1, <1>2, <1>3

\* Numbers in order below k are a prefix.
LEMMA PrefixBelow ==
  ASSUME NEW nums \in Seq(Nat), Increasing(nums), NEW k \in Nat
  PROVE  \E j \in 0..Len(nums) : \A i \in 1..Len(nums) : i <= j <=> nums[i] < k
<1> DEFINE over == {i \in 1..Len(nums) : ~(nums[i] < k)}
<1>0. Len(nums) \in Nat /\ over \in SUBSET Nat
  OBVIOUS
<1>1. CASE over = {}
  <2>1. \A i \in 1..Len(nums) : nums[i] < k
    BY <1>1
  <2> WITNESS Len(nums) \in 0..Len(nums)
  <2> QED BY <1>0, <2>1
<1>2. CASE over # {}
  <2>1. PICK m \in over : \A i \in over : m <= i
    BY <1>0, <1>2, LeastNumber, ZenonT(30)
  <2>2. \A i \in 1..Len(nums) : i <= m - 1 <=> nums[i] < k
    <3>1. ASSUME NEW i \in 1..Len(nums), i <= m - 1
          PROVE  nums[i] < k
      BY <2>1, <3>1
    <3>2. ASSUME NEW i \in 1..Len(nums), ~(i <= m - 1)
          PROVE  ~(nums[i] < k)
      <4>1. i = m \/ nums[m] < nums[i]
        BY <2>1, <3>2 DEF Increasing
      <4> QED BY <2>1, <4>1
    <3> QED BY <3>1, <3>2
  <2>3. m - 1 \in 0..Len(nums)
    BY <2>1
  <2> QED BY <2>2, <2>3, ZenonT(30)
<1> QED BY <1>1, <1>2, ZenonT(30)

\* What is retained of numbers in order is the prefix below k (Vec::retain in
\* rewind_block_traversal_to).
LEMMA RetainPrefix ==
  ASSUME NEW nums \in Seq(Nat), Increasing(nums), NEW k \in Nat
  PROVE  \E j \in 0..Len(nums) : /\ Retain(nums, k) = Upto(nums, j)
                                 /\ \A i \in 1..Len(nums) : i <= j <=> nums[i] < k
<1> DEFINE len == Len(nums)
<1>1. PICK j \in 0..len : \A i \in 1..len : i <= j <=> nums[i] < k
  BY PrefixBelow, ZenonT(30)
<1> DEFINE Step(f) == [i \in 0..len |-> IF i = 0 THEN << >>
                                        ELSE IF nums[i] < k THEN Append(f[i - 1], nums[i])
                                             ELSE f[i - 1]]
           Cut(i) == IF i <= j THEN i ELSE j
           prefix == [i \in 0..len |-> Upto(nums, Cut(i))]
           retained == CHOOSE f : f = Step(f)
<1>2. prefix = Step(prefix)
  <2>1. ASSUME NEW i \in 0..len
        PROVE  prefix[i] = Step(prefix)[i]
    <3>1. CASE i = 0
      BY <3>1, <1>1, UptoFacts
    <3>2. CASE i # 0
      <4>1. i - 1 \in 0..len /\ i \in 1..len /\ j \in 0..len
        BY <3>2
      <4>2. CASE i <= j
        <5>1. nums[i] < k /\ Cut(i) = i /\ Cut(i - 1) = i - 1
          BY <1>1, <4>1, <4>2
        <5>2. Upto(nums, i) = Append(Upto(nums, i - 1), nums[i])
          BY <4>1, UptoFacts
        <5> HIDE DEF Cut
        <5> QED BY <3>2, <4>1, <5>1, <5>2, SMTT(40)
      <4>3. CASE ~(i <= j)
        <5>1. ~(nums[i] < k) /\ Cut(i) = j /\ Cut(i - 1) = j
          BY <1>1, <4>1, <4>3
        <5> HIDE DEF Cut
        <5> QED BY <3>2, <4>1, <5>1
      <4> QED BY <4>2, <4>3
    <3> QED BY <3>1, <3>2
  <2> QED BY <2>1, SMTT(40)
<1>3. retained = Step(retained)
  <2>1. \E f : f = Step(f)
    BY <1>2, ZenonT(30)
  <2> QED BY <2>1, Zenon
<1> HIDE DEF retained
<1>4. \A i \in 0..len : retained[i] = prefix[i]
  <2> DEFINE wrong == {i \in 0..len : retained[i] # prefix[i]}
  <2> SUFFICES ASSUME wrong # {}
               PROVE  FALSE
    BY ZenonT(30)
  <2>0. wrong \in SUBSET Nat
    OBVIOUS
  <2>1. PICK m \in wrong : \A i \in wrong : m <= i
    BY <2>0, LeastNumber, ZenonT(30)
  <2>2. m \in 0..len /\ retained[m] = Step(retained)[m] /\ prefix[m] = Step(prefix)[m]
    BY <1>2, <1>3, <2>1, ZenonT(30)
  <2>3. m # 0
    BY <2>1, <2>2
  <2>4. m - 1 \in 0..len /\ m - 1 \notin wrong
    BY <2>1, <2>2, <2>3
  <2>5. retained[m - 1] = prefix[m - 1]
    BY <2>4
  <2> HIDE DEF prefix
  <2>6. retained[m] = prefix[m]
    BY <2>2, <2>3, <2>5
  <2> QED BY <2>1, <2>6
<1>5. Retain(nums, k) = retained[len]
  BY Zenon DEF Retain, retained
<1>6. Cut(len) = j
  BY <1>1
<1>7. prefix[len] = Upto(nums, j)
  BY <1>6
<1> QED BY <1>1, <1>4, <1>5, <1>7, SMTT(40)

-----------------------------------------------------------------------------
(* The log storage *)

\* A chain of blocks from the activation block on, keyed by number.
LogsOk(t) ==
  /\ FromZero(t)
  /\ \A n \in DOMAIN t : /\ t[n] \in Block /\ Number[t[n]] = n
                         /\ n > 0 => IsParentOf(t[n - 1], t[n])

\* Every row of t is a row of u.
RowsKept(t, u) == \A n \in DOMAIN t : n \in DOMAIN u /\ u[n] = t[n]

\* LogProvider::rewind_to leaves a chain.
LEMMA LogsCut ==
  ASSUME NEW t, LogsOk(t), NEW n \in Nat
  PROVE  LogsOk(Truncate(t, n))
<1> DEFINE u == Truncate(t, n)
<1>1. FromZero(u)
  BY TruncateFromZero DEF LogsOk
<1>2. /\ DOMAIN u = {k \in DOMAIN t : k < n}
      /\ \A k \in DOMAIN u : u[k] = t[k]
  BY TruncateRows, ZenonT(30)
<1>3. \A k \in DOMAIN t : k \in Nat /\ (k > 0 => k - 1 \in DOMAIN t)
  BY DEF LogsOk, FromZero
<1> HIDE DEF u
<1>4. \A k \in DOMAIN u : k > 0 => k - 1 \in DOMAIN u
  BY <1>2, <1>3
<1>5. LogsOk(u)
  BY <1>1, <1>2, <1>4 DEF LogsOk
<1> QED BY <1>5 DEF u

\* A block on the last one, or the first of all.
LEMMA LogsPut ==
  ASSUME NEW t, LogsOk(t), NEW b \in Block,
         \/ DOMAIN t = {} /\ Number[b] = 0
         \/ ~IsEmpty(t) /\ IsParentOf(LastRow(t), b)
  PROVE  LogsOk(Put(t, Number[b], b)) /\ RowsKept(t, Put(t, Number[b], b))
<1> DEFINE u == Put(t, Number[b], b)
<1>0. /\ DOMAIN u = DOMAIN t \cup {Number[b]} /\ u[Number[b]] = b
      /\ \A k \in DOMAIN t : k # Number[b] => u[k] = t[k]
  BY SMTT(20) DEF Put
<1>1. CASE DOMAIN t = {} /\ Number[b] = 0
  <2> HIDE DEF u
  <2>1. DOMAIN u = 0..0 /\ u[0] = b
    BY <1>0, <1>1
  <2>2. LogsOk(u) /\ RowsKept(t, u)
    BY <1>1, <2>1 DEF LogsOk, FromZero, RowsKept
  <2> QED BY <2>2 DEF u
<1>2. CASE ~IsEmpty(t) /\ IsParentOf(LastRow(t), b)
  <2>1. PICK l \in Nat : DOMAIN t = 0..l
    BY <1>2 DEF LogsOk, FromZero, IsEmpty
  <2>2. LastRow(t) = t[l] /\ l \in DOMAIN t
    BY <2>1, Keys
  <2>3. Number[b] = l + 1 /\ Parent[b] = t[l]
    BY <1>2, <2>2, Numbers, TreeAssumption DEF IsParentOf, LogsOk
  <2> HIDE DEF u
  <2>4. DOMAIN u = 0..(l + 1)
    BY <1>0, <2>1, <2>3
  <2>5. u[l + 1] = b /\ \A k \in 0..l : u[k] = t[k]
    BY <1>0, <2>1, <2>3
  <2>6. FromZero(u)
    BY <2>4 DEF FromZero
  <2>7. ASSUME NEW k \in DOMAIN u
        PROVE  u[k] \in Block /\ Number[u[k]] = k /\ (k > 0 => IsParentOf(u[k - 1], u[k]))
    <3>1. CASE k = l + 1
      BY <3>1, <2>3, <2>5 DEF IsParentOf
    <3>2. CASE k # l + 1
      <4>1. k \in 0..l /\ (k > 0 => k - 1 \in 0..l)
        BY <3>2, <2>4
      <4> QED BY <4>1, <2>1, <2>5 DEF LogsOk
    <3> QED BY <3>1, <3>2
  <2>8. LogsOk(u) /\ RowsKept(t, u)
    BY <2>1, <2>4, <2>5, <2>6, <2>7 DEF LogsOk, RowsKept
  <2> QED BY <2>8 DEF u
<1> QED BY <1>1, <1>2

-----------------------------------------------------------------------------
(* The derivation storage *)

Row == [source : Source, nums : Seq(Nat)]

\* The derived blocks are a chain from the activation block on, and a later
\* block was derived from the same or a later source.
DerivedOk(d) ==
  /\ FromZero(d)
  /\ \A n \in DOMAIN d :
       /\ d[n] \in DerivedRefPair /\ Number[d[n].derived] = n
       /\ n > 0 => IsParentOf(d[n - 1].derived, d[n].derived)
  /\ \A j, k \in DOMAIN d : j <= k => Number[d[j].source] <= Number[d[k].source]

\* The sources are a chain, each with the numbers of its blocks in order.
SourcesOk(t) ==
  /\ NoGaps(t)
  /\ \A n \in DOMAIN t :
       /\ t[n] \in Row /\ Number[t[n].source] = n
       /\ n - 1 \in DOMAIN t => IsParentOf(t[n - 1].source, t[n].source)
       /\ Increasing(t[n].nums)

\* A block is recorded under its source.
Recorded(d, t) ==
  \A k \in DOMAIN d :
    /\ Number[d[k].source] \in DOMAIN t
    /\ t[Number[d[k].source]].source = d[k].source
    /\ \E i \in 1..Len(t[Number[d[k].source]].nums) : t[Number[d[k].source]].nums[i] = k

\* And what is recorded under a source was derived from it.
Justified(d, t) ==
  \A n \in DOMAIN t : \A i \in 1..Len(t[n].nums) :
    t[n].nums[i] \in DOMAIN d /\ d[t[n].nums[i]].source = t[n].source

\* The first source is the one of the activation block.
Rooted(d, t) == DOMAIN t # {} => 0 \in DOMAIN d /\ \A n \in DOMAIN t : Number[d[0].source] <= n

\* The derivation storage.
DerivationOk(d, t) ==
  DerivedOk(d) /\ SourcesOk(t) /\ Recorded(d, t) /\ Justified(d, t) /\ Rooted(d, t)

\* What the types give for the rows.
LEMMA Typed ==
  ASSUME NEW d, NEW t, DerivedOk(d), SourcesOk(t)
  PROVE  /\ \A k \in DOMAIN d : /\ k \in Nat /\ d[k].source \in Source /\ d[k].derived \in Block
                                /\ Number[d[k].source] \in Nat
         /\ \A n \in DOMAIN t : /\ n \in Nat /\ t[n].source \in Source /\ t[n].nums \in Seq(Nat)
                                /\ Len(t[n].nums) \in Nat
                                /\ \A i \in 1..Len(t[n].nums) : t[n].nums[i] \in Nat
<1>1. \A k \in DOMAIN d : k \in Nat
  BY DEF DerivedOk, FromZero
<1>2. \A n \in DOMAIN t : n \in Nat
  BY DEF SourcesOk, NoGaps
<1>3. \A k \in DOMAIN d : d[k].source \in Source /\ d[k].derived \in Block
  BY DEF DerivedOk, DerivedRefPair
<1>4. \A n \in DOMAIN t : t[n].source \in Source /\ t[n].nums \in Seq(Nat)
  BY DEF SourcesOk, Row
<1>5. \A n \in DOMAIN t : Len(t[n].nums) \in Nat /\ \A i \in 1..Len(t[n].nums) : t[n].nums[i] \in Nat
  BY <1>4, SMTT(40)
<1>6. \A k \in DOMAIN d : Number[d[k].source] \in Nat
  BY <1>3, Numbers
<1> QED BY <1>1, <1>2, <1>3, <1>4, <1>5, <1>6

\* A number larger than all others keeps them in order.
LEMMA AppendIncreasing ==
  ASSUME NEW s \in Seq(Nat), Increasing(s), NEW n \in Nat, \A i \in 1..Len(s) : s[i] < n
  PROVE  /\ Append(s, n) \in Seq(Nat) /\ Increasing(Append(s, n))
         /\ Len(Append(s, n)) = Len(s) + 1 /\ Append(s, n)[Len(s) + 1] = n
         /\ \A i \in 1..Len(s) : Append(s, n)[i] = s[i]
<1> DEFINE a == Append(s, n)
<1>1. /\ a \in Seq(Nat) /\ Len(a) = Len(s) + 1 /\ a[Len(s) + 1] = n /\ Len(s) \in Nat
      /\ \A i \in 1..Len(s) : a[i] = s[i]
  OBVIOUS
<1> HIDE DEF a
<1>2. ASSUME NEW i \in 1..Len(a), NEW j \in 1..Len(a), i < j
      PROVE  a[i] < a[j]
  <2>1. i \in 1..(Len(s) + 1) /\ j \in 1..(Len(s) + 1) /\ Len(s) \in Nat
    BY <1>1
  <2>2. i \in 1..Len(s) /\ (j \in 1..Len(s) \/ j = Len(s) + 1)
    BY <1>2, <2>1, SMTT(40)
  <2> QED BY <1>1, <1>2, <2>2, ZenonT(30) DEF Increasing
<1> QED BY <1>1, <1>2, SMTT(40) DEF Increasing, a

\* The tables d2 and t2 are d and t with the pair p of a block derived from the
\* latest source, on the latest block.
AppendedBy(d, t, d2, t2, p, l, f, z) ==
  /\ DerivationOk(d, t) /\ f <= z /\ DOMAIN d = 0..l /\ DOMAIN t = f..z
  /\ t[z].source = p.source /\ IsParentOf(d[l].derived, p.derived)
  /\ DOMAIN d2 = 0..(l + 1) /\ d2[l + 1] = p /\ \A k \in 0..l : d2[k] = d[k]
  /\ DOMAIN t2 = f..z
  /\ t2[z] = [source |-> t[z].source, nums |-> Append(t[z].nums, l + 1)]
  /\ \A n \in f..z : n # z => t2[n] = t[n]

\* Such tables are well formed (save_derived_block_internal).
LEMMA DerivedAppended ==
  ASSUME NEW d, NEW t, NEW d2, NEW t2, NEW p \in DerivedRefPair,
         NEW l \in Nat, NEW f \in Nat, NEW z \in Nat, AppendedBy(d, t, d2, t2, p, l, f, z)
  PROVE  DerivationOk(d2, t2)
<1> SUFFICES ASSUME DerivationOk(d, t), f <= z, DOMAIN d = 0..l, DOMAIN t = f..z,
                    t[z].source = p.source, IsParentOf(d[l].derived, p.derived),
                    DOMAIN d2 = 0..(l + 1), d2[l + 1] = p, \A k \in 0..l : d2[k] = d[k],
                    DOMAIN t2 = f..z,
                    t2[z] = [source |-> t[z].source, nums |-> Append(t[z].nums, l + 1)],
                    \A n \in f..z : n # z => t2[n] = t[n]
             PROVE  DerivationOk(d2, t2)
  BY DEF AppendedBy
<1>0. /\ DerivedOk(d) /\ SourcesOk(t) /\ Recorded(d, t) /\ Justified(d, t) /\ Rooted(d, t)
      /\ l \in DOMAIN d /\ z \in DOMAIN t /\ l + 1 \in Nat
  BY DEF DerivationOk
<1>1. /\ \A k \in 0..l : k \in Nat /\ d[k].source \in Source /\ d[k].derived \in Block
                         /\ Number[d[k].source] \in Nat
      /\ \A n \in f..z : /\ n \in Nat /\ t[n].source \in Source /\ t[n].nums \in Seq(Nat)
                         /\ Len(t[n].nums) \in Nat
                         /\ \A i \in 1..Len(t[n].nums) : t[n].nums[i] \in Nat
  BY <1>0, Typed, SMTT(40)
<1>2. p.source \in Source /\ p.derived \in Block /\ Number[p.source] = z
  BY <1>0 DEF DerivedRefPair, SourcesOk
<1>3. Number[p.derived] = l + 1
  <2>1. Parent[p.derived] = d[l].derived /\ d[l].derived \in Block /\ Number[d[l].derived] = l
    BY <1>0, <1>1, ZenonT(30) DEF IsParentOf, DerivedOk
  <2>2. Parent[p.derived] # None
    BY <2>1, TreeAssumption
  <2> QED BY <1>2, <2>1, <2>2, Numbers, SMTT(40)
<1>4. \A k \in 0..l : Number[d[k].source] <= z
  <2>1. \A k \in DOMAIN d : Number[d[k].source] \in DOMAIN t
    BY <1>0 DEF Recorded
  <2>2. \A n \in DOMAIN t : n <= z
    OBVIOUS
  <2>3. DOMAIN d = 0..l
    OBVIOUS
  <2> QED BY <2>1, <2>2, <2>3, Zenon
<1> DEFINE old == t[z].nums
           new == Append(old, l + 1)
<1>5. \A i \in 1..Len(old) : old[i] < l + 1
  <2>1. z \in DOMAIN t
    BY <1>0
  <2>2. \A i \in 1..Len(t[z].nums) : t[z].nums[i] \in DOMAIN d
    BY <1>0, <2>1, SMTT(40) DEF Justified
  <2> QED BY <1>0, <2>2, SMTT(40)
<1>6. /\ new \in Seq(Nat) /\ Increasing(new) /\ Len(new) = Len(old) + 1
      /\ new[Len(old) + 1] = l + 1 /\ Len(old) \in Nat
      /\ \A i \in 1..Len(old) : new[i] = old[i]
  <2>1. old \in Seq(Nat) /\ Increasing(old) /\ Len(old) \in Nat
    BY <1>0, <1>1, ZenonT(30) DEF SourcesOk
  <2> HIDE DEF old
  <2> QED BY <1>0, <1>5, <2>1, AppendIncreasing, ZenonT(30)
<1>7. t2[z] \in Row /\ t2[z].source = t[z].source /\ t2[z].nums = new
  BY <1>0, <1>1, <1>6 DEF Row
<1> HIDE DEF new, old
<1>8. DerivedOk(d2)
  <2>1. FromZero(d2)
    BY <1>0 DEF FromZero
  <2>2. ASSUME NEW n \in 0..(l + 1)
        PROVE  /\ d2[n] \in DerivedRefPair /\ Number[d2[n].derived] = n
               /\ n > 0 => IsParentOf(d2[n - 1].derived, d2[n].derived)
    <3>1. CASE n = l + 1
      BY <3>1, <1>3, SMTT(40) DEF IsParentOf
    <3>2. CASE n # l + 1
      <4>1. n \in 0..l /\ (n > 0 => n - 1 \in 0..l)
        BY <3>2
      <4> QED BY <4>1, <1>0, ZenonT(30) DEF DerivedOk
    <3> QED BY <3>1, <3>2
  <2>3. ASSUME NEW j \in 0..(l + 1), NEW k \in 0..(l + 1), j <= k
        PROVE  Number[d2[j].source] <= Number[d2[k].source]
    <3>1. CASE k = l + 1
      <4>1. CASE j = l + 1
        BY <3>1, <4>1, <1>2
      <4>2. CASE j # l + 1
        <5>1. j \in 0..l
          BY <4>2
        <5> QED BY <3>1, <5>1, <1>2, <1>4
      <4> QED BY <4>1, <4>2
    <3>2. CASE k # l + 1
      <4>1. j \in 0..l /\ k \in 0..l
        BY <2>3, <3>2
      <4> QED BY <2>3, <4>1, <1>0, ZenonT(30) DEF DerivedOk
    <3> QED BY <3>1, <3>2
  <2> QED BY <2>1, <2>2, <2>3, ZenonT(30) DEF DerivedOk
<1>9. SourcesOk(t2)
  <2>1. NoGaps(t2)
    BY DEF NoGaps
  <2>2. \A n \in f..z : t2[n].source = t[n].source
    BY <1>7, SMTT(40)
  <2>3. ASSUME NEW n \in f..z
        PROVE  t2[n] \in Row /\ Increasing(t2[n].nums)
    BY <1>0, <1>6, <1>7, ZenonT(30) DEF SourcesOk
  <2> QED BY <2>1, <2>2, <2>3, <1>0, SMTT(40) DEF SourcesOk
<1>10. Recorded(d2, t2)
  <2> SUFFICES ASSUME NEW k \in 0..(l + 1)
               PROVE  /\ Number[d2[k].source] \in f..z
                      /\ t2[Number[d2[k].source]].source = d2[k].source
                      /\ \E i \in 1..Len(t2[Number[d2[k].source]].nums) :
                           t2[Number[d2[k].source]].nums[i] = k
    BY ZenonT(30) DEF Recorded
  <2>1. CASE k = l + 1
    <3>1. d2[k] = p /\ Number[d2[k].source] = z /\ z \in f..z
      BY <2>1, <1>2
    <3>2. Len(old) + 1 \in 1..Len(t2[z].nums) /\ t2[z].nums[Len(old) + 1] = k
      BY <2>1, <1>6, <1>7, SMTT(40)
    <3> QED BY <3>1, <3>2, <1>7, ZenonT(30)
  <2>2. CASE k # l + 1
    <3> DEFINE n == Number[d[k].source]
    <3>1. k \in 0..l /\ d2[k] = d[k]
      BY <2>2, SMTT(40)
    <3>2. n \in f..z /\ t[n].source = d[k].source
      BY <3>1, <1>0, ZenonT(30) DEF Recorded
    <3>3. PICK i \in 1..Len(t[n].nums) : t[n].nums[i] = k
      BY <3>1, <1>0, ZenonT(30) DEF Recorded
    <3> HIDE DEF n
    <3>4. t2[n].source = d2[k].source /\ \E m \in 1..Len(t2[n].nums) : t2[n].nums[m] = k
      <4>1. CASE n = z
        <5>1. i \in 1..Len(old) /\ old[i] = k
          BY <3>3, <4>1 DEF old
        <5>2. i \in 1..Len(new) /\ new[i] = k
          BY <5>1, <1>6, SMTT(40)
        <5> QED BY <3>1, <3>2, <4>1, <5>2, <1>7, ZenonT(30)
      <4>2. CASE n # z
        BY <3>1, <3>2, <3>3, <4>2, ZenonT(30)
      <4> QED BY <4>1, <4>2
    <3>5. Number[d2[k].source] = n
      BY <3>1 DEF n
    <3> QED BY <3>2, <3>4, <3>5
  <2> QED BY <2>1, <2>2, ZenonT(30)
<1>11. Justified(d2, t2)
  <2> SUFFICES ASSUME NEW n \in f..z, NEW i \in 1..Len(t2[n].nums)
               PROVE  t2[n].nums[i] \in 0..(l + 1) /\ d2[t2[n].nums[i]].source = t2[n].source
    BY DEF Justified
  <2>1. ASSUME NEW j \in 1..Len(t[n].nums), t2[n].nums[i] = t[n].nums[j]
        PROVE  t2[n].nums[i] \in 0..(l + 1) /\ d2[t2[n].nums[i]].source = t2[n].source
    <3>1. t[n].nums[j] \in 0..l /\ d[t[n].nums[j]].source = t[n].source
      BY <1>0, ZenonT(30) DEF Justified
    <3>2. t2[n].source = t[n].source
      BY <1>7, ZenonT(30)
    <3> DEFINE x == t[n].nums[j]
    <3>3. x \in 0..l /\ d[x].source = t[n].source /\ t2[n].nums[i] = x
      BY <2>1, <3>1
    <3> HIDE DEF x
    <3>4. x \in 0..(l + 1) /\ d2[x] = d[x]
      BY <3>3
    <3> QED BY <3>2, <3>3, <3>4, Zenon
  <2>2. CASE n # z
    BY <2>1, <2>2, SMTT(40)
  <2>3. CASE n = z
    <3>1. i \in 1..(Len(old) + 1) /\ t2[n].nums[i] = new[i]
      BY <2>3, <1>6, <1>7, ZenonT(30)
    <3>2. CASE i = Len(old) + 1
      BY <3>1, <3>2, <2>3, <1>0, <1>6, <1>7, SMTT(40)
    <3>3. CASE i # Len(old) + 1
      <4>1. i \in 1..Len(old)
        BY <3>1, <3>3, <1>6
      <4> QED BY <4>1, <3>1, <2>1, <2>3, <1>6, ZenonT(30) DEF old
    <3> QED BY <3>2, <3>3
  <2> QED BY <2>2, <2>3, ZenonT(30)
<1>12. Rooted(d2, t2)
  BY <1>0 DEF Rooted
<1> QED BY <1>8, <1>9, <1>10, <1>11, <1>12 DEF DerivationOk

\* A source on the latest one (save_source_block_internal).
LEMMA SourceAppended ==
  ASSUME NEW d, NEW t, NEW t2, DerivationOk(d, t), NEW s \in Source,
         NEW f \in Nat, NEW z \in Nat, f <= z, DOMAIN t = f..z, IsParentOf(t[z].source, s),
         DOMAIN t2 = f..(z + 1), t2[z + 1] = [source |-> s, nums |-> << >>],
         \A n \in f..z : t2[n] = t[n]
  PROVE  DerivationOk(d, t2)
<1>0. /\ DerivedOk(d) /\ SourcesOk(t) /\ Recorded(d, t) /\ Justified(d, t) /\ Rooted(d, t)
      /\ z \in DOMAIN t /\ z + 1 \in Nat /\ f <= z + 1
  BY DEF DerivationOk
<1>1. t2[z + 1] \in Row /\ t2[z + 1].source = s /\ t2[z + 1].nums = << >>
  BY DEF Row
<1>2. Number[s] = z + 1
  <2>1. Parent[s] = t[z].source /\ t[z].source \in Source /\ Number[t[z].source] = z
    BY <1>0 DEF IsParentOf, SourcesOk, Row
  <2>2. Parent[s] # None
    BY <2>1, TreeAssumption
  <2> QED BY <2>1, <2>2, Numbers
<1>3. SourcesOk(t2)
  <2>1. NoGaps(t2)
    BY <1>0 DEF NoGaps
  <2>2. ASSUME NEW n \in f..(z + 1)
        PROVE  /\ t2[n] \in Row /\ Number[t2[n].source] = n
               /\ n - 1 \in f..(z + 1) => IsParentOf(t2[n - 1].source, t2[n].source)
               /\ Increasing(t2[n].nums)
    <3>1. CASE n = z + 1
      <4>1. Increasing(<< >>)
        BY DEF Increasing
      <4>2. n - 1 = z /\ t2[z] = t[z]
        BY <3>1
      <4> QED BY <3>1, <4>1, <4>2, <1>1, <1>2 DEF IsParentOf
    <3>2. CASE n # z + 1
      <4>1. n \in f..z /\ (n - 1 \in f..(z + 1) => n - 1 \in f..z)
        BY <3>2
      <4> QED BY <4>1, <1>0, SMTT(40) DEF SourcesOk
    <3> QED BY <3>1, <3>2
  <2> QED BY <2>1, <2>2 DEF SourcesOk
<1>4. \A n \in f..z : n \in f..(z + 1)
  OBVIOUS
<1>5. Recorded(d, t2)
  <2> SUFFICES ASSUME NEW k \in DOMAIN d
               PROVE  /\ Number[d[k].source] \in f..(z + 1)
                      /\ t2[Number[d[k].source]].source = d[k].source
                      /\ \E i \in 1..Len(t2[Number[d[k].source]].nums) :
                           t2[Number[d[k].source]].nums[i] = k
    BY ZenonT(30) DEF Recorded
  <2>1. /\ Number[d[k].source] \in f..z
        /\ t[Number[d[k].source]].source = d[k].source
        /\ \E i \in 1..Len(t[Number[d[k].source]].nums) : t[Number[d[k].source]].nums[i] = k
    BY <1>0, ZenonT(30) DEF Recorded
  <2>2. t2[Number[d[k].source]] = t[Number[d[k].source]] /\ Number[d[k].source] \in f..(z + 1)
    BY <1>4, <2>1, ZenonT(30)
  <2> QED BY <2>1, <2>2, ZenonT(30)
<1>6. Justified(d, t2)
  <2> SUFFICES ASSUME NEW n \in f..(z + 1), NEW i \in 1..Len(t2[n].nums)
               PROVE  t2[n].nums[i] \in DOMAIN d /\ d[t2[n].nums[i]].source = t2[n].source
    BY SMTT(40) DEF Justified
  <2>1. n \in f..z
    <3>1. CASE n = z + 1
      BY <3>1, <1>1
    <3>2. CASE n # z + 1
      BY <3>2
    <3> QED BY <3>1, <3>2
  <2> QED BY <2>1, <1>0, ZenonT(30) DEF Justified
<1>7. Rooted(d, t2)
  <2>1. 0 \in DOMAIN d /\ \A n \in f..z : Number[d[0].source] <= n
    BY <1>0, ZenonT(30) DEF Rooted
  <2>2. Number[d[0].source] \in Nat
    BY <1>0, <2>1, Typed
  <2>3. \A n \in f..(z + 1) : Number[d[0].source] <= n
    BY <2>1, <2>2, <1>0
  <2> QED BY <2>1, <2>3 DEF Rooted
<1> QED BY <1>0, <1>3, <1>5, <1>6, <1>7 DEF DerivationOk

\* The pair of the activation block, the first of all (initialise).
LEMMA FirstPair ==
  ASSUME NEW d2, NEW t2, NEW p \in DerivedRefPair, Number[p.derived] = 0,
         DOMAIN d2 = {0}, d2[0] = p,
         DOMAIN t2 = {Number[p.source]},
         t2[Number[p.source]] = [source |-> p.source, nums |-> << 0 >>]
  PROVE  DerivationOk(d2, t2)
<1> DEFINE z == Number[p.source]
<1>0. z \in Nat /\ p.source \in Source /\ p.derived \in Block
  BY Numbers DEF DerivedRefPair
<1>1. t2[z] \in Row /\ t2[z].source = p.source /\ t2[z].nums = <<0>>
  BY <1>0 DEF Row
<1>2. Len(<<0>>) = 1 /\ <<0>>[1] = 0 /\ Increasing(<<0>>)
  BY DEF Increasing
<1>3. DerivedOk(d2)
  <2>1. DOMAIN d2 = 0..0
    OBVIOUS
  <2>2. FromZero(d2)
    BY <2>1 DEF FromZero
  <2> QED BY <1>0, <2>2 DEF DerivedOk
<1>4. SourcesOk(t2)
  <2>1. DOMAIN t2 = z..z
    BY <1>0
  <2>2. NoGaps(t2)
    BY <1>0, <2>1, SMTT(40) DEF NoGaps
  <2>3. z - 1 \notin DOMAIN t2
    BY <1>0
  <2> HIDE DEF z
  <2> QED BY <1>1, <1>2, <2>2, <2>3 DEF SourcesOk, z
<1>5. Recorded(d2, t2) /\ Rooted(d2, t2)
  BY <1>0, <1>1, <1>2 DEF Recorded, Rooted
<1>6. Justified(d2, t2)
  BY <1>1, <1>2 DEF Justified
<1> QED BY <1>3, <1>4, <1>5, <1>6 DEF DerivationOk

\* Nothing stored.
LEMMA EmptyOk ==
  ASSUME NEW d, NEW t, DOMAIN d = {}, DOMAIN t = {}
  PROVE  DerivationOk(d, t)
BY DEF DerivationOk, DerivedOk, SourcesOk, Recorded, Justified, Rooted, FromZero, NoGaps

-----------------------------------------------------------------------------
(* Rewinding the derivation storage *)

\* Cutting the derived blocks leaves a chain.
LEMMA DerivedCut ==
  ASSUME NEW d, DerivedOk(d), NEW m \in Nat
  PROVE  DerivedOk(Truncate(d, m))
<1> DEFINE u == Truncate(d, m)
<1>1. FromZero(u)
  BY TruncateFromZero DEF DerivedOk
<1>2. /\ DOMAIN u = {k \in DOMAIN d : k < m}
      /\ \A k \in DOMAIN u : u[k] = d[k]
  BY TruncateRows, ZenonT(30)
<1>3. \A k \in DOMAIN d : k \in Nat /\ (k > 0 => k - 1 \in DOMAIN d)
  BY DEF DerivedOk, FromZero
<1> HIDE DEF u
<1>4. \A k \in DOMAIN u : k \in DOMAIN d /\ (k > 0 => k - 1 \in DOMAIN u)
  BY <1>2, <1>3
<1>5. DerivedOk(u)
  BY <1>1, <1>2, <1>4 DEF DerivedOk
<1> QED BY <1>5 DEF u

\* Cutting the sources leaves a chain.
LEMMA SourcesCut ==
  ASSUME NEW t, SourcesOk(t), NEW x \in Nat
  PROVE  SourcesOk(Truncate(t, x))
<1> DEFINE u == Truncate(t, x)
<1>1. NoGaps(u)
  BY TruncateNoGaps DEF SourcesOk
<1>2. /\ DOMAIN u = {n \in DOMAIN t : n < x}
      /\ \A n \in DOMAIN u : u[n] = t[n]
  BY TruncateRows, ZenonT(30)
<1> HIDE DEF u
<1>3. SourcesOk(u)
  BY <1>1, <1>2 DEF SourcesOk
<1> QED BY <1>3 DEF u

\* The two tables fit again when the blocks kept are those of the sources kept.
LEMMA CutAtSource ==
  ASSUME NEW d, NEW t, DerivationOk(d, t), NEW x \in Nat, NEW d2, DerivedOk(d2),
         DOMAIN d2 = {k \in DOMAIN d : Number[d[k].source] < x},
         \A k \in DOMAIN d2 : d2[k] = d[k]
  PROVE  DerivationOk(d2, Truncate(t, x))
<1> DEFINE t2 == Truncate(t, x)
<1>0. DerivedOk(d) /\ SourcesOk(t) /\ Recorded(d, t) /\ Justified(d, t) /\ Rooted(d, t)
  BY DEF DerivationOk
<1>1. SourcesOk(t2)
  BY <1>0, SourcesCut
<1>2. DOMAIN t2 = {n \in DOMAIN t : n < x} /\ \A n \in DOMAIN t2 : t2[n] = t[n]
  BY TruncateRows, ZenonT(30)
<1> HIDE DEF t2
<1>3. Recorded(d2, t2)
  <2> SUFFICES ASSUME NEW k \in DOMAIN d2
               PROVE  /\ Number[d2[k].source] \in DOMAIN t2
                      /\ t2[Number[d2[k].source]].source = d2[k].source
                      /\ \E i \in 1..Len(t2[Number[d2[k].source]].nums) :
                           t2[Number[d2[k].source]].nums[i] = k
    BY ZenonT(30) DEF Recorded
  <2>1. d2[k] = d[k] /\ k \in DOMAIN d /\ Number[d[k].source] < x
    OBVIOUS
  <2>2. Number[d[k].source] \in DOMAIN t2 /\ t2[Number[d[k].source]] = t[Number[d[k].source]]
    BY <1>0, <1>2, <2>1 DEF Recorded
  <2>3. /\ t[Number[d[k].source]].source = d[k].source
        /\ \E i \in 1..Len(t[Number[d[k].source]].nums) : t[Number[d[k].source]].nums[i] = k
    BY <1>0, <2>1, ZenonT(30) DEF Recorded
  <2> QED BY <2>1, <2>2, <2>3, ZenonT(30)
<1>4. Justified(d2, t2)
  <2> SUFFICES ASSUME NEW n \in DOMAIN t2, NEW i \in 1..Len(t2[n].nums)
               PROVE  t2[n].nums[i] \in DOMAIN d2 /\ d2[t2[n].nums[i]].source = t2[n].source
    BY DEF Justified
  <2> DEFINE k == t[n].nums[i]
  <2>1. n \in DOMAIN t /\ n < x /\ t2[n] = t[n]
    BY <1>2, ZenonT(30)
  <2>2. k \in DOMAIN d /\ d[k].source = t[n].source /\ Number[t[n].source] = n
    BY <1>0, <2>1 DEF Justified, SourcesOk
  <2>3. k \in DOMAIN d2 /\ d2[k] = d[k]
    BY <1>2, <2>1, <2>2
  <2> QED BY <2>1, <2>2, <2>3, ZenonT(30)
<1>5. Rooted(d2, t2)
  <2> SUFFICES ASSUME NEW q \in DOMAIN t2
               PROVE  0 \in DOMAIN d2 /\ \A n \in DOMAIN t2 : Number[d2[0].source] <= n
    BY DEF Rooted
  <2>1. /\ 0 \in DOMAIN d /\ \A n \in DOMAIN t : Number[d[0].source] <= n /\ n \in Nat
        /\ Number[d[0].source] \in Nat
    BY <1>0, <1>2, Typed DEF Rooted
  <2>2. Number[d[0].source] < x
    BY <2>1, <1>2
  <2> QED BY <2>1, <2>2, <1>2
<1>6. DerivationOk(d2, t2)
  BY <1>1, <1>3, <1>4, <1>5 DEF DerivationOk
<1> QED BY <1>6 DEF t2

\* Where the first number under a source is.
LEMMA FirstRecorded ==
  ASSUME NEW d, NEW t, DerivationOk(d, t), NEW n \in DOMAIN t, t[n].nums # << >>
  PROVE  /\ t[n].nums[1] \in DOMAIN d /\ Number[d[t[n].nums[1]].source] = n
         /\ \A i \in 1..Len(t[n].nums) : t[n].nums[1] <= t[n].nums[i]
<1> DEFINE nums == t[n].nums
<1>1. /\ nums \in Seq(Nat) /\ Increasing(nums) /\ Number[t[n].source] = n
      /\ \A i \in 1..Len(nums) : nums[i] \in DOMAIN d /\ d[nums[i]].source = t[n].source
  BY DEF DerivationOk, SourcesOk, Row, Justified
<1> HIDE DEF nums
<1>2. Len(nums) \in Nat /\ Len(nums) >= 1 /\ \A i \in 1..Len(nums) : nums[i] \in Nat
  BY <1>1, SMTT(40) DEF nums
<1>3. 1 \in 1..Len(nums)
  BY <1>2
<1>4. \A i \in 1..Len(nums) : nums[1] <= nums[i]
  BY <1>1, <1>2, <1>3 DEF Increasing
<1> QED BY <1>1, <1>3, <1>4 DEF nums

\* rewind_to_source: the first block derived from s or a later source is where
\* the derived blocks have to be cut, since later blocks have later sources and
\* the numbers under a source are in order.
LEMMA SourceRewound ==
  ASSUME NEW base, NEW s \in Source, DerivationOk(base.derived, base.traversal)
  PROVE  LET target == FirstDerivedFrom(base, s)
         IN  /\ target # None => target \in Block
             /\ DerivationOk(IF target = None THEN base.derived
                             ELSE Truncate(base.derived, Number[target]),
                             Truncate(base.traversal, Number[s]))
<1> DEFINE d == base.derived
           t == base.traversal
           x == Number[s]
           later == {n \in DOMAIN t : n >= x /\ t[n].nums # << >>}
           target == FirstDerivedFrom(base, s)
<1>0. DerivationOk(d, t) /\ DerivedOk(d) /\ SourcesOk(t) /\ Recorded(d, t) /\ x \in Nat
  BY Numbers DEF DerivationOk
<1>1. /\ \A k \in DOMAIN d : k \in Nat /\ Number[d[k].source] \in Nat /\ d[k].derived \in Block
      /\ \A n \in DOMAIN t : n \in Nat /\ t[n].nums \in Seq(Nat)
  BY <1>0, Typed
<1> HIDE DEF d, t, x, target
<1>2. \A k \in DOMAIN d : Number[d[k].source] >= x => Number[d[k].source] \in later
  <2> SUFFICES ASSUME NEW k \in DOMAIN d, Number[d[k].source] >= x
               PROVE  Number[d[k].source] \in later
    OBVIOUS
  <2> DEFINE n == Number[d[k].source]
  <2>1. n \in DOMAIN t /\ \E i \in 1..Len(t[n].nums) : t[n].nums[i] = k
    BY <1>0 DEF Recorded
  <2>2. t[n].nums # << >>
    <3>1. t[n].nums = << >> => Len(t[n].nums) = 0
      OBVIOUS
    <3> QED BY <2>1, <3>1
  <2> QED BY <2>1, <2>2
<1>3. CASE later = {}
  <2>1. target = None
    BY <1>3, ZenonT(30) DEF FirstDerivedFrom, d, t, x, target
  <2>2. DOMAIN d = {k \in DOMAIN d : Number[d[k].source] < x}
    <3>1. \A k \in DOMAIN d : Number[d[k].source] < x
      BY <1>0, <1>1, <1>2, <1>3
    <3> QED BY <3>1, ZenonT(30)
  <2> HIDE DEF later
  <2>3. DerivationOk(d, Truncate(t, x))
    BY <1>0, <2>2, CutAtSource
  <2> QED BY <2>1, <2>3 DEF d, t, x, target
<1>4. CASE later # {}
  <2> DEFINE first == CHOOSE m \in later : \A k \in later : m <= k
             c == t[first].nums[1]
  <2>1. first \in later /\ \A k \in later : first <= k
    <3>1. later \in SUBSET Nat
      BY <1>1
    <3> HIDE DEF later
    <3>2. \E m \in later : \A k \in later : m <= k
      BY <1>4, <3>1, LeastNumber
    <3> QED BY <3>2
  <2>2. target = d[c].derived
    BY <1>4, ZenonT(30) DEF FirstDerivedFrom, d, t, x, target
  <2> HIDE DEF first
  <2>3. /\ c \in DOMAIN d /\ Number[d[c].source] = first
        /\ \A i \in 1..Len(t[first].nums) : c <= t[first].nums[i]
    BY <1>0, <2>1, FirstRecorded, ZenonT(30)
  <2> HIDE DEF c
  <2>4. target \in Block /\ Number[target] = c /\ c \in Nat /\ first \in Nat /\ first >= x
    BY <1>0, <1>1, <2>1, <2>2, <2>3 DEF DerivedOk
  <2>5. ASSUME NEW k \in DOMAIN d
        PROVE  k < c <=> Number[d[k].source] < x
    <3>1. ASSUME ~(k < c), Number[d[k].source] < x
          PROVE  FALSE
      <4>1. Number[d[c].source] <= Number[d[k].source]
        BY <1>0, <1>1, <2>3, <2>4, <3>1 DEF DerivedOk
      <4> QED BY <1>0, <1>1, <2>3, <2>4, <3>1, <4>1
    <3>2. ASSUME k < c, ~(Number[d[k].source] < x)
          PROVE  FALSE
      <4>1. Number[d[k].source] <= first
        BY <1>0, <1>1, <2>3, <2>4, <3>2 DEF DerivedOk
      <4>2. Number[d[k].source] \in later
        BY <1>0, <1>1, <1>2, <3>2
      <4>3. Number[d[k].source] = first
        BY <1>1, <2>1, <2>4, <4>1, <4>2
      <4>4. PICK i \in 1..Len(t[first].nums) : t[first].nums[i] = k
        BY <1>0, <4>3 DEF Recorded
      <4> QED BY <1>1, <2>3, <2>4, <3>2, <4>4, SMTT(40)
    <3> QED BY <3>1, <3>2
  <2>6. target # None
    BY <2>4, TreeAssumption
  <2> DEFINE d2 == Truncate(d, c)
  <2>7. /\ DOMAIN d2 = {k \in DOMAIN d : k < c} /\ \A k \in DOMAIN d2 : d2[k] = d[k]
        /\ DerivedOk(d2)
    <3>1. DerivedOk(d2)
      BY <1>0, <2>4, DerivedCut
    <3> QED BY <3>1, TruncateRows, ZenonT(30)
  <2> HIDE DEF later, d2
  <2>8. DOMAIN d2 = {k \in DOMAIN d : Number[d[k].source] < x}
    BY <2>5, <2>7, ZenonT(30)
  <2>9. DerivationOk(d2, Truncate(t, x))
    BY <1>0, <2>7, <2>8, CutAtSource
  <2> QED BY <2>4, <2>6, <2>9 DEF d, t, x, target, d2
<1> QED BY <1>3, <1>4

\* rewind_to and rewind_block_traversal_to: what is left of the numbers under
\* the source of the block is below it, and all blocks of earlier sources are.
LEMMA PairRewound ==
  ASSUME NEW d, NEW t, DerivationOk(d, t), NEW m \in DOMAIN d
  PROVE  DerivationOk(Truncate(d, m), RewindTraversal(t, d[m]))
<1> DEFINE x == Number[d[m].source]
           nums == t[x].nums
           kept == Retain(nums, m)
           d2 == Truncate(d, m)
<1>0. /\ DerivedOk(d) /\ SourcesOk(t) /\ Recorded(d, t) /\ Justified(d, t) /\ Rooted(d, t)
      /\ x \in DOMAIN t /\ t[x].source = d[m].source /\ Number[d[m].derived] = m
  BY ZenonT(30) DEF DerivationOk, Recorded, DerivedOk
<1>1. /\ m \in Nat /\ x \in Nat /\ nums \in Seq(Nat) /\ Increasing(nums) /\ Len(nums) \in Nat
      /\ \A k \in DOMAIN d : k \in Nat /\ Number[d[k].source] \in Nat
      /\ \A n \in DOMAIN t : n \in Nat /\ Number[t[n].source] = n /\ t[n].source \in Source
  BY <1>0, Typed DEF SourcesOk
<1>2. PICK j \in 0..Len(nums) : /\ kept = Upto(nums, j)
                                /\ \A i \in 1..Len(nums) : i <= j <=> nums[i] < m
  <2> HIDE DEF nums
  <2> QED BY <1>1, RetainPrefix, ZenonT(30)
<1>3. kept \in Seq(Nat) /\ Len(kept) = j /\ \A i \in 1..j : kept[i] = nums[i]
  <2> HIDE DEF nums, kept
  <2> QED BY <1>1, <1>2, UptoFacts, ZenonT(30)
<1>4. /\ DOMAIN d2 = {k \in DOMAIN d : k < m} /\ \A k \in DOMAIN d2 : d2[k] = d[k]
      /\ DerivedOk(d2)
  <2>1. DerivedOk(d2)
    BY <1>0, <1>1, DerivedCut
  <2> QED BY <2>1, TruncateRows, ZenonT(30)
<1>5. RewindTraversal(t, d[m]) = IF kept = << >> THEN Truncate(t, x)
                                 ELSE Put(Truncate(t, x), x, [t[x] EXCEPT !.nums = kept])
  BY <1>0 DEF RewindTraversal
<1>6. \A k \in DOMAIN d : /\ k < m => Number[d[k].source] <= x
                          /\ Number[d[k].source] < x => k < m
  <2> SUFFICES ASSUME NEW k \in DOMAIN d
               PROVE  /\ k < m => Number[d[k].source] <= x
                      /\ Number[d[k].source] < x => k < m
    OBVIOUS
  <2>1. /\ k <= m => Number[d[k].source] <= Number[d[m].source]
        /\ m <= k => Number[d[m].source] <= Number[d[k].source]
    BY <1>0, ZenonT(30) DEF DerivedOk
  <2>2. k \in Nat /\ m \in Nat /\ Number[d[k].source] \in Nat /\ x \in Nat
    BY <1>1
  <2> QED BY <2>1, <2>2
<1>7. \A k \in DOMAIN d : Number[d[k].source] = x => \E i \in 1..Len(nums) : nums[i] = k
  BY <1>0 DEF Recorded
<1> HIDE DEF x, nums, kept, d2
<1>8. CASE kept = << >>
  <2>1. j = 0
    BY <1>3, <1>8
  <2>2. \A k \in DOMAIN d : k < m <=> Number[d[k].source] < x
    BY <1>1, <1>2, <1>6, <1>7, <2>1, SMTT(40)
  <2>3. DOMAIN d2 = {k \in DOMAIN d : Number[d[k].source] < x}
    BY <1>4, <2>2
  <2>4. DerivationOk(d2, Truncate(t, x))
    BY <1>1, <1>4, <2>3, CutAtSource, SMTT(40)
  <2> QED BY <1>5, <1>8, <2>4 DEF d2
<1>9. CASE kept # << >>
  <2> DEFINE t1 == Truncate(t, x)
             t2 == Put(t1, x, [t[x] EXCEPT !.nums = kept])
  <2>0. DOMAIN t1 = {n \in DOMAIN t : n < x} /\ \A n \in DOMAIN t1 : t1[n] = t[n]
    BY TruncateRows, ZenonT(30)
  <2>1. /\ [t[x] EXCEPT !.nums = kept] \in Row
        /\ [t[x] EXCEPT !.nums = kept].source = t[x].source
        /\ [t[x] EXCEPT !.nums = kept].nums = kept
    BY <1>0, <1>3, SMTT(40) DEF SourcesOk, Row
  <2> HIDE DEF t1
  <2>2. /\ DOMAIN t2 = DOMAIN t1 \cup {x} /\ t2[x] = [t[x] EXCEPT !.nums = kept]
        /\ \A n \in DOMAIN t1 : n # x => t2[n] = t1[n]
    BY SMTT(20) DEF Put
  <2>3. /\ t2[x] \in Row /\ t2[x].source = t[x].source /\ t2[x].nums = kept
    BY <2>1, <2>2, ZenonT(30)
  <2> HIDE DEF t2
  <2>4. /\ DOMAIN t2 = {n \in DOMAIN t : n <= x}
        /\ \A n \in DOMAIN t : n < x => t2[n] = t[n]
    <3>1. \A n : n \in DOMAIN t2 <=> n \in DOMAIN t /\ n <= x
      BY <1>0, <1>1, <2>0, <2>2 DEF x
    <3>2. \A n \in DOMAIN t : n < x => t2[n] = t[n]
      BY <1>1, <2>0, <2>2
    <3> QED BY <3>1, <3>2
  <2>5. j > 0
    BY <1>2, <1>3, <1>9
  <2>6. SourcesOk(t2)
    <3>1. NoGaps(t2)
      <4>1. x \in DOMAIN t /\ NoGaps(t)
        BY <1>0 DEF SourcesOk, x
      <4>2. PICK f, l \in Nat : f <= l /\ DOMAIN t = f..l
        BY <4>1 DEF NoGaps
      <4>3. DOMAIN t2 = f..x
        <5>1. \A n : n \in DOMAIN t2 <=> n \in f..x
          BY <1>1, <2>4, <4>1, <4>2
        <5>2. DOMAIN t2 \subseteq f..x /\ f..x \subseteq DOMAIN t2
          BY <5>1, Zenon
        <5> QED BY <5>2, Zenon
      <4> QED BY <1>1, <4>1, <4>2, <4>3 DEF NoGaps
    <3>2. Increasing(kept)
      <4>1. \A a, b \in 1..j : a < b => nums[a] < nums[b]
        BY <1>1, <1>2, SMTT(40) DEF Increasing
      <4>2. \A a, b \in 1..j : a < b => kept[a] < kept[b]
        BY <1>3, <4>1, SMTT(40)
      <4> QED BY <1>3, <4>2 DEF Increasing
    <3>3. ASSUME NEW n \in DOMAIN t2
          PROVE  /\ t2[n] \in Row /\ Number[t2[n].source] = n
                 /\ n - 1 \in DOMAIN t2 => IsParentOf(t2[n - 1].source, t2[n].source)
                 /\ Increasing(t2[n].nums)
      <4>1. n \in DOMAIN t /\ n <= x /\ n \in Nat
        BY <1>1, <2>4
      <4>2. n - 1 \in DOMAIN t2 => n - 1 \in DOMAIN t /\ n - 1 < x
        BY <1>1, <2>4, <4>1
      <4>3. t2[n].source = t[n].source /\ t2[n] \in Row /\ Increasing(t2[n].nums)
        BY <1>0, <1>1, <2>3, <2>4, <3>2, <4>1, SMTT(40) DEF SourcesOk
      <4>4. n - 1 \in DOMAIN t2 => t2[n - 1].source = t[n - 1].source
        BY <2>4, <4>2, ZenonT(30)
      <4> QED BY <1>0, <4>1, <4>2, <4>3, <4>4 DEF SourcesOk
    <3> QED BY <3>1, <3>3 DEF SourcesOk
  <2>7. Recorded(d2, t2)
    <3> SUFFICES ASSUME NEW k \in DOMAIN d2
                 PROVE  /\ Number[d2[k].source] \in DOMAIN t2
                        /\ t2[Number[d2[k].source]].source = d2[k].source
                        /\ \E i \in 1..Len(t2[Number[d2[k].source]].nums) :
                             t2[Number[d2[k].source]].nums[i] = k
      BY DEF Recorded
    <3> DEFINE n == Number[d[k].source]
    <3>1. k \in DOMAIN d /\ k < m /\ d2[k] = d[k] /\ n <= x /\ n \in Nat
      BY <1>1, <1>4, <1>6, ZenonT(30)
    <3>2. /\ n \in DOMAIN t /\ t[n].source = d[k].source
          /\ \E i \in 1..Len(t[n].nums) : t[n].nums[i] = k
      BY <1>0, <3>1, SMTT(40) DEF Recorded
    <3> HIDE DEF n
    <3>3. CASE n = x
      <4>1. PICK i \in 1..Len(nums) : nums[i] = k
        BY <3>2, <3>3 DEF nums
      <4>2. i \in 1..j
        BY <1>1, <1>2, <3>1, <4>1, SMTT(40)
      <4>4. kept[i] = k
        BY <1>3, <4>1, <4>2
      <4>3. \E ii \in 1..Len(kept) : kept[ii] = k
        BY <1>3, <4>2, <4>4
      <4> QED BY <2>3, <2>4, <3>1, <3>2, <3>3, <4>3, SMTT(40) DEF n
    <3>4. CASE n < x
      <4>1. t2[n] = t[n] /\ n \in DOMAIN t2
        BY <1>1, <2>4, <3>2, <3>4
      <4> QED BY <3>1, <3>2, <4>1 DEF n
    <3> QED BY <1>1, <3>1, <3>3, <3>4
  <2>8. Justified(d2, t2)
    <3> SUFFICES ASSUME NEW n \in DOMAIN t2, NEW i \in 1..Len(t2[n].nums)
                 PROVE  t2[n].nums[i] \in DOMAIN d2 /\ d2[t2[n].nums[i]].source = t2[n].source
      BY DEF Justified
    <3>1. n \in DOMAIN t /\ n <= x /\ n \in Nat
      BY <1>1, <2>4
    <3>2. CASE n = x
      <4>1. t2[n].nums = kept /\ t2[n].source = t[x].source /\ i \in 1..j
        BY <1>3, <2>3, <3>2
      <4>2. /\ i \in 1..Len(nums) /\ kept[i] = nums[i] /\ nums[i] < m
        <5>1. i \in 1..Len(nums) /\ i <= j
          BY <1>1, <1>2, <4>1
        <5> QED BY <1>2, <1>3, <4>1, <5>1
      <4>3. nums[i] \in DOMAIN d /\ d[nums[i]].source = t[x].source
        BY <1>0, <4>2 DEF Justified, nums
      <4> QED BY <1>4, <4>1, <4>2, <4>3
    <3>3. CASE n < x
      <4> DEFINE k == t[n].nums[i]
      <4>1. t2[n] = t[n]
        BY <2>4, <3>1, <3>3
      <4>2. k \in DOMAIN d /\ d[k].source = t[n].source /\ Number[t[n].source] = n
        BY <1>0, <1>1, <3>1, <4>1, SMTT(40) DEF Justified
      <4>3. k < m
        BY <1>6, <3>3, <4>2, ZenonT(30)
      <4> HIDE DEF k
      <4>4. k \in DOMAIN d2 /\ d2[k].source = t[n].source
        BY <1>4, <4>2, <4>3
      <4> QED BY <4>1, <4>4 DEF k
    <3> QED BY <1>1, <3>1, <3>2, <3>3
  <2>9. Rooted(d2, t2)
    <3>1. /\ 0 \in DOMAIN d /\ \A n \in DOMAIN t : Number[d[0].source] <= n
      BY <1>0 DEF Rooted
    <3>2. 1 \in 1..Len(nums) /\ nums[1] < m /\ nums[1] \in Nat
      BY <1>1, <1>2, <2>5
    <3>3. 0 \in DOMAIN d2 /\ d2[0] = d[0]
      BY <1>1, <1>4, <3>1, <3>2
    <3> QED BY <2>4, <3>1, <3>3, ZenonT(30) DEF Rooted
  <2>10. DerivationOk(d2, t2)
    BY <1>4, <2>6, <2>7, <2>8, <2>9 DEF DerivationOk
  <2> QED BY <1>5, <1>9, <2>10 DEF d2, t2, t1
<1> QED BY <1>8, <1>9, ZenonT(30)

-----------------------------------------------------------------------------
(* The transactions of ChainDb *)

HeadsOk(h) == h \in [Levels -> Block \cup {None}]

\* The database between two transactions.
StorageOk(base) ==
  /\ DOMAIN base = {"logs", "derived", "traversal", "heads"}
  /\ LogsOk(base.logs)
  /\ DerivationOk(base.derived, base.traversal)
  /\ HeadsOk(base.heads)

\* A head moves to a block.
LEMMA HeadUpdated ==
  ASSUME NEW h, HeadsOk(h), NEW l, NEW b \in Block
  PROVE  HeadsOk(UpdateHead(h, l, b))
BY ZenonT(30) DEF HeadsOk, UpdateHead

\* The last row of the log storage is a block, and the last key its number.
LEMMA LastLog ==
  ASSUME NEW t, LogsOk(t), ~IsEmpty(t)
  PROVE  /\ LastKey(t) \in DOMAIN t /\ LastKey(t) \in Nat /\ LastRow(t) \in Block
         /\ Number[LastRow(t)] = LastKey(t) /\ DOMAIN t = 0..LastKey(t)
<1>1. PICK l \in Nat : DOMAIN t = 0..l
  BY DEF LogsOk, FromZero, IsEmpty
<1>2. LastKey(t) = l /\ LastRow(t) = t[l] /\ l \in DOMAIN t
  BY <1>1, Keys
<1> QED BY <1>1, <1>2 DEF LogsOk

\* A rewind resets heads to the last block left, or removes them.
LEMMA HeadsRewound ==
  ASSUME NEW h, HeadsOk(h), NEW ls, NEW t, LogsOk(t)
  PROVE  HeadsOk(RewindHeads(h, ls, t))
<1>1. CASE IsEmpty(t)
  BY <1>1 DEF RewindHeads, RemoveHeads, HeadsOk
<1>2. CASE ~IsEmpty(t)
  <2>1. LastRow(t) \in Block
    BY <1>2, LastLog
  <2> QED BY <1>2, <2>1 DEF RewindHeads, ResetHeads, HeadsOk
<1> QED BY <1>1, <1>2

\* A transaction that writes the logs and heads leaves the derivation storage.
LEMMA LogsWritten ==
  ASSUME NEW base, StorageOk(base), NEW logs, LogsOk(logs), NEW h, HeadsOk(h),
         NEW db2, DOMAIN db2 = {"logs", "derived", "traversal", "heads"},
         db2.logs = logs, db2.heads = h,
         db2.derived = base.derived, db2.traversal = base.traversal
  PROVE  StorageOk(db2)
BY DEF StorageOk

\* initialise_log_storage adds the activation block to an empty table.
LEMMA InitialiseLogKeeps ==
  ASSUME NEW base, StorageOk(base), NEW b \in Block, Number[b] = 0
  PROVE  LET db2 == InitialiseLogStorage(base, b).db
         IN  StorageOk(db2) /\ RowsKept(base.logs, db2.logs)
<1> DEFINE db2 == InitialiseLogStorage(base, b).db
           logs == IF 0 \in DOMAIN base.logs THEN base.logs ELSE Put(base.logs, Number[b], b)
           h == UpdateHead(UpdateHead(base.heads, "LocalUnsafe", b), "CrossUnsafe", b)
<1>1. LogsOk(logs) /\ RowsKept(base.logs, logs)
  <2>1. CASE 0 \in DOMAIN base.logs
    BY <2>1 DEF StorageOk, RowsKept
  <2>2. CASE 0 \notin DOMAIN base.logs
    <3>1. DOMAIN base.logs = {} /\ LogsOk(base.logs)
      BY <2>2 DEF StorageOk, LogsOk, FromZero
    <3>2. LogsOk(Put(base.logs, Number[b], b)) /\ RowsKept(base.logs, Put(base.logs, Number[b], b))
      BY <3>1, LogsPut, ZenonT(30)
    <3> QED BY <2>2, <3>2, ZenonT(30)
  <2> QED BY <2>1, <2>2
<1>2. HeadsOk(h)
  BY HeadUpdated DEF StorageOk
<1>3. CASE 0 \in DOMAIN base.logs /\ base.logs[0] # b
  BY <1>3 DEF InitialiseLogStorage, Commit, RowsKept
<1>4. CASE ~(0 \in DOMAIN base.logs /\ base.logs[0] # b)
  <2>1. db2 = [base EXCEPT !.logs = logs, !.heads = h]
    BY <1>4 DEF InitialiseLogStorage, Commit
  <2> HIDE DEF db2, logs, h
  <2>2. /\ DOMAIN db2 = {"logs", "derived", "traversal", "heads"}
        /\ db2.logs = logs /\ db2.heads = h
        /\ db2.derived = base.derived /\ db2.traversal = base.traversal
    BY <2>1 DEF StorageOk
  <2>3. StorageOk(db2)
    BY <1>1, <1>2, <2>2, LogsWritten
  <2> QED BY <1>1, <2>2, <2>3 DEF db2
<1> QED BY <1>3, <1>4

\* store_block_logs adds a child of the last block, or writes what is there.
LEMMA StoreLogsKeeps ==
  ASSUME NEW base, StorageOk(base), NEW b \in Block
  PROVE  LET db2 == StoreBlockLogs(base, b).db
         IN  StorageOk(db2) /\ RowsKept(base.logs, db2.logs)
<1> DEFINE db2 == StoreBlockLogs(base, b).db
           logs == IF HasLogBlock(base, b) THEN base.logs ELSE Put(base.logs, Number[b], b)
           h == UpdateHead(base.heads, "LocalUnsafe", b)
<1>1. CASE StoreLogsError(base.logs, b) # "Ok"
  BY <1>1 DEF StoreBlockLogs, Commit, RowsKept
<1>2. CASE StoreLogsError(base.logs, b) = "Ok"
  <2>1. LogsOk(logs) /\ RowsKept(base.logs, logs)
    <3>1. CASE HasLogBlock(base, b)
      BY <3>1 DEF StorageOk, RowsKept
    <3>2. CASE ~HasLogBlock(base, b)
      <4>1. ~IsEmpty(base.logs) /\ IsParentOf(LastRow(base.logs), b) /\ LogsOk(base.logs)
        BY <1>2, <3>2 DEF StoreLogsError, HasLogBlock, StorageOk
      <4>2. LogsOk(Put(base.logs, Number[b], b)) /\ RowsKept(base.logs, Put(base.logs, Number[b], b))
        BY <4>1, LogsPut
      <4> QED BY <3>2, <4>2
    <3> QED BY <3>1, <3>2
  <2>2. HeadsOk(h)
    BY HeadUpdated DEF StorageOk
  <2>3. db2 = [base EXCEPT !.logs = logs, !.heads = h]
    BY <1>2 DEF StoreBlockLogs, Commit
  <2> HIDE DEF db2, logs, h
  <2>4. /\ DOMAIN db2 = {"logs", "derived", "traversal", "heads"}
        /\ db2.logs = logs /\ db2.heads = h
        /\ db2.derived = base.derived /\ db2.traversal = base.traversal
    BY <2>3 DEF StorageOk
  <2>5. StorageOk(db2)
    BY <2>1, <2>2, <2>4, LogsWritten
  <2> QED BY <2>1, <2>4, <2>5 DEF db2
<1> QED BY <1>1, <1>2

\* save_derived_block_internal, for a child of the latest block derived from the
\* latest source.
LEMMA PairPut ==
  ASSUME NEW base, StorageOk(base), NEW p \in DerivedRefPair,
         ~IsEmpty(base.derived), ~IsEmpty(base.traversal),
         LatestSource(base) = p.source, IsParentOf(LatestDerived(base), p.derived)
  PROVE  /\ StorageOk(PutDerived(base, p))
         /\ PutDerived(base, p).logs = base.logs /\ PutDerived(base, p).heads = base.heads
<1> DEFINE d == base.derived
           t == base.traversal
           db2 == PutDerived(base, p)
<1>1. PICK l \in Nat : DOMAIN d = 0..l
  BY ZenonT(30) DEF StorageOk, DerivationOk, DerivedOk, FromZero, IsEmpty
<1>2. PICK f, z \in Nat : f <= z /\ DOMAIN t = f..z
  BY DEF StorageOk, DerivationOk, SourcesOk, NoGaps, IsEmpty
<1>3. /\ LatestDerived(base) = d[l].derived /\ LatestSource(base) = t[z].source /\ LastKey(t) = z
  <2>1. LastKey(d) = l /\ LastRow(d) = d[l]
    <3>1. 0 \in Nat /\ 0 <= l
      OBVIOUS
    <3> QED BY <1>1, <3>1, Keys, Zenon
  <2>2. LastKey(t) = z /\ LastRow(t) = t[z]
    BY <1>2, SMTT(40) DEF LastKey, LastRow
  <2> QED BY <2>1, <2>2 DEF LatestDerived, LatestSource
<1>4. /\ l \in DOMAIN d /\ z \in DOMAIN t /\ d[l].derived \in Block /\ Number[d[l].derived] = l
      /\ t[z] \in Row /\ DerivationOk(d, t)
  <2>1. DerivedOk(d) /\ SourcesOk(t) /\ DerivationOk(d, t)
    BY ZenonT(30) DEF StorageOk, DerivationOk
  <2> HIDE DEF d, t
  <2>2. l \in DOMAIN d /\ z \in DOMAIN t
    BY <1>1, <1>2
  <2>3. d[l] \in DerivedRefPair /\ Number[d[l].derived] = l
    BY <2>1, <2>2 DEF DerivedOk
  <2>4. t[z] \in Row
    BY <2>1, <2>2 DEF SourcesOk
  <2> QED BY <2>1, <2>2, <2>3, <2>4 DEF DerivedRefPair
<1>5. p.derived \in Block /\ Number[p.derived] = l + 1
  <2>1. p.derived \in Block /\ Parent[p.derived] = d[l].derived
    BY <1>3 DEF DerivedRefPair, IsParentOf
  <2> HIDE DEF d, t
  <2>2. Parent[p.derived] # None
    BY <1>4, <2>1, TreeAssumption
  <2>3. Number[p.derived] = Number[d[l].derived] + 1
    BY <2>1, <2>2, Numbers
  <2> QED BY <1>4, <2>1, <2>3
<1> DEFINE d2 == Put(d, Number[p.derived], p)
           t2 == [t EXCEPT ![LastKey(t)].nums = Append(@, Number[p.derived])]
<1>6. db2 = [base EXCEPT !.derived = d2, !.traversal = t2]
  BY DEF PutDerived
<1> HIDE DEF d, t, db2
<1>7. DOMAIN d2 = 0..(l + 1) /\ d2[l + 1] = p /\ \A k \in 0..l : d2[k] = d[k]
  <2>1. /\ DOMAIN d2 = DOMAIN d \cup {l + 1} /\ d2[l + 1] = p
        /\ \A k \in DOMAIN d : k # l + 1 => d2[k] = d[k]
    BY <1>5, SMTT(20) DEF Put
  <2> HIDE DEF d2
  <2>2. DOMAIN d2 = 0..(l + 1)
    <3>1. \A k : k \in 0..(l + 1) <=> k \in 0..l \/ k = l + 1
      OBVIOUS
    <3> QED BY <1>1, <2>1, <3>1
  <2>3. \A k \in 0..l : k # l + 1
    OBVIOUS
  <2> QED BY <1>1, <2>1, <2>2, <2>3
<1>8. /\ DOMAIN t2 = f..z /\ t2[z] = [source |-> t[z].source, nums |-> Append(t[z].nums, l + 1)]
      /\ \A n \in f..z : n # z => t2[n] = t[n]
  BY <1>2, <1>3, <1>4, <1>5, ZenonT(30) DEF Row
<1> HIDE DEF d2, t2
<1>9. DerivationOk(d2, t2)
  <2>1. t[z].source = p.source /\ IsParentOf(d[l].derived, p.derived)
    BY <1>3
  <2>2. DOMAIN d = 0..l /\ DOMAIN t = f..z /\ f <= z /\ DerivationOk(d, t)
    BY <1>1, <1>2, <1>4
  <2>3. /\ DOMAIN d2 = 0..(l + 1) /\ d2[l + 1] = p /\ \A k \in 0..l : d2[k] = d[k]
        /\ DOMAIN t2 = f..z
        /\ t2[z] = [source |-> t[z].source, nums |-> Append(t[z].nums, l + 1)]
        /\ \A n \in f..z : n # z => t2[n] = t[n]
    BY <1>7, <1>8
  <2>4. AppendedBy(d, t, d2, t2, p, l, f, z)
    BY <2>1, <2>2, <2>3, ZenonT(30) DEF AppendedBy
  <2> QED BY <2>4, DerivedAppended
<1>10. /\ DOMAIN db2 = {"logs", "derived", "traversal", "heads"}
       /\ db2.logs = base.logs /\ db2.heads = base.heads /\ db2.derived = d2 /\ db2.traversal = t2
  BY <1>6, ZenonT(30) DEF StorageOk
<1>11. StorageOk(db2)
  BY <1>9, <1>10 DEF StorageOk
<1> QED BY <1>10, <1>11 DEF db2

\* initialise_derivation_storage writes the activation pair to empty tables.
LEMMA InitialiseDerivationKeeps ==
  ASSUME NEW base, StorageOk(base), NEW p \in DerivedRefPair, Number[p.derived] = 0
  PROVE  LET db2 == InitialiseDerivationStorage(base, p).db
         IN  StorageOk(db2) /\ db2.logs = base.logs
<1> DEFINE db2 == InitialiseDerivationStorage(base, p).db
           x == Number[p.source]
           t1 == Put(base.traversal, x, [source |-> p.source, nums |-> << >>])
           db1 == PutSource(base, p.source)
           d2 == Put(db1.derived, Number[p.derived], p)
           t2 == [db1.traversal EXCEPT ![LastKey(db1.traversal)].nums = Append(@, Number[p.derived])]
           h == UpdateHead(UpdateHead(base.heads, "LocalSafe", p.derived), "CrossSafe", p.derived)
<1>0. p.source \in Source /\ p.derived \in Block /\ x \in Nat
  BY Numbers DEF DerivedRefPair
<1>1. HeadsOk(h)
  BY <1>0, HeadUpdated DEF StorageOk
<1>2. CASE 0 \in DOMAIN base.derived
  <2>1. \/ db2 = base
        \/ db2 = [base EXCEPT !.heads = h]
    BY <1>2 DEF InitialiseDerivationStorage, InitialiseDerivation, Commit
  <2> HIDE DEF db2, h
  <2> QED BY <1>1, <2>1 DEF StorageOk, db2
<1>3. CASE 0 \notin DOMAIN base.derived
  <2>1. DOMAIN base.derived = {} /\ DOMAIN base.traversal = {}
    BY <1>3 DEF StorageOk, DerivationOk, DerivedOk, FromZero, Rooted
  <2>2. /\ DOMAIN t1 = {x} /\ t1[x] = [source |-> p.source, nums |-> << >>]
    BY <2>1 DEF Put
  <2>3. LastKey(t1) = x
    <3> HIDE DEF t1, x
    <3>1. DOMAIN t1 = x..x
      BY <1>0, <2>2
    <3> QED BY <1>0, <3>1 DEF LastKey
  <2>4. db1 = [base EXCEPT !.traversal = t1]
    BY DEF PutSource
  <2> HIDE DEF t1, x
  <2>5. /\ DOMAIN db1 = {"logs", "derived", "traversal", "heads"} /\ db1.traversal = t1
        /\ db1.logs = base.logs /\ db1.heads = base.heads /\ db1.derived = base.derived
    BY <2>4 DEF StorageOk
  <2>6. LatestSource(db1) = p.source
    BY <2>2, <2>3, <2>5 DEF LatestSource, LastRow
  <2>7. PutDerived(db1, p) = [db1 EXCEPT !.derived = d2, !.traversal = t2]
    BY DEF PutDerived
  <2>8. InitialiseDerivation(base, p) = Commit(PutDerived(db1, p), "Ok")
    BY <1>3, <2>6 DEF InitialiseDerivation
  <2>9. /\ DOMAIN t2 = {x} /\ t2[x] = [source |-> p.source, nums |-> <<0>>]
    <3>1. Append(<< >>, 0) = <<0>>
      OBVIOUS
    <3> HIDE DEF db1
    <3> QED BY <2>2, <2>3, <2>5, <3>1
  <2>10. DOMAIN d2 = {0} /\ d2[0] = p
    <3> HIDE DEF db1
    <3> QED BY <2>1, <2>5 DEF Put
  <2> HIDE DEF t2, d2, db1
  <2>11. DerivationOk(d2, t2)
    BY <2>9, <2>10, FirstPair DEF x
  <2>12. db2 = [PutDerived(db1, p) EXCEPT !.heads =
                  UpdateHead(UpdateHead(PutDerived(db1, p).heads, "LocalSafe", p.derived),
                             "CrossSafe", p.derived)]
    BY <2>8 DEF InitialiseDerivationStorage, Commit
  <2>13. /\ DOMAIN PutDerived(db1, p) = {"logs", "derived", "traversal", "heads"}
         /\ PutDerived(db1, p).heads = base.heads /\ PutDerived(db1, p).logs = base.logs
         /\ PutDerived(db1, p).derived = d2 /\ PutDerived(db1, p).traversal = t2
    BY <2>5, <2>7
  <2> HIDE DEF h
  <2>14. /\ DOMAIN db2 = {"logs", "derived", "traversal", "heads"} /\ db2.heads = h
         /\ db2.logs = base.logs /\ db2.derived = d2 /\ db2.traversal = t2
    BY <2>12, <2>13 DEF h
  <2>15. StorageOk(db2)
    BY <1>1, <2>11, <2>14 DEF StorageOk
  <2> QED BY <2>14, <2>15 DEF db2
<1> QED BY <1>2, <1>3

\* save_derived_block appends the pair, or finds it there.
LEMMA SaveDerivedKeeps ==
  ASSUME NEW base, StorageOk(base), NEW p \in DerivedRefPair
  PROVE  LET db2 == SaveDerivedBlock(base, p).db
         IN  StorageOk(db2) /\ db2.logs = base.logs
<1> DEFINE db2 == SaveDerivedBlock(base, p).db
           saved == IF HasPair(base, p.derived) THEN base ELSE PutDerived(base, p)
           h == UpdateHead(saved.heads, "LocalSafe", p.derived)
<1>1. CASE SaveDerivedError(base, p) # "Ok"
  BY <1>1 DEF SaveDerivedBlock, Commit
<1>2. CASE SaveDerivedError(base, p) = "Ok"
  <2>1. StorageOk(saved) /\ saved.logs = base.logs
    <3>1. CASE HasPair(base, p.derived)
      BY <3>1
    <3>2. CASE ~HasPair(base, p.derived)
      <4>1. /\ ~IsEmpty(base.derived) /\ ~IsEmpty(base.traversal)
            /\ LatestSource(base) = p.source /\ IsParentOf(LatestDerived(base), p.derived)
        BY <1>2, <3>2 DEF SaveDerivedError, HasPair
      <4> QED BY <3>2, <4>1, PairPut
    <3> QED BY <3>1, <3>2
  <2>2. db2 = saved \/ db2 = [saved EXCEPT !.heads = h]
    BY <1>2 DEF SaveDerivedBlock, Commit
  <2>3. HeadsOk(h)
    <3> HIDE DEF saved
    <3>1. HeadsOk(saved.heads) /\ p.derived \in Block
      BY <2>1 DEF StorageOk, DerivedRefPair
    <3> QED BY <3>1, HeadUpdated
  <2> HIDE DEF db2, saved, h
  <2>4. StorageOk(db2) /\ db2.logs = base.logs
    BY <2>1, <2>2, <2>3 DEF StorageOk
  <2> QED BY <2>4 DEF db2
<1> QED BY <1>1, <1>2

\* save_source_block appends a child of the latest source, or finds it there.
LEMMA SaveSourceKeeps ==
  ASSUME NEW base, StorageOk(base), NEW s \in Source
  PROVE  LET db2 == SaveSourceBlock(base, s).db
         IN  StorageOk(db2) /\ db2.logs = base.logs
<1> DEFINE db2 == SaveSourceBlock(base, s).db
           t == base.traversal
           t2 == Put(t, Number[s], [source |-> s, nums |-> << >>])
<1>1. CASE ~(SaveSourceError(base, s) = "Ok" /\ Number[s] \notin DOMAIN base.traversal)
  BY <1>1 DEF SaveSourceBlock, Commit
<1>2. CASE SaveSourceError(base, s) = "Ok" /\ Number[s] \notin DOMAIN base.traversal
  <2>0. DerivationOk(base.derived, t) /\ SourcesOk(t) /\ ~IsEmpty(t)
    BY <1>2, ZenonT(30) DEF StorageOk, DerivationOk, SaveSourceError
  <2>1. PICK f, z \in Nat : f <= z /\ DOMAIN t = f..z
    BY <2>0 DEF SourcesOk, NoGaps, IsEmpty
  <2>2. LatestSource(base) = t[z].source
    BY <2>1, Keys, ZenonT(30) DEF LatestSource
  <2>3. z \in DOMAIN t /\ Number[t[z].source] = z /\ t[z].source \in Source
    BY <2>0, <2>1, Typed DEF SourcesOk, Row
  <2>4. IsParentOf(t[z].source, s)
    <3>1. LatestSource(base) # s
      BY <1>2, <2>2, <2>3
    <3> QED BY <1>2, <2>0, <2>2, <3>1 DEF SaveSourceError
  <2>5. Number[s] = z + 1
    BY <2>3, <2>4, Numbers, TreeAssumption DEF IsParentOf
  <2>6. db2 = [base EXCEPT !.traversal = t2]
    BY <1>2 DEF SaveSourceBlock, PutSource, Commit
  <2> HIDE DEF t, db2
  <2>7. /\ DOMAIN t2 = DOMAIN t \cup {z + 1} /\ t2[z + 1] = [source |-> s, nums |-> << >>]
        /\ \A k \in DOMAIN t : k # z + 1 => t2[k] = t[k]
    BY <2>5, SMTT(20) DEF Put
  <2> HIDE DEF t2
  <2>8. DOMAIN t2 = f..(z + 1) /\ \A n \in f..z : t2[n] = t[n]
    <3>1. \A k : k \in f..(z + 1) <=> k \in f..z \/ k = z + 1
      BY <2>1
    <3>2. \A k \in f..z : k # z + 1
      OBVIOUS
    <3> QED BY <2>1, <2>7, <3>1, <3>2
  <2>9. DerivationOk(base.derived, t2)
    BY <2>0, <2>1, <2>4, <2>7, <2>8, SourceAppended, SMTT(60)
  <2>10. /\ DOMAIN db2 = {"logs", "derived", "traversal", "heads"} /\ db2.traversal = t2
         /\ db2.logs = base.logs /\ db2.heads = base.heads /\ db2.derived = base.derived
    BY <2>6 DEF StorageOk
  <2>11. StorageOk(db2)
    BY <2>9, <2>10 DEF StorageOk
  <2> QED BY <2>10, <2>11 DEF db2
<1> QED BY <1>1, <1>2

\* The heads alone change to blocks.
LEMMA HeadWritten ==
  ASSUME NEW base, StorageOk(base), NEW l, NEW b \in Block
  PROVE  LET db2 == [base EXCEPT !.heads = UpdateHead(base.heads, l, b)]
         IN  StorageOk(db2) /\ db2.logs = base.logs
<1> DEFINE h == UpdateHead(base.heads, l, b)
<1>1. HeadsOk(h)
  BY HeadUpdated DEF StorageOk
<1> HIDE DEF h
<1>2. StorageOk([base EXCEPT !.heads = h]) /\ [base EXCEPT !.heads = h].logs = base.logs
  BY <1>1 DEF StorageOk
<1> QED BY <1>2 DEF h

\* update_current_cross_unsafe and update_current_cross_safe.
LEMMA CrossKeeps ==
  ASSUME NEW base, StorageOk(base), NEW l, NEW b \in Block
  PROVE  LET db2 == UpdateCurrentCross(base, l, b).db
         IN  StorageOk(db2) /\ db2.logs = base.logs
<1>1. CASE CrossHeadError(base, l, b) # "Ok"
  BY <1>1 DEF UpdateCurrentCross, Commit
<1>2. CASE CrossHeadError(base, l, b) = "Ok"
  <2>1. UpdateCurrentCross(base, l, b).db = [base EXCEPT !.heads = UpdateHead(base.heads, l, b)]
    BY <1>2 DEF UpdateCurrentCross, Commit
  <2> QED BY <2>1, HeadWritten
<1> QED BY <1>1, <1>2

\* latest_derived_block_at_source returns a block.
LEMMA LatestAtSource ==
  ASSUME NEW base, StorageOk(base), NEW s \in Source, AtSourceError(base, s) = "Ok"
  PROVE  LatestDerivedAtSource(base, s) \in Block
<1> DEFINE S == DerivingSources(base, Number[s])
           n == CHOOSE n \in S : \A m \in S : m <= n
           nums == base.traversal[n].nums
<1>0. /\ DerivationOk(base.derived, base.traversal) /\ DerivedOk(base.derived)
      /\ SourcesOk(base.traversal) /\ Number[s] \in Nat
  BY Numbers, ZenonT(30) DEF StorageOk, DerivationOk
<1>1. S # {} /\ \A m \in S : m <= Number[s] /\ m \in DOMAIN base.traversal /\ base.traversal[m].nums # << >>
  BY DEF AtSourceError, DerivingSources
<1>2. S \in SUBSET Nat
  BY <1>0, <1>1, Typed
<1>3. \E m \in S : \A k \in S : k <= m
  <2> HIDE DEF S
  <2> QED BY <1>0, <1>1, <1>2, GreatestNumber, ZenonT(30)
<1>4. n \in S
  BY <1>3, ZenonT(30)
<1> HIDE DEF S, n
<1>5. n \in DOMAIN base.traversal /\ nums # << >> /\ nums \in Seq(Nat)
  BY <1>0, <1>1, <1>4, Typed
<1>6. Len(nums) \in 1..Len(nums)
  <2> HIDE DEF nums
  <2> QED BY <1>5
<1>7. nums[Len(nums)] \in DOMAIN base.derived
  BY <1>0, <1>5, <1>6, ZenonT(30) DEF DerivationOk, Justified
<1>8. base.derived[nums[Len(nums)]].derived \in Block
  BY <1>0, <1>7, Typed, SMTT(40)
<1> QED BY <1>8, ZenonT(30) DEF LatestDerivedAtSource, n, S

\* update_finalized_using_source.
LEMMA FinalizedKeeps ==
  ASSUME NEW base, StorageOk(base), NEW s \in Source
  PROVE  LET db2 == UpdateFinalizedUsingSource(base, s).db
         IN  StorageOk(db2) /\ db2.logs = base.logs
<1>1. CASE UpdateFinalizedError(base, s) # "Ok"
  BY <1>1 DEF UpdateFinalizedUsingSource, Commit
<1>2. CASE UpdateFinalizedError(base, s) = "Ok"
  <2>1. FinalizedBySource(base, s) \in Block
    <3>1. CASE Number[s] >= Number[DerivedToSource(base, base.heads["CrossSafe"])]
      <4>1. base.heads["CrossSafe"] # None
        BY <1>2 DEF UpdateFinalizedError
      <4>2. base.heads["CrossSafe"] \in Block
        BY <4>1 DEF StorageOk, HeadsOk, Levels
      <4> QED BY <3>1, <4>2 DEF FinalizedBySource
    <3>2. CASE ~(Number[s] >= Number[DerivedToSource(base, base.heads["CrossSafe"])])
      <4>1. AtSourceError(base, s) = "Ok"
        BY <1>2, <3>2 DEF UpdateFinalizedError
      <4> QED BY <3>2, <4>1, LatestAtSource DEF FinalizedBySource
    <3> QED BY <3>1, <3>2
  <2>2. UpdateFinalizedUsingSource(base, s).db =
          [base EXCEPT !.heads = UpdateHead(base.heads, "Finalized", FinalizedBySource(base, s))]
    BY <1>2 DEF UpdateFinalizedUsingSource, Commit
  <2> QED BY <2>1, <2>2, HeadWritten
<1> QED BY <1>1, <1>2

\* rewind_log_storage cuts the logs above LocalSafe only.
LEMMA RewindLogKeeps ==
  ASSUME NEW base, StorageOk(base), NEW b \in Block
  PROVE  LET db2 == RewindLogStorage(base, b).db
             h == base.heads["LocalSafe"]
         IN  /\ StorageOk(db2)
             /\ h # None => \A n \in DOMAIN base.logs : n <= Number[h] =>
                              n \in DOMAIN db2.logs /\ db2.logs[n] = base.logs[n]
<1> DEFINE db2 == RewindLogStorage(base, b).db
           h == base.heads["LocalSafe"]
           logs == Truncate(base.logs, Number[b])
           h2 == RewindHeads(base.heads, UnsafeLevels, logs)
<1>0. Number[b] \in Nat /\ LogsOk(base.logs) /\ HeadsOk(base.heads)
  BY Numbers DEF StorageOk
<1>1. CASE db2 = base
  BY <1>1, ZenonT(30)
<1>2. CASE db2 # base
  <2>1. ~(h # None /\ Number[b] <= Number[h])
    BY <1>2 DEF RewindLogStorage, Commit
  <2>2. db2 = [base EXCEPT !.logs = logs, !.heads = h2]
    BY <1>2 DEF RewindLogStorage, Commit
  <2>3. LogsOk(logs)
    BY <1>0, LogsCut
  <2>4. DOMAIN logs = {k \in DOMAIN base.logs : k < Number[b]} /\ \A k \in DOMAIN logs : logs[k] = base.logs[k]
    BY TruncateRows, ZenonT(30)
  <2> HIDE DEF logs
  <2>5. HeadsOk(h2)
    BY <1>0, <2>3, HeadsRewound
  <2> HIDE DEF db2, h2
  <2>6. /\ DOMAIN db2 = {"logs", "derived", "traversal", "heads"} /\ db2.logs = logs
        /\ db2.heads = h2 /\ db2.derived = base.derived /\ db2.traversal = base.traversal
    BY <2>2 DEF StorageOk
  <2>7. StorageOk(db2)
    BY <2>3, <2>5, <2>6, LogsWritten
  <2>8. h # None => \A n \in DOMAIN base.logs : n <= Number[h] =>
                      n \in DOMAIN db2.logs /\ db2.logs[n] = base.logs[n]
    <3> SUFFICES ASSUME h # None, NEW n \in DOMAIN base.logs, n <= Number[h]
                 PROVE  n \in DOMAIN logs
      BY <2>4, <2>6
    <3>1. h \in Block
      BY <1>0 DEF HeadsOk, Levels
    <3>2. Number[h] \in Nat /\ n \in Nat
      BY <1>0, <3>1, Numbers DEF LogsOk, FromZero
    <3> QED BY <1>0, <2>1, <2>4, <3>2
  <2> QED BY <2>7, <2>8 DEF db2
<1> QED BY <1>1, <1>2

\* rewind: the logs may be cut alone, but the derivation tables only together.
LEMMA RewindKeeps ==
  ASSUME NEW base, StorageOk(base), NEW b \in Block
  PROVE  StorageOk(Rewind(base, b).db)
<1> DEFINE db2 == Rewind(base, b).db
           m == Number[b]
           logs == Truncate(base.logs, m)
           h == RewindHeads(base.heads, Levels, logs)
<1>0. m \in Nat /\ LogsOk(base.logs) /\ HeadsOk(base.heads) /\ DerivationOk(base.derived, base.traversal)
  BY Numbers DEF StorageOk
<1>1. LogsOk(logs)
  BY <1>0, LogsCut
<1>2. CASE RewindLogsError(base.logs, b) # "Ok"
  BY <1>2 DEF Rewind, Commit
<1>3. CASE RewindLogsError(base.logs, b) = "Ok" /\ DerivedPairError(base, b) # "Ok"
  <2>1. db2 = [base EXCEPT !.logs = logs]
    BY <1>3 DEF Rewind, Commit
  <2> HIDE DEF db2, logs
  <2>2. StorageOk(db2)
    BY <1>1, <2>1 DEF StorageOk
  <2> QED BY <2>2 DEF db2
<1>4. CASE RewindLogsError(base.logs, b) = "Ok" /\ DerivedPairError(base, b) = "Ok"
  <2> DEFINE d2 == Truncate(base.derived, m)
             t2 == RewindTraversal(base.traversal, base.derived[m])
  <2>1. db2 = [logs |-> logs, derived |-> d2, traversal |-> t2, heads |-> h]
    BY <1>4 DEF Rewind, Commit
  <2>2. m \in DOMAIN base.derived
    BY <1>4 DEF DerivedPairError
  <2>3. DerivationOk(d2, t2)
    <3> HIDE DEF m
    <3> QED BY <1>0, <2>2, PairRewound
  <2> HIDE DEF logs, d2, t2
  <2>4. HeadsOk(h)
    BY <1>0, <1>1, HeadsRewound
  <2> HIDE DEF db2, h
  <2>5. StorageOk(db2)
    BY <1>1, <2>1, <2>3, <2>4 DEF StorageOk
  <2> QED BY <2>5 DEF db2
<1> QED BY <1>2, <1>3, <1>4

\* rewind_to_source: the derivation tables are cut together, and stay so when
\* the logs refuse.
LEMMA RewindToSourceKeeps ==
  ASSUME NEW base, StorageOk(base), NEW s \in Source
  PROVE  StorageOk(RewindToSource(base, s).db)
<1> DEFINE db2 == RewindToSource(base, s).db
           target == FirstDerivedFrom(base, s)
           t2 == Truncate(base.traversal, Number[s])
           d2 == IF target = None THEN base.derived ELSE Truncate(base.derived, Number[target])
           logs == IF target = None THEN base.logs ELSE Truncate(base.logs, Number[target])
           cut == [base EXCEPT !.traversal = t2, !.derived = d2]
           h == RewindHeads(cut.heads, Levels, logs)
<1>0. LogsOk(base.logs) /\ HeadsOk(base.heads) /\ DerivationOk(base.derived, base.traversal)
  BY DEF StorageOk
<1>1. (target # None => target \in Block) /\ DerivationOk(d2, t2)
  BY <1>0, SourceRewound
<1>2. LogsOk(logs)
  <2> HIDE DEF target
  <2>1. CASE target = None
    BY <1>0, <2>1
  <2>2. CASE target # None
    <3>1. Number[target] \in Nat
      BY <1>1, <2>2, Numbers
    <3> QED BY <1>0, <2>2, <3>1, LogsCut
  <2> QED BY <2>1, <2>2
<1>3. db2 = base \/ db2 = cut \/ db2 = [cut EXCEPT !.logs = logs, !.heads = h]
  BY DEF RewindToSource, Commit
<1> HIDE DEF d2, t2, logs, target
<1>4. /\ DOMAIN cut = {"logs", "derived", "traversal", "heads"} /\ cut.logs = base.logs
      /\ cut.heads = base.heads /\ cut.derived = d2 /\ cut.traversal = t2
  BY DEF StorageOk
<1> HIDE DEF cut
<1>5. HeadsOk(h)
  BY <1>0, <1>2, <1>4, HeadsRewound
<1> HIDE DEF db2, h
<1>6. StorageOk(cut)
  BY <1>0, <1>1, <1>4 DEF StorageOk
<1>7. StorageOk(db2)
  BY <1>1, <1>2, <1>3, <1>4, <1>5, <1>6, ZenonT(30) DEF StorageOk
<1> QED BY <1>7 DEF db2
=============================================================================
