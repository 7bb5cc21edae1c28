-------------------------- MODULE SequencerProofs --------------------------
(***************************************************************************)
(* Every block the sequencer hands to gossip is derivable, for every L1    *)
(* chain and its reorganisations, every block time, drift and confirmation *)
(* depth.  Nothing is assumed of the origin selector's cache: what makes   *)
(* the block derivable are the checks of prepare_payload_attributes and    *)
(* the no_tx_pool rules on the head that build_block read first.           *)
(***************************************************************************)
EXTENDS SequencerActor, SequenceTheorems, TLAPS

L1Block == Seq(Nat)
L2Entry == [origin : L1Block, txs : Txs \cup {NoTxs}]
L2Block == Seq(L2Entry)

\* The ancestor of number k.
Upto(b, k) == SubSeq(b, 1, k)

\* The batch rules for block b on its parent.
Derives(b) ==
  LET o == Origin(b)  p == Origin(ParentOf(b))
  IN  /\ o = p \/ IsChild(o, p)
      /\ L2Timestamp(b) >= L1Timestamp(o)
      /\ Last(b).txs # NoTxs =>
           /\ L2Timestamp(b) <= L1Timestamp(o) + MaxDrift
           /\ L2Timestamp(b) \notin UpgradeTimes

\* A chain in which every block obeys them.
ChainOk(b) ==
  /\ b \in L2Block
  /\ \A k \in 1..Len(b) : Derives(Upto(b, k))

\* A new block on parent b with epoch o, and with transactions or without.
Fits(b, o, none) ==
  /\ o = Origin(b) \/ IsChild(o, Origin(b))
  /\ NextTimestamp(b) >= L1Timestamp(o)
  /\ none \/ /\ NextTimestamp(b) <= L1Timestamp(o) + MaxDrift
             /\ NextTimestamp(b) \notin UpgradeTimes

RequestOk(r) ==
  /\ ChainOk(r.parent) /\ r.origin \in L1Block
  /\ Fits(r.parent, r.origin, r.no_tx_pool)

BuiltOk(b) == ChainOk(b) /\ b # << >>

\* The inductive invariant: the chains of the engine and of its watch, the
\* locals of build_block, the cached origins and what is in flight.
SeqInv ==
  /\ l1 \in L1Block /\ reorgs \in Nat
  /\ ChainOk(unsafe)
  /\ ChainOk(published) \/ (published = NoBlock /\ spc \in {"boot", "reset"})
  /\ spc \in {"current", "next", "prepare", "wait"} => ChainOk(head)
  /\ spc = "prepare" => chosen \in L1Block
  /\ {current, next} \subseteq L1Block \cup {NoBlock}
  /\ request # NoBlock => RequestOk(request)
  /\ payload # NoBlock => BuiltOk(payload)
  /\ sent # NoBlock => BuiltOk(sent)

-----------------------------------------------------------------------------
\* A sequence that is not empty has a last element.
LEMMA LastTyped ==
  ASSUME NEW S, NEW s \in Seq(S), s # << >>
  PROVE  Last(s) \in S /\ Len(s) \in Nat \ {0}
<1>1. Len(s) \in Nat \ {0}
  BY EmptySeq
<1>2. QED BY <1>1, ElementOfSeq DEF Last

\* The origin of a block is an L1 block.
LEMMA OriginTyped ==
  ASSUME NEW b \in L2Block
  PROVE  Origin(b) \in L1Block
<1>1. << >> \in L1Block
  BY EmptySeq DEF L1Block
<1>2. ASSUME b # << >>
      PROVE  Last(b) \in L2Entry
  BY <1>2, LastTyped DEF L2Block
<1>3. QED BY <1>1, <1>2 DEF Origin, L2Entry

\* Timestamps are natural numbers, and a child is one block time younger.
LEMMA Timestamps ==
  ASSUME NEW b \in L2Block, NEW o \in L1Block
  PROVE  /\ L1Timestamp(o) \in Nat /\ L2Timestamp(b) \in Nat
         /\ NextTimestamp(b) \in Nat
         /\ BlockTime * (Len(b) + 1) = NextTimestamp(b)
<1>1. Len(b) \in Nat /\ Len(o) \in Nat /\ BlockTime \in Nat /\ L1Time \in Nat
  BY SequencerAssumption DEF L1Block, L2Block
<1>2. \A x, y \in Nat : x * y \in Nat /\ x * (y + 1) = x * y + x
  OBVIOUS
<1>3. QED BY <1>1, <1>2 DEF L1Timestamp, L2Timestamp, NextTimestamp

\* The ancestors of a block that is longer by one element.
LEMMA Extended ==
  ASSUME NEW S, NEW s \in Seq(S), NEW e \in S
  PROVE  /\ Append(s, e) \in Seq(S) /\ Len(Append(s, e)) = Len(s) + 1
         /\ Append(s, e) # << >>
         /\ Front(Append(s, e)) = s /\ Last(Append(s, e)) = e
         /\ Upto(Append(s, e), Len(s) + 1) = Append(s, e)
         /\ \A k \in 1..Len(s) : Upto(Append(s, e), k) = Upto(s, k)
<1>1. /\ Append(s, e) \in Seq(S) /\ Len(Append(s, e)) = Len(s) + 1
      /\ \A i \in 1..Len(s) : Append(s, e)[i] = s[i]
      /\ Append(s, e)[Len(s) + 1] = e
      /\ Len(s) \in Nat
  OBVIOUS
<1>2. \A k \in 0..Len(s) : SubSeq(Append(s, e), 1, k) = SubSeq(s, 1, k)
  <2> TAKE k \in 0..Len(s)
  <2> DEFINE a == SubSeq(Append(s, e), 1, k)
             b == SubSeq(s, 1, k)
  <2>1. /\ a \in Seq(S) /\ b \in Seq(S) /\ Len(a) = k /\ Len(b) = k
        /\ \A i \in 1..k : a[i] = Append(s, e)[i] /\ b[i] = s[i]
    BY <1>1, SubSeqProperties
  <2>2. \A i \in 1..k : a[i] = b[i]
    BY <1>1, <2>1
  <2> HIDE DEF a, b
  <2>3. QED BY <2>1, <2>2, SeqEqual DEF a, b
<1>3. SubSeq(s, 1, Len(s)) = s
  BY SubSeqFull
<1>4. Upto(Append(s, e), Len(s) + 1) = Append(s, e)
  BY <1>1, SubSeqFull DEF Upto
<1>5. Front(Append(s, e)) = s
  BY <1>1, <1>2, <1>3 DEF Front
<1>6. Last(Append(s, e)) = e
  BY <1>1 DEF Last
<1>7. Append(s, e) # << >>
  BY <1>1, EmptySeq
<1>8. \A k \in 1..Len(s) : Upto(Append(s, e), k) = Upto(s, k)
  BY <1>1, <1>2 DEF Upto
<1>9. QED BY <1>1, <1>4, <1>5, <1>6, <1>7, <1>8

\* A block that fits on a derivable chain extends it to one.
LEMMA ChildOk ==
  ASSUME NEW b, ChainOk(b), NEW o \in L1Block, NEW t \in Txs \cup {NoTxs},
         Fits(b, o, t = NoTxs)
  PROVE  BuiltOk(Child(b, o, t))
<1> DEFINE e == [origin |-> o, txs |-> t]
           c == Append(b, e)
<1>1. b \in L2Block /\ Len(b) \in Nat
  BY DEF ChainOk, L2Block
<1>2. e \in L2Entry /\ e.origin = o /\ e.txs = t
  BY DEF L2Entry
<1> HIDE DEF e
<1>3. /\ c \in L2Block /\ Len(c) = Len(b) + 1 /\ c # << >>
      /\ Front(c) = b /\ Last(c) = e
      /\ Upto(c, Len(b) + 1) = c
      /\ \A k \in 1..Len(b) : Upto(c, k) = Upto(b, k)
  BY <1>1, <1>2, Extended DEF L2Block
<1> HIDE DEF c
<1>4. Origin(c) = o /\ Origin(ParentOf(c)) = Origin(b)
  BY <1>2, <1>3 DEF Origin, ParentOf
<1>5. L2Timestamp(c) = NextTimestamp(b)
  BY <1>1, <1>3, Timestamps DEF L2Timestamp
<1>6. Derives(c)
  BY <1>2, <1>3, <1>4, <1>5 DEF Derives, Fits
<1>7. \A k \in 1..Len(c) : Derives(Upto(c, k))
  <2> TAKE k \in 1..Len(c)
  <2>1. CASE k \in 1..Len(b)
    BY <1>3, <2>1 DEF ChainOk
  <2>2. CASE k = Len(b) + 1
    BY <1>3, <1>6, <2>2
  <2>3. QED BY <1>1, <1>3, <2>1, <2>2
<1>8. QED BY <1>3, <1>7 DEF BuiltOk, ChainOk, Child, c, e

\* The ancestors of a block of a derivable chain are derivable chains.
LEMMA PrefixOk ==
  ASSUME NEW b, ChainOk(b), NEW k \in 0..Len(b)
  PROVE  ChainOk(Upto(b, k))
<1>1. b \in L2Block /\ Len(b) \in Nat
  BY DEF ChainOk, L2Block
<1>2. Upto(b, k) \in L2Block /\ Len(Upto(b, k)) = k
  BY <1>1, SubSeqProperties DEF L2Block, Upto
<1>3. \A j \in 1..k : Upto(Upto(b, k), j) = Upto(b, j)
  BY <1>1, SubSeqOfSubSeq DEF L2Block, Upto
<1>4. QED BY <1>1, <1>2, <1>3 DEF ChainOk

\* A derivable block obeys the rules on its own parent.
LEMMA BuiltDerives ==
  ASSUME NEW b, BuiltOk(b)
  PROVE  Derives(b)
<1>1. b \in L2Block /\ b # << >>
  BY DEF BuiltOk, ChainOk
<1>2. Len(b) \in Nat \ {0}
  BY <1>1, LastTyped DEF L2Block
<1>3. Upto(b, Len(b)) = b
  BY <1>1, SubSeqFull DEF L2Block, Upto
<1>4. QED BY <1>2, <1>3 DEF BuiltOk, ChainOk

-----------------------------------------------------------------------------
\* What the origin selector caches are L1 blocks, whether by hash, by number
\* or kept from before, and so is the origin it returns.
LEMMA SelectorTyped ==
  ASSUME SeqInv, ChainOk(head)
  PROVE  /\ \A s \in SelectCurrent : {s[1], s[2]} \subseteq L1Block \cup {NoBlock}
         /\ FetchNext \in L1Block \cup {NoBlock}
         /\ \A n \in L1Block \cup {NoBlock} :
              NextL1Origin(n).kind = "ok" => NextL1Origin(n).origin \in L1Block
<1>1. Origin(head) \in L1Block
  BY OriginTyped DEF ChainOk
<1>2. {current, next} \subseteq L1Block \cup {NoBlock} /\ l1 \in L1Block
  BY DEF SeqInv
<1>3. \A o \in ByHash(Origin(head)) : o \in L1Block \cup {NoBlock}
  BY <1>1 DEF ByHash
<1>4. \A s \in SelectCurrent : {s[1], s[2]} \subseteq L1Block \cup {NoBlock}
  BY <1>1, <1>2, <1>3 DEF SelectCurrent
<1>5. ASSUME NEW n \in Nat
      PROVE  ByNumber(n) \in L1Block \cup {NoBlock}
  BY <1>2, SubSeqProperties, SMTT(40) DEF ByNumber, L1Block
<1>6. \A o \in L1Block : Len(o) + 1 \in Nat
  BY DEF L1Block
<1>7. FetchNext \in L1Block \cup {NoBlock}
  BY <1>1, <1>2, <1>5, <1>6 DEF FetchNext
<1>8. ASSUME NEW n \in L1Block \cup {NoBlock}, NextL1Origin(n).kind = "ok"
      PROVE  NextL1Origin(n).origin \in L1Block
  BY <1>2, <1>8, ZenonT(30) DEF NextL1Origin
<1>9. QED BY <1>4, <1>7, <1>8

\* The attributes that prepare_payload_attributes does not refuse fit on the
\* head.
LEMMA PreparedFits ==
  ASSUME SeqInv, Prepare, request' # NoBlock
  PROVE  RequestOk(request')
<1>1. ChainOk(head) /\ chosen \in L1Block
  BY DEF SeqInv, Prepare
<1>2. CASE request' = request
  BY <1>2 DEF SeqInv
<1>3. CASE request' # request
  <2>1. /\ request' = [parent |-> head, origin |-> chosen, no_tx_pool |-> NoTxPool]
        /\ ~(Len(Origin(head)) # Len(chosen) /\ ~IsChild(chosen, Origin(head)))
        /\ ~(Len(Origin(head)) = Len(chosen) /\ Origin(head) # chosen)
        /\ ~(NextTimestamp(head) < L1Timestamp(chosen))
    BY <1>3 DEF Prepare
  <2>2. /\ L1Timestamp(chosen) \in Nat /\ NextTimestamp(head) \in Nat
        /\ MaxDrift \in Nat
    BY <1>1, Timestamps, SequencerAssumption DEF ChainOk
  <2>3. Fits(head, chosen, NoTxPool)
    BY <2>1, <2>2 DEF Fits, NoTxPool
  <2>4. QED BY <1>1, <2>1, <2>3 DEF RequestOk
<1>4. QED BY <1>2, <1>3

\* What the engine builds for such a request.
LEMMA BuiltFits ==
  ASSUME SeqInv, EngineBuild
  PROVE  BuiltOk(unsafe') /\ payload' = unsafe'
<1>1. RequestOk(request)
  BY DEF SeqInv, EngineBuild
<1>2. PICK t \in IF request.no_tx_pool THEN {NoTxs} ELSE Txs \cup {NoTxs} :
        /\ unsafe' = Child(request.parent, request.origin, t)
        /\ payload' = Child(request.parent, request.origin, t)
  BY DEF EngineBuild
<1>3. Fits(request.parent, request.origin, t = NoTxs) /\ t \in Txs \cup {NoTxs}
  BY <1>1, <1>2 DEF RequestOk, Fits
<1>4. QED BY <1>1, <1>2, <1>3, ChildOk DEF RequestOk

\* An imported block keeps the unsafe chain derivable.
LEMMA ImportedFits ==
  ASSUME SeqInv, EngineImport
  PROVE  ChainOk(unsafe')
<1>1. ChainOk(unsafe) /\ l1 \in L1Block /\ Origin(unsafe) \in L1Block
  BY OriginTyped DEF SeqInv, ChainOk
<1>2. PICK n \in {Len(Origin(unsafe)), Len(Origin(unsafe)) + 1}, t \in Txs :
        LET o == SubSeq(l1, 1, n)
        IN  /\ n <= Len(l1) /\ (o = Origin(unsafe) \/ IsChild(o, Origin(unsafe)))
            /\ NextTimestamp(unsafe) \in L1Timestamp(o)..L1Timestamp(o) + MaxDrift
            /\ NextTimestamp(unsafe) \notin UpgradeTimes
            /\ unsafe' = Child(unsafe, o, t)
  BY DEF EngineImport
<1> DEFINE o == SubSeq(l1, 1, n)
<1>3. n \in Nat /\ n <= Len(l1)
  BY <1>1, <1>2 DEF L1Block
<1>4. o \in L1Block
  BY <1>1, <1>3, SubSeqProperties, SMTT(40) DEF L1Block
<1>5. /\ o = Origin(unsafe) \/ IsChild(o, Origin(unsafe))
      /\ NextTimestamp(unsafe) \in L1Timestamp(o)..L1Timestamp(o) + MaxDrift
      /\ NextTimestamp(unsafe) \notin UpgradeTimes
      /\ unsafe' = Child(unsafe, o, t)
  BY <1>2
<1> HIDE DEF o
<1>6. NextTimestamp(unsafe) \in Nat /\ L1Timestamp(o) \in Nat
  BY <1>1, <1>4, Timestamps DEF ChainOk
<1>7. Fits(unsafe, o, t = NoTxs)
  BY <1>5, <1>6, SequencerAssumption DEF Fits
<1>8. BuiltOk(unsafe')
  BY <1>1, <1>4, <1>5, <1>7, ChildOk
<1>9. QED BY <1>8 DEF BuiltOk

-----------------------------------------------------------------------------
\* Every step of the sequencer, the engine and L1 preserves the invariant.
LEMMA SeqInvStep ==
  ASSUME SeqInv, [Next]_vars
  PROVE  SeqInv'
<1> USE DEF l1Vars, engineVars, selector
<1>1. CASE RequestInitialReset \/ InitialResetDone
  <2>1. CASE RequestInitialReset
    BY <2>1 DEF SeqInv, RequestInitialReset
  <2>2. CASE InitialResetDone
    BY <2>2 DEF SeqInv, InitialResetDone
  <2>3. QED BY <1>1, <2>1, <2>2
<1>2. CASE StartSequencer \/ StopSequencer \/ SetRecoveryMode \/ Tick
  BY <1>2 DEF SeqInv, StartSequencer, StopSequencer, SetRecoveryMode, Tick
<1>3. CASE SelectCurrentOrigin
  <2>1. ChainOk(head)
    BY <1>3 DEF SeqInv, SelectCurrentOrigin
  <2>2. {current', next'} \subseteq L1Block \cup {NoBlock}
    BY <1>3, <2>1, SelectorTyped DEF SelectCurrentOrigin
  <2>3. QED BY <1>3, <2>2 DEF SeqInv, SelectCurrentOrigin
<1>4. CASE SelectNextOrigin
  <2>1. ChainOk(head)
    BY <1>4, ZenonT(30) DEF SeqInv, SelectNextOrigin
  <2>2. next' \in L1Block \cup {NoBlock}
    BY <1>4, <2>1, SelectorTyped, ZenonT(30) DEF SelectNextOrigin
  <2>3. spc' = "prepare" => chosen' \in L1Block /\ head' = head
    BY <1>4, <2>1, SelectorTyped DEF SelectNextOrigin, Return
  <2>4. spc' \in {"panicked", "select", "prepare"}
    BY <1>4, ZenonT(30) DEF SelectNextOrigin, Return
  <2>5. QED BY <1>4, <2>1, <2>2, <2>3, <2>4, ZenonT(30) DEF SeqInv, SelectNextOrigin
<1>5. CASE L1RequestFails \/ Gossip
  BY <1>5 DEF SeqInv, L1RequestFails, Gossip, Return
<1>6. CASE Prepare
  <2>1. request' # NoBlock => RequestOk(request')
    BY <1>6, PreparedFits
  <2>2. spc' = "select" \/ (spc' = "wait" /\ head' = head)
    BY <1>6 DEF Prepare, Return
  <2>3. QED BY <1>6, <2>1, <2>2 DEF SeqInv, Prepare
<1>7. CASE EngineReset
  <2>1. PICK k \in 0..Len(unsafe) : unsafe' = SubSeq(unsafe, 1, k)
    BY <1>7 DEF EngineReset
  <2>2. ChainOk(unsafe')
    BY <2>1, PrefixOk DEF SeqInv, Upto
  <2>3. QED BY <1>7, <2>2 DEF SeqInv, EngineReset
<1>8. CASE EngineBuild
  <2>1. BuiltOk(unsafe') /\ payload' = unsafe'
    BY <1>8, BuiltFits
  <2>2. QED BY <1>8, <2>1 DEF SeqInv, EngineBuild, BuiltOk
<1>9. CASE EnginePublish
  BY <1>9 DEF SeqInv, EnginePublish
<1>10. CASE EngineImport
  <2>1. ChainOk(unsafe')
    BY <1>10, ImportedFits
  <2>2. QED BY <1>10, <2>1 DEF SeqInv, EngineImport
<1>11. CASE L1Extend \/ L1Reorg \/ L1Head
  <2>1. l1 \in Seq(Nat) /\ reorgs \in Nat
    BY DEF SeqInv, L1Block
  <2>2. l1' \in Seq(Nat) /\ reorgs' \in Nat
    <3>1. CASE L1Reorg
      <4>1. PICK n \in 0..Len(l1) - 1 : l1' = Append(SubSeq(l1, 1, n), reorgs + 1)
        BY <3>1 DEF L1Reorg
      <4>2. SubSeq(l1, 1, n) \in Seq(Nat)
        BY <2>1, <4>1, SubSeqProperties, SMTT(40)
      <4>3. reorgs' = reorgs + 1
        BY <3>1, ZenonT(30) DEF L1Reorg
      <4>4. reorgs + 1 \in Nat
        BY <2>1
      <4>5. QED BY <4>1, <4>2, <4>3, <4>4, AppendProperties, ZenonT(30)
    <3>2. QED BY <1>11, <2>1, <3>1 DEF L1Extend, L1Head
  <2>3. UNCHANGED <<engineVars, selector, request, payload, spc, head, chosen, sent>>
    BY <1>11, ZenonT(30) DEF L1Extend, L1Reorg, L1Head
  <2>4. QED BY <2>2, <2>3, ZenonT(30) DEF SeqInv, L1Block, engineVars, selector
<1>12. CASE UNCHANGED vars
  BY <1>12 DEF SeqInv, vars
<1>13. QED BY <1>1, <1>2, <1>3, <1>4, <1>5, <1>6, <1>7, <1>8, <1>9, <1>10,
             <1>11, <1>12 DEF Next

\* The invariant holds in every state of the sequencer.
THEOREM SequencerInvariant == Spec => []SeqInv
<1>1. Init => SeqInv
  <2>1. << >> \in L1Block /\ << >> \in L2Block /\ Len(<< >>) = 0
    BY EmptySeq DEF L1Block, L2Block
  <2>2. ChainOk(<< >>)
    BY <2>1 DEF ChainOk
  <2>3. QED BY <2>1, <2>2 DEF Init, SeqInv
<1>2. SeqInv /\ [Next]_vars => SeqInv'
  BY SeqInvStep
<1>3. QED BY <1>1, <1>2, PTL DEF Spec

\* Whatever L1 does between the awaits of build_block, a block handed to
\* gossip has an epoch, a time and transactions that derivation accepts.
THEOREM SentDerivable == Spec => []Derivable
<1>1. SeqInv => Derivable
  BY BuiltDerives DEF SeqInv, Derivable, Derives
<1>2. QED BY <1>1, SequencerInvariant, PTL

\* Not only the block handed to gossip: every block of the chain the engine
\* has published was derivable on its parent.
PublishedDerivable ==
  published # NoBlock => \A k \in 1..Len(published) : Derives(Upto(published, k))

\* The unsafe chain a node publishes stays derivable through resets, blocks of
\* another leader and blocks built on a stale head.
THEOREM ChainDerivable == Spec => []PublishedDerivable
<1>1. SeqInv => PublishedDerivable
  BY DEF SeqInv, PublishedDerivable, ChainOk
<1>2. QED BY <1>1, SequencerInvariant, PTL
=============================================================================
