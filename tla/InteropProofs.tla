---------------------------- MODULE InteropProofs ----------------------------
(***************************************************************************)
(* The interop fault proof implements the super root transition: for every *)
(* dependency set, block times and claim, whatever L1 holds for the blocks *)
(* in between, and in whatever order the consolidator meets the chains.    *)
(*                                                                         *)
(* Two circumstances in which the program departs from the specification   *)
(* are excluded by hypothesis (runs show each of them): the driver asks    *)
(* whether interop is active at a block number, and the walk back through  *)
(* the history contract looks for block 0.                                 *)
(***************************************************************************)
EXTENDS InteropProof, SequenceTheorems, TLAPS

\* The agreed super root: interop is active by number as well as by time, no
\* block is from the future, and the messages of the last blocks hold.
AnchorOk ==
  /\ Anchor \in [Chains -> Seq(Block)]
  /\ \A c \in Chains :
       /\ InteropTime <= Len(Anchor[c])
       /\ Timestamp(c, Len(Anchor[c])) <= AnchorTime
       /\ \A m \in ExecutingMessages(Anchor[c]) :
            STF!Holds(m, Timestamp(c, Len(Anchor[c])), Anchor)

\* The history contract was deployed by an upgrade, and the claim lies within
\* its window: a walk back finds nothing for block 0 and stays linear.
LinearWalks ==
  /\ \A c \in Chains : FirstRecorded[c] > 0
  /\ Claimed <= Window

\* L1 may hold anything for any block.
FeedTyped == \A c \in Chains, n \in Nat : feed[c][n] \in Feed

ProofSpec == ProofInit /\ FeedTyped /\ [][ProofNext]_proofVars

-----------------------------------------------------------------------------
Chain == Seq(Block)

PreState == [kind : {"super", "transition", "invalid"}, timestamp : Nat,
             outputs : [Chains -> Chain], pending : Seq(Chain), step : Nat]

\* The time of the head of chain c in the super root, and of its next block.
HeadTime(c) == Timestamp(c, Len(agreed.outputs[c]))
NextTime(c) == Timestamp(c, Len(agreed.outputs[c]) + 1)

\* What holds of the super root a pre-state carries along.
RootOk ==
  \A c \in Chains :
    /\ InteropTime <= Len(agreed.outputs[c])
    /\ HeadTime(c) <= agreed.timestamp
    /\ \A m \in ExecutingMessages(agreed.outputs[c]) :
         STF!Holds(m, HeadTime(c), agreed.outputs)

\* No set of blocks whose messages hold together has a block outside `kept'.
Greatest(kept) ==
  \A other \in SUBSET STF!Due : STF!Consistent(other) => other \subseteq kept

\* The optimistic block of c has a message that does not hold even when all
\* of `kept' are kept.
Refuted(c, kept) ==
  \E m \in STF!Optimistic(c).msgs : ~STF!Holds(m, NextTime(c), STF!After(kept))

\* The consolidating run: the blocks not yet replaced contain every
\* consistent set, and the chains still to be rebuilt are in none.
Consolidating(kept) ==
  /\ agreed.pending = STF!After(kept) /\ heads = STF!After(kept)
  /\ Greatest(kept)
  /\ phase = "rebuild" => bad \subseteq kept /\ \A c \in bad : Refuted(c, kept)
  /\ phase = "done" => STF!Consistent(kept)

\* Until then the pending progress is what L1 offers to the chains in turn.
Progress ==
  /\ agreed.timestamp < Claimed
  /\ StepMatchesProgress
  /\ \A c \in DOMAIN agreed.pending :
       c \in STF!Due => STF!Offered(c).kind # "missing"
  /\ phase = "run" => \A c \in DOMAIN agreed.pending :
                        agreed.pending[c] = STF!After(STF!Due)[c]

\* The inductive invariant.
InteropInv ==
  /\ FeedTyped /\ agreed \in PreState /\ RootOk
  /\ phase \in {"run", "resolve", "rebuild", "done"}
  /\ agreed.kind = "super" => agreed.pending = << >> /\ agreed.step = 0
  /\ agreed.kind = "transition" => Progress
  /\ phase # "run" =>
       /\ agreed.kind = "transition" /\ agreed.step = MaxSteps
       /\ \E kept \in SUBSET STF!Due : Consolidating(kept)

-----------------------------------------------------------------------------
\* The specification's terms, with the refinement mapping applied.
LEMMA SpecDue ==
  STF!Due = {c \in Chains : IsDue(c, agreed.outputs[c], agreed.timestamp)}
BY DEF STF!Due, STF!Chains, STF!IsDue, STF!Timestamp, Chains, IsDue, Timestamp

\* The block L1 offers to a chain.
LEMMA SpecOffered ==
  ASSUME NEW c
  PROVE  STF!Offered(c) = feed[c][Len(agreed.outputs[c]) + 1]
BY DEF STF!Offered

\* The block it becomes if it is kept.
LEMMA SpecOptimistic ==
  ASSUME NEW c
  PROVE  STF!Optimistic(c) =
           IF STF!Offered(c).kind = "full"
           THEN [kind |-> "full", msgs |-> STF!Offered(c).msgs] ELSE Bare
BY DEF STF!Optimistic, STF!Bare, Bare

\* The superchain a second later.
LEMMA SpecAfter ==
  ASSUME NEW kept
  PROVE  STF!After(kept) =
           [c \in Chains |->
              IF c \notin STF!Due THEN agreed.outputs[c]
              ELSE Append(agreed.outputs[c],
                          IF c \in kept THEN STF!Optimistic(c) ELSE Replaced)]
BY DEF STF!After, STF!Chains, STF!Replaced, Chains, Replaced

\* A message that holds.
LEMMA SpecHolds ==
  ASSUME NEW m, NEW t, NEW chains
  PROVE  STF!Holds(m, t, chains) <=>
           /\ m.chain \in Chains
           /\ InTime(m, t)
           /\ m.number \in 1..Len(chains[m.chain])
           /\ m.timestamp = Timestamp(m.chain, m.number)
           /\ HasLog(chains[m.chain][m.number], m)
BY DEF STF!Holds, STF!Chains, STF!InTime, STF!Timestamp, STF!HasLog,
   Chains, InTime, Timestamp, HasLog

\* Blocks whose messages hold together.
LEMMA SpecConsistent ==
  ASSUME NEW kept
  PROVE  STF!Consistent(kept) <=>
           \A c \in kept : \A m \in STF!Optimistic(c).msgs :
             STF!Holds(m, NextTime(c), STF!After(kept))
BY DEF STF!Consistent, STF!Timestamp, Timestamp, NextTime

\* The specification's terms depend on what L1 holds and on the super root.
LEMMA SameRoot ==
  ASSUME UNCHANGED feed, agreed'.outputs = agreed.outputs,
         agreed'.timestamp = agreed.timestamp
  PROVE  /\ STF!Due' = STF!Due
         /\ \A c : STF!Offered(c)' = STF!Offered(c)
         /\ \A c : STF!Optimistic(c)' = STF!Optimistic(c)
         /\ \A kept : STF!After(kept)' = STF!After(kept)
         /\ \A kept : STF!Consistent(kept)' = STF!Consistent(kept)
         /\ \A c : HeadTime(c)' = HeadTime(c) /\ NextTime(c)' = NextTime(c)
<1>1. STF!Due' = STF!Due
  BY DEF STF!Due
<1>2. \A c : STF!Offered(c)' = STF!Offered(c)
  BY DEF STF!Offered
<1>3. \A c : STF!Optimistic(c)' = STF!Optimistic(c)
  BY <1>2 DEF STF!Optimistic
<1>4. \A kept : STF!After(kept)' = STF!After(kept)
  BY <1>1, <1>3 DEF STF!After
<1>5. \A kept : STF!Consistent(kept)' = STF!Consistent(kept)
  BY <1>3, <1>4 DEF STF!Consistent
<1>6. \A c : HeadTime(c)' = HeadTime(c) /\ NextTime(c)' = NextTime(c)
  BY DEF HeadTime, NextTime
<1>7. QED BY <1>1, <1>2, <1>3, <1>4, <1>5, <1>6

-----------------------------------------------------------------------------
\* A chain with one more block.
LEMMA Longer ==
  ASSUME NEW h \in Chain, NEW b \in Block
  PROVE  /\ Append(h, b) \in Chain /\ Len(Append(h, b)) = Len(h) + 1
         /\ \A i \in 1..Len(h) : Append(h, b)[i] = h[i]
         /\ Append(h, b)[Len(h) + 1] = b
         /\ SubSeq(Append(h, b), 1, Len(h)) = h
<1>1. /\ Append(h, b) \in Chain /\ Len(Append(h, b)) = Len(h) + 1
      /\ \A i \in 1..Len(h) : Append(h, b)[i] = h[i]
      /\ Append(h, b)[Len(h) + 1] = b /\ Len(h) \in Nat
  BY DEF Chain
<1> DEFINE f == SubSeq(Append(h, b), 1, Len(h))
<1>2. /\ f \in Seq(Block) /\ Len(f) = Len(h)
      /\ \A i \in 1..Len(h) : f[i] = Append(h, b)[i]
  BY <1>1, SubSeqProperties DEF Chain
<1>3. \A i \in 1..Len(h) : f[i] = h[i]
  BY <1>1, <1>2
<1> HIDE DEF f
<1>4. f = h
  BY <1>2, <1>3, SeqEqual DEF Chain
<1>5. QED BY <1>1, <1>4 DEF f

\* The blocks the transition adds are blocks, and a chain that is due gains
\* one of them.
LEMMA AfterFacts ==
  ASSUME FeedTyped, agreed \in PreState, NEW kept \in SUBSET STF!Due,
         NEW c \in Chains
  PROVE  /\ agreed.outputs[c] \in Chain /\ Len(agreed.outputs[c]) \in Nat
         /\ STF!Optimistic(c) \in Block /\ Replaced \in Block
         /\ STF!After(kept) \in [Chains -> Chain]
         /\ c \notin STF!Due => STF!After(kept)[c] = agreed.outputs[c]
         /\ c \in kept =>
              STF!After(kept)[c] = Append(agreed.outputs[c], STF!Optimistic(c))
         /\ c \in STF!Due \ kept =>
              STF!After(kept)[c] = Append(agreed.outputs[c], Replaced)
<1>1. ASSUME NEW d \in Chains
      PROVE  /\ agreed.outputs[d] \in Chain /\ Len(agreed.outputs[d]) \in Nat
             /\ STF!Optimistic(d) \in Block
  <2>1. agreed.outputs[d] \in Chain /\ Len(agreed.outputs[d]) \in Nat
    BY DEF PreState, Chain
  <2>2. STF!Offered(d) \in Feed
    BY <2>1, SpecOffered DEF FeedTyped
  <2>3. QED BY <2>1, <2>2, SpecOptimistic DEF Feed, Block, Bare
<1>2. Replaced \in Block
  BY DEF Replaced, Block
<1>3. ASSUME NEW d \in Chains
      PROVE  Append(agreed.outputs[d], IF d \in kept THEN STF!Optimistic(d) ELSE Replaced)
                \in Chain
  BY <1>1, <1>2, Longer
<1>4. STF!After(kept) \in [Chains -> Chain]
  BY <1>1, <1>3, SpecAfter, ZenonT(30)
<1>5. QED BY <1>1, <1>2, <1>4, SpecAfter

\* Its length and its blocks.
LEMMA AfterBlocks ==
  ASSUME FeedTyped, agreed \in PreState, NEW kept \in SUBSET STF!Due,
         NEW c \in Chains
  PROVE  /\ Len(STF!After(kept)[c]) =
              (IF c \in STF!Due THEN Len(agreed.outputs[c]) + 1
               ELSE Len(agreed.outputs[c]))
         /\ \A i \in 1..Len(agreed.outputs[c]) :
              STF!After(kept)[c][i] = agreed.outputs[c][i]
         /\ c \in STF!Due =>
              STF!After(kept)[c][Len(agreed.outputs[c]) + 1] =
                IF c \in kept THEN STF!Optimistic(c) ELSE Replaced
<1>1. CASE c \notin STF!Due
  BY <1>1, AfterFacts
<1>2. CASE c \in STF!Due
  <2> DEFINE b == IF c \in kept THEN STF!Optimistic(c) ELSE Replaced
  <2>1. /\ agreed.outputs[c] \in Chain /\ b \in Block
        /\ STF!After(kept)[c] = Append(agreed.outputs[c], b)
    BY <1>2, AfterFacts
  <2> HIDE DEF b
  <2>2. /\ Len(STF!After(kept)[c]) = Len(agreed.outputs[c]) + 1
        /\ \A i \in 1..Len(agreed.outputs[c]) :
             STF!After(kept)[c][i] = agreed.outputs[c][i]
        /\ STF!After(kept)[c][Len(agreed.outputs[c]) + 1] = b
    BY <2>1, Longer
  <2>3. QED BY <1>2, <2>2 DEF b
<1>3. QED BY <1>1, <1>2

\* A message that holds when fewer blocks are kept holds when more are: a
\* rebuilt block has the logs of its deposits only.
LEMMA HoldsMonotone ==
  ASSUME FeedTyped, agreed \in PreState, NEW more \in SUBSET STF!Due,
         NEW kept \in SUBSET more, NEW m, NEW t,
         STF!Holds(m, t, STF!After(kept))
  PROVE  STF!Holds(m, t, STF!After(more))
<1> DEFINE c == m.chain
           n == Len(agreed.outputs[c])
<1>1. c \in Chains /\ m.number \in 1..Len(STF!After(kept)[c])
  BY SpecHolds
<1>2. kept \in SUBSET STF!Due
  OBVIOUS
<1>3. Len(STF!After(kept)[c]) = Len(STF!After(more)[c])
  BY <1>1, <1>2, AfterBlocks
<1>4. HasLog(STF!After(kept)[c][m.number], m)
  BY SpecHolds
<1>5. HasLog(STF!After(more)[c][m.number], m)
  <2>1. n \in Nat
    BY <1>1, AfterFacts
  <2>2. CASE m.number \in 1..n
    BY <1>1, <1>2, <1>4, <2>2, AfterBlocks, SMTT(40)
  <2>3. CASE m.number = n + 1 /\ c \in STF!Due
    <3>1. CASE c \in kept
      BY <1>1, <1>2, <1>4, <2>3, <3>1, AfterBlocks, SMTT(40)
    <3>2. CASE c \notin kept
      <4>1. HasLog(Replaced, m)
        BY <1>1, <1>2, <1>4, <2>3, <3>2, AfterBlocks, SMTT(40)
      <4>2. m.log = "deposit"
        BY <4>1 DEF HasLog, Replaced
      <4>3. QED BY <4>2 DEF HasLog
    <3>3. QED BY <3>1, <3>2
  <2>4. m.number \in 1..n \/ (m.number = n + 1 /\ c \in STF!Due)
    BY <1>1, <1>2, <2>1, AfterBlocks, SMTT(40)
  <2>5. QED BY <2>2, <2>3, <2>4
<1>6. QED BY <1>1, <1>3, <1>5, SpecHolds

\* A message that holds in a super root holds a second later.
LEMMA HoldsLater ==
  ASSUME FeedTyped, agreed \in PreState, NEW kept \in SUBSET STF!Due,
         NEW m, NEW t, STF!Holds(m, t, agreed.outputs)
  PROVE  STF!Holds(m, t, STF!After(kept))
<1>1. m.chain \in Chains /\ m.number \in 1..Len(agreed.outputs[m.chain])
  BY SpecHolds
<1>2. /\ STF!After(kept)[m.chain][m.number] = agreed.outputs[m.chain][m.number]
      /\ Len(agreed.outputs[m.chain]) \in Nat
      /\ Len(STF!After(kept)[m.chain]) \in
           {Len(agreed.outputs[m.chain]), Len(agreed.outputs[m.chain]) + 1}
  BY <1>1, AfterBlocks, AfterFacts, SMTT(40)
<1>3. m.number \in 1..Len(STF!After(kept)[m.chain])
  BY <1>1, <1>2, SMTT(40)
<1>4. QED BY <1>1, <1>2, <1>3, SpecHolds

-----------------------------------------------------------------------------
\* A block that is not past the claim has a number below the window.
LEMMA NumberBound ==
  ASSUME NEW c \in Chains, NEW n \in Nat, Timestamp(c, n) <= Claimed,
         LinearWalks
  PROVE  n <= Window
<1>1. BlockTime[c] \in Nat \ {0} /\ GenesisTime \in Nat /\ Claimed \in Nat
  BY SuperchainAssumption
<1>2. Window \in Nat
  BY ProofAssumption
<1>3. \A b \in Nat \ {0} : n <= n * b
  OBVIOUS
<1>4. n * BlockTime[c] \in Nat /\ n <= n * BlockTime[c]
  BY <1>1, <1>3
<1>5. QED BY <1>1, <1>2, <1>4 DEF Timestamp, LinearWalks

\* Nothing is found for block 0: the contract recorded no block whose number
\* is a multiple of the window.
LEMMA RingEmpty ==
  ASSUME NEW c \in Chains, NEW k \in Nat, k <= Window, LinearWalks
  PROVE  InRing(c, k, 0) = {}
<1>1. Window \in Nat \ {0} /\ FirstRecorded[c] \in Nat \ {0}
  BY ProofAssumption DEF LinearWalks
<1>2. Slot(k, 0) = 0
  BY <1>1 DEF Slot
<1>3. \A j \in 1..(Window - 1) : j % Window = j
  BY <1>1
<1>4. \A j \in FirstRecorded[c]..(k - 1) : j \in 1..(Window - 1)
  BY <1>1
<1>5. QED BY <1>2, <1>3, <1>4 DEF InRing

\* So the walk back is linear, and ends at the block asked for.
LEMMA LookupExact ==
  ASSUME NEW c \in Chains, NEW h \in Chain, Len(h) <= Window, LinearWalks,
         NEW number \in 0..Len(h)
  PROVE  HeaderByNumber(c, h, number) = number
<1> DEFINE Step(f) == [k \in 0..Len(h) |->
                         IF k <= number THEN k
                         ELSE IF InRing(c, k, 0) # {} THEN f[Max(InRing(c, k, 0))]
                         ELSE number]
           Walk == CHOOSE f : f = Step(f)
<1>1. Len(h) \in Nat /\ Window \in Nat
  BY ProofAssumption DEF Chain
<1>2. \A k \in 0..Len(h) : InRing(c, k, 0) = {}
  BY <1>1, RingEmpty
<1>3. \E f : f = Step(f)
  <2> DEFINE g == [k \in 0..Len(h) |-> IF k <= number THEN k ELSE number]
  <2>1. g = Step(g)
    BY <1>2
  <2> HIDE DEF g
  <2>2. QED BY <2>1, ZenonT(30)
<1>4. HeaderByNumber(c, h, number) = Walk[Len(h)]
  BY DEF HeaderByNumber
<1> HIDE DEF Step
<1>5. Walk = Step(Walk)
  BY <1>3, Zenon
<1> HIDE DEF Walk
<1>6. Walk[Len(h)] = number
  BY <1>1, <1>2, <1>5 DEF Step
<1>7. QED BY <1>4, <1>6

\* What check_single_dependency checks on the local safe heads is that the
\* message holds there.
LEMMA CheckIsHolds ==
  ASSUME LinearWalks, heads \in [Chains -> Chain],
         \A d \in Chains : Len(heads[d]) <= Window,
         NEW c \in Chains, NEW m \in Messages
  PROVE  CheckSingleDependency(m, c) <=>
           STF!Holds(m, Timestamp(c, Len(heads[c])), heads)
<1>1. m.number \in Nat /\ m.timestamp \in Nat
  BY SuperchainAssumption
<1>2. CASE m.chain \in Chains /\ m.number <= Len(heads[m.chain])
  <2>1. Len(heads[m.chain]) \in Nat
    BY <1>2 DEF Chain
  <2>2. HeaderByNumber(m.chain, heads[m.chain], m.number) = m.number
    BY <1>1, <1>2, <2>1, LookupExact
  <2>3. m.number # 0 <=> m.number \in 1..Len(heads[m.chain])
    BY <1>1, <1>2, <2>1
  <2>4. QED BY <1>2, <2>2, <2>3, SpecHolds DEF CheckSingleDependency
<1>3. CASE m.chain \in Chains /\ ~(m.number <= Len(heads[m.chain]))
  <2>1. Len(heads[m.chain]) \in Nat
    BY <1>3 DEF Chain
  <2>2. QED BY <1>1, <1>3, <2>1, SpecHolds DEF CheckSingleDependency
<1>4. CASE m.chain \notin Chains
  BY <1>4, SpecHolds DEF CheckSingleDependency
<1>5. QED BY <1>2, <1>3, <1>4

\* The heads being consolidated are within the window: a block that is due is
\* not past the claim.
LEMMA HeadsBound ==
  ASSUME InteropInv, LinearWalks, agreed.timestamp < Claimed,
         NEW kept \in SUBSET STF!Due, NEW c \in Chains
  PROVE  Len(STF!After(kept)[c]) <= Window
<1>1. /\ FeedTyped /\ agreed \in PreState /\ HeadTime(c) <= agreed.timestamp
      /\ agreed.timestamp \in Nat
  BY DEF InteropInv, RootOk, PreState
<1> DEFINE n == Len(agreed.outputs[c])
<1>2. /\ n \in Nat /\ Claimed \in Nat /\ GenesisTime \in Nat
      /\ BlockTime[c] \in Nat \ {0}
  BY <1>1, AfterFacts, SuperchainAssumption
<1>3. /\ Timestamp(c, n) \in Nat
      /\ Timestamp(c, n + 1) = Timestamp(c, n) + BlockTime[c]
  <2>1. \A a, b \in Nat : a * b \in Nat /\ (a + 1) * b = a * b + b
    OBVIOUS
  <2> HIDE DEF n
  <2>2. n * BlockTime[c] \in Nat /\ (n + 1) * BlockTime[c] = n * BlockTime[c] + BlockTime[c]
    BY <1>2, <2>1
  <2>3. QED BY <1>2, <2>2 DEF Timestamp
<1>4. CASE c \in STF!Due
  <2>1. Timestamp(c, n + 1) <= agreed.timestamp + 1
    BY <1>3, <1>4, SpecDue DEF IsDue
  <2>2. Timestamp(c, n + 1) <= Claimed
    BY <1>1, <1>2, <1>3, <2>1, SMTT(40)
  <2>3. QED BY <1>1, <1>2, <1>4, <2>2, NumberBound, AfterBlocks
<1>5. CASE c \notin STF!Due
  <2>1. Timestamp(c, n) <= Claimed
    BY <1>1, <1>2, <1>3 DEF HeadTime
  <2>2. QED BY <1>1, <1>2, <1>5, <2>1, NumberBound, AfterBlocks
<1>6. QED BY <1>4, <1>5

-----------------------------------------------------------------------------
\* While the super root stays, so does what is known of it.
LEMMA RootKept ==
  ASSUME InteropInv, UNCHANGED feed, agreed'.outputs = agreed.outputs,
         agreed'.timestamp = agreed.timestamp
  PROVE  FeedTyped' /\ RootOk'
BY SameRoot DEF InteropInv, FeedTyped, RootOk

\* A run that appends the block L1 offers, or the safe head of a chain that is
\* not due, to the pending progress.
LEMMA ProgressGrows ==
  ASSUME InteropInv, SubTransition, ~Saturated, NEW b,
         b = STF!After(STF!Due)[ActiveChain],
         ActiveChain \in STF!Due => STF!Offered(ActiveChain).kind # "missing",
         agreed' = Transition(agreed, b), UNCHANGED <<feed, phase, heads, bad>>
  PROVE  /\ InteropInv'
         /\ agreed'.outputs = agreed.outputs
         /\ agreed'.timestamp = agreed.timestamp
         /\ agreed'.kind # "invalid" /\ agreed.kind # "invalid"
<1>1. /\ agreed \in PreState /\ phase = "run" /\ FeedTyped
      /\ agreed.kind \in {"super", "transition"} /\ agreed.timestamp < Claimed
  BY DEF InteropInv, SubTransition, Ready, PreState
<1>2. NumChains \in Nat \ {0} /\ MaxSteps \in Nat /\ MaxSteps >= NumChains
  BY SuperchainAssumption, ProofAssumption
<1>3. /\ agreed.step \in Nat /\ agreed.step < NumChains
      /\ agreed.pending \in Seq(Chain) /\ Len(agreed.pending) = agreed.step
  <2>1. CASE agreed.kind = "super"
    BY <1>1, <1>2, <2>1 DEF InteropInv, PreState
  <2>2. CASE agreed.kind = "transition"
    BY <1>1, <1>2, <2>2 DEF InteropInv, PreState, Progress,
       StepMatchesProgress, Saturated
  <2>3. QED BY <1>1, <2>1, <2>2
<1>4. ActiveChain \in Chains /\ ActiveChain = agreed.step + 1
  BY <1>2, <1>3 DEF ActiveChain, Chains
<1>5. b \in Chain
  BY <1>1, <1>4, AfterFacts
<1>6. agreed' = [agreed EXCEPT !.kind = "transition",
                               !.pending = Append(agreed.pending, b),
                               !.step = agreed.step + 1]
  <2>1. CASE agreed.kind = "super"
    <3>1. agreed.pending = << >> /\ agreed.step = 0
      BY <2>1 DEF InteropInv
    <3>2. Append(<< >>, b) = <<b>>
      OBVIOUS
    <3>3. QED BY <2>1, <3>1, <3>2 DEF Transition
  <2>2. CASE agreed.kind = "transition"
    <3>1. Len(agreed.pending) # NumChains
      BY <1>2, <1>3
    <3>2. agreed' = [agreed EXCEPT !.pending = Append(agreed.pending, b),
                                   !.step = agreed.step + 1]
      BY <2>2, <3>1 DEF Transition
    <3>3. QED BY <1>1, <2>2, <3>2, ZenonT(30) DEF PreState
  <2>3. QED BY <1>1, <2>1, <2>2
<1> DEFINE p == Append(agreed.pending, b)
<1>7. /\ p \in Seq(Chain) /\ Len(p) = agreed.step + 1
      /\ \A c \in 1..agreed.step : p[c] = agreed.pending[c]
      /\ p[agreed.step + 1] = b
  BY <1>3, <1>5
<1> HIDE DEF p
<1>8. /\ agreed' \in PreState /\ agreed'.kind = "transition"
      /\ agreed'.pending = p /\ agreed'.step = agreed.step + 1
      /\ agreed'.outputs = agreed.outputs
      /\ agreed'.timestamp = agreed.timestamp
  <2>1. agreed' = [agreed EXCEPT !.kind = "transition", !.pending = p,
                                 !.step = agreed.step + 1]
    BY <1>6 DEF p
  <2>2. agreed.step + 1 \in Nat /\ p \in Seq(Chain)
    BY <1>3, <1>7
  <2>3. QED BY <1>1, <2>1, <2>2, ZenonT(30) DEF PreState
<1>9. StepMatchesProgress'
  BY <1>2, <1>3, <1>7, <1>8 DEF StepMatchesProgress
<1>10. ASSUME NEW c \in DOMAIN agreed'.pending
       PROVE  /\ c \in STF!Due' => STF!Offered(c)'.kind # "missing"
              /\ agreed'.pending[c] = STF!After(STF!Due)'[c]
  <2>1. c \in 1..(agreed.step + 1) /\ agreed'.pending[c] = p[c]
    BY <1>7, <1>8
  <2>2. CASE c \in 1..agreed.step
    <3>1. c \in DOMAIN agreed.pending /\ agreed.kind = "transition"
      BY <1>1, <1>3, <2>2 DEF InteropInv
    <3>2. /\ c \in STF!Due => STF!Offered(c).kind # "missing"
          /\ agreed.pending[c] = STF!After(STF!Due)[c]
      BY <1>1, <3>1 DEF InteropInv, Progress
    <3>3. QED BY <1>7, <1>8, <2>1, <2>2, <3>2, SameRoot
  <2>3. CASE c = agreed.step + 1
    BY <1>4, <1>7, <1>8, <2>1, <2>3, SameRoot
  <2>4. QED BY <1>3, <2>1, <2>2, <2>3
<1>11. Progress'
  BY <1>1, <1>8, <1>9, <1>10 DEF Progress
<1>12. FeedTyped' /\ RootOk'
  BY <1>8, RootKept
<1>13. InteropInv'
  BY <1>1, <1>8, <1>11, <1>12 DEF InteropInv
<1>14. QED BY <1>1, <1>8, <1>13

\* A run that pads the trace leaves the pending progress alone.
LEMMA PadKeeps ==
  ASSUME InteropInv, Pad
  PROVE  /\ InteropInv'
         /\ agreed'.outputs = agreed.outputs
         /\ agreed'.timestamp = agreed.timestamp
         /\ agreed'.kind # "invalid" /\ agreed.kind # "invalid"
<1>1. /\ agreed \in PreState /\ phase = "run" /\ FeedTyped
      /\ agreed.kind = "transition" /\ agreed.step >= NumChains
      /\ agreed.step < MaxSteps /\ agreed.timestamp < Claimed
  BY DEF InteropInv, Pad, SubTransition, Ready, Saturated
<1>2. NumChains \in Nat \ {0} /\ MaxSteps \in Nat /\ agreed.step \in Nat
  BY <1>1, SuperchainAssumption, ProofAssumption DEF PreState
<1>3. Progress
  BY <1>1 DEF InteropInv
<1>4. Len(agreed.pending) = NumChains
  BY <1>1, <1>2, <1>3 DEF Progress, StepMatchesProgress
<1>5. agreed' = [agreed EXCEPT !.step = agreed.step + 1]
  BY <1>1, <1>2, <1>4 DEF Pad, Transition
<1>6. /\ agreed' \in PreState /\ agreed'.kind = "transition"
      /\ agreed'.pending = agreed.pending /\ agreed'.step = agreed.step + 1
      /\ agreed'.outputs = agreed.outputs
      /\ agreed'.timestamp = agreed.timestamp
  BY <1>1, <1>5, SMTT(40) DEF PreState
<1>7. UNCHANGED <<feed, phase, heads, bad>>
  BY DEF Pad
<1>8. StepMatchesProgress'
  BY <1>1, <1>2, <1>4, <1>6 DEF StepMatchesProgress
<1>9. Progress'
  BY <1>1, <1>3, <1>6, <1>7, <1>8, SameRoot DEF Progress
<1>10. FeedTyped' /\ RootOk'
  BY <1>6, <1>7, RootKept
<1>11. QED BY <1>1, <1>6, <1>7, <1>9, <1>10 DEF InteropInv

-----------------------------------------------------------------------------
\* The step counter of a run that is not padding names a chain.
LEMMA ActiveIsChain ==
  ASSUME InteropInv, SubTransition, ~Saturated
  PROVE  /\ ActiveChain \in Chains
         /\ SafeHead = agreed.outputs[ActiveChain]
         /\ ActiveChain \in STF!Due <=>
              IsDue(ActiveChain, SafeHead, agreed.timestamp)
         /\ Offer = STF!Offered(ActiveChain)
<1>1. agreed \in PreState /\ agreed.kind \in {"super", "transition"}
  BY DEF InteropInv, SubTransition, Ready, PreState
<1>2. NumChains \in Nat \ {0} /\ agreed.step \in Nat
  BY <1>1, SuperchainAssumption DEF PreState
<1>3. agreed.step < NumChains
  BY <1>1, <1>2 DEF InteropInv, Saturated
<1>4. ActiveChain \in Chains
  BY <1>2, <1>3 DEF ActiveChain, Chains
<1>5. QED BY <1>4, SpecDue, SpecOffered DEF SafeHead, Offer

\* The runs that derive a block, or find none due, grow the progress.
LEMMA DeriveKeeps ==
  ASSUME InteropInv, NoBlockDue \/ DeriveBlock
  PROVE  /\ InteropInv'
         /\ agreed'.outputs = agreed.outputs
         /\ agreed'.timestamp = agreed.timestamp
         /\ agreed'.kind # "invalid" /\ agreed.kind # "invalid"
<1>1. /\ SubTransition /\ ~Saturated /\ UNCHANGED <<feed, phase, heads, bad>>
      /\ FeedTyped /\ agreed \in PreState
  BY DEF NoBlockDue, DeriveBlock, InteropInv
<1> DEFINE c == ActiveChain
<1>2. c \in Chains /\ SafeHead = agreed.outputs[c]
  BY <1>1, ActiveIsChain
<1>3. CASE NoBlockDue
  <2>1. c \notin STF!Due /\ agreed' = Transition(agreed, SafeHead)
    BY <1>1, <1>3, ActiveIsChain DEF NoBlockDue
  <2>2. SafeHead = STF!After(STF!Due)[c]
    BY <1>1, <1>2, <2>1, AfterFacts
  <2>3. QED BY <1>1, <2>1, <2>2, ProgressGrows
<1>4. CASE DeriveBlock
  <2>1. /\ c \in STF!Due /\ STF!Offered(c).kind # "missing"
        /\ agreed' = Transition(agreed, ExecutePayload(STF!Offered(c)))
    BY <1>1, <1>4, ActiveIsChain DEF DeriveBlock
  <2>2. ExecutePayload(STF!Offered(c)) = Append(agreed.outputs[c], STF!Optimistic(c))
    BY <1>2, SpecOptimistic DEF ExecutePayload
  <2>3. ExecutePayload(STF!Offered(c)) = STF!After(STF!Due)[c]
    BY <1>1, <1>2, <2>1, <2>2, AfterFacts
  <2>4. QED BY <1>1, <2>1, <2>3, ProgressGrows
<1>5. QED BY <1>3, <1>4

\* A run that finds the data source exhausted invalidates the transition, as
\* the specification does.
LEMMA EndOfSourceInvalidates ==
  ASSUME InteropInv, EndOfSource
  PROVE  InteropInv' /\ STF!Next
<1>1. /\ SubTransition /\ ~Saturated /\ UNCHANGED <<feed, phase, heads, bad>>
      /\ FeedTyped /\ agreed \in PreState /\ phase = "run"
      /\ agreed.kind # "invalid" /\ agreed.timestamp < Claimed
  BY DEF EndOfSource, InteropInv, SubTransition, Ready
<1> DEFINE c == ActiveChain
<1>2. c \in STF!Due /\ STF!Offered(c).kind = "missing" /\ c \in Chains
  BY <1>1, ActiveIsChain DEF EndOfSource
<1>3. InteropActive(Len(SafeHead))
  <2>1. InteropTime <= Len(agreed.outputs[c])
    BY <1>2 DEF InteropInv, RootOk
  <2>2. Len(agreed.outputs[c]) \in Nat /\ InteropTime \in Nat
    BY <1>1, <1>2, AfterFacts, SuperchainAssumption
  <2>3. QED BY <1>1, <2>1, <2>2, ActiveIsChain DEF InteropActive
<1>4. agreed' = [agreed EXCEPT !.kind = "invalid"]
  BY <1>3 DEF EndOfSource
<1>5. /\ agreed' \in PreState /\ agreed'.kind = "invalid"
      /\ agreed'.outputs = agreed.outputs
      /\ agreed'.timestamp = agreed.timestamp
  BY <1>1, <1>4 DEF PreState
<1>6. FeedTyped' /\ RootOk'
  BY <1>1, <1>5, RootKept
<1>7. InteropInv'
  BY <1>1, <1>5, <1>6 DEF InteropInv
<1>8. STF!Invalidate
  BY <1>1, <1>2, <1>5 DEF STF!Invalidate
<1>9. QED BY <1>1, <1>7, <1>8 DEF STF!Next

\* When all chains have their block, consolidation starts with all of them.
LEMMA LoadHeadsKeeps ==
  ASSUME InteropInv, LoadHeads
  PROVE  InteropInv'
<1>1. /\ agreed \in PreState /\ phase = "run" /\ FeedTyped
      /\ agreed.kind = "transition" /\ agreed.step = MaxSteps
      /\ UNCHANGED <<feed, agreed, bad>> /\ phase' = "resolve" /\ Progress
      /\ heads' = [c \in Chains |-> agreed.pending[c]]
  BY DEF InteropInv, LoadHeads, Ready
<1>2. NumChains \in Nat \ {0} /\ MaxSteps \in Nat /\ MaxSteps >= NumChains
  BY SuperchainAssumption, ProofAssumption
<1>3. agreed.pending \in Seq(Chain) /\ Len(agreed.pending) = NumChains
  BY <1>1, <1>2 DEF Progress, StepMatchesProgress, PreState
<1>4. DOMAIN agreed.pending = Chains
  BY <1>2, <1>3 DEF Chains
<1>5. STF!After(STF!Due) \in [Chains -> Chain]
  <2>1. 1 \in Chains
    BY <1>2 DEF Chains
  <2>2. QED BY <1>1, <2>1, AfterFacts
<1>6. \A c \in Chains : agreed.pending[c] = STF!After(STF!Due)[c]
  BY <1>1, <1>4 DEF Progress
<1>7. agreed.pending = STF!After(STF!Due)
  <2>1. agreed.pending = [c \in Chains |-> agreed.pending[c]]
    BY <1>3, <1>4
  <2>2. STF!After(STF!Due) = [c \in Chains |-> STF!After(STF!Due)[c]]
    BY <1>5
  <2>3. QED BY <1>6, <2>1, <2>2
<1>8. heads' = STF!After(STF!Due)
  BY <1>1, <1>3, <1>4, <1>7
<1>9. Consolidating(STF!Due)'
  BY <1>1, <1>7, <1>8, SameRoot DEF Consolidating, Greatest
<1>10. Progress'
  BY <1>1, SameRoot DEF Progress, StepMatchesProgress
<1>11. FeedTyped' /\ RootOk'
  BY <1>1, RootKept
<1>12. STF!Due' = STF!Due
  BY <1>1, SameRoot
<1>13. QED BY <1>1, <1>9, <1>10, <1>11, <1>12 DEF InteropInv

-----------------------------------------------------------------------------
\* The messages executed in the last blocks of the superchain.
LEMMA AfterMessages ==
  ASSUME FeedTyped, agreed \in PreState, NEW kept \in SUBSET STF!Due,
         NEW c \in Chains
  PROVE  /\ c \in kept =>
              ExecutingMessages(STF!After(kept)[c]) = STF!Optimistic(c).msgs
         /\ c \in STF!Due \ kept => ExecutingMessages(STF!After(kept)[c]) = {}
         /\ c \notin STF!Due =>
              ExecutingMessages(STF!After(kept)[c]) = ExecutingMessages(agreed.outputs[c])
         /\ ExecutingMessages(STF!After(kept)[c]) \subseteq Messages
<1>1. ASSUME NEW h \in Chain, NEW b \in Block
      PROVE  ExecutingMessages(Append(h, b)) = b.msgs
  <2>1. Append(h, b) \in Chain /\ Len(Append(h, b)) = Len(h) + 1 /\ Len(h) \in Nat
        /\ Append(h, b)[Len(h) + 1] = b
    BY Longer DEF Chain
  <2>2. Append(h, b) # << >>
    BY <2>1
  <2>3. QED BY <2>1, <2>2 DEF ExecutingMessages
<1>2. ASSUME NEW h \in Chain
      PROVE  ExecutingMessages(h) \subseteq Messages
  <2>1. CASE h = << >>
    BY <2>1 DEF ExecutingMessages
  <2>2. CASE h # << >>
    <3>1. Len(h) \in 1..Len(h)
      BY <2>2, EmptySeq DEF Chain
    <3>2. h[Len(h)] \in Block
      BY <3>1, ElementOfSeq DEF Chain
    <3>3. QED BY <2>2, <3>2 DEF ExecutingMessages, Block
  <2>3. QED BY <2>1, <2>2
<1>3. Replaced.msgs = {}
  BY DEF Replaced
<1>4. ExecutingMessages(STF!After(kept)[c]) \subseteq Messages
  <2>1. STF!After(kept)[c] \in Chain
    BY AfterFacts
  <2>2. QED BY <1>2, <2>1
<1>5. /\ agreed.outputs[c] \in Chain
      /\ STF!Optimistic(c) \in Block /\ Replaced \in Block
  BY AfterFacts, ZenonT(30)
<1>6. CASE c \in kept
  <2>1. STF!After(kept)[c] = Append(agreed.outputs[c], STF!Optimistic(c))
    BY <1>6, AfterFacts, SMTT(40)
  <2>2. QED BY <1>1, <1>4, <1>5, <1>6, <2>1
<1>7. CASE c \in STF!Due \ kept
  <2>1. STF!After(kept)[c] = Append(agreed.outputs[c], Replaced)
    BY <1>7, AfterFacts
  <2>2. QED BY <1>1, <1>3, <1>4, <1>5, <1>7, <2>1
<1>8. CASE c \notin STF!Due
  BY <1>4, <1>8, AfterFacts
<1>9. QED BY <1>6, <1>7, <1>8

\* A round of the consolidation loop finds blocks that no consistent set has,
\* or that the blocks left are consistent.
LEMMA ConsolidateOnceKeeps ==
  ASSUME InteropInv, LinearWalks, ConsolidateOnce
  PROVE  InteropInv'
<1>1. /\ agreed \in PreState /\ phase = "resolve" /\ FeedTyped /\ RootOk
      /\ agreed.kind = "transition" /\ agreed.step = MaxSteps /\ Progress
      /\ UNCHANGED <<feed, agreed, heads>> /\ bad' = InvalidChains
      /\ phase' = IF InvalidChains = {} THEN "done" ELSE "rebuild"
  BY DEF InteropInv, ConsolidateOnce
<1>2. PICK kept \in SUBSET STF!Due : Consolidating(kept)
  BY <1>1 DEF InteropInv
<1>3. heads = STF!After(kept) /\ agreed.pending = heads /\ Greatest(kept)
  BY <1>2 DEF Consolidating
<1>4. heads \in [Chains -> Chain]
  <2>1. 1 \in Chains
    BY SuperchainAssumption DEF Chains
  <2>2. QED BY <1>1, <1>3, <2>1, AfterFacts
<1>5. \A d \in Chains : Len(heads[d]) <= Window
  BY <1>1, <1>3, HeadsBound DEF Progress
<1>6. ASSUME NEW c \in Chains, NEW m \in ExecutingMessages(heads[c])
      PROVE  CheckSingleDependency(m, c) <=>
               STF!Holds(m, Timestamp(c, Len(heads[c])), STF!After(kept))
  <2>1. m \in Messages
    BY <1>1, <1>3, AfterMessages
  <2>2. QED BY <1>3, <1>4, <1>5, <2>1, CheckIsHolds
<1>7. ASSUME NEW c \in kept
      PROVE  /\ c \in Chains /\ Timestamp(c, Len(heads[c])) = NextTime(c)
             /\ ExecutingMessages(heads[c]) = STF!Optimistic(c).msgs
  <2>1. c \in Chains
    BY SpecDue
  <2>2. QED BY <1>1, <1>3, <2>1, AfterBlocks, AfterMessages DEF NextTime
<1>8. ASSUME NEW c \in InvalidChains
      PROVE  c \in kept /\ Refuted(c, kept)
  <2>1. PICK m \in ExecutingMessages(heads[c]) : ~CheckSingleDependency(m, c)
    BY DEF InvalidChains
  <2>2. c \in Chains
    BY DEF InvalidChains
  <2>3. ~STF!Holds(m, Timestamp(c, Len(heads[c])), STF!After(kept))
    BY <1>6, <2>1, <2>2
  <2>4. c \in STF!Due
    <3>1. SUFFICES ASSUME c \notin STF!Due
                   PROVE  FALSE
      OBVIOUS
    <3>2. heads[c] = agreed.outputs[c]
      BY <1>1, <1>3, <2>2, <3>1, AfterFacts
    <3>3. STF!Holds(m, HeadTime(c), agreed.outputs)
      BY <1>1, <2>1, <2>2, <3>2 DEF RootOk
    <3>4. STF!Holds(m, HeadTime(c), STF!After(kept))
      BY <1>1, <3>3, HoldsLater
    <3>5. QED BY <2>3, <3>2, <3>4 DEF HeadTime
  <2>5. c \in kept
    BY <1>1, <1>3, <2>1, <2>2, <2>4, AfterMessages
  <2>6. QED BY <1>7, <2>1, <2>3, <2>5 DEF Refuted
<1>9. InvalidChains = {} => STF!Consistent(kept)
  <2>1. SUFFICES ASSUME InvalidChains = {}, NEW c \in kept,
                        NEW m \in STF!Optimistic(c).msgs
                 PROVE  STF!Holds(m, NextTime(c), STF!After(kept))
    BY SpecConsistent
  <2>2. CheckSingleDependency(m, c)
    BY <1>7, <2>1 DEF InvalidChains
  <2>3. QED BY <1>6, <1>7, <2>2
<1>10. Consolidating(kept)'
  BY <1>1, <1>3, <1>8, <1>9, SameRoot DEF Consolidating, Greatest, Refuted
<1>11. Progress'
  BY <1>1, SameRoot DEF Progress, StepMatchesProgress
<1>12. FeedTyped' /\ RootOk'
  BY <1>1, RootKept
<1>13. STF!Due' = STF!Due
  BY <1>1, SameRoot
<1>14. QED BY <1>1, <1>10, <1>11, <1>12, <1>13 DEF InteropInv

\* Rebuilding a block of that round leaves every consistent set whole.
LEMMA ReExecuteKeeps ==
  ASSUME InteropInv, NEW c \in Chains, ReExecute(c)
  PROVE  /\ InteropInv'
         /\ agreed'.outputs = agreed.outputs
         /\ agreed'.timestamp = agreed.timestamp
         /\ agreed'.kind = agreed.kind
<1> DEFINE rebuilt == Append(SubSeq(heads[c], 1, Len(heads[c]) - 1), Replaced)
<1>1. /\ agreed \in PreState /\ phase = "rebuild" /\ FeedTyped /\ RootOk
      /\ agreed.kind = "transition" /\ agreed.step = MaxSteps /\ Progress
      /\ c \in bad /\ UNCHANGED feed /\ bad' = bad \ {c}
      /\ phase' = IF bad' = {} THEN "resolve" ELSE "rebuild"
      /\ agreed' = [agreed EXCEPT !.pending[c] = rebuilt]
      /\ heads' = [heads EXCEPT ![c] = rebuilt]
  BY DEF InteropInv, ReExecute
<1>2. PICK kept \in SUBSET STF!Due : Consolidating(kept)
  BY <1>1 DEF InteropInv
<1>3. /\ heads = STF!After(kept) /\ agreed.pending = heads /\ Greatest(kept)
      /\ bad \subseteq kept /\ \A d \in bad : Refuted(d, kept)
  BY <1>1, <1>2 DEF Consolidating
<1> DEFINE less == kept \ {c}
<1>4. c \in kept /\ less \in SUBSET STF!Due /\ less \in SUBSET kept
  BY <1>1, <1>3
<1>5. rebuilt = Append(agreed.outputs[c], Replaced)
  <2>1. heads[c] = Append(agreed.outputs[c], STF!Optimistic(c))
    BY <1>1, <1>3, <1>4, AfterFacts
  <2>2. /\ agreed.outputs[c] \in Chain /\ STF!Optimistic(c) \in Block
        /\ Len(agreed.outputs[c]) \in Nat
    BY <1>1, AfterFacts, ZenonT(30)
  <2>3. /\ Len(heads[c]) = Len(agreed.outputs[c]) + 1
        /\ SubSeq(heads[c], 1, Len(agreed.outputs[c])) = agreed.outputs[c]
    BY <2>1, <2>2, Longer
  <2>4. Len(heads[c]) - 1 = Len(agreed.outputs[c])
    BY <2>2, <2>3
  <2>5. QED BY <2>3, <2>4, ZenonT(30)
<1> HIDE DEF rebuilt
<1>6. rebuilt = STF!After(less)[c] /\ rebuilt \in Chain
  <2>1. c \in STF!Due \ less
    BY <1>4
  <2> HIDE DEF less
  <2>2. /\ STF!After(less)[c] = Append(agreed.outputs[c], Replaced)
        /\ STF!After(less) \in [Chains -> Chain]
    BY <1>1, <1>4, <2>1, AfterFacts
  <2>3. QED BY <1>5, <2>2, ZenonT(30)
<1>7. /\ STF!After(kept) \in [Chains -> Chain]
      /\ STF!After(less) \in [Chains -> Chain]
  BY <1>1, <1>4, AfterFacts
<1>8. ASSUME NEW d \in Chains \ {c}
      PROVE  STF!After(less)[d] = STF!After(kept)[d]
  <2>1. d \in less <=> d \in kept
    OBVIOUS
  <2> HIDE DEF less
  <2>2. CASE d \notin STF!Due
    BY <1>1, <1>4, <2>2, AfterFacts
  <2>3. CASE d \in kept
    <3>1. STF!After(kept)[d] = Append(agreed.outputs[d], STF!Optimistic(d))
      BY <1>1, <2>3, AfterFacts
    <3>2. STF!After(less)[d] = Append(agreed.outputs[d], STF!Optimistic(d))
      BY <1>1, <1>4, <2>1, <2>3, AfterFacts
    <3>3. QED BY <3>1, <3>2
  <2>4. CASE d \in STF!Due \ kept
    BY <1>1, <1>4, <2>1, <2>4, AfterFacts, ZenonT(30)
  <2>5. QED BY <2>2, <2>3, <2>4
<1>9. [STF!After(kept) EXCEPT ![c] = rebuilt] = STF!After(less)
  BY <1>6, <1>7, <1>8, ZenonT(30)
<1>10. heads' = STF!After(less)
  BY <1>1, <1>3, <1>9
<1>11. /\ agreed'.pending = STF!After(less)
       /\ agreed'.outputs = agreed.outputs /\ agreed'.timestamp = agreed.timestamp
       /\ agreed'.kind = agreed.kind /\ agreed'.step = agreed.step
  <2>1. agreed' = [agreed EXCEPT !.pending = [agreed.pending EXCEPT ![c] = rebuilt]]
    BY <1>1
  <2>2. [agreed.pending EXCEPT ![c] = rebuilt] = STF!After(less)
    BY <1>3, <1>9
  <2>3. agreed' = [agreed EXCEPT !.pending = STF!After(less)]
    BY <2>1, <2>2
  <2>4. QED BY <1>1, <2>3 DEF PreState
<1>12. /\ agreed' \in PreState /\ DOMAIN agreed'.pending = DOMAIN agreed.pending
       /\ Len(agreed'.pending) = Len(agreed.pending)
  <2>1. agreed.pending \in Seq(Chain) /\ DOMAIN agreed.pending = Chains
    BY <1>1, <1>3, <1>7 DEF PreState
  <2>2. [agreed.pending EXCEPT ![c] = rebuilt] \in Seq(Chain)
    BY <1>6, <2>1, ExceptSeq
  <2>3. STF!After(less) \in Seq(Chain)
    BY <1>3, <1>9, <2>2
  <2>4. agreed' = [agreed EXCEPT !.pending = STF!After(less)]
    BY <1>1, <1>3, <1>9, ZenonT(30)
  <2>5. agreed' \in PreState
    BY <1>1, <2>3, <2>4, ZenonT(30) DEF PreState
  <2>6. Len(STF!After(less)) = Len(agreed.pending)
    BY <1>7, <2>1, <2>3, LenProperties
  <2>7. QED BY <1>7, <1>11, <2>1, <2>5, <2>6
<1>13. ASSUME NEW d \in less, Refuted(d, kept)
       PROVE  Refuted(d, less)
  BY <1>1, <1>4, <1>13, HoldsMonotone DEF Refuted
<1>14. ASSUME NEW other \in SUBSET STF!Due, STF!Consistent(other)
       PROVE  other \subseteq less
  <2>1. other \subseteq kept
    BY <1>3, <1>14 DEF Greatest
  <2>2. ASSUME c \in other
        PROVE  FALSE
    <3>1. PICK m \in STF!Optimistic(c).msgs :
                 ~STF!Holds(m, NextTime(c), STF!After(kept))
      BY <1>1, <1>3 DEF Refuted
    <3>2. STF!Holds(m, NextTime(c), STF!After(other))
      BY <1>14, <2>2, SpecConsistent
    <3>3. QED BY <1>1, <2>1, <3>1, <3>2, HoldsMonotone
  <2>3. QED BY <2>1, <2>2
<1>15. Greatest(less)
  BY <1>14 DEF Greatest
<1>16. \A d \in bad \ {c} : d \in less /\ Refuted(d, less)
  BY <1>3, <1>13
<1>17. Consolidating(less)'
  <2>1. Greatest(less)'
    BY <1>1, <1>11, <1>15, SameRoot DEF Greatest
  <2>2. \A d \in bad' : d \in less /\ Refuted(d, less)'
    BY <1>1, <1>11, <1>16, SameRoot, ZenonT(30) DEF Refuted
  <2>3. agreed'.pending = STF!After(less)' /\ heads' = STF!After(less)'
    BY <1>1, <1>10, <1>11, SameRoot, ZenonT(30)
  <2>4. QED BY <1>1, <2>1, <2>2, <2>3, ZenonT(30) DEF Consolidating
<1>18. Progress'
  BY <1>1, <1>11, <1>12, SameRoot DEF Progress, StepMatchesProgress
<1>19. FeedTyped' /\ RootOk'
  BY <1>1, <1>11, RootKept
<1>20. STF!Due' = STF!Due
  BY <1>1, <1>11, SameRoot
<1>21. QED BY <1>1, <1>4, <1>11, <1>12, <1>17, <1>18, <1>19, <1>20 DEF InteropInv

-----------------------------------------------------------------------------
\* The end of the loop is the step of the specification: the blocks left are
\* the largest consistent set.
LEMMA FinishAdvances ==
  ASSUME InteropInv, Finish
  PROVE  InteropInv' /\ STF!Next
<1>1. /\ agreed \in PreState /\ phase = "done" /\ FeedTyped /\ RootOk
      /\ agreed.kind = "transition" /\ agreed.step = MaxSteps /\ Progress
      /\ UNCHANGED feed /\ phase' = "run"
      /\ agreed' = Transition(agreed, << >>)
  BY DEF InteropInv, Finish
<1>2. PICK kept \in SUBSET STF!Due : Consolidating(kept)
  BY <1>1 DEF InteropInv
<1>3. agreed.pending = STF!After(kept) /\ Greatest(kept) /\ STF!Consistent(kept)
  BY <1>1, <1>2 DEF Consolidating
<1>4. NumChains \in Nat \ {0} /\ MaxSteps \in Nat /\ MaxSteps >= NumChains
  BY SuperchainAssumption, ProofAssumption
<1>5. STF!After(kept) \in [Chains -> Chain]
  <2>1. 1 \in Chains
    BY <1>4 DEF Chains
  <2>2. QED BY <1>1, <2>1, AfterFacts
<1>6. Len(agreed.pending) = NumChains
  BY <1>1, <1>4 DEF Progress, StepMatchesProgress
<1>7. agreed' = SuperRoot(agreed.timestamp + 1, STF!After(kept))
  <2>1. agreed' = SuperRoot(agreed.timestamp + 1, [c \in Chains |-> agreed.pending[c]])
    BY <1>1, <1>6 DEF Transition
  <2>2. [c \in Chains |-> agreed.pending[c]] = STF!After(kept)
    BY <1>3, <1>5
  <2>3. QED BY <2>1, <2>2
<1>8. /\ agreed'.kind = "super" /\ agreed'.timestamp = agreed.timestamp + 1
      /\ agreed'.outputs = STF!After(kept)
      /\ agreed'.pending = << >> /\ agreed'.step = 0
  BY <1>7 DEF SuperRoot
<1>9. agreed' \in PreState
  <2>1. << >> \in Seq(Chain) /\ agreed.timestamp + 1 \in Nat
    BY <1>1, EmptySeq DEF PreState
  <2>2. QED BY <1>5, <1>7, <2>1 DEF SuperRoot, PreState
<1>10. FeedTyped'
  BY <1>1 DEF FeedTyped
<1>11. RootOk'
  <2> SUFFICES ASSUME NEW c \in Chains
               PROVE  /\ InteropTime <= Len(agreed'.outputs[c])
                      /\ HeadTime(c)' <= agreed'.timestamp
                      /\ \A m \in ExecutingMessages(agreed'.outputs[c]) :
                           STF!Holds(m, HeadTime(c)', agreed'.outputs)
    BY DEF RootOk
  <2> DEFINE n == Len(agreed.outputs[c])
  <2>1. /\ n \in Nat /\ InteropTime \in Nat /\ InteropTime <= n
        /\ HeadTime(c) <= agreed.timestamp
        /\ agreed.timestamp \in Nat /\ BlockTime[c] \in Nat /\ GenesisTime \in Nat
    BY <1>1, AfterFacts, SuperchainAssumption DEF RootOk, PreState
  <2>2. HeadTime(c)' = Timestamp(c, Len(STF!After(kept)[c]))
    BY <1>8 DEF HeadTime
  <2>3. /\ Timestamp(c, n) \in Nat
        /\ Timestamp(c, n + 1) = Timestamp(c, n) + BlockTime[c]
    <3>1. \A a, b \in Nat : a * b \in Nat /\ (a + 1) * b = a * b + b
      OBVIOUS
    <3> HIDE DEF n
    <3>2. n * BlockTime[c] \in Nat /\ (n + 1) * BlockTime[c] = n * BlockTime[c] + BlockTime[c]
      BY <2>1, <3>1
    <3>3. QED BY <2>1, <3>2 DEF Timestamp
  <2>4. CASE c \in STF!Due
    <3>1. Len(STF!After(kept)[c]) = n + 1
      BY <1>1, <2>4, AfterBlocks
    <3>2. HeadTime(c)' = NextTime(c) /\ HeadTime(c)' <= agreed.timestamp + 1
      BY <2>2, <2>3, <2>4, <3>1, SpecDue DEF NextTime, IsDue
    <3>3. ASSUME NEW m \in ExecutingMessages(STF!After(kept)[c])
          PROVE  STF!Holds(m, NextTime(c), STF!After(kept))
      <4>1. c \in kept /\ m \in STF!Optimistic(c).msgs
        BY <1>1, <2>4, AfterMessages
      <4>2. QED BY <1>3, <4>1, SpecConsistent
    <3>4. QED BY <1>8, <2>1, <3>1, <3>2, <3>3
  <2>5. CASE c \notin STF!Due
    <3>1. STF!After(kept)[c] = agreed.outputs[c] /\ HeadTime(c)' = HeadTime(c)
      BY <1>1, <2>2, <2>5, AfterFacts DEF HeadTime
    <3>2. ASSUME NEW m \in ExecutingMessages(STF!After(kept)[c])
          PROVE  STF!Holds(m, HeadTime(c), STF!After(kept))
      BY <1>1, <3>1, HoldsLater DEF RootOk
    <3>3. HeadTime(c) <= agreed.timestamp + 1
      BY <2>1, <2>3 DEF HeadTime
    <3>4. QED BY <1>8, <2>1, <3>1, <3>2, <3>3
  <2>6. QED BY <2>4, <2>5
<1>12. InteropInv'
  BY <1>1, <1>8, <1>9, <1>10, <1>11 DEF InteropInv
<1>13. \A c \in STF!Due : STF!Offered(c).kind # "missing"
  <2>1. DOMAIN agreed.pending = Chains
    BY <1>3, <1>5
  <2>2. STF!Due \subseteq Chains
    BY SpecDue
  <2>3. QED BY <1>1, <2>1, <2>2 DEF Progress
<1>14. [timestamp |-> agreed.timestamp, outputs |-> agreed.outputs]' =
         [timestamp |-> agreed.timestamp + 1, outputs |-> STF!After(kept)]
  BY <1>8
<1>15. STF!Advance
  BY <1>1, <1>3, <1>8, <1>13, <1>14 DEF STF!Advance, Greatest
<1>16. QED BY <1>1, <1>12, <1>15 DEF STF!Next, Progress

\* Every run of the program keeps the invariant, and is a step of the
\* specification or leaves its super root alone.
LEMMA ProofStep ==
  ASSUME LinearWalks, InteropInv, [ProofNext]_proofVars
  PROVE  InteropInv' /\ [STF!Next]_(STF!vars)
<1>1. ASSUME UNCHANGED feed, agreed'.outputs = agreed.outputs,
             agreed'.timestamp = agreed.timestamp,
             (agreed'.kind # "invalid") = (agreed.kind # "invalid")
      PROVE  UNCHANGED STF!vars
  BY <1>1 DEF STF!vars
<1>2. CASE ExtendTrace \/ UNCHANGED proofVars
  <2>1. UNCHANGED <<feed, agreed, phase, heads, bad>>
    BY <1>2 DEF ExtendTrace, proofVars
  <2>2. FeedTyped' /\ RootOk'
    BY <2>1, RootKept
  <2>3. Progress => Progress'
    BY <2>1, SameRoot DEF Progress, StepMatchesProgress
  <2>4. \A kept : Consolidating(kept) => Consolidating(kept)'
    BY <2>1, SameRoot DEF Consolidating, Greatest, Refuted
  <2>5. STF!Due' = STF!Due
    BY <2>1, SameRoot
  <2>6. InteropInv'
    BY <2>1, <2>2, <2>3, <2>4, <2>5 DEF InteropInv
  <2>7. QED BY <1>1, <2>1, <2>6
<1>3. CASE Pad
  BY <1>1, <1>3, PadKeeps DEF Pad
<1>4. CASE NoBlockDue \/ DeriveBlock
  BY <1>1, <1>4, DeriveKeeps DEF NoBlockDue, DeriveBlock
<1>5. CASE EndOfSource
  BY <1>5, EndOfSourceInvalidates
<1>6. CASE LoadHeads
  BY <1>1, <1>6, LoadHeadsKeeps DEF LoadHeads
<1>7. CASE ConsolidateOnce
  BY <1>1, <1>7, ConsolidateOnceKeeps DEF ConsolidateOnce
<1>8. ASSUME NEW c \in Chains, ReExecute(c)
      PROVE  InteropInv' /\ [STF!Next]_(STF!vars)
  BY <1>1, <1>8, ReExecuteKeeps, ZenonT(30) DEF ReExecute
<1>9. CASE Finish
  BY <1>9, FinishAdvances
<1>10. QED BY <1>2, <1>3, <1>4, <1>5, <1>6, <1>7, <1>8, <1>9 DEF ProofNext

\* The trace starts at the anchor.
LEMMA ProofStart ==
  ASSUME AnchorOk, ProofInit, FeedTyped
  PROVE  InteropInv /\ STF!Init
<1>1. /\ agreed.kind = "super" /\ agreed.timestamp = AnchorTime
      /\ agreed.outputs = Anchor /\ agreed.pending = << >> /\ agreed.step = 0
      /\ phase = "run"
  BY DEF ProofInit, SuperRoot
<1>2. agreed \in PreState
  <2>1. << >> \in Seq(Chain)
    BY EmptySeq
  <2>2. QED BY <2>1, SuperchainAssumption DEF ProofInit, SuperRoot, PreState,
           AnchorOk, Chain
<1>3. RootOk
  BY <1>1 DEF RootOk, AnchorOk, HeadTime
<1>4. InteropInv
  BY <1>1, <1>2, <1>3 DEF InteropInv
<1>5. STF!Init
  BY <1>1 DEF STF!Init
<1>6. QED BY <1>4, <1>5

-----------------------------------------------------------------------------
\* The trace of the claims the program accepts is a behaviour of the super
\* root transition, for every content of L1 and every order of the rounds.
THEOREM ProofImplementsSTF ==
  ASSUME AnchorOk, LinearWalks
  PROVE  ProofSpec => ImplementsSTF
<1>1. ProofInit /\ FeedTyped => InteropInv /\ STF!Init
  BY ProofStart
<1>2. InteropInv /\ [ProofNext]_proofVars => InteropInv' /\ [STF!Next]_(STF!vars)
  BY ProofStep
<1>3. QED BY <1>1, <1>2, PTL DEF ProofSpec, ImplementsSTF, STF!Spec

\* A chain that owes a block enters the transition with that block.
THEOREM DueAdvance ==
  ASSUME AnchorOk, LinearWalks
  PROVE  ProofSpec => []DueChainsAdvance
<1>1. ProofInit /\ FeedTyped => InteropInv
  BY ProofStart
<1>2. InteropInv /\ [ProofNext]_proofVars => InteropInv'
  BY ProofStep
<1>3. InteropInv => DueChainsAdvance
  <2> SUFFICES ASSUME InteropInv, agreed.kind = "transition",
                      NEW c \in DOMAIN agreed.pending,
                      IsDue(c, agreed.outputs[c], agreed.timestamp)
               PROVE  Len(agreed.pending[c]) = Len(agreed.outputs[c]) + 1
    BY DEF DueChainsAdvance
  <2>1. FeedTyped /\ agreed \in PreState /\ Progress
    BY DEF InteropInv
  <2>2. c \in Chains
    <3>1. NumChains \in Nat /\ agreed.pending \in Seq(Chain) /\ Len(agreed.pending) <= NumChains
      BY <2>1, SuperchainAssumption DEF Progress, StepMatchesProgress, PreState
    <3>2. QED BY <3>1 DEF Chains
  <2>3. c \in STF!Due
    BY <2>2, SpecDue
  <2>4. \E kept \in SUBSET STF!Due : agreed.pending[c] = STF!After(kept)[c]
    BY <2>1 DEF InteropInv, Progress, Consolidating
  <2>5. QED BY <2>1, <2>2, <2>3, <2>4, AfterBlocks
<1>4. QED BY <1>1, <1>2, <1>3, PTL DEF ProofSpec
=============================================================================
