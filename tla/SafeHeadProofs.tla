--------------------------- MODULE SafeHeadProofs ---------------------------
(***************************************************************************)
(* The safe head of a validator is the block derivation yields from L1,    *)
(* and the finalized head the one it yields from finalized L1 blocks, for  *)
(* every instance in which L1 is not reorganised, with or without lost     *)
(* answers of the execution layer.                                         *)
(***************************************************************************)
EXTENDS ValidatorProofs

\* The instances in which nothing that was derived is undone: L1 is not
\* reorganised, the search for the safe block of a reset goes back at least as
\* far as L1 origins lag, and the chain at start is one L1 supports.
Settled ==
  /\ ReorgDepth = 0 /\ OriginLag <= SeqWindow
  /\ CanonicalIn(StartChain, StartL1) /\ Clean(StartChain)

\* A FinalizeTask does not run while the execution layer syncs from a canonical
\* chain that does not hold the safe head.
FinalizesOnSafe ==
  pc = "drain" /\ (\E i \in DOMAIN tasks : tasks[i].kind = "Finalize") =>
    st.sync.unsafe \in el.known \/ IsAncestor(st.sync.safe, el.head)

\* Everything the engine holds comes from L1: the heads, the starting point of
\* a reset, the blocks of the execution layer.
EngineSound(c, k) ==
  /\ Sound(st, el, c, k)
  /\ pc \in {"reset", "signal"} => SyncSound(start, c, k)
  /\ Continues(c, origin)
  /\ \A i \in DOMAIN tasks : TaskSound(tasks[i], c, k)
  /\ \A j \in DOMAIN awaiting : awaiting[j] <= j

\* So does everything in its channels and in the derivation actor.
ChannelsSound(c) ==
  /\ safe_head.val # NoBlock => OnL1(safe_head.val, c)
  /\ Continues(c, pipeline.origin)
  /\ \A i \in DOMAIN signals :
       signals[i].kind = "Reset" => Continues(c, signals[i].view)
  /\ dpc = "send" => AttributesSound(pending, c)
  /\ \A i \in DOMAIN attributes : AttributesSound(attributes[i], c)
  /\ \A i \in DOMAIN unsafe_blocks : CanonicalIn(unsafe_blocks[i], c)

ChainInv == EngineSound(l1, finalized_l1.val) /\ ChannelsSound(l1)

\* The chain the node starts with is one L1 supports.
LEMMA ChainInitial ==
  ASSUME Settled, Init PROVE ChainInv
<1>1. /\ l1 = StartL1 /\ finalized_l1.val = 0 /\ st.sync = DefaultSync
      /\ el = ELStart(StartChain, NoBlock, NoBlock)
      /\ pc = "drain" /\ origin = << >> /\ tasks = << >> /\ awaiting = << >>
      /\ safe_head.val = NoBlock /\ pipeline.origin = << >> /\ signals = << >>
      /\ dpc = "select" /\ attributes = << >> /\ unsafe_blocks = << >>
  BY DEF Init, EngineInit, DerivationInit, NoPipeline
<1>2. SyncSound(st.sync, l1, 0)
  BY <1>1 DEF SyncSound, DefaultSync
<1>3. ELSound(el, l1, 0)
  <2>1. /\ el.known = Ancestors(StartChain) /\ el.target = NoBlock
        /\ el.finalized = NoBlock
    BY <1>1 DEF ELStart
  <2>2. \A a \in Ancestors(StartChain) : CanonicalIn(a, StartL1) /\ Clean(a)
    BY NodeAssumption, AncestorCanonical DEF Settled
  <2>3. QED BY <1>1, <2>1, <2>2 DEF ELSound
<1>4. Continues(l1, << >>)
  BY <1>1, NodeAssumption DEF Continues
<1>5. QED BY <1>1, <1>2, <1>3, <1>4
          DEF ChainInv, EngineSound, ChannelsSound, Sound

\* The starting point of a reset is on L1: its safe block is the finalized one,
\* genesis, or one that is at least the lag of the origins below an unsafe
\* block whose origin is canonical.
LEMMA StartSound ==
  ASSUME Settled, NodeInv, NEW k \in Nat, ELSound(el, l1, k), NEW s, FindsStart(s)
  PROVE  SyncSound(s, l1, k)
<1>1. /\ l1 \in Seq(Content) /\ el.head \in Block /\ el.head \in el.known
      /\ Ancestors(el.head) \subseteq el.known /\ el.known \subseteq Block
  BY DEF NodeInv, EngineInv, EngineTypeOK, Good, ELOk, Closed, ELState
<1>2. PICK u \in StartCandidates :
        \E a \in Ancestors(u) :
          IsSafeStart(u, a, FinalizedStart) /\ s = StartingForkchoice(u, a)
  BY DEF FindsStart
<1>3. PICK a \in Ancestors(u) :
        IsSafeStart(u, a, FinalizedStart) /\ s = StartingForkchoice(u, a)
  BY <1>2
<1>4. u \in Ancestors(el.head) /\ u \in Block /\ CanonicalIn(u, l1)
  BY <1>1, <1>2 DEF StartCandidates, ELSound
<1>5. OnL1(Genesis, l1) /\ Len(Genesis) = 0
  <2>1. Derived(l1, 0) = << >>
    BY <1>1, DerivedPrefix, EmptySeq DEF Block
  <2>2. QED BY <1>1, <2>1, EmptyBlock DEF OnL1, Genesis
<1>6. FinalOn(FinalizedStart, l1, k)
  BY <1>5 DEF FinalizedStart, ELSound, FinalOn
<1>7. OnL1(a, l1)
  <2>1. CASE a = FinalizedStart \/ a = Genesis
    BY <1>5, <1>6, <2>1 DEF FinalOn
  <2>2. CASE OriginNumber(u) - SeqWindow > OriginNumber(a)
    <3>1. PICK n \in 0 .. Len(u) : a = SubSeq(u, 1, n)
      BY <1>3 DEF Ancestors
    <3>2. Len(a) = n /\ n \in Nat /\ Len(u) \in Nat
      BY <1>4, <3>1, SubSeqProperties DEF Block
    <3>3. n <= OriginNumber(u)
      BY <2>2, <3>1, <3>2, BoundAssumption DEF Settled, OriginNumber
    <3>4. QED BY <1>1, <1>4, <3>1, <3>2, <3>3, BelowOrigin
  <2>3. QED BY <1>3, <2>1, <2>2 DEF IsSafeStart, StopsAt
<1>8. QED BY <1>3, <1>4, <1>6, <1>7 DEF StartingForkchoice, SyncSound

\* One attempt at a task keeps the engine sound.
LEMMA DrainSound ==
  ASSUME NodeInv, ChainInv, FinalizesOnSafe, Drain, UNCHANGED rest
  PROVE  ChainInv'
<1> DEFINE k == finalized_l1.val
<1>1. PICK i \in (IF cur = 0 THEN Peekable ELSE {cur}) :
        \E o \in Execute(st, el, tasks[i]) : Execution(i, o)
  BY DEF Drain
<1>2. PICK o \in Execute(st, el, tasks[i]) : Execution(i, o)
  BY <1>1, ZenonT(30)
<1>3. /\ l1 \in Seq(Content) /\ k \in Nat /\ signals \in Seq(Signal)
      /\ tasks \in Seq(Task) /\ cur \in 0 .. Len(tasks)
      /\ pc = "drain" /\ Good(st, el) /\ Sound(st, el, l1, k)
      /\ UNCHANGED <<l1, finalized_l1, safe_head, attributes, unsafe_blocks, dpc,
                     pending, pipeline, awaiting>>
  BY DEF NodeInv, EngineInv, EngineTypeOK, Watch, Drain, ChainInv, EngineSound,
     inbound, rest, derivation
<1>4. i \in DOMAIN tasks
  BY <1>1, <1>3 DEF Peekable
<1>5. tasks[i] \in Task /\ TaskSound(tasks[i], l1, k)
  BY <1>3, <1>4 DEF ChainInv, EngineSound
<1> HIDE DEF k
<1>6. Sound(o.st, o.el, l1, k)
  <2>1. CASE tasks[i].kind = "Insert"
    <3>1. /\ tasks[i].block \in Block /\ CanonicalIn(tasks[i].block, l1)
          /\ o \in Insert(st, el, tasks[i].block, FALSE)
      BY <1>2, <1>5, <2>1, ZenonT(30) DEF Execute, Task, TaskSound
    <3>2. QED BY <1>3, <3>1, InsertSound, ZenonT(30)
  <2>2. CASE tasks[i].kind = "Consolidate"
    <3>1. /\ tasks[i].attrs \in Attributes /\ AttributesSound(tasks[i].attrs, l1)
          /\ o \in Consolidate(st, el, tasks[i].attrs)
      BY <1>2, <1>5, <2>2, SMTT(40) DEF Execute, Task, TaskSound
    <3>2. QED BY <1>3, <3>1, ConsolidateSound
  <2>3. CASE tasks[i].kind = "Finalize"
    <3>1. /\ tasks[i].number \in Nat /\ tasks[i].number <= k
          /\ o \in Finalize(st, el, tasks[i].number)
      BY <1>2, <1>5, <2>3, SMTT(40) DEF Execute, Task, TaskSound
    <3>2. st.sync.unsafe \in el.known \/ IsAncestor(st.sync.safe, el.head)
      BY <1>3, <1>4, <2>3, ZenonT(30) DEF FinalizesOnSafe
    <3>3. QED BY <1>3, <3>1, <3>2, FinalizeSound
  <2>4. QED BY <1>5, <2>1, <2>2, <2>3 DEF Task, TaskSound
<1>7. st' = o.st /\ el' = o.el
  BY <1>2 DEF Execution
<1>8. /\ tasks' = tasks \/ tasks' = RemoveAt(tasks, i)
      /\ signals' = signals \/ signals' = Append(signals, FlushSignal)
      /\ UNCHANGED origin
      /\ pc' \notin {"reset", "signal"}
  BY <1>2, <1>3, ZenonT(30) DEF Execution
<1>9. \A j \in DOMAIN tasks' : TaskSound(tasks'[j], l1, k)
  <2>1. CASE tasks' = tasks
    BY <2>1 DEF ChainInv, EngineSound, k
  <2>2. CASE tasks' = RemoveAt(tasks, i)
    <3> DEFINE Fit == {t \in Task : TaskSound(t, l1, k)}
    <3>1. tasks \in Seq(Fit)
      BY <1>3 DEF ChainInv, EngineSound, k
    <3>2. \A t \in Fit : TaskSound(t, l1, k)
      OBVIOUS
    <3> HIDE DEF Fit
    <3>3. tasks' \in Seq(Fit)
      BY <1>4, <2>2, <3>1, RemoveAtTyped
    <3>4. QED BY <3>2, <3>3
  <2>3. QED BY <1>8, <2>1, <2>2
<1>10. \A j \in DOMAIN signals' :
         signals'[j].kind = "Reset" => Continues(l1, signals'[j].view)
  <2>1. CASE signals' = signals
    BY <2>1, ZenonT(30) DEF ChainInv, ChannelsSound
  <2>2. CASE signals' = Append(signals, FlushSignal)
    <3>1. \A j \in DOMAIN signals' :
            (j \in DOMAIN signals /\ signals'[j] = signals[j])
               \/ signals'[j] = FlushSignal
      BY <1>3, <2>2
    <3>2. FlushSignal.kind # "Reset"
      BY ZenonT(30) DEF FlushSignal
    <3>3. QED BY <3>1, <3>2 DEF ChainInv, ChannelsSound
  <2>3. QED BY <1>8, <2>1, <2>2
<1>11. ChannelsSound(l1)'
  BY <1>3, <1>10 DEF ChainInv, ChannelsSound
<1>12. EngineSound(l1, k)'
  BY <1>3, <1>6, <1>7, <1>8, <1>9 DEF ChainInv, EngineSound, k
<1>13. QED BY <1>11, <1>12 DEF ChainInv, k

\* The synchronization to the starting point keeps it sound too, and what it
\* publishes is on L1.
LEMMA ResetSound ==
  ASSUME NodeInv, ChainInv, Reset, UNCHANGED rest
  PROVE  ChainInv'
<1> DEFINE k == finalized_l1.val
<1>1. PICK o \in Synchronize(st, el, start) :
        /\ st' = o.st /\ el' = o.el
        /\ \/ safe_head' = SendIfModified(safe_head, o.st.sync.safe)
           \/ UNCHANGED safe_head
        /\ \/ /\ OriginNumber(start.safe) <= Len(l1)
              /\ origin' = SubSeq(l1, 1, OriginNumber(start.safe))
           \/ UNCHANGED origin
  BY DEF Reset
<1>2. /\ pc = "reset"
      /\ UNCHANGED <<l1, start, tasks, awaiting, finalized_l1, attributes,
                     unsafe_blocks, signals, dpc, pending, pipeline>>
  BY ZenonT(30) DEF Reset, inbound, rest, derivation
<1>3. /\ l1 \in Seq(Content) /\ k \in Nat /\ start \in EngineSyncState
      /\ start.safe \in Block /\ Good(st, el)
      /\ Sound(st, el, l1, k) /\ SyncSound(start, l1, k)
  BY <1>2, ZenonT(30) DEF NodeInv, EngineInv, EngineTypeOK, Watch, StartHeld, ELState,
     ChainInv, EngineSound
<1>4. Sound(st', el', l1, k)
  BY <1>1, <1>3, SynchronizeSound, ZenonT(30) DEF SyncSound
<1>5. safe_head'.val # NoBlock => OnL1(safe_head'.val, l1)
  <2>1. safe_head'.val \in {safe_head.val, st'.sync.safe}
    BY <1>1, ModifiedValue, ZenonT(30)
  <2>2. st'.sync.safe # NoBlock => OnL1(st'.sync.safe, l1)
    BY <1>4 DEF Sound, SyncSound
  <2>3. QED BY <2>1, <2>2 DEF ChainInv, ChannelsSound
<1>6. Continues(l1, origin')
  <2>1. CASE UNCHANGED origin
    BY <2>1 DEF ChainInv, EngineSound
  <2>2. CASE /\ OriginNumber(start.safe) <= Len(l1)
             /\ origin' = SubSeq(l1, 1, OriginNumber(start.safe))
    <3> DEFINE n == OriginNumber(start.safe)
    <3>1. n \in Nat /\ n <= Len(l1)
      BY <1>3, <2>2, EmptyBlock, BoundAssumption DEF OriginNumber
    <3> HIDE DEF n
    <3>2. Continues(l1, SubSeq(l1, 1, n))
      BY <1>3, <3>1, ContinuesPrefix, ZenonT(30)
    <3>3. QED BY <2>2, <3>2 DEF n
  <2>3. QED BY <1>1, <2>1, <2>2
<1>7. ChannelsSound(l1)'
  BY <1>2, <1>5 DEF ChainInv, ChannelsSound
<1>8. EngineSound(l1, k)'
  BY <1>2, <1>3, <1>4, <1>6, ZenonT(30) DEF ChainInv, EngineSound
<1>9. QED BY <1>7, <1>8 DEF ChainInv

\* One more sound task.
LEMMA SoundTaskQueued ==
  ASSUME NodeInv, ChainInv, NEW t, TaskSound(t, l1, finalized_l1.val),
         tasks' = Append(tasks, t)
  PROVE  \A i \in DOMAIN tasks' : TaskSound(tasks'[i], l1, finalized_l1.val)
<1>1. tasks \in Seq(Task)
  BY DEF NodeInv, EngineInv, EngineTypeOK
<1>2. \A i \in DOMAIN tasks' :
        (i \in DOMAIN tasks /\ tasks'[i] = tasks[i]) \/ tasks'[i] = t
  BY <1>1, Appended, ZenonT(30)
<1>3. QED BY <1>2, ZenonT(30) DEF ChainInv, EngineSound

\* The search for the starting point, and the signal of a reset.
LEMMA SearchSound ==
  ASSUME Settled, NodeInv, ChainInv, Search \/ SignalReset, UNCHANGED rest
  PROVE  ChainInv'
<1> DEFINE k == finalized_l1.val
<1>1. /\ UNCHANGED <<l1, el, st, finalized_l1, attributes, unsafe_blocks, safe_head,
                     dpc, pending, pipeline>>
      /\ l1 \in Seq(Content) /\ k \in Nat /\ signals \in Seq(Signal)
  BY ZenonT(30) DEF Search, SignalReset, inbound, outbound, rest, derivation, NodeInv,
     EngineInv, EngineTypeOK, Watch
<1>2. CASE Search
  <2>1. /\ tasks' = << >> /\ UNCHANGED <<origin, awaiting, signals>>
        /\ FindsStart(start') \/ pc' = "dead"
    BY <1>2 DEF Search, outbound
  <2>2. FindsStart(start') => SyncSound(start', l1, k)
    BY <1>1, StartSound DEF ChainInv, EngineSound, Sound
  <2>3. /\ pc' # "dead" => SyncSound(start', l1, k)
        /\ DOMAIN tasks' = {}
    BY <2>1, <2>2, NothingQueued, ZenonT(30)
  <2>4. pc' \in {"reset", "signal"} => pc' # "dead"
    OBVIOUS
  <2>5. EngineSound(l1, k)'
    BY <1>1, <2>1, <2>3, <2>4, ZenonT(30) DEF ChainInv, EngineSound
  <2>6. ChannelsSound(l1)'
    BY <1>1, <2>1, ZenonT(30) DEF ChainInv, ChannelsSound
  <2>7. QED BY <2>5, <2>6, ZenonT(30) DEF ChainInv
<1>3. CASE SignalReset
  <2>1. /\ signals' = Append(signals, ResetSignal(start.safe, origin))
        /\ awaiting' = << >> /\ origin' = << >> /\ pc' = resume /\ UNCHANGED tasks
    BY <1>3 DEF SignalReset
  <2>2. resume \notin {"reset", "signal"}
    BY DEF NodeInv, EngineInv, EngineTypeOK
  <2>3. Continues(l1, << >>) /\ DOMAIN << >> = {}
    BY <1>1, ContinuesPrefix, NothingQueued, ZenonT(30)
  <2>4. \A j \in DOMAIN signals' :
          signals'[j].kind = "Reset" => Continues(l1, signals'[j].view)
    <3>1. \A j \in DOMAIN signals' :
            (j \in DOMAIN signals /\ signals'[j] = signals[j])
               \/ signals'[j] = ResetSignal(start.safe, origin)
      BY <1>1, <2>1, Appended
    <3>2. ResetSignal(start.safe, origin).view = origin /\ Continues(l1, origin)
      BY DEF ResetSignal, ChainInv, EngineSound
    <3>3. QED BY <3>1, <3>2, ZenonT(30) DEF ChainInv, ChannelsSound
  <2>5. EngineSound(l1, k)'
    BY <1>1, <2>1, <2>2, <2>3, ZenonT(30) DEF ChainInv, EngineSound
  <2>6. ChannelsSound(l1)'
    BY <1>1, <2>4, ZenonT(30) DEF ChainInv, ChannelsSound
  <2>7. QED BY <2>5, <2>6, ZenonT(30) DEF ChainInv
<1>4. QED BY <1>2, <1>3

\* The steps of the loop between two calls.
LEMMA LoopSound ==
  ASSUME NodeInv, ChainInv, UNCHANGED rest,
         \/ DrainEmpty \/ Drained \/ Synced \/ RecvResetRequest
         \/ RecvUnsafeBlock \/ RecvAttributes \/ RecvFinalizedL1
  PROVE  ChainInv'
<1>1. /\ UNCHANGED <<l1, el, st, start, origin, signals, dpc, pending, pipeline>>
      /\ pc' \notin {"reset", "signal"}
  BY ZenonT(30) DEF rest, derivation, DrainEmpty, Drained, Synced, RecvResetRequest,
     RecvUnsafeBlock, RecvAttributes, RecvFinalizedL1, Enqueue, outbound
<1>2. /\ tasks \in Seq(Task) /\ attributes \in Seq(Attributes)
      /\ unsafe_blocks \in Seq(Block) /\ DOMAIN awaiting \subseteq Nat
      /\ finalized_l1 \in [val : Nat, new : BOOLEAN]
      /\ \A n \in DOMAIN awaiting : awaiting[n] \in Nat
  BY DEF NodeInv, EngineInv, EngineTypeOK, Watch
<1>3. finalized_l1'.val = finalized_l1.val
  <2>1. finalized_l1' \in {finalized_l1, [finalized_l1 EXCEPT !.new = FALSE]}
    BY ZenonT(30) DEF DrainEmpty, Drained, Synced, RecvResetRequest, RecvUnsafeBlock,
       RecvAttributes, RecvFinalizedL1, inbound
  <2>2. QED BY <1>2, <2>1
<1>4. safe_head'.val # NoBlock => OnL1(safe_head'.val, l1)
  <2>1. /\ safe_head.val # NoBlock => OnL1(safe_head.val, l1)
        /\ st.sync.safe # NoBlock => OnL1(st.sync.safe, l1)
    BY DEF ChainInv, ChannelsSound, EngineSound, Sound, SyncSound
  <2>2. \/ UNCHANGED safe_head
        \/ safe_head' = SendIfModified(safe_head, st.sync.safe)
    BY ZenonT(30) DEF DrainEmpty, Drained, Synced, RecvResetRequest, RecvUnsafeBlock,
       RecvAttributes, RecvFinalizedL1, outbound
  <2>3. safe_head'.val \in {safe_head.val, st.sync.safe}
    BY <2>2, ModifiedValue, ZenonT(30)
  <2>4. CASE safe_head'.val = safe_head.val
    BY <2>1, <2>4, ZenonT(30)
  <2>5. CASE safe_head'.val = st.sync.safe
    BY <2>1, <2>5, ZenonT(30)
  <2>6. QED BY <2>3, <2>4, <2>5, ZenonT(30)
<1>5. SUFFICES
        /\ \A i \in DOMAIN tasks' : TaskSound(tasks'[i], l1, finalized_l1.val)
        /\ \A j \in DOMAIN awaiting' : awaiting'[j] <= j
        /\ \A i \in DOMAIN attributes' : AttributesSound(attributes'[i], l1)
        /\ \A i \in DOMAIN unsafe_blocks' : CanonicalIn(unsafe_blocks'[i], l1)
  BY <1>1, <1>3, <1>4, ZenonT(30) DEF ChainInv, EngineSound, ChannelsSound
<1>6. /\ \A i \in DOMAIN tasks : TaskSound(tasks[i], l1, finalized_l1.val)
      /\ \A j \in DOMAIN awaiting : awaiting[j] <= j
      /\ \A i \in DOMAIN attributes : AttributesSound(attributes[i], l1)
      /\ \A i \in DOMAIN unsafe_blocks : CanonicalIn(unsafe_blocks[i], l1)
  BY ZenonT(30) DEF ChainInv, EngineSound, ChannelsSound
<1>7. CASE RecvUnsafeBlock
  <2> DEFINE b == Head(unsafe_blocks)
  <2>1. /\ tasks' = Append(tasks, InsertTask(b)) /\ unsafe_blocks # << >>
        /\ unsafe_blocks' = Tail(unsafe_blocks) /\ UNCHANGED <<attributes, awaiting>>
    BY <1>7 DEF RecvUnsafeBlock, Enqueue
  <2>2. CanonicalIn(b, l1)
    <3>1. 1 \in DOMAIN unsafe_blocks /\ b = unsafe_blocks[1]
      BY <1>2, <2>1, Received, ZenonT(30)
    <3>2. QED BY <1>6, <3>1, ZenonT(30)
  <2> HIDE DEF b
  <2>3. TaskSound(InsertTask(b), l1, finalized_l1.val)
    BY <2>2, ZenonT(30) DEF InsertTask, TaskSound
  <2>4. \A i \in DOMAIN Tail(unsafe_blocks) : CanonicalIn(Tail(unsafe_blocks)[i], l1)
    <3>1. \A i \in DOMAIN Tail(unsafe_blocks) :
            /\ i + 1 \in DOMAIN unsafe_blocks
            /\ Tail(unsafe_blocks)[i] = unsafe_blocks[i + 1]
      BY <1>2, <2>1, Received, ZenonT(30)
    <3>2. QED BY <1>6, <3>1, ZenonT(30)
  <2>5. QED BY <1>6, <2>1, <2>3, <2>4, SoundTaskQueued, ZenonT(30)
<1>8. CASE RecvAttributes
  <2> DEFINE a == Head(attributes)
  <2>1. /\ tasks' = Append(tasks, ConsolidateTask(a))
        /\ awaiting' = EnqueueForFinalization(a)
        /\ attributes # << >> /\ attributes' = Tail(attributes)
        /\ UNCHANGED unsafe_blocks
    BY <1>8 DEF RecvAttributes, Enqueue
  <2>2. a \in Attributes /\ AttributesSound(a, l1)
    <3>1. 1 \in DOMAIN attributes /\ a = attributes[1] /\ attributes[1] \in Attributes
      BY <1>2, <2>1, Received, ZenonT(30)
    <3>2. QED BY <1>6, <3>1, ZenonT(30)
  <2> HIDE DEF a
  <2>3. TaskSound(ConsolidateTask(a), l1, finalized_l1.val)
    BY <2>2, ZenonT(30) DEF ConsolidateTask, TaskSound
  <2>4. \A i \in DOMAIN Tail(attributes) : AttributesSound(Tail(attributes)[i], l1)
    <3>1. \A i \in DOMAIN Tail(attributes) :
            i + 1 \in DOMAIN attributes /\ Tail(attributes)[i] = attributes[i + 1]
      BY <1>2, <2>1, Received, ZenonT(30)
    <3>2. QED BY <1>6, <3>1, ZenonT(30)
  <2>5. \A j \in DOMAIN awaiting' : awaiting'[j] <= j
    <3>1. BlockNumber(a) = a.derived_from /\ a.derived_from \in Nat
      BY <2>2 DEF BlockNumber, AttributesSound, Attributes
    <3>2. QED BY <1>2, <1>6, <2>1, <3>1 DEF EnqueueForFinalization
  <2>6. QED BY <1>6, <2>1, <2>3, <2>4, <2>5, SoundTaskQueued
<1>9. CASE RecvFinalizedL1
  <2> DEFINE k == finalized_l1.val
  <2>1. UNCHANGED <<attributes, unsafe_blocks>> /\ TryFinalizeNext(k)
    BY <1>9 DEF RecvFinalizedL1
  <2>2. k \in Nat
    BY <1>2
  <2>3. CASE Finalizable(k) = {}
    BY <1>6, <2>1, <2>3, ZenonT(30) DEF TryFinalizeNext
  <2>4. CASE Finalizable(k) # {}
    <3>1. PICK j \in Finalizable(k) : tasks' = Append(tasks, FinalizeTask(awaiting[j]))
      BY <2>1, <2>4 DEF TryFinalizeNext
    <3>2. j \in DOMAIN awaiting /\ j <= k /\ awaiting[j] <= j /\ awaiting[j] \in Nat
          /\ j \in Nat
      BY <1>2, <1>6, <3>1 DEF Finalizable
    <3>3. TaskSound(FinalizeTask(awaiting[j]), l1, k)
      BY <2>2, <3>2 DEF FinalizeTask, TaskSound
    <3>4. \A n \in DOMAIN awaiting' : awaiting'[n] <= n
      BY <1>6, <2>1, <2>4 DEF TryFinalizeNext
    <3>5. QED BY <1>6, <2>1, <3>1, <3>3, <3>4, SoundTaskQueued
  <2>5. QED BY <2>3, <2>4
<1>10. CASE DrainEmpty \/ Drained \/ Synced \/ RecvResetRequest
  <2>1. UNCHANGED <<tasks, awaiting, attributes, unsafe_blocks>>
    BY <1>10, ZenonT(30) DEF DrainEmpty, Drained, Synced, RecvResetRequest, inbound
  <2>2. QED BY <1>6, <2>1
<1>11. QED BY <1>7, <1>8, <1>9, <1>10

\* The derivation actor reads L1 in order, and its attributes are the batch
\* after the safe head it was told.
LEMMA DerivationSound ==
  ASSUME NodeInv, ChainInv, DerivationStep \/ L1Head \/ L1LogsFail
  PROVE  ChainInv'
<1>1. /\ UNCHANGED <<l1, el, st, start, origin, tasks, awaiting, unsafe_blocks,
                     finalized_l1>>
      /\ pc' \in {pc, "dead"}
      /\ safe_head' \in {safe_head, [safe_head EXCEPT !.new = FALSE]}
  BY ZenonT(30) DEF DerivationStep, L1Head, L1LogsFail, RecvSignal, RecvL1Head,
     RecvSafeHead, RecvELSyncComplete, Produce, AdvanceOrigin, ReorgDetected,
     ReorgLookupFails, Exhausted, SendAttributes, Yield, vars, engine,
     inbound, outbound
<1>2. /\ safe_head'.val = safe_head.val /\ l1 \in Seq(Content)
      /\ signals \in Seq(Signal) /\ attributes \in Seq(Attributes)
      /\ pipeline \in [origin : Seq(Content), batch : BOOLEAN, ready : BOOLEAN]
  BY <1>1 DEF NodeInv, EngineInv, EngineTypeOK, Watch, DerivationTypeOK
<1>3. EngineSound(l1, finalized_l1.val)'
  BY <1>1 DEF ChainInv, EngineSound
<1>4. SUFFICES
        /\ Continues(l1, pipeline'.origin)
        /\ \A i \in DOMAIN signals' :
             signals'[i].kind = "Reset" => Continues(l1, signals'[i].view)
        /\ dpc' = "send" => AttributesSound(pending', l1)
        /\ \A i \in DOMAIN attributes' : AttributesSound(attributes'[i], l1)
  BY <1>1, <1>2, <1>3, SMTT(40) DEF ChainInv, ChannelsSound
<1>5. /\ safe_head.val # NoBlock => OnL1(safe_head.val, l1)
      /\ Continues(l1, pipeline.origin)
      /\ \A i \in DOMAIN signals :
           signals[i].kind = "Reset" => Continues(l1, signals[i].view)
      /\ dpc = "send" => AttributesSound(pending, l1)
      /\ \A i \in DOMAIN attributes : AttributesSound(attributes[i], l1)
  BY ZenonT(30) DEF ChainInv, ChannelsSound
<1>6. CASE RecvSignal
  <2>1. /\ signals # << >> /\ signals' = Tail(signals)
        /\ dpc' = "select" /\ UNCHANGED attributes
        /\ pipeline'.origin = IF signals[1].kind = "Reset" THEN signals[1].view
                              ELSE pipeline.origin
    BY <1>2, <1>6 DEF RecvSignal, inbound
  <2>2. /\ 1 \in DOMAIN signals
        /\ \A i \in DOMAIN Tail(signals) :
             i + 1 \in DOMAIN signals /\ Tail(signals)[i] = signals[i + 1]
    BY <1>2, <2>1, Received, ZenonT(30)
  <2>3. QED BY <1>5, <2>1, <2>2
<1>7. CASE \E last \in BOOLEAN : Produce(last)
  <2> DEFINE o == pipeline.origin
             n == Len(o) - 1
  <2>1. PICK last \in BOOLEAN : Produce(last)
    BY <1>7
  <2>2. /\ pending'.parent = safe_head.val /\ pending'.content = Last(o)
        /\ pending'.derived_from = Len(o)
        /\ pipeline' = [pipeline EXCEPT !.batch = FALSE]
        /\ safe_head.val = Derived(o, n) /\ UNCHANGED <<attributes, signals>>
    BY <2>1 DEF Produce, Wanted, vars, inbound, outbound
  <2>3. o \in Seq(Content) /\ Len(o) \in Nat \ {0} /\ pipeline'.origin = o
    <3>1. o \in Seq(Content) /\ o # << >>
      BY <1>2, <2>1, ZenonT(30) DEF NodeInv, PipelineFed, Produce, Wanted
    <3>2. QED BY <1>2, <2>2, <3>1, EmptySeq
  <2> HIDE DEF o
  <2>4. n \in Nat /\ n <= Len(o) /\ Len(o) = n + 1 /\ Len(o) <= Len(l1)
    BY <2>3, <1>5 DEF Continues, o
  <2> HIDE DEF n
  <2>5. Derived(o, n) \in Block /\ Len(Derived(o, n)) = n
    BY <2>3, <2>4, DerivedPrefix
  <2>6. safe_head.val # NoBlock
    BY <2>2, <2>5, ContentAssumption, ZenonT(30) DEF Block, Content
  <2>7. Last(o) = l1[n + 1]
    BY <1>5, <2>3, <2>4 DEF Last, Continues, o
  <2>8. AttributesSound(pending', l1)
    BY <1>2, <1>5, <2>2, <2>4, <2>5, <2>6, <2>7 DEF AttributesSound
  <2>9. QED BY <1>5, <2>2, <2>3, <2>8 DEF o
<1>8. CASE AdvanceOrigin
  <2> DEFINE n == Len(pipeline.origin) + 1
  <2>1. n \in Nat /\ 1 <= n /\ n <= Len(l1)
    BY <1>2, <1>8 DEF AdvanceOrigin
  <2>2. /\ pipeline' = [pipeline EXCEPT !.batch = TRUE, !.origin = SubSeq(l1, 1, n)]
        /\ UNCHANGED <<dpc, pending, attributes, signals>>
    BY <1>8 DEF AdvanceOrigin, vars, inbound, outbound
  <2> HIDE DEF n
  <2>3. Continues(l1, SubSeq(l1, 1, n))
    BY <1>2, <2>1, ContinuesPrefix, ZenonT(30)
  <2>4. QED BY <1>2, <1>5, <2>2, <2>3
<1>9. CASE SendAttributes
  <2>1. /\ pending \in Attributes /\ dpc = "send" /\ dpc' = "select"
        /\ attributes' = Append(attributes, pending) /\ UNCHANGED <<signals, pipeline>>
    BY <1>9, ZenonT(30) DEF NodeInv, PipelineFed, SendAttributes
  <2>2. QED BY <1>2, <1>5, <2>1
<1>10. CASE \/ L1Head \/ L1LogsFail \/ RecvL1Head \/ RecvSafeHead
            \/ RecvELSyncComplete \/ ReorgDetected \/ ReorgLookupFails \/ Exhausted
  <2>1. /\ UNCHANGED <<attributes, pending, pipeline, signals>>
        /\ dpc' = "send" => dpc = "send"
    BY <1>10, ZenonT(30) DEF L1Head, L1LogsFail, RecvL1Head, RecvSafeHead,
       RecvELSyncComplete, Process, ReorgDetected, ReorgLookupFails, Exhausted, Yield,
       vars, inbound, outbound, derivation
  <2>2. QED BY <1>5, <2>1
<1>11. QED BY <1>6, <1>7, <1>8, <1>9, <1>10, ZenonT(30) DEF DerivationStep

\* L1 only grows, what is gossiped has a canonical origin, and a completed sync
\* imports canonical, clean blocks.
LEMMA EnvironmentSound ==
  ASSUME Settled, NodeInv, ChainInv,
         \/ (L1Step \/ ELSync) /\ UNCHANGED rest
         \/ \E b \in GossipBlocks : Gossip(b)
         \/ UNCHANGED nodeVars
  PROVE  ChainInv'
<1>1. UNCHANGED <<st, pc, start, origin, tasks, awaiting, safe_head, pipeline, signals,
                  dpc, pending, attributes>>
  BY ZenonT(30) DEF L1Step, L1Extend, L1Reorg, L1Finalize, ELSync, Gossip, rest,
     derivation, nodeVars, vars, engine, inbound, outbound
<1>2. /\ l1 \in Seq(Content) /\ finalized_l1.val \in Nat
      /\ unsafe_blocks \in Seq(Block) /\ el \in ELState /\ tasks \in Seq(Task)
      /\ origin \in Seq(Content) /\ pipeline.origin \in Seq(Content)
      /\ \A i \in DOMAIN signals :
           signals[i].kind = "Reset" => signals[i].view \in Seq(Content)
  BY DEF NodeInv, EngineInv, EngineTypeOK, DerivationTypeOK, Watch, Signal
<1>3. CASE L1Step
  <2>1. /\ UNCHANGED <<el, unsafe_blocks>>
        /\ l1' \in Seq(Content) /\ Continues(l1', l1)
        /\ finalized_l1'.val \in Nat /\ finalized_l1.val <= finalized_l1'.val
    <3>1. CASE \E x \in Content : L1Extend(x)
      <4>1. PICK x \in Content : L1Extend(x)
        BY <3>1
      <4>2. l1' = Append(l1, x) /\ UNCHANGED <<el, unsafe_blocks, finalized_l1>>
        BY <4>1, ZenonT(30) DEF L1Extend, inbound
      <4>3. QED BY <1>2, <4>2, ContinuesPrefix
    <3>2. CASE \E n \in 1 .. MaxL1, x, y \in Content : L1Reorg(n, x, y)
      BY <1>2, <3>2 DEF L1Reorg, Settled
    <3>3. CASE L1Finalize
      BY <1>2, <3>3, ContinuesPrefix DEF L1Finalize
    <3>4. QED BY <1>3, <3>1, <3>2, <3>3, ZenonT(30) DEF L1Step
  <2>2. EngineSound(l1, finalized_l1.val)'
    <3>1. Sound(st', el', l1', finalized_l1'.val)
      BY <1>1, <1>2, <2>1, SoundGrows, ZenonT(30) DEF ChainInv, EngineSound, Sound
    <3>2. pc \in {"reset", "signal"} => SyncSound(start, l1', finalized_l1'.val)
      BY <1>2, <2>1, SoundGrows, ZenonT(30) DEF ChainInv, EngineSound
    <3>3. Continues(l1', origin)
      BY <1>2, <2>1, SoundGrows, ZenonT(30) DEF ChainInv, EngineSound
    <3>4. \A i \in DOMAIN tasks : TaskSound(tasks[i], l1', finalized_l1'.val)
      <4>1. \A t \in Task : TaskSound(t, l1, finalized_l1.val)
                              => TaskSound(t, l1', finalized_l1'.val)
        BY <1>2, <2>1, SoundGrows, ZenonT(30)
      <4>2. \A i \in DOMAIN tasks : tasks[i] \in Task
        BY <1>2, LenProperties
      <4>3. QED BY <4>1, <4>2, ZenonT(30) DEF ChainInv, EngineSound
    <3>5. QED BY <1>1, <3>1, <3>2, <3>3, <3>4, ZenonT(30) DEF ChainInv, EngineSound
  <2>3. ChannelsSound(l1)'
    <3>1. /\ \A b : OnL1(b, l1) => OnL1(b, l1')
          /\ \A b : CanonicalIn(b, l1) => CanonicalIn(b, l1')
          /\ \A a : AttributesSound(a, l1) => AttributesSound(a, l1')
      BY <1>2, <2>1, DerivedGrows, ZenonT(30)
    <3>2. \A o \in Seq(Content) : Continues(l1, o) => Continues(l1', o)
      BY <1>2, <2>1, SoundGrows
    <3>3. QED BY <1>1, <1>2, <2>1, <3>1, <3>2, ZenonT(30) DEF ChainInv, ChannelsSound
  <2>4. QED BY <2>2, <2>3 DEF ChainInv
<1>4. CASE ELSync
  <2>1. /\ UNCHANGED <<l1, finalized_l1, unsafe_blocks>>
        /\ el' = FinishSync(el) /\ el.target \in Block /\ el.target # NoBlock
        /\ Clean(el.target)
    BY <1>2, <1>4 DEF ELSync, CanFinishSync, inbound, ELState, MaybeBlock, Clean
  <2>2. /\ el'.known = el.known \cup Ancestors(el.target)
        /\ el'.target = NoBlock /\ el'.finalized = el.finalized
    BY <1>2, <2>1 DEF FinishSync, ELState
  <2>3. CanonicalIn(el.target, l1)
    BY <2>1, ZenonT(30) DEF ChainInv, EngineSound, Sound, ELSound
  <2>4. \A a \in Ancestors(el.target) : CanonicalIn(a, l1) /\ Clean(a)
    BY <1>2, <2>1, <2>3, AncestorCanonical, ZenonT(30)
  <2>5. ELSound(el', l1, finalized_l1.val)
    BY <2>2, <2>4, ZenonT(30) DEF ChainInv, EngineSound, Sound, ELSound
  <2>6. QED BY <1>1, <2>1, <2>5, ZenonT(30) DEF ChainInv, EngineSound, Sound, ChannelsSound
<1>5. CASE \E b \in GossipBlocks : Gossip(b)
  <2>1. PICK b \in GossipBlocks : Gossip(b)
    BY <1>5
  <2>2. /\ UNCHANGED <<l1, el, finalized_l1>> /\ OriginCanonical(b)
        /\ unsafe_blocks' = Append(unsafe_blocks, b) /\ b \in Block
    BY <2>1, NodeAssumption DEF Gossip
  <2>3. CanonicalIn(b, l1)
    BY <2>2 DEF OriginCanonical, CanonicalIn
  <2>4. \A i \in DOMAIN unsafe_blocks' : CanonicalIn(unsafe_blocks'[i], l1)
    <3>1. \A i \in DOMAIN unsafe_blocks' :
            (i \in DOMAIN unsafe_blocks /\ unsafe_blocks'[i] = unsafe_blocks[i])
               \/ unsafe_blocks'[i] = b
      BY <1>2, <2>2, Appended, ZenonT(30)
    <3>2. QED BY <2>3, <3>1, ZenonT(30) DEF ChainInv, ChannelsSound
  <2>5. QED BY <1>1, <2>2, <2>4, ZenonT(30) DEF ChainInv, EngineSound, Sound, ChannelsSound
<1>6. CASE UNCHANGED nodeVars
  <2>1. UNCHANGED <<l1, el, finalized_l1, unsafe_blocks>>
    BY <1>6 DEF nodeVars, vars, inbound
  <2>2. QED BY <1>1, <2>1, ZenonT(30) DEF ChainInv, EngineSound, Sound, ChannelsSound
<1>7. QED BY <1>3, <1>4, <1>5, <1>6

\* ChainInv always holds, as long as no FinalizeTask runs during a sync away from
\* the safe chain.
LEMMA ChainInvariant ==
  ASSUME Settled
  PROVE  Spec /\ []FinalizesOnSafe => []ChainInv
<1>1. Init => ChainInv
  BY ChainInitial, ZenonT(30)
<1>2. NodeInv /\ ChainInv /\ FinalizesOnSafe /\ [Next]_nodeVars => ChainInv'
  <2> SUFFICES ASSUME NodeInv, ChainInv, FinalizesOnSafe, [Next]_nodeVars
               PROVE  ChainInv'
    OBVIOUS
  <2>1. CASE Drain /\ UNCHANGED rest
    BY <2>1, DrainSound
  <2>2. CASE Reset /\ UNCHANGED rest
    BY <2>2, ResetSound
  <2>3. CASE (Search \/ SignalReset) /\ UNCHANGED rest
    BY <2>3, SearchSound
  <2>4. CASE /\ \/ DrainEmpty \/ Drained \/ Synced \/ RecvResetRequest
                \/ RecvUnsafeBlock \/ RecvAttributes \/ RecvFinalizedL1
             /\ UNCHANGED rest
    BY <2>4, LoopSound
  <2>5. CASE (DerivationStep \/ L1Head \/ L1LogsFail) /\ UNCHANGED gossiped
    BY <2>5, DerivationSound
  <2>6. CASE \/ (L1Step \/ ELSync) /\ UNCHANGED rest
             \/ \E b \in GossipBlocks : Gossip(b)
             \/ UNCHANGED nodeVars
    BY <2>6, EnvironmentSound
  <2>7. QED BY <2>1, <2>2, <2>3, <2>4, <2>5, <2>6 DEF Next, DerivationStep
<1>3. QED BY <1>1, <1>2, NodeInvariant, PTL DEF Spec

\* Without L1 reorganisations the safe head is what derivation yields from L1,
\* whatever unsafe blocks came first and however often the engine was reset.
THEOREM SafeHeadDerived ==
  ASSUME Settled
  PROVE  Spec /\ []FinalizesOnSafe => []SafeFromL1
<1>1. ChainInv => SafeFromL1
  BY ZenonT(30) DEF ChainInv, EngineSound, Sound, SyncSound, OnL1, SafeFromL1
<1>2. QED BY <1>1, ChainInvariant, PTL

\* And the finalized head is derived from L1 blocks reported as finalized.
THEOREM FinalizedHeadDerived ==
  ASSUME Settled
  PROVE  Spec /\ []FinalizesOnSafe => []FinalizedFromFinalizedL1
<1>1. ChainInv => FinalizedFromFinalizedL1
  BY ZenonT(30) DEF ChainInv, EngineSound, Sound, SyncSound, FinalOn, OnL1,
     FinalizedFromFinalizedL1
<1>2. QED BY <1>1, ChainInvariant, PTL
=============================================================================
