-------------------------- MODULE ValidatorProofs --------------------------
(***************************************************************************)
(* Safety of the validator node for every L1 chain, every set of unsafe    *)
(* blocks, every bound and every answer of the execution layer, lost ones  *)
(* included.                                                               *)
(***************************************************************************)
EXTENDS ValidatorNode, EngineProofs

\* What the derivation actor relies on: a buffered batch comes from an L1
\* block that was read, and the attributes about to be sent are there.
PipelineFed ==
  /\ pipeline.batch => pipeline.origin # << >>
  /\ dpc = "send" => pending \in Attributes

NodeInv == EngineInv /\ DerivationTypeOK /\ PipelineFed
             /\ gossiped \in 0 .. MaxGossip

-----------------------------------------------------------------------------
\* The attributes the pipeline produces have their type.
LEMMA ProduceOk ==
  ASSUME NodeInv, NEW last \in BOOLEAN, Produce(last)
  PROVE  pending' \in Attributes
<1> DEFINE o == pipeline.origin
<1>1. o \in Seq(Content) /\ o # << >>
  BY DEF NodeInv, DerivationTypeOK, PipelineFed, Produce, Wanted
<1>2. Len(o) \in Nat \ {0} /\ Last(o) \in Content
  BY <1>1, EmptySeq DEF Last
<1>3. safe_head.val = Derived(o, Len(o) - 1)
  BY DEF Produce, Wanted
<1> HIDE DEF o
<1>4. Derived(o, Len(o) - 1) \in Block
  <2>1. Len(o) - 1 \in Nat /\ Len(o) - 1 <= Len(o)
    BY <1>2
  <2>2. QED BY <1>1, <2>1, DerivedIsBlock
<1>5. pending' = [parent |-> safe_head.val, content |-> Last(o),
                  derived_from |-> Len(o), last |-> last]
  BY DEF Produce, o
<1>6. QED BY <1>2, <1>3, <1>4, <1>5 DEF Attributes

\* Every step of the derivation actor preserves its part of the invariant.
LEMMA DerivationOk ==
  ASSUME NodeInv, DerivationStep \/ L1Head \/ L1LogsFail
  PROVE  DerivationTypeOK' /\ PipelineFed'
<1>1. /\ signals \in Seq(Signal) /\ l1 \in Seq(Content)
      /\ pipeline \in [origin : Seq(Content), batch : BOOLEAN,
                       ready : BOOLEAN]
  BY DEF NodeInv, EngineInv, EngineTypeOK, DerivationTypeOK
<1>2. CASE RecvSignal
  <2>1. Head(signals) \in Signal
    BY <1>1, <1>2 DEF RecvSignal
  <2>2. Head(signals).kind = "Reset" => Head(signals).view \in Seq(Content)
    BY <2>1 DEF Signal
  <2>3. /\ pipeline' \in [origin : Seq(Content), batch : BOOLEAN,
                          ready : BOOLEAN]
        /\ ~pipeline'.batch
    BY <1>1, <1>2, <2>2, ZenonT(30) DEF RecvSignal
  <2>4. QED
    BY <1>2, <2>3, ZenonT(30) DEF NodeInv, DerivationTypeOK, PipelineFed, RecvSignal
<1>3. CASE RecvL1Head \/ RecvSafeHead \/ RecvELSyncComplete \/ L1Head
         \/ L1LogsFail
  BY <1>3, ZenonT(30) DEF NodeInv, DerivationTypeOK, PipelineFed, RecvL1Head,
     RecvSafeHead, RecvELSyncComplete, L1Head, L1LogsFail, Process
<1>4. CASE \E last \in BOOLEAN : Produce(last)
  <2>1. PICK last \in BOOLEAN : Produce(last)
    BY <1>4
  <2>2. pending' \in Attributes
    BY <2>1, ProduceOk
  <2>3. QED
    BY <1>1, <2>1, <2>2, ZenonT(30)
       DEF NodeInv, DerivationTypeOK, PipelineFed, Produce
<1>5. CASE AdvanceOrigin
  <2> DEFINE n == Len(pipeline.origin) + 1
  <2>1. n \in Nat /\ 1 <= n /\ n <= Len(l1)
    BY <1>1, <1>5 DEF AdvanceOrigin
  <2>2. pipeline' = [pipeline EXCEPT !.batch = TRUE,
                       !.origin = SubSeq(l1, 1, n)]
    BY <1>5 DEF AdvanceOrigin
  <2> HIDE DEF n
  <2>3. SubSeq(l1, 1, n) \in Seq(Content) /\ Len(SubSeq(l1, 1, n)) = n
    <3>1. \A i \in 1 .. n : l1[i] \in Content
      BY <1>1, <2>1
    <3>2. QED BY <2>1, <3>1, SubSeqProperties
  <2>4. SubSeq(l1, 1, n) # << >>
    BY <2>1, <2>3, EmptySeq
  <2>5. QED
    BY <1>1, <1>5, <2>2, <2>3, <2>4, ZenonT(30)
       DEF NodeInv, DerivationTypeOK, PipelineFed, AdvanceOrigin
<1>6. CASE ReorgDetected \/ ReorgLookupFails \/ Exhausted \/ SendAttributes
  BY <1>6, ZenonT(30) DEF NodeInv, DerivationTypeOK, PipelineFed, ReorgDetected,
     ReorgLookupFails, Exhausted, SendAttributes, Yield, derivation
<1>7. QED BY <1>2, <1>3, <1>4, <1>5, <1>6 DEF DerivationStep

\* It preserves the engine's part too: all it does to the engine is to put
\* attributes and reset requests into its channels, and to take signals and
\* the safe head from the other ones.
LEMMA DerivationKeepsEngine ==
  ASSUME NodeInv, DerivationStep \/ L1Head \/ L1LogsFail
  PROVE  EngineInv'
<1>1. /\ UNCHANGED <<l1, el, st, tasks, cur, start, origin, resume, awaiting,
                     sync_tx, build_requests, unsafe_blocks, finalized_l1,
                     payloads, unsafe_head>>
      /\ pc' \in {pc, "dead"}
      /\ reset_requests' \in {reset_requests, reset_requests + 1}
      /\ safe_head' \in {safe_head, [safe_head EXCEPT !.new = FALSE]}
  BY ZenonT(30) DEF DerivationStep, L1Head, L1LogsFail, RecvSignal, RecvL1Head,
     RecvSafeHead, RecvELSyncComplete, Produce, AdvanceOrigin, ReorgDetected,
     ReorgLookupFails, Exhausted, SendAttributes, Yield, vars, engine,
     inbound, outbound
<1>2. signals' \in Seq(Signal)
  <2>1. signals \in Seq(Signal)
    BY DEF NodeInv, EngineInv, EngineTypeOK
  <2>2. signals' = signals \/ (signals # << >> /\ signals' = Tail(signals))
    BY ZenonT(30) DEF DerivationStep, L1Head, L1LogsFail, RecvSignal, RecvL1Head,
       RecvSafeHead, RecvELSyncComplete, Produce, AdvanceOrigin, ReorgDetected,
       ReorgLookupFails, Exhausted, SendAttributes, Yield, vars, outbound
  <2>3. QED BY <2>1, <2>2
<1>3. attributes' \in Seq(Attributes)
  <2>1. attributes \in Seq(Attributes)
    BY DEF NodeInv, EngineInv, EngineTypeOK
  <2>2. attributes' = attributes
          \/ (dpc = "send" /\ attributes' = Append(attributes, pending))
    BY ZenonT(30) DEF DerivationStep, L1Head, L1LogsFail, RecvSignal, RecvL1Head,
       RecvSafeHead, RecvELSyncComplete, Produce, AdvanceOrigin, ReorgDetected,
       ReorgLookupFails, Exhausted, SendAttributes, Yield, vars, inbound
  <2>3. QED BY <2>1, <2>2 DEF NodeInv, PipelineFed
<1>4. safe_head' \in Watch(MaybeBlock) /\ reset_requests' \in Nat
  <2>1. safe_head \in [val : MaybeBlock, new : BOOLEAN]
    BY DEF NodeInv, EngineInv, EngineTypeOK, Watch
  <2>2. safe_head' \in [val : MaybeBlock, new : BOOLEAN]
    BY <1>1, <2>1, ZenonT(30)
  <2>3. reset_requests' \in Nat
    BY <1>1, SMTT(40) DEF NodeInv, EngineInv, EngineTypeOK
  <2>4. QED BY <2>2, <2>3 DEF Watch
<1>5. EngineTypeOK'
  BY <1>1, <1>2, <1>3, <1>4, SMTT(40) DEF NodeInv, EngineInv, EngineTypeOK, Pcs
<1>6. QED BY <1>1, <1>5 DEF NodeInv, EngineInv, Good, StartHeld

\* A gossiped block is queued for the engine.
LEMMA GossipOk ==
  ASSUME NodeInv, NEW b \in GossipBlocks, Gossip(b)
  PROVE  NodeInv'
<1>1. /\ unsafe_blocks' \in Seq(Block) /\ gossiped' \in 0 .. MaxGossip
      /\ UNCHANGED <<l1, el, engine, reset_requests, build_requests,
                     attributes, finalized_l1, outbound, derivation>>
  <2>1. b \in Block /\ unsafe_blocks \in Seq(Block)
    BY NodeAssumption DEF NodeInv, EngineInv, EngineTypeOK
  <2>2. gossiped + 1 \in 0 .. MaxGossip
    BY NodeAssumption DEF NodeInv, Gossip
  <2>3. QED BY <2>1, <2>2 DEF Gossip
<1>2. EngineTypeOK'
  BY <1>1, SMTT(40) DEF NodeInv, EngineInv, EngineTypeOK, engine, outbound
<1>3. EngineInv'
  BY <1>1, <1>2, ZenonT(30) DEF NodeInv, EngineInv, Good, StartHeld, engine
<1>4. DerivationTypeOK' /\ PipelineFed'
  BY <1>1 DEF NodeInv, DerivationTypeOK, PipelineFed, derivation
<1>5. QED BY <1>1, <1>3, <1>4 DEF NodeInv

\* NodeInv holds initially and every step of the node preserves it.
LEMMA NodeInvInitial ==
  Init => NodeInv
<1> SUFFICES ASSUME Init PROVE NodeInv
  OBVIOUS
<1>1. EngineInv
  BY NodeAssumption, EngineInitOk DEF Init
<1>2. DerivationTypeOK /\ PipelineFed
  <2>1. << >> \in Seq(Content)
    BY EmptySeq
  <2>2. QED
    BY <2>1, ZenonT(30) DEF Init, DerivationInit, NoPipeline, DerivationTypeOK,
       PipelineFed
<1>3. QED BY <1>1, <1>2, NodeAssumption DEF NodeInv, Init

\* Every step of the node, of L1 and of the execution layer keeps NodeInv.
LEMMA NodeInvInductive ==
  NodeInv /\ [Next]_nodeVars => NodeInv'
<1> SUFFICES ASSUME NodeInv, [Next]_nodeVars PROVE NodeInv'
  OBVIOUS
<1>1. CASE (EngineStep \/ L1Step \/ ELSync) /\ UNCHANGED rest
  <2>1. EngineInv'
    BY <1>1, EngineStepOk, L1StepOk, ELSyncOk DEF NodeInv
  <2>2. QED
    BY <1>1, <2>1 DEF NodeInv, DerivationTypeOK, PipelineFed, rest, derivation
<1>2. CASE (DerivationStep \/ L1Head \/ L1LogsFail) /\ UNCHANGED gossiped
  BY <1>2, DerivationOk, DerivationKeepsEngine DEF NodeInv
<1>3. CASE \E b \in GossipBlocks : Gossip(b)
  BY <1>3, GossipOk
<1>4. CASE UNCHANGED nodeVars
  <2>1. EngineTypeOK'
    BY <1>4, ZenonT(30) DEF NodeInv, EngineInv, EngineTypeOK, nodeVars, vars, engine,
       inbound, outbound
  <2>2. EngineInv'
    BY <1>4, <2>1 DEF NodeInv, EngineInv, Good, StartHeld, nodeVars, vars,
       engine
  <2>3. QED
    BY <1>4, <2>2 DEF NodeInv, DerivationTypeOK, PipelineFed, nodeVars,
       derivation
<1>5. QED
  BY <1>1, <1>2, <1>3, <1>4 DEF Next, EngineStep, DerivationStep

\* NodeInv always holds.
THEOREM NodeInvariant == Spec => []NodeInv
<1>1. QED BY NodeInvInitial, NodeInvInductive, PTL DEF Spec

\* Every variable of the node keeps the type its field or channel has.
THEOREM TypeCorrect == Spec => []TypeOK
<1>1. NodeInv => TypeOK
  BY DEF NodeInv, EngineInv, TypeOK
<1>2. QED BY <1>1, NodeInvariant, PTL

\* Whatever is gossiped and however the execution layer answers, the safe and
\* the finalized head are blocks it has imported.
THEOREM HeadsAreHeld == Spec => []HeadsHeld
<1>1. NodeInv => HeadsHeld
  BY DEF NodeInv, EngineInv, Good, Held, HeadsHeld
<1>2. QED BY <1>1, NodeInvariant, PTL

\* The finalized head never overtakes the unsafe head.
THEOREM FinalizedBounded == Spec => []FinalizedNotAheadOfUnsafe
<1>1. NodeInv => FinalizedNotAheadOfUnsafe
  BY DEF NodeInv, EngineInv, Good, Ordered, FinalizedNotAheadOfUnsafe
<1>2. QED BY <1>1, NodeInvariant, PTL

-----------------------------------------------------------------------------
\* A Reset signal has reached the pipeline, or is on its way to it.
Signalled ==
  pipeline.ready \/ \E i \in DOMAIN signals : signals[i].kind = "Reset"

\* Before the first one nothing was derived, so nothing awaits finalization;
\* only a reset in progress may have set the finalized head, and the end of
\* the EL sync was not reported.
Unsignalled ==
  /\ DOMAIN awaiting = {}
  /\ \A i \in DOMAIN tasks : tasks[i].kind # "Finalize"
  /\ \/ sync_tx = "held"
     \/ sync_tx = "taken" /\ pc \in {"search", "reset", "signal"}
  /\ pc \in {"drain", "drained", "search", "select"} =>
       st.sync.finalized = NoBlock
  /\ pc # "synced"

\* Why the pipeline has an origin when it is stepped: the report of the end of
\* the EL sync comes after a Reset signal, whichever way it is made.
ReadyInv ==
  /\ dpc \in {"step", "send"} => pipeline.ready
  /\ attributes # << >> => pipeline.ready
  /\ el_synced => sync_tx \in {"sent", "dropped"}
  /\ pc # "dead" /\ ~Signalled => Unsignalled

\* One more signal does not hide the ones before it, and is there itself.
LEMMA SignalAppended ==
  ASSUME NodeInv, UNCHANGED pipeline, NEW s \in Signal,
         signals' = Append(signals, s), Signalled \/ s.kind = "Reset"
  PROVE  Signalled'
<1>1. signals \in Seq(Signal)
  BY DEF NodeInv, EngineInv, EngineTypeOK
<1>2. /\ Len(signals) + 1 \in DOMAIN signals'
      /\ signals'[Len(signals) + 1] = s
      /\ \A i \in DOMAIN signals :
           i \in DOMAIN signals' /\ signals'[i] = signals[i]
  BY <1>1
<1>3. QED BY <1>2 DEF Signalled

\* The engine reports the end of the EL sync only after a Reset signal: it
\* resets first, unless it has a finalized head, and that is from a reset.
LEMMA EngineKeepsReady ==
  ASSUME NodeInv, ReadyInv, EngineStep, UNCHANGED rest
  PROVE  ReadyInv'
<1>1. UNCHANGED <<pipeline, dpc, el_synced>> /\ pc # "dead"
  BY ZenonT(30) DEF rest, derivation, EngineStep, Search, Reset, SignalReset, Drain,
     DrainEmpty, Drained, Synced, RecvResetRequest, RecvBuildRequest,
     RecvUnsafeBlock, RecvAttributes, RecvFinalizedL1
<1>2. /\ attributes' # << >> => pipeline.ready
      /\ el_synced => sync_tx' \in {"sent", "dropped"}
  BY ZenonT(30) DEF ReadyInv, EngineStep, Search, Reset, SignalReset, Drain, DrainEmpty,
     Drained, Synced, RecvResetRequest, RecvBuildRequest, RecvUnsafeBlock,
     RecvAttributes, RecvFinalizedL1, inbound
<1>3. Signalled => Signalled'
  <2>1. CASE UNCHANGED signals
    BY <1>1, <2>1 DEF Signalled
  <2>2. CASE SignalReset \/ Drain
    <3>1. CASE SignalReset
      <4>1. start.safe \in Block /\ origin \in Seq(Content)
        BY <3>1, ZenonT(30) DEF NodeInv, EngineInv, EngineTypeOK, StartHeld, SignalReset,
           ELState
      <4>2. ResetSignal(start.safe, origin) \in Signal
        BY <4>1 DEF ResetSignal, Signal
      <4>3. QED BY <1>1, <3>1, <4>2, SignalAppended, ZenonT(30) DEF SignalReset
    <3>2. CASE Drain
      <4>1. signals' \in {signals, Append(signals, FlushSignal)}
        BY <3>2 DEF Drain, Execution
      <4>2. FlushSignal \in Signal
        BY DEF FlushSignal, Signal
      <4>3. QED BY <1>1, <2>1, <4>1, <4>2, SignalAppended, ZenonT(30)
    <3>3. QED BY <2>2, <3>1, <3>2
  <2>3. QED
    BY <2>1, <2>2, ZenonT(30) DEF EngineStep, Search, Reset, DrainEmpty, Drained, Synced,
       RecvResetRequest, RecvBuildRequest, RecvUnsafeBlock, RecvAttributes,
       RecvFinalizedL1, outbound
<1>4. SUFFICES ASSUME ~Signalled, ~Signalled', pc' # "dead"
               PROVE  Unsignalled'
  BY <1>1, <1>2, <1>3 DEF ReadyInv
<1>5. Unsignalled /\ attributes = << >>
  BY <1>1, <1>4, ZenonT(30) DEF ReadyInv, Signalled
<1>6. CASE Search \/ Reset
  <2>1. /\ pc \in {"search", "reset"} /\ UNCHANGED <<awaiting, sync_tx>>
        /\ pc' \in {"reset", "signal"}
        /\ tasks' \in {tasks, << >>}
    BY <1>4, <1>6, ZenonT(30) DEF Search, Reset
  <2>2. \A i \in DOMAIN tasks' : tasks'[i].kind # "Finalize"
    BY <1>5, <2>1, NothingQueued DEF Unsignalled
  <2>3. QED BY <1>5, <2>1, <2>2 DEF Unsignalled
<1>7. CASE SignalReset
  <2>1. start.safe \in Block /\ origin \in Seq(Content)
    BY <1>7 DEF NodeInv, EngineInv, EngineTypeOK, StartHeld, SignalReset,
       ELState
  <2>2. ResetSignal(start.safe, origin) \in Signal
    BY <2>1 DEF ResetSignal, Signal
  <2>3. ResetSignal(start.safe, origin).kind = "Reset"
    BY ZenonT(30) DEF ResetSignal
  <2>4. QED BY <1>1, <1>4, <1>7, <2>2, <2>3, SignalAppended DEF SignalReset
<1>8. CASE Drain
  <2>1. PICK i \in (IF cur = 0 THEN Peekable ELSE {cur}) :
          \E o \in Execute(st, el, tasks[i]) : Execution(i, o)
    BY <1>8 DEF Drain
  <2>2. PICK o \in Execute(st, el, tasks[i]) : Execution(i, o)
    BY <2>1
  <2>3. tasks \in Seq(Task) /\ cur \in 0 .. Len(tasks)
    BY DEF NodeInv, EngineInv, EngineTypeOK
  <2>4. i \in DOMAIN tasks
    BY <2>1, <2>3 DEF Peekable
  <2>5. tasks[i] \in Task /\ tasks[i].kind # "Finalize"
    BY <1>5, <2>3, <2>4 DEF Unsignalled
  <2>6. st'.sync.finalized = NoBlock
    <3>1. KeepsFinalized(st, o)
      BY <2>2, <2>5, ExecuteOk, ZenonT(30) DEF NodeInv, EngineInv
    <3>2. QED BY <1>5, <1>8, <2>2, <3>1, ZenonT(30)
              DEF KeepsFinalized, Execution, Unsignalled, Drain
  <2>7. \A j \in DOMAIN tasks' : tasks'[j].kind # "Finalize"
    <3>1. CASE tasks' = tasks
      BY <1>5, <3>1 DEF Unsignalled
    <3>2. CASE tasks' = RemoveAt(tasks, i)
      <4> DEFINE Other == {t \in Task : t.kind # "Finalize"}
      <4>1. tasks \in Seq(Other)
        BY <1>5, <2>3 DEF Unsignalled
      <4> HIDE DEF Other
      <4>2. tasks' \in Seq(Other)
        BY <2>4, <3>2, <4>1, RemoveAtTyped
      <4>3. \A t \in Other : t.kind # "Finalize"
        BY DEF Other
      <4>4. QED BY <4>2, <4>3
    <3>3. QED BY <2>2, <3>1, <3>2 DEF Execution
  <2>8. /\ UNCHANGED <<awaiting, sync_tx>> /\ pc = "drain"
        /\ pc' \in {"drain", "drained", "search", "dead"}
    BY <1>8, <2>2, ZenonT(30) DEF Drain, Execution
  <2>9. QED BY <1>5, <2>6, <2>7, <2>8 DEF Unsignalled
<1>9. CASE DrainEmpty \/ Drained \/ Synced \/ RecvResetRequest
  BY <1>5, <1>9, ZenonT(30) DEF Unsignalled, DrainEmpty, Drained, Synced, RecvResetRequest
<1>10. CASE RecvBuildRequest \/ RecvUnsafeBlock
  <2>1. PICK t : /\ tasks' = Append(tasks, t) /\ t.kind # "Finalize"
                 /\ pc = "select" /\ pc' = "drain"
                 /\ UNCHANGED <<awaiting, sync_tx, st>>
    BY <1>10 DEF RecvBuildRequest, RecvUnsafeBlock, Enqueue, BuildTask,
       InsertTask
  <2>2. tasks \in Seq(Task)
    BY DEF NodeInv, EngineInv, EngineTypeOK
  <2>3. \A j \in DOMAIN tasks' : \/ j \in DOMAIN tasks /\ tasks'[j] = tasks[j]
                                 \/ tasks'[j] = t
    BY <2>1, <2>2
  <2>4. QED BY <1>5, <2>1, <2>3, ZenonT(30) DEF Unsignalled
<1>11. CASE RecvAttributes
  BY <1>5, <1>11 DEF RecvAttributes
<1>12. CASE RecvFinalizedL1
  <2>1. Finalizable(finalized_l1.val) = {}
    BY <1>5 DEF Unsignalled, Finalizable
  <2>2. QED BY <1>5, <1>12, <2>1
            DEF Unsignalled, RecvFinalizedL1, TryFinalizeNext
<1>13. QED
  BY <1>6, <1>7, <1>8, <1>9, <1>10, <1>11, <1>12 DEF EngineStep

\* The derivation actor steps the pipeline only when the end of the EL sync
\* was reported and every signal was taken.
LEMMA DerivationKeepsReady ==
  ASSUME NodeInv, ReadyInv, DerivationStep \/ L1Head \/ L1LogsFail
  PROVE  ReadyInv'
<1>1. CASE RecvSignal
  <2>1. /\ signals \in Seq(Signal) /\ signals # << >>
        /\ signals' = Tail(signals)
        /\ pipeline.ready => pipeline'.ready
        /\ signals[1].kind = "Reset" => pipeline'.ready
        /\ pc # "dead" /\ dpc = "select"
        /\ UNCHANGED <<dpc, attributes, el_synced, sync_tx, awaiting, tasks,
                       pc, st>>
    BY <1>1, SMTT(40) DEF NodeInv, EngineInv, EngineTypeOK, DerivationTypeOK, RecvSignal,
       engine, inbound
  <2>2. Signalled => Signalled'
    <3>1. ASSUME NEW i \in DOMAIN signals, i # 1
          PROVE  /\ i - 1 \in DOMAIN Tail(signals)
                 /\ Tail(signals)[i - 1] = signals[i]
      BY <2>1, <3>1
    <3>2. QED BY <2>1, <3>1 DEF Signalled
  <2>3. QED BY <2>1, <2>2 DEF ReadyInv, Unsignalled
<1>2. CASE RecvL1Head \/ RecvSafeHead \/ RecvELSyncComplete
  <2>1. /\ dpc' = "step" => sync_tx \in {"sent", "dropped"}
        /\ dpc' # "send" /\ pc # "dead" /\ signals = << >>
        /\ el_synced' => sync_tx \in {"sent", "dropped"}
        /\ UNCHANGED <<pipeline, signals, attributes, sync_tx, awaiting, tasks,
                       pc, st>>
    BY <1>2 DEF ReadyInv, RecvL1Head, RecvSafeHead, RecvELSyncComplete,
       Process, MayProcess, vars, engine, inbound, outbound
  <2>2. sync_tx \in {"sent", "dropped"} => pipeline.ready
    BY <2>1 DEF ReadyInv, Signalled, Unsignalled
  <2>3. QED BY <2>1, <2>2, ZenonT(30) DEF ReadyInv, Signalled, Unsignalled
<1>3. CASE \/ L1Head \/ (\E last \in BOOLEAN : Produce(last))
           \/ AdvanceOrigin \/ ReorgDetected \/ Exhausted \/ SendAttributes
           \/ ReorgLookupFails \/ L1LogsFail
  <2>1. /\ dpc' \in {"step", "send"} => dpc \in {"step", "send"}
        /\ attributes' # << >> => attributes # << >> \/ dpc = "send"
        /\ pipeline'.ready = pipeline.ready
        /\ pc' \in {pc, "dead"}
        /\ UNCHANGED <<signals, el_synced, sync_tx, awaiting, tasks, st>>
    BY <1>3, ZenonT(30) DEF NodeInv, DerivationTypeOK, L1Head, Produce, AdvanceOrigin,
       ReorgDetected, Exhausted, SendAttributes, ReorgLookupFails, L1LogsFail,
       Yield, derivation, vars, engine, inbound, outbound
  <2>2. QED BY <2>1 DEF ReadyInv, Signalled, Unsignalled
<1>4. QED BY <1>1, <1>2, <1>3 DEF DerivationStep

\* The steps of the environment touch nothing of it.
LEMMA RestKeepsReady ==
  ASSUME ReadyInv,
         \/ (L1Step \/ ELSync) /\ UNCHANGED rest
         \/ \E b \in GossipBlocks : Gossip(b)
         \/ UNCHANGED nodeVars
  PROVE  ReadyInv'
<1>1. UNCHANGED <<dpc, pipeline, attributes, el_synced, sync_tx, signals,
                  awaiting, tasks, pc, st>>
  BY ZenonT(30) DEF L1Step, L1Extend, L1Reorg, L1Finalize, ELSync, Gossip, rest,
     derivation, nodeVars, vars, engine, inbound, outbound
<1>2. QED BY <1>1 DEF ReadyInv, Signalled, Unsignalled

-----------------------------------------------------------------------------
\* A derivation actor that waits has its reset on the way.
WaitAnswered ==
  waiting /\ pc # "dead" =>
    \/ reset_requests > 0
    \/ pc \in {"search", "reset", "signal"}
    \/ signals # << >>

\* A reset the engine has begun ends in a signal, or with the node.
LEMMA EngineKeepsReset ==
  ASSUME NodeInv, WaitAnswered, EngineStep, UNCHANGED rest
  PROVE  WaitAnswered'
<1>1. /\ signals \in Seq(Signal) /\ reset_requests \in Nat
      /\ UNCHANGED waiting
  BY DEF NodeInv, EngineInv, EngineTypeOK, rest, derivation
<1>2. \A s \in Signal : Append(signals, s) # << >>
  BY <1>1, EmptySeq
<1>3. CASE Search \/ Reset \/ RecvResetRequest
  BY <1>1, <1>3 DEF WaitAnswered, Search, Reset, RecvResetRequest, inbound,
     outbound
<1>4. CASE SignalReset
  <2>1. start.safe \in Block /\ origin \in Seq(Content)
    BY <1>4 DEF NodeInv, EngineInv, EngineTypeOK, StartHeld, SignalReset,
       ELState
  <2>2. ResetSignal(start.safe, origin) \in Signal
    BY <2>1 DEF ResetSignal, Signal
  <2>3. QED BY <1>2, <1>4, <2>2 DEF WaitAnswered, SignalReset
<1>5. CASE Drain
  <2>1. UNCHANGED reset_requests /\ pc = "drain"
    BY <1>5 DEF Drain, inbound
  <2>2. signals' \in {signals, Append(signals, FlushSignal)}
    BY <1>5 DEF Drain, Execution
  <2>3. FlushSignal \in Signal
    BY DEF FlushSignal, Signal
  <2>4. QED BY <1>1, <1>2, <2>1, <2>2, <2>3 DEF WaitAnswered
<1>6. CASE DrainEmpty \/ Drained \/ Synced
  BY <1>1, <1>6, ZenonT(30) DEF WaitAnswered, DrainEmpty, Drained, Synced, inbound,
     outbound
<1>7. CASE \/ RecvBuildRequest \/ RecvUnsafeBlock \/ RecvAttributes
           \/ RecvFinalizedL1
  BY <1>1, <1>7 DEF WaitAnswered, RecvBuildRequest, RecvUnsafeBlock,
     RecvAttributes, RecvFinalizedL1, outbound
<1>8. QED BY <1>3, <1>4, <1>5, <1>6, <1>7 DEF EngineStep

\* The derivation actor starts to wait as it asks for the reset, and stops
\* as it takes a signal.
LEMMA DerivationKeepsReset ==
  ASSUME NodeInv, WaitAnswered, DerivationStep \/ L1Head \/ L1LogsFail
  PROVE  WaitAnswered'
<1>1. reset_requests \in Nat
  BY DEF NodeInv, EngineInv, EngineTypeOK
<1>2. CASE RecvSignal \/ ReorgLookupFails \/ L1LogsFail
  BY <1>2, ZenonT(30) DEF WaitAnswered, RecvSignal, ReorgLookupFails, L1LogsFail
<1>3. CASE ReorgDetected
  BY <1>1, <1>3 DEF WaitAnswered, ReorgDetected
<1>4. CASE \/ RecvL1Head \/ RecvSafeHead \/ RecvELSyncComplete \/ L1Head
           \/ (\E last \in BOOLEAN : Produce(last))
           \/ AdvanceOrigin \/ Exhausted \/ SendAttributes
  <2>1. UNCHANGED <<waiting, pc, reset_requests, signals>>
    BY <1>4, ZenonT(30) DEF RecvL1Head, RecvSafeHead, RecvELSyncComplete, L1Head, Produce,
       AdvanceOrigin, Exhausted, SendAttributes, vars, engine, inbound,
       outbound
  <2>2. QED BY <2>1 DEF WaitAnswered
<1>5. QED BY <1>2, <1>3, <1>4, ZenonT(30) DEF DerivationStep

\* A derivation actor that waits for a signal is never forgotten, and the
\* pipeline is never stepped before a Reset signal gave it an origin.
THEOREM ResetNeverLost == Spec => []NoLostReset
<1> DEFINE Inv == WaitAnswered /\ ReadyInv
<1>1. Init => Inv
  BY DEF Init, DerivationInit, EngineInit, WaitAnswered, ReadyInv,
     Unsignalled, DefaultSync
<1>2. NodeInv /\ Inv /\ [Next]_nodeVars => Inv'
  <2> SUFFICES ASSUME NodeInv, Inv, [Next]_nodeVars
               PROVE  Inv'
    OBVIOUS
  <2>1. CASE EngineStep /\ UNCHANGED rest
    BY <2>1, EngineKeepsReset, EngineKeepsReady
  <2>2. CASE (DerivationStep \/ L1Head \/ L1LogsFail) /\ UNCHANGED gossiped
    BY <2>2, DerivationKeepsReset, DerivationKeepsReady
  <2>3. CASE \/ (L1Step \/ ELSync) /\ UNCHANGED rest
             \/ \E b \in GossipBlocks : Gossip(b)
             \/ UNCHANGED nodeVars
    <3>1. UNCHANGED <<waiting, pc, reset_requests, signals>>
      BY <2>3, ZenonT(30) DEF L1Step, L1Extend, L1Reorg, L1Finalize, ELSync, Gossip, rest,
         derivation, nodeVars, vars, engine, inbound, outbound
    <3>2. QED BY <2>3, <3>1, RestKeepsReady DEF WaitAnswered
  <2>4. QED BY <2>1, <2>2, <2>3 DEF Next, EngineStep, DerivationStep
<1>3. Inv => NoLostReset
  BY ZenonT(30) DEF WaitAnswered, ReadyInv, NoLostReset
<1>4. QED BY <1>1, <1>2, <1>3, NodeInvariant, PTL DEF Spec

-----------------------------------------------------------------------------
(* Agreement of EngineState with the execution layer. *)

\* The unsafe head n stands for is the head of the execution layer, or the one
\* it was told to sync to.
Agrees(n, e) ==
  \/ e.target = n.unsafe
  \/ e.target = NoBlock /\ e.head = n.unsafe

\* They agree from the first forkchoice on.
StateAgrees(s, e) ==
  s.sync # DefaultSync \/ s.el_sync_finished => Agrees(s.sync, e)

\* The parents of the attributes on their way are blocks the execution layer
\* has, and no one asks a validator to build.
TaskOnKnown(t, e) ==
  /\ t.kind # "Build"
  /\ t.kind = "Consolidate" => t.attrs.parent \in e.known

ParentsKnown ==
  /\ safe_head.val \in el.known \cup {NoBlock}
  /\ dpc = "send" => pending.parent \in el.known
  /\ \A i \in DOMAIN attributes : attributes[i].parent \in el.known
  /\ \A i \in DOMAIN tasks : TaskOnKnown(tasks[i], el)

AgreementInv ==
  /\ pc # "dead" => StateAgrees(st, el)
  /\ ParentsKnown

\* Without lost answers SynchronizeTask leaves the two in agreement.
LEMMA SynchronizeAgrees ==
  ASSUME ~RpcFails, NEW s, NEW e, Good(s, e), NEW n \in EngineSyncState,
         StateAgrees(s, e) \/ ForkchoiceNeeded(s, n),
         NEW o \in Synchronize(s, e, n)
  PROVE  \/ o.err = "Ok" /\ StateAgrees(o.st, o.el)
         \/ o.err = "Critical"
         \/ /\ o = Outcome(s, e, "Reset")
            /\ ~(IsAncestor(n.safe, n.unsafe) /\ IsAncestor(n.finalized, n.unsafe))
<1>1. CASE ~ForkchoiceNeeded(s, n) /\ o = Outcome(s, e, "Ok")
  BY <1>1, OutcomeFields
<1>2. CASE o = Outcome(s, e, "Critical")
  BY <1>2, OutcomeFields
<1>3. CASE \E r \in ForkchoiceUpdated(e, n.unsafe, n.safe, n.finalized) :
             o = Synchronized(s, n, r)
  <2>1. PICK r \in ForkchoiceUpdated(e, n.unsafe, n.safe, n.finalized) :
             o = Synchronized(s, n, r)
    BY <1>3
  <2>2. CASE n.unsafe \notin e.known
    <3>1. r = Answer([e EXCEPT !.target = n.unsafe], "Syncing")
      BY <2>1, <2>2, Answered DEF ForkchoiceUpdated
    <3> DEFINE t == [s EXCEPT !.sync = n]
    <3>2. o = Outcome(t, r.el, "Ok") /\ r.el.target = n.unsafe
      BY <2>1, <3>1, AnswerFields DEF Synchronized, Good, ELOk, ELState
    <3>3. t.sync = n
      BY ZenonT(30) DEF Good, EngineState
    <3> HIDE DEF t
    <3>4. o.err = "Ok" /\ o.st = t /\ o.el = r.el
      BY <3>2, OutcomeFields
    <3>5. QED BY <3>2, <3>3, <3>4, ZenonT(30) DEF StateAgrees, Agrees
  <2>3. CASE /\ n.unsafe \in e.known
             /\ IsAncestor(n.safe, n.unsafe) /\ IsAncestor(n.finalized, n.unsafe)
    <3> DEFINE f == [e EXCEPT !.head = n.unsafe, !.target = NoBlock,
                       !.safe = IF n.safe = NoBlock THEN @ ELSE n.safe,
                       !.finalized = IF n.finalized = NoBlock THEN @ ELSE n.finalized]
    <3>0. f.head = n.unsafe /\ f.target = NoBlock
      BY DEF Good, ELOk, ELState
    <3>1. r = Answer(f, "Valid")
      BY <2>1, <2>3, Answered DEF ForkchoiceUpdated
    <3> HIDE DEF f
    <3>2. o = Outcome([sync |-> n, el_sync_finished |-> TRUE], f, "Ok")
      BY <2>1, <3>1, AnswerFields DEF Synchronized
    <3>3. QED BY <3>0, <3>2, OutcomeFields DEF StateAgrees, Agrees
  <2>4. CASE /\ n.unsafe \in e.known
             /\ ~(IsAncestor(n.safe, n.unsafe) /\ IsAncestor(n.finalized, n.unsafe))
    <3>1. r = Answer(e, "InvalidForkchoiceState")
      BY <2>1, <2>4, Answered DEF ForkchoiceUpdated
    <3>2. r.el = e /\ r.status = "InvalidForkchoiceState"
      BY <3>1, AnswerFields, ZenonT(30)
    <3>3. QED BY <2>1, <2>4, <3>2 DEF Synchronized
  <2>5. QED BY <2>2, <2>3, <2>4, ZenonT(30)
<1>4. \/ ~ForkchoiceNeeded(s, n) /\ o = Outcome(s, e, "Ok")
      \/ o = Outcome(s, e, "Critical")
      \/ \E r \in ForkchoiceUpdated(e, n.unsafe, n.safe, n.finalized) :
           o = Synchronized(s, n, r)
  BY SynchronizeCases
<1>5. QED BY <1>1, <1>2, <1>3, <1>4, ZenonT(30)

\* So it keeps an agreement, or ends the engine.
LEMMA SynchronizeKeeps ==
  ASSUME ~RpcFails, NEW s, NEW e, Good(s, e), NEW n \in EngineSyncState,
         StateAgrees(s, e), NEW o \in Synchronize(s, e, n)
  PROVE  o.err = "Critical" \/ StateAgrees(o.st, o.el)
<1>1. CASE o = Outcome(s, e, "Reset")
  BY <1>1, OutcomeFields
<1>2. QED BY <1>1, SynchronizeAgrees

\* InsertTask of an unsafe block does too: a new payload moves no head.
LEMMA InsertAgrees ==
  ASSUME ~RpcFails, NEW s, NEW e, Good(s, e), StateAgrees(s, e),
         NEW b \in Block, NEW o \in Insert(s, e, b, FALSE)
  PROVE  o.err = "Critical" \/ StateAgrees(o.st, o.el)
<1>1. PICK r \in NewPayload(e, b) :
        o \in (CASE r.status = "RpcError" -> {Outcome(s, r.el, "Temporary")}
                 [] r.status = "Invalid"  -> {Outcome(s, r.el, "Status")}
                 [] OTHER -> IF HasBlockInfo(b)
                             THEN Synchronize(s, r.el, UnsafeUpdate(s.sync, b))
                             ELSE {Outcome(s, r.el, "Critical")})
  BY DEF Insert
<1>2. ELOk(r.el) /\ e.known \subseteq r.el.known
  BY <1>1, NewPayloadOk DEF Good
<1>3. Good(s, r.el)
  BY <1>2, GoodGrows, ZenonT(30)
<1>4. r.el.head = e.head /\ r.el.target = e.target
  <2> DEFINE f == [e EXCEPT !.known = @ \cup {b}]
  <2>1. f.head = e.head /\ f.target = e.target
    BY DEF Good, ELOk, ELState
  <2>2. \/ \E status : r = Answer(e, status)
        \/ r = Answer(f, "Valid")
    BY <1>1, Answered, ZenonT(30) DEF NewPayload
  <2> HIDE DEF f
  <2>3. r.el \in {e, f}
    BY <2>2, AnswerFields
  <2>4. QED BY <2>1, <2>3
<1>5. StateAgrees(s, r.el)
  BY <1>4, ZenonT(30) DEF StateAgrees, Agrees
<1>6. CASE o \in Synchronize(s, r.el, UnsafeUpdate(s.sync, b))
  <2>1. UnsafeUpdate(s.sync, b) \in EngineSyncState
    BY ZenonT(30) DEF UnsafeUpdate, Good, EngineState, EngineSyncState, MaybeBlock
  <2>2. QED BY <1>3, <1>5, <1>6, <2>1, SynchronizeKeeps, ZenonT(30)
<1>7. CASE \E err \in Errs : o = Outcome(s, r.el, err)
  BY <1>5, <1>7, OutcomeFields
<1>8. QED BY <1>1, <1>6, <1>7 DEF Errs

\* A block of the parent's chain is on that of the child, and is not the child.
LEMMA AncestorOfChild ==
  ASSUME NEW p \in Block, NEW c \in Content, NEW x \in MaybeBlock,
         IsAncestor(x, p)
  PROVE  /\ IsAncestor(x, Append(p, c)) /\ x # Append(p, c)
         /\ IsAncestor(Append(p, c), Append(p, c))
<1> DEFINE b == Append(p, c)
<1>1. /\ b \in Block /\ Len(p) \in Nat /\ Len(b) = Len(p) + 1
      /\ \A i \in 1 .. Len(p) : b[i] = p[i]
  BY DEF Block
<1>2. b # NoBlock
  BY <1>1, ContentAssumption DEF Block, Content
<1> HIDE DEF b
<1>3. CASE x = NoBlock
  <2>1. IsPrefix(b, b)
    BY <1>1 DEF IsPrefix
  <2>2. QED BY <1>2, <1>3, <2>1 DEF IsAncestor, b
<1>4. CASE x # NoBlock
  <2>1. /\ x \in Block /\ Len(x) \in Nat /\ Len(x) <= Len(p)
        /\ SubSeq(x, 1, Len(x)) = SubSeq(p, 1, Len(x))
    BY <1>4 DEF IsAncestor, IsPrefix, MaybeBlock, Block
  <2>2. SubSeq(b, 1, Len(x)) = SubSeq(p, 1, Len(x))
    BY <1>1, <2>1 DEF Block
  <2>3. QED BY <1>1, <2>1, <2>2, SMTT(40) DEF IsAncestor, IsPrefix, Block, b
<1>5. QED BY <1>3, <1>4, ZenonT(30)

\* The import of a derived block on the chain of the safe and the finalized
\* head makes it the head, or ends with the engine or with INVALID.
LEMMA SealAgrees ==
  ASSUME ~RpcFails, NEW s, NEW e, Good(s, e), NEW a \in Attributes,
         a.parent \in e.known,
         IsAncestor(s.sync.safe, a.parent), IsAncestor(s.sync.finalized, a.parent),
         NEW o \in SealAndImport(s, e, a, TRUE)
  PROVE  \/ o.err \in {"Critical", "Status"}
         \/ StateAgrees(o.st, o.el)
<1> DEFINE b == Append(a.parent, a.content)
           n == SafeUpdate(UnsafeUpdate(s.sync, b), b)
<1>1. /\ a.parent \in Block /\ a.content \in Content
      /\ s.sync.safe \in MaybeBlock /\ s.sync.finalized \in MaybeBlock
  BY ZenonT(30) DEF Attributes, Good, EngineState, EngineSyncState
<1>2. b \in Block /\ b # Genesis /\ Front(b) = a.parent /\ b \in MaybeBlock
  BY <1>1, ChildBlock, ZenonT(30) DEF MaybeBlock
<1>3. /\ IsAncestor(s.sync.finalized, b) /\ IsAncestor(b, b)
      /\ s.sync.safe # b
  BY <1>1, AncestorOfChild
<1> HIDE DEF b
<1>4. /\ n \in EngineSyncState /\ n.unsafe = b /\ n.safe = b
      /\ n.finalized = s.sync.finalized
  BY <1>2, ZenonT(30) DEF Good, EngineState, EngineSyncState, SafeUpdate, UnsafeUpdate
<1>5. ForkchoiceNeeded(s, n)
  BY <1>3, <1>4 DEF ForkchoiceNeeded
<1>6. CASE ~HasBlockInfo(b)
  BY <1>6, OutcomeFields DEF SealAndImport, RpcFailure, b
<1>7. CASE HasBlockInfo(b)
  <2>1. PICK i \in Insert(s, e, b, TRUE) :
          o = [i EXCEPT !.payload = IF i.err = "Ok" THEN b ELSE NoBlock]
    BY <1>7, ZenonT(30) DEF SealAndImport, RpcFailure, b
  <2>2. i \in OutcomeSet
    BY <1>2, <2>1, InsertOk, ZenonT(30) DEF GoodOutcome
  <2>3. o.st = i.st /\ o.el = i.el /\ o.err = i.err
    BY <2>1, <2>2 DEF OutcomeSet
  <2>4. PICK r \in NewPayload(e, b) :
          i \in (CASE r.status = "RpcError" -> {Outcome(s, r.el, "Temporary")}
                   [] r.status = "Invalid"  -> {Outcome(s, r.el, "Status")}
                   [] OTHER -> IF HasBlockInfo(b) THEN Synchronize(s, r.el, n)
                               ELSE {Outcome(s, r.el, "Critical")})
    BY <2>1 DEF Insert
  <2> HIDE DEF n
  <2>5. CASE Last(b) \in Invalid
    <3>1. r = Answer(e, "Invalid")
      BY <1>2, <2>4, <2>5 DEF NewPayload, WithRpcFailure
    <3>2. QED BY <2>3, <2>4, <3>1, AnswerFields, OutcomeFields
  <2>6. CASE Last(b) \notin Invalid
    <3>1. r.status = "Valid"
      BY <1>2, <2>4, <2>6, AnswerFields DEF NewPayload, WithRpcFailure
    <3>2. Good(s, r.el)
      BY <1>2, <2>4, NewPayloadOk, GoodGrows DEF Good
    <3>3. i \in Synchronize(s, r.el, n)
      BY <1>7, <2>4, <3>1
    <3>4. \/ i.err = "Ok" /\ StateAgrees(i.st, i.el)
          \/ i.err = "Critical"
      BY <1>3, <1>4, <1>5, <3>2, <3>3, SynchronizeAgrees, ZenonT(30)
    <3>5. QED BY <2>3, <3>4, ZenonT(30)
  <2>7. QED BY <2>5, <2>6, ZenonT(30)
<1>8. QED BY <1>6, <1>7, ZenonT(30)

\* The first half of a build, without lost answers, ends the engine, changes
\* nothing, or leaves the execution layer at the parent, above the safe and the
\* finalized head.
LEMMA StartBuildAgrees ==
  ASSUME ~RpcFails, NEW s, NEW e, Good(s, e), NEW a \in Attributes,
         a.parent \in e.known, NEW j \in StartBuild(s, e, a)
  PROVE  \/ j.err = "Critical"
         \/ j.err = "Temporary" /\ j.st = s /\ j.el = e
         \/ /\ j.err = "Ok" /\ Good(s, j.el) /\ e.known \subseteq j.el.known
            /\ IsAncestor(s.sync.safe, a.parent)
            /\ IsAncestor(s.sync.finalized, a.parent)
<1>1. GoodOutcome(e, j) /\ j.st = s
  <2>1. a \in Buildable
    BY DEF Attributes, Buildable
  <2>2. QED BY <2>1, StartBuildOk
<1>2. CASE j = Outcome(s, e, "Critical")
  BY <1>2, OutcomeFields
<1>3. CASE j # Outcome(s, e, "Critical")
  <2>1. PICK r \in ForkchoiceUpdated(e, a.parent, s.sync.safe, s.sync.finalized) :
          j = Outcome(s, r.el, IF r.status = "Valid" /\ a.content # Undecodable
                               THEN "Ok" ELSE "Temporary")
    BY <1>3, ZenonT(30) DEF StartBuild
  <2>2. CASE ~(/\ IsAncestor(s.sync.safe, a.parent)
               /\ IsAncestor(s.sync.finalized, a.parent))
    <3>1. r = Answer(e, "InvalidForkchoiceState")
      BY <2>1, <2>2, Answered, ZenonT(30) DEF ForkchoiceUpdated
    <3>2. r.el = e /\ r.status = "InvalidForkchoiceState"
      BY <3>1, AnswerFields, ZenonT(30)
    <3>3. j = Outcome(s, e, "Temporary")
      BY <2>1, <3>2
    <3>4. QED BY <3>3, OutcomeFields
  <2>3. CASE /\ IsAncestor(s.sync.safe, a.parent)
             /\ IsAncestor(s.sync.finalized, a.parent)
    <3>1. r.status = "Valid"
      <4>1. \E f : r = Answer(f, "Valid")
        BY <2>1, <2>3, Answered, ZenonT(30) DEF ForkchoiceUpdated
      <4>2. QED BY <4>1, AnswerFields, ZenonT(30)
    <3>2. a.content # Undecodable
      BY UndecodableAssumption, ZenonT(30) DEF Attributes
    <3>3. j = Outcome(s, r.el, "Ok")
      BY <2>1, <3>1, <3>2, ZenonT(30)
    <3>4. j.err = "Ok"
      BY <3>3, OutcomeFields
    <3>5. QED BY <1>1, <2>3, <3>4, ZenonT(30) DEF GoodOutcome
  <2>4. QED BY <2>2, <2>3, ZenonT(30)
<1>4. QED BY <1>2, <1>3, ZenonT(30)

\* BuildTask of derived attributes whose parent is known either fails before it
\* moved a head, or for good, or ends with the new block as head: the two
\* forkchoice updates of a build are not torn apart.
LEMMA BuildAgrees ==
  ASSUME ~RpcFails, NEW s, NEW e, Good(s, e), StateAgrees(s, e),
         NEW a \in Attributes, a.parent \in e.known,
         NEW o \in Build(s, e, a, TRUE)
  PROVE  o.err = "Critical" \/ StateAgrees(o.st, o.el)
<1>1. PICK i \in BuildOnce(s, e, a, TRUE) :
        o \in (CASE i.err = "Status" /\ IsDepositsOnly(a) ->
                     {[i EXCEPT !.err = "Critical"]}
                 [] i.err = "Status" /\ ~IsDepositsOnly(a) /\ HoloceneActive ->
                     Reattempt(i.st, i.el, a, TRUE)
                 [] OTHER -> {i})
  BY ZenonT(30) DEF Build
<1>2. IsDepositsOnly(a)
  BY DEF IsDepositsOnly, Transactions
<1>3. a \in Buildable /\ i \in OutcomeSet
  <2>1. a \in Buildable
    BY DEF Attributes, Buildable
  <2>2. QED BY <1>1, <2>1, BuildOnceOk, ZenonT(30) DEF GoodOutcome
<1>4. CASE i.err = "Status"
  BY <1>1, <1>2, <1>3, <1>4, ZenonT(30) DEF OutcomeSet
<1>5. CASE i.err # "Status"
  <2>1. o = i
    BY <1>1, <1>5
  <2>2. PICK j \in StartBuild(s, e, a) :
          i \in (IF j.err = "Ok" THEN SealAndImport(s, j.el, a, TRUE) ELSE {j})
    BY <1>1, ZenonT(30) DEF BuildOnce
  <2>3. CASE j.err # "Ok"
    <3>1. i = j
      BY <2>2, <2>3, ZenonT(30)
    <3>2. j.err = "Critical" \/ (j.st = s /\ j.el = e)
      BY <2>2, <2>3, StartBuildAgrees
    <3>3. QED BY <2>1, <3>1, <3>2, ZenonT(30)
  <2>4. CASE j.err = "Ok"
    <3>1. /\ Good(s, j.el) /\ e.known \subseteq j.el.known
          /\ IsAncestor(s.sync.safe, a.parent)
          /\ IsAncestor(s.sync.finalized, a.parent)
      BY <2>2, <2>4, StartBuildAgrees
    <3>2. i.err \in {"Critical", "Status"} \/ StateAgrees(i.st, i.el)
      BY <2>2, <2>4, <3>1, SealAgrees, ZenonT(30)
    <3>3. QED BY <1>5, <2>1, <3>2, ZenonT(30)
  <2>5. QED BY <2>3, <2>4, ZenonT(30)
<1>6. QED BY <1>4, <1>5

\* ConsolidateTask promotes a block without touching the unsafe head, or
\* builds.
LEMMA ConsolidateAgrees ==
  ASSUME ~RpcFails, NEW s, NEW e, Good(s, e), StateAgrees(s, e),
         NEW a \in Attributes, a.parent \in e.known,
         NEW o \in Consolidate(s, e, a)
  PROVE  o.err = "Critical" \/ StateAgrees(o.st, o.el)
<1> DEFINE b == BlockAt(e, BlockNumber(a))
           n == SafeUpdate(s.sync, b)
           t == [s EXCEPT !.sync = n]
<1>1. s \in EngineState /\ s.sync \in EngineSyncState
  BY DEF Good, EngineState
<1>2. CASE o \in Build(s, e, a, TRUE)
  BY <1>2, BuildAgrees, ZenonT(30)
<1>3. CASE o = Outcome(s, e, "Reset")
  BY <1>3, OutcomeFields
<1>4. CASE /\ o \in ConsolidateMatch(s, e, a, b)
           /\ Number(s.sync.safe) < Number(s.sync.unsafe)
  <2>1. b \in MaybeBlock
    <3>1. BlockNumber(a) \in Nat
      BY EmptyBlock DEF BlockNumber, Attributes
    <3>2. QED BY <3>1, CanonicalKnown, ZenonT(30) DEF Good
  <2>2. n \in EngineSyncState /\ n.unsafe = s.sync.unsafe
    BY <1>1, <2>1, ZenonT(30) DEF SafeUpdate, EngineSyncState
  <2>3. CASE a.last
    <3>1. o \in Synchronize(s, e, n)
      BY <1>4, <2>3, ZenonT(30) DEF ConsolidateMatch
    <3> HIDE DEF n
    <3>2. QED BY <2>2, <3>1, SynchronizeKeeps, ZenonT(30)
  <2>4. CASE ~a.last
    <3>1. o = Outcome(t, e, "Ok")
      BY <1>4, <2>4, ZenonT(30) DEF ConsolidateMatch
    <3>2. t.sync = n
      BY <1>1, ZenonT(30) DEF EngineState
    <3>3. s.sync # DefaultSync
      <4>1. DefaultSync.safe = NoBlock /\ DefaultSync.unsafe = NoBlock
        BY ZenonT(30) DEF DefaultSync
      <4>2. Number(NoBlock) = 0
        BY ZenonT(30) DEF Number
      <4>3. QED BY <1>4, <4>1, <4>2
    <3> HIDE DEF t, n
    <3>4. QED BY <2>2, <3>1, <3>2, <3>3, OutcomeFields DEF StateAgrees, Agrees
  <2>5. QED BY <2>3, <2>4, ZenonT(30)
<1>5. Number(s.sync.safe) \in Nat /\ Number(s.sync.unsafe) \in Nat
  BY <1>1, EmptyBlock DEF EngineSyncState, Number, MaybeBlock
<1>6. CASE Number(s.sync.safe) >= Number(s.sync.unsafe)
  BY <1>2, <1>6, ZenonT(30) DEF Consolidate
<1>7. CASE ~(Number(s.sync.safe) >= Number(s.sync.unsafe))
  <2>1. Number(s.sync.safe) < Number(s.sync.unsafe)
    BY <1>5, <1>7
  <2>2. RpcFailure(s, e) = {}
    BY DEF RpcFailure
  <2>3. QED BY <1>2, <1>3, <1>4, <1>7, <2>1, <2>2, ZenonT(30) DEF Consolidate
<1>8. QED BY <1>6, <1>7, ZenonT(30)

\* FinalizeTask moves the finalized head only.
LEMMA FinalizeAgrees ==
  ASSUME ~RpcFails, NEW s, NEW e, Good(s, e), StateAgrees(s, e),
         NEW k \in Nat, NEW o \in Finalize(s, e, k)
  PROVE  o.err = "Critical" \/ StateAgrees(o.st, o.el)
<1> DEFINE n == FinalizedUpdate(s.sync, BlockAt(e, k))
<1>1. n \in EngineSyncState
  BY CanonicalKnown, ZenonT(30) DEF Good, EngineState, FinalizedUpdate, EngineSyncState
<1>2. CASE o \in Synchronize(s, e, n)
  <2> HIDE DEF n
  <2>1. QED BY <1>1, <1>2, SynchronizeKeeps, ZenonT(30)
<1>3. CASE o = Outcome(s, e, "Critical")
  BY <1>3, OutcomeFields
<1>4. QED BY <1>2, <1>3 DEF Finalize, RpcFailure

\* So no task of a validator leaves the two apart and goes on.
LEMMA ExecuteAgrees ==
  ASSUME ~RpcFails, NEW s, NEW e, Good(s, e), StateAgrees(s, e),
         NEW t \in Task, TaskOnKnown(t, e), NEW o \in Execute(s, e, t)
  PROVE  o.err = "Critical" \/ StateAgrees(o.st, o.el)
<1>1. CASE t.kind = "Insert"
  BY <1>1, InsertAgrees, ZenonT(30) DEF Execute, Task
<1>2. CASE t.kind = "Consolidate"
  BY <1>2, ConsolidateAgrees, SMTT(40) DEF Execute, Task, TaskOnKnown
<1>3. CASE t.kind = "Finalize"
  BY <1>3, FinalizeAgrees, ZenonT(30) DEF Execute, Task
<1>4. QED BY <1>1, <1>2, <1>3 DEF Task, TaskOnKnown

-----------------------------------------------------------------------------
\* What is known stays known: the parents on their way stay known as the
\* execution layer learns more.
LEMMA ParentsGrow ==
  ASSUME ParentsKnown, el.known \subseteq el'.known,
         safe_head'.val = safe_head.val,
         UNCHANGED <<dpc, pending, attributes, tasks>>
  PROVE  ParentsKnown'
BY DEF ParentsKnown, TaskOnKnown

\* One more task on a known parent.
LEMMA TaskQueued ==
  ASSUME NodeInv, ParentsKnown, NEW t \in Task, TaskOnKnown(t, el),
         tasks' = Append(tasks, t)
  PROVE  \A i \in DOMAIN tasks' : TaskOnKnown(tasks'[i], el)
<1>1. tasks \in Seq(Task)
  BY DEF NodeInv, EngineInv, EngineTypeOK
<1>2. \A i \in DOMAIN tasks' :
        (i \in DOMAIN tasks /\ tasks'[i] = tasks[i]) \/ tasks'[i] = t
  BY <1>1, Appended, ZenonT(30)
<1>3. QED BY <1>2, ZenonT(30) DEF ParentsKnown

\* One attempt at a task keeps the agreement, or ends the engine.
LEMMA DrainAgrees ==
  ASSUME ~RpcFails, NodeInv, AgreementInv, Drain, UNCHANGED rest
  PROVE  AgreementInv'
<1>1. PICK i \in (IF cur = 0 THEN Peekable ELSE {cur}) :
        \E o \in Execute(st, el, tasks[i]) : Execution(i, o)
  BY DEF Drain
<1>2. PICK o \in Execute(st, el, tasks[i]) : Execution(i, o)
  BY <1>1, ZenonT(30)
<1>3. /\ tasks \in Seq(Task) /\ cur \in 0 .. Len(tasks)
      /\ pc = "drain" /\ Good(st, el) /\ StateAgrees(st, el)
      /\ UNCHANGED <<safe_head, attributes, dpc, pending>>
  BY DEF NodeInv, EngineInv, EngineTypeOK, Drain, AgreementInv, inbound, rest,
     derivation
<1>4. i \in DOMAIN tasks
  BY <1>1, <1>3 DEF Peekable
<1>5. tasks[i] \in Task /\ TaskOnKnown(tasks[i], el)
  <2>1. tasks[i] \in Task
    BY <1>3, <1>4
  <2>2. QED BY <1>4, <2>1, ZenonT(30) DEF AgreementInv, ParentsKnown
<1>6. /\ o.err = "Critical" \/ StateAgrees(o.st, o.el)
      /\ el.known \subseteq o.el.known
  BY <1>2, <1>3, <1>5, ExecuteAgrees, ExecuteOk, ZenonT(30) DEF GoodOutcome
<1>7. st' = o.st /\ el' = o.el
  BY <1>2, ZenonT(30) DEF Execution
<1>8. ~Delivers(tasks[i], o)
  BY <1>5 DEF Delivers, TaskOnKnown
<1>9. o.err = "Critical" => pc' = "dead"
  BY <1>2, <1>8, ZenonT(30) DEF Execution, Severity
<1>10. tasks' = tasks \/ tasks' = RemoveAt(tasks, i)
  BY <1>2, ZenonT(30) DEF Execution
<1>11. \A j \in DOMAIN tasks' : TaskOnKnown(tasks'[j], el)
  <2>1. CASE tasks' = tasks
    BY <2>1 DEF AgreementInv, ParentsKnown
  <2>2. CASE tasks' = RemoveAt(tasks, i)
    <3> DEFINE Fit == {t \in Task : TaskOnKnown(t, el)}
    <3>1. tasks \in Seq(Fit)
      BY <1>3 DEF AgreementInv, ParentsKnown
    <3>2. \A t \in Fit : TaskOnKnown(t, el)
      OBVIOUS
    <3> HIDE DEF Fit
    <3>3. tasks' \in Seq(Fit)
      BY <1>4, <2>2, <3>1, RemoveAtTyped, ZenonT(30)
    <3>4. \A j \in DOMAIN tasks' : tasks'[j] \in Fit
      BY <3>3
    <3>5. QED BY <3>2, <3>4, ZenonT(30)
  <2>3. QED BY <1>10, <2>1, <2>2, ZenonT(30)
<1>12. ParentsKnown'
  BY <1>3, <1>6, <1>7, <1>11 DEF AgreementInv, ParentsKnown, TaskOnKnown
<1>13. QED BY <1>6, <1>7, <1>9, <1>12 DEF AgreementInv

\* So does the synchronization to the starting point of a reset.
LEMMA ResetAgrees ==
  ASSUME ~RpcFails, NodeInv, AgreementInv, Reset, UNCHANGED rest
  PROVE  AgreementInv'
<1>1. PICK o \in Synchronize(st, el, start) :
        /\ st' = o.st /\ el' = o.el
        /\ o.err = "Critical" => pc' = "dead"
        /\ \/ safe_head' = SendIfModified(safe_head, o.st.sync.safe)
           \/ UNCHANGED safe_head
  BY DEF Reset
<1>2. /\ pc = "reset" /\ UNCHANGED <<tasks, attributes, dpc, pending>>
  BY ZenonT(30) DEF Reset, inbound, rest, derivation
<1>3. /\ start \in EngineSyncState /\ Held(start, el) /\ Good(st, el)
      /\ StateAgrees(st, el)
  BY <1>2 DEF NodeInv, EngineInv, EngineTypeOK, StartHeld, Held, AgreementInv
<1>4. /\ \/ o.err = "Ok" /\ StateAgrees(o.st, o.el)
         \/ o.err = "Critical"
         \/ o = Outcome(st, el, "Reset")
      /\ GoodOutcome(el, o)
  BY <1>1, <1>3, SynchronizeAgrees, SynchronizeOk, ZenonT(30)
<1>5. pc' = "dead" \/ StateAgrees(st', el')
  BY <1>1, <1>3, <1>4, OutcomeFields
<1>6. /\ el.known \subseteq el'.known
      /\ st'.sync.safe \in el'.known \cup {NoBlock}
  BY <1>1, <1>4, ZenonT(30) DEF GoodOutcome, Good, Held
<1>7. safe_head'.val \in el'.known \cup {NoBlock}
  <2>1. safe_head.val \in el.known \cup {NoBlock}
    BY ZenonT(30) DEF AgreementInv, ParentsKnown
  <2>2. safe_head'.val \in {safe_head.val, st'.sync.safe}
    BY <1>1, ModifiedValue, ZenonT(30)
  <2>3. QED BY <1>6, <2>1, <2>2, ZenonT(30)
<1>8. ParentsKnown'
  BY <1>2, <1>6, <1>7 DEF AgreementInv, ParentsKnown, TaskOnKnown
<1>9. QED BY <1>5, <1>8, ZenonT(30) DEF AgreementInv

\* The other steps of the engine actor call no one; they publish a safe head
\* that is held, and queue tasks from the channels.
LEMMA LoopAgrees ==
  ASSUME NodeInv, AgreementInv, UNCHANGED rest,
         \/ Search \/ SignalReset \/ DrainEmpty \/ Drained \/ Synced
         \/ RecvResetRequest \/ RecvUnsafeBlock \/ RecvAttributes
         \/ RecvFinalizedL1
  PROVE  AgreementInv'
<1>1. UNCHANGED <<el, st, dpc, pending>> /\ pc # "dead"
  BY ZenonT(30) DEF rest, derivation, Search, SignalReset, DrainEmpty, Drained, Synced,
     RecvResetRequest, RecvUnsafeBlock, RecvAttributes, RecvFinalizedL1
<1>2. StateAgrees(st', el')
  BY <1>1 DEF AgreementInv
<1>3. /\ tasks \in Seq(Task) /\ attributes \in Seq(Attributes)
      /\ unsafe_blocks \in Seq(Block)
      /\ \A n \in DOMAIN awaiting : awaiting[n] \in Nat
  BY ZenonT(30) DEF NodeInv, EngineInv, EngineTypeOK
<1>4. safe_head'.val \in el.known \cup {NoBlock}
  <2>1. /\ safe_head.val \in el.known \cup {NoBlock}
        /\ st.sync.safe \in el.known \cup {NoBlock}
    BY ZenonT(30) DEF AgreementInv, ParentsKnown, NodeInv, EngineInv, Good, Held
  <2>2. \/ UNCHANGED safe_head
        \/ safe_head' = SendIfModified(safe_head, st.sync.safe)
    BY ZenonT(30) DEF Search, SignalReset, DrainEmpty, Drained, Synced, RecvResetRequest,
       RecvUnsafeBlock, RecvAttributes, RecvFinalizedL1, outbound
  <2>3. safe_head'.val \in {safe_head.val, st.sync.safe}
    BY <2>2, ModifiedValue, ZenonT(30)
  <2>4. QED BY <2>1, <2>3, ZenonT(30)
<1>5. CASE RecvUnsafeBlock
  <2>1. /\ tasks' = Append(tasks, InsertTask(Head(unsafe_blocks)))
        /\ unsafe_blocks # << >> /\ UNCHANGED attributes
    BY <1>5 DEF RecvUnsafeBlock, Enqueue
  <2>2. Head(unsafe_blocks) \in Block
    BY <1>3, <2>1
  <2>3. /\ InsertTask(Head(unsafe_blocks)) \in Task
        /\ TaskOnKnown(InsertTask(Head(unsafe_blocks)), el)
    BY <2>2, ZenonT(30) DEF InsertTask, Task, TaskOnKnown
  <2>4. \A i \in DOMAIN tasks' : TaskOnKnown(tasks'[i], el)
    BY <2>1, <2>3, TaskQueued DEF AgreementInv
  <2>5. QED BY <1>1, <1>2, <1>4, <2>1, <2>4, ZenonT(30) DEF AgreementInv, ParentsKnown
<1>6. CASE RecvAttributes
  <2> DEFINE a == Head(attributes)
  <2>1. /\ tasks' = Append(tasks, ConsolidateTask(a))
        /\ attributes # << >> /\ attributes' = Tail(attributes)
    BY <1>6, ZenonT(30) DEF RecvAttributes, Enqueue
  <2>2. a \in Attributes /\ a.parent \in el.known
    <3>1. 1 \in DOMAIN attributes /\ a = attributes[1] /\ attributes[1] \in Attributes
      BY <1>3, <2>1, Received, ZenonT(30)
    <3>2. QED BY <3>1, ZenonT(30) DEF AgreementInv, ParentsKnown
  <2> HIDE DEF a
  <2>3. ConsolidateTask(a) \in Task /\ TaskOnKnown(ConsolidateTask(a), el)
    BY <2>2, ZenonT(30) DEF ConsolidateTask, Task, TaskOnKnown
  <2>4. \A i \in DOMAIN tasks' : TaskOnKnown(tasks'[i], el)
    BY <2>1, <2>3, TaskQueued, ZenonT(30) DEF AgreementInv
  <2>5. \A i \in DOMAIN Tail(attributes) : Tail(attributes)[i].parent \in el.known
    <3>1. ASSUME NEW i \in DOMAIN Tail(attributes)
          PROVE  i + 1 \in DOMAIN attributes /\ Tail(attributes)[i] = attributes[i + 1]
      BY <1>3, <2>1
    <3>2. QED BY <3>1 DEF AgreementInv, ParentsKnown
  <2>6. QED BY <1>1, <1>2, <1>4, <2>1, <2>4, <2>5, ZenonT(30) DEF AgreementInv, ParentsKnown
<1>7. CASE RecvFinalizedL1
  <2>1. UNCHANGED attributes /\ TryFinalizeNext(finalized_l1.val)
    BY <1>7 DEF RecvFinalizedL1
  <2>2. \/ tasks' = tasks
        \/ \E n \in Nat : tasks' = Append(tasks, FinalizeTask(n))
    BY <1>3, <2>1, ZenonT(30) DEF TryFinalizeNext, Finalizable
  <2>3. \A n \in Nat : FinalizeTask(n) \in Task /\ TaskOnKnown(FinalizeTask(n), el)
    BY DEF FinalizeTask, Task, TaskOnKnown
  <2>4. \A i \in DOMAIN tasks' : TaskOnKnown(tasks'[i], el)
    BY <2>2, <2>3, TaskQueued, ZenonT(30) DEF AgreementInv, ParentsKnown
  <2>5. QED BY <1>1, <1>2, <1>4, <2>1, <2>4, ZenonT(30) DEF AgreementInv, ParentsKnown
<1>8. CASE \/ Search \/ SignalReset \/ DrainEmpty \/ Drained \/ Synced
           \/ RecvResetRequest
  <2>1. UNCHANGED attributes /\ tasks' \in {tasks, << >>}
    BY <1>8, ZenonT(30) DEF Search, SignalReset, DrainEmpty, Drained, Synced,
       RecvResetRequest, inbound
  <2>2. \A i \in DOMAIN tasks' : TaskOnKnown(tasks'[i], el)
    BY <2>1 DEF AgreementInv, ParentsKnown
  <2>3. QED BY <1>1, <1>2, <1>4, <2>1, <2>2, ZenonT(30) DEF AgreementInv, ParentsKnown
<1>9. QED BY <1>5, <1>6, <1>7, <1>8

\* The derivation actor makes attributes on the safe head it was told.
LEMMA DerivationAgrees ==
  ASSUME NodeInv, AgreementInv, DerivationStep \/ L1Head \/ L1LogsFail
  PROVE  AgreementInv'
<1>1. /\ UNCHANGED <<el, st, tasks>> /\ pc' \in {pc, "dead"}
      /\ safe_head' \in {safe_head, [safe_head EXCEPT !.new = FALSE]}
  BY ZenonT(30) DEF DerivationStep, L1Head, L1LogsFail, RecvSignal, RecvL1Head,
     RecvSafeHead, RecvELSyncComplete, Produce, AdvanceOrigin, ReorgDetected,
     ReorgLookupFails, Exhausted, SendAttributes, Yield, vars, engine,
     inbound, outbound
<1>2. safe_head'.val = safe_head.val
  BY <1>1 DEF NodeInv, EngineInv, EngineTypeOK, Watch
<1>3. pc' # "dead" => StateAgrees(st', el')
  BY <1>1 DEF AgreementInv
<1>4. CASE \E last \in BOOLEAN : Produce(last)
  <2>1. PICK last \in BOOLEAN : Produce(last)
    BY <1>4
  <2>2. pending' \in Attributes
    BY <2>1, ProduceOk
  <2>3. pending'.parent = safe_head.val /\ UNCHANGED attributes
    BY <2>1 DEF Produce, vars, inbound
  <2>4. pending'.parent # NoBlock
    BY <2>2, ContentAssumption, ZenonT(30) DEF Attributes, Block, Content
  <2>5. pending'.parent \in el.known
    BY <2>3, <2>4 DEF AgreementInv, ParentsKnown
  <2>6. QED BY <1>1, <1>2, <1>3, <2>3, <2>5 DEF AgreementInv, ParentsKnown
<1>5. CASE SendAttributes
  <2>1. /\ attributes \in Seq(Attributes) /\ pending \in Attributes
        /\ attributes' = Append(attributes, pending) /\ dpc' = "select"
        /\ pending.parent \in el.known
    BY <1>5, ZenonT(30) DEF NodeInv, EngineInv, EngineTypeOK, PipelineFed, SendAttributes,
       AgreementInv, ParentsKnown
  <2>2. \A i \in DOMAIN attributes' : attributes'[i].parent \in el.known
    BY <2>1 DEF AgreementInv, ParentsKnown
  <2>3. QED BY <1>1, <1>2, <1>3, <2>1, <2>2 DEF AgreementInv, ParentsKnown
<1>6. CASE \/ L1Head \/ L1LogsFail \/ RecvSignal \/ RecvL1Head \/ RecvSafeHead
           \/ RecvELSyncComplete \/ AdvanceOrigin \/ ReorgDetected
           \/ ReorgLookupFails \/ Exhausted
  <2>1. UNCHANGED <<attributes, pending>> /\ (dpc' = "send" => dpc = "send")
    BY <1>6, ZenonT(30) DEF L1Head, L1LogsFail, RecvSignal, RecvL1Head,
     RecvSafeHead, RecvELSyncComplete, Process, AdvanceOrigin, ReorgDetected,
     ReorgLookupFails, Exhausted, Yield, vars, inbound, derivation
  <2>2. QED BY <1>1, <1>2, <1>3, <2>1 DEF AgreementInv, ParentsKnown
<1>7. QED BY <1>4, <1>5, <1>6 DEF DerivationStep

\* L1 and the network touch neither; a completed sync takes the head to the
\* target, which was the unsafe head.
LEMMA EnvironmentAgrees ==
  ASSUME NodeInv, AgreementInv,
         \/ (L1Step \/ ELSync) /\ UNCHANGED rest
         \/ \E b \in GossipBlocks : Gossip(b)
         \/ UNCHANGED nodeVars
  PROVE  AgreementInv'
<1>1. UNCHANGED <<st, pc, dpc, pending, attributes, tasks, safe_head>>
  BY ZenonT(30) DEF L1Step, L1Extend, L1Reorg, L1Finalize, ELSync, Gossip, rest,
     derivation, nodeVars, vars, engine, inbound, outbound
<1>2. CASE ELSync
  <2>1. el' = FinishSync(el) /\ el \in ELState /\ el.target # NoBlock
    BY <1>2 DEF ELSync, CanFinishSync, NodeInv, EngineInv, EngineTypeOK
  <2>2. /\ el'.head = el.target /\ el'.target = NoBlock
        /\ el.known \subseteq el'.known
    BY <2>1, ZenonT(30) DEF FinishSync, ELState
  <2>3. ParentsKnown'
    BY <1>1, <2>2, ParentsGrow DEF AgreementInv
  <2>4. QED BY <1>1, <2>1, <2>2, <2>3, ZenonT(30) DEF AgreementInv, StateAgrees, Agrees
<1>3. CASE ~ELSync
  <2>1. UNCHANGED el
    BY <1>3, ZenonT(30) DEF L1Step, L1Extend, L1Reorg, L1Finalize, Gossip, nodeVars, vars
  <2>2. QED BY <1>1, <2>1, ZenonT(30) DEF AgreementInv, ParentsKnown
<1>4. QED BY <1>2, <1>3

\* When no answer of the execution layer is lost, EngineState and the execution
\* layer agree on the chain between two rounds of tasks, through unsafe blocks,
\* builds, resets, EL syncs and L1 reorganisations.
THEOREM ELAgreement ==
  ASSUME ~RpcFails
  PROVE  Spec => []ELAgrees
<1>1. Init => AgreementInv
  <2> SUFFICES ASSUME Init PROVE AgreementInv
    OBVIOUS
  <2>1. /\ st = [sync |-> DefaultSync, el_sync_finished |-> FALSE]
        /\ safe_head = [val |-> NoBlock, new |-> FALSE] /\ dpc = "select"
        /\ attributes = << >> /\ tasks = << >>
    BY ZenonT(30) DEF Init, EngineInit, DerivationInit
  <2>2. StateAgrees(st, el)
    BY <2>1 DEF StateAgrees
  <2>3. ParentsKnown
    BY <2>1, NothingQueued DEF ParentsKnown
  <2>4. QED BY <2>2, <2>3, ZenonT(30) DEF AgreementInv
<1>2. NodeInv /\ AgreementInv /\ [Next]_nodeVars => AgreementInv'
  <2> SUFFICES ASSUME NodeInv, AgreementInv, [Next]_nodeVars
               PROVE  AgreementInv'
    OBVIOUS
  <2>1. CASE Drain /\ UNCHANGED rest
    BY <2>1, DrainAgrees
  <2>2. CASE Reset /\ UNCHANGED rest
    BY <2>2, ResetAgrees
  <2>3. CASE /\ \/ Search \/ SignalReset \/ DrainEmpty \/ Drained \/ Synced
                \/ RecvResetRequest \/ RecvUnsafeBlock \/ RecvAttributes
                \/ RecvFinalizedL1
             /\ UNCHANGED rest
    BY <2>3, LoopAgrees
  <2>4. CASE (DerivationStep \/ L1Head \/ L1LogsFail) /\ UNCHANGED gossiped
    BY <2>4, DerivationAgrees
  <2>5. CASE \/ (L1Step \/ ELSync) /\ UNCHANGED rest
             \/ \E b \in GossipBlocks : Gossip(b)
             \/ UNCHANGED nodeVars
    BY <2>5, EnvironmentAgrees
  <2>6. QED BY <2>1, <2>2, <2>3, <2>4, <2>5 DEF Next, DerivationStep
<1>3. AgreementInv => ELAgrees
  BY DEF AgreementInv, StateAgrees, Agrees, ELAgrees
<1>4. QED BY <1>1, <1>2, <1>3, NodeInvariant, PTL DEF Spec
=============================================================================
