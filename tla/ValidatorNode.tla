---------------------------- MODULE ValidatorNode ----------------------------
(***************************************************************************)
(* A validator node: the engine actor, the derivation actor, the L1 chain  *)
(* and the network actor, which forwards the unsafe blocks it hears of.    *)
(***************************************************************************)
EXTENDS DerivationActor

CONSTANTS
  StartChain,      \* the chain the execution layer has at start
  StartL1,         \* the L1 chain at start
  GossipBlocks,    \* the unsafe blocks that may be heard of
  MaxGossip        \* bound: how many of them arrive

ASSUME NodeAssumption ==
  /\ StartChain \in Block /\ StartL1 \in Seq(Content)
  /\ GossipBlocks \subseteq Block /\ MaxGossip \in Nat

VARIABLE gossiped   \* unsafe blocks forwarded so far

nodeVars == <<vars, derivation, gossiped>>

Init ==
  /\ l1 = StartL1
  /\ EngineInit(ELStart(StartChain, NoBlock, NoBlock))
  /\ DerivationInit
  /\ gossiped = 0

\* NetworkActor: a validated unsafe block is forwarded to the engine actor.
Gossip(b) ==
  /\ pc # "dead" /\ gossiped < MaxGossip /\ Len(unsafe_blocks) < MaxQueue
  /\ OriginCanonical(b)
  /\ unsafe_blocks' = Append(unsafe_blocks, b)
  /\ gossiped' = gossiped + 1
  /\ UNCHANGED <<l1, el, engine, reset_requests, build_requests, attributes,
                 finalized_l1, outbound, derivation>>

rest == <<derivation, gossiped>>

Next ==
  \/ Search /\ UNCHANGED rest
  \/ Reset /\ UNCHANGED rest
  \/ SignalReset /\ UNCHANGED rest
  \/ Drain /\ UNCHANGED rest
  \/ DrainEmpty /\ UNCHANGED rest
  \/ Drained /\ UNCHANGED rest
  \/ Synced /\ UNCHANGED rest
  \/ RecvResetRequest /\ UNCHANGED rest
  \/ RecvUnsafeBlock /\ UNCHANGED rest
  \/ RecvAttributes /\ UNCHANGED rest
  \/ RecvFinalizedL1 /\ UNCHANGED rest
  \/ RecvSignal /\ UNCHANGED gossiped
  \/ RecvL1Head /\ UNCHANGED gossiped
  \/ RecvSafeHead /\ UNCHANGED gossiped
  \/ RecvELSyncComplete /\ UNCHANGED gossiped
  \/ \E last \in BOOLEAN : Produce(last) /\ UNCHANGED gossiped
  \/ AdvanceOrigin /\ UNCHANGED gossiped
  \/ ReorgDetected /\ UNCHANGED gossiped
  \/ ReorgLookupFails /\ UNCHANGED gossiped
  \/ Exhausted /\ UNCHANGED gossiped
  \/ SendAttributes /\ UNCHANGED gossiped
  \/ L1Head /\ UNCHANGED gossiped
  \/ L1LogsFail /\ UNCHANGED gossiped
  \/ L1Step /\ UNCHANGED rest
  \/ ELSync /\ UNCHANGED rest
  \/ \E b \in GossipBlocks : Gossip(b)

Spec == Init /\ [][Next]_nodeVars

\* Every variable has the type of the field or the channel it stands for.
TypeOK == EngineTypeOK /\ DerivationTypeOK /\ gossiped \in 0 .. MaxGossip

-----------------------------------------------------------------------------
\* SAFETY.

\* Without L1 reorganisations the safe head is always the block derivation
\* yields from the canonical L1 chain: whatever unsafe block came first, and
\* whatever was in flight when the engine was reset, ConsolidateTask promotes
\* a block only if the attributes describe it.
SafeFromL1 ==
  st.sync.safe # NoBlock =>
    /\ Len(st.sync.safe) <= Len(l1)
    /\ st.sync.safe = Derived(l1, Len(st.sync.safe))

\* The finalized head is "derived from finalized L1 data only"
\* (EngineSyncState): it is the block derivation yields from L1 blocks the
\* watcher reported as finalized, across the finalizer's map, the task queue
\* and the engine's resets.
\* FinalizeTask checks the number of the block and asks the execution layer
\* for the canonical block of that number, so this rests on the canonical
\* chain holding the safe head.  Three conflicting unsafe blocks, the last two
\* on unknown parents, take the execution layer to a chain that does not; the
\* gossip of the instance checked is below that.
FinalizedFromFinalizedL1 ==
  st.sync.finalized # NoBlock =>
    /\ Len(st.sync.finalized) <= finalized_l1.val
    /\ st.sync.finalized = Derived(l1, Len(st.sync.finalized))

\* The finalized head is never ahead of the unsafe head, whatever blocks
\* gossip delivers and however the execution layer answers: what the check in
\* SynchronizeTask::execute is for.
FinalizedNotAheadOfUnsafe ==
  Number(st.sync.finalized) <= Number(st.sync.unsafe)

\* Between two rounds of tasks, EngineState and the execution layer agree on
\* the chain: its head, or the head it was told to sync to, is the unsafe
\* head.  A round may hold several calls, and a task may be attempted again
\* after some of them took effect.
ELAgrees ==
  pc = "select" /\ st.el_sync_finished =>
    \/ el.target = st.sync.unsafe
    \/ /\ el.target = NoBlock /\ el.head = st.sync.unsafe

\* A derivation actor that waits for a signal is not forgotten: its reset
\* request is queued, or the engine is resetting, or the signal is on its
\* way.  Otherwise waiting_for_signal would block derivation for good.  And
\* the pipeline is not stepped before a Reset signal gave it an origin: the
\* engine resets before it reports the end of the EL sync, and the derivation
\* actor's select takes signals first.
NoLostReset ==
  /\ waiting /\ pc # "dead" =>
       \/ reset_requests > 0
       \/ pc \in {"search", "reset", "signal"}
       \/ signals # << >>
  /\ dpc = "step" => pipeline.ready

\* The safe and the finalized head of EngineState are blocks the execution
\* layer has imported, with everything below them, even when its answers are
\* lost: BuildTask makes a block safe only after its import succeeded, and a
\* reset and FinalizeTask take theirs from the canonical chain.
HeadsHeld ==
  /\ st.sync.safe \in el.known \cup {NoBlock}
  /\ st.sync.finalized \in el.known \cup {NoBlock}

-----------------------------------------------------------------------------
\* LIVENESS.  tokio runs every task that can run; L1 keeps growing and the
\* watcher publishes its heads; the execution layer finishes its syncs.
FairSpec ==
  /\ Spec
  /\ WF_nodeVars(EngineStep /\ UNCHANGED rest)
  /\ WF_nodeVars(DerivationStep /\ UNCHANGED gossiped)
  /\ WF_nodeVars(L1Head /\ UNCHANGED gossiped)
  /\ WF_nodeVars(ELSync /\ UNCHANGED rest)

\* The safe head is what L1 holds.
CaughtUp == st.sync.safe = Derived(l1, Len(l1))

\* Once the EL sync is complete, the safe head catches up with L1, through
\* reorganisations of L1 and resets of the engine and the pipeline.
Progress == el_synced ~> CaughtUp
=============================================================================
