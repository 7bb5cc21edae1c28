--------------------------- MODULE DerivationActor ---------------------------
(***************************************************************************)
(* The derivation actor of crates/node/service/src/actors/derivation.rs,   *)
(* wired to the engine actor: it steps the derivation pipeline on the safe *)
(* head the engine publishes, sends the attributes it produces, asks for   *)
(* resets and obeys the engine's signals.  The pipeline itself is reduced  *)
(* to the L1 blocks it has read and whether the batch of the last one is   *)
(* still buffered.                                                         *)
(***************************************************************************)
EXTENDS EngineActor

CONSTANT NoAttributes

VARIABLES
  pipeline,    \* [origin : the L1 chain read so far, batch : is one buffered]
  idle,        \* DerivationState::derivation_idle
  waiting,     \* DerivationState::waiting_for_signal
  el_synced,   \* el_sync_complete_rx.is_terminated()
  l1_head,     \* is there an L1 head the actor has not seen?
  dpc,         \* "select", "step" or "send"
  pending      \* the attributes about to be sent

derivation == <<pipeline, idle, waiting, el_synced, l1_head, dpc, pending>>

NoPipeline == [origin |-> << >>, batch |-> FALSE, ready |-> FALSE]

DerivationInit ==
  /\ pipeline = NoPipeline
  /\ idle = TRUE /\ waiting = FALSE /\ el_synced = FALSE
  /\ l1_head = FALSE /\ dpc = "select" /\ pending = NoAttributes

-----------------------------------------------------------------------------
\* The L1 watcher publishes a head.  Not every L1 block carries a batch, so
\* there is always another head to come.
L1Head ==
  /\ pc # "dead" /\ ~l1_head
  /\ l1_head' = TRUE
  /\ UNCHANGED <<vars, pipeline, idle, waiting, el_synced, dpc, pending>>

\* It then reads the logs of the head for updates of the block signer; a
\* failure there ends the watcher, and with it the node.
L1LogsFail ==
  /\ pc # "dead" /\ RpcFails
  /\ l1_head' = TRUE
  /\ pc' = "dead"
  /\ UNCHANGED <<l1, el, st, tasks, cur, start, origin, resume, awaiting,
                 sync_tx, inbound, outbound, pipeline, idle, waiting,
                 el_synced, dpc, pending>>

(***************************************************************************)
(* DerivationState::process up to the first step of the pipeline: nothing  *)
(* is done before the EL sync is complete, while a signal is awaited, on a *)
(* busy pipeline whose safe head did not change, or without a safe head.   *)
(***************************************************************************)
MayProcess(msg, synced) ==
  /\ synced /\ ~waiting
  /\ idle \/ msg = "SafeHeadUpdated" \/ safe_head.new
  /\ safe_head.val # NoBlock

Process(msg, synced) ==
  dpc' = IF MayProcess(msg, synced) THEN "step" ELSE "select"

\* Mutant of RecvSignal: waiting_for_signal is not taken back.
MutRecvSignal ==
  /\ dpc = "select" /\ pc # "dead" /\ signals # << >>
  /\ pipeline' = IF Head(signals).kind = "Reset"
                 THEN [origin |-> Head(signals).view, batch |-> FALSE,
                       ready |-> TRUE]
                 ELSE [pipeline EXCEPT !.batch = FALSE]
  /\ signals' = Tail(signals)
  /\ UNCHANGED <<l1, el, engine, inbound, payloads, safe_head, unsafe_head,
                 waiting, idle, el_synced, l1_head, dpc, pending>>

\* DerivationState::signal; the batches of a flushed channel are dropped.
RecvSignal ==
  /\ dpc = "select" /\ pc # "dead" /\ signals # << >>
  /\ pipeline' = IF Head(signals).kind = "Reset"
                 THEN [origin |-> Head(signals).view, batch |-> FALSE,
                       ready |-> TRUE]
                 ELSE [pipeline EXCEPT !.batch = FALSE]
  /\ signals' = Tail(signals)
  /\ waiting' = FALSE
  /\ UNCHANGED <<l1, el, engine, inbound, payloads, safe_head, unsafe_head,
                 idle, el_synced, l1_head, dpc, pending>>

RecvL1Head ==
  /\ dpc = "select" /\ pc # "dead" /\ signals = << >> /\ l1_head
  /\ l1_head' = FALSE
  /\ Process("NewDataAvailable", el_synced)
  /\ UNCHANGED <<vars, pipeline, idle, waiting, el_synced, pending>>

\* watch::Receiver::changed marks the value as seen.
RecvSafeHead ==
  /\ dpc = "select" /\ pc # "dead" /\ signals = << >> /\ ~l1_head
  /\ safe_head.new
  /\ safe_head' = [safe_head EXCEPT !.new = FALSE]
  /\ Process("SafeHeadUpdated", el_synced)
  /\ UNCHANGED <<l1, el, engine, inbound, payloads, signals, unsafe_head,
                 pipeline, idle, waiting, el_synced, l1_head, pending>>

\* The oneshot resolves when it was sent and also when it was dropped.
RecvELSyncComplete ==
  /\ dpc = "select" /\ pc # "dead" /\ signals = << >> /\ ~l1_head
  /\ ~safe_head.new /\ ~el_synced /\ sync_tx \in {"sent", "dropped"}
  /\ el_synced' = TRUE
  /\ Process("NewDataAvailable", TRUE)
  /\ UNCHANGED <<vars, pipeline, idle, waiting, l1_head, pending>>

-----------------------------------------------------------------------------
(***************************************************************************)
(* DerivationState::produce_next_attributes, one iteration.  Each one      *)
(* reads the safe head anew.  A buffered batch whose parent is the safe    *)
(* head becomes attributes; any other (past, or on another parent) is      *)
(* dropped.                                                                *)
(***************************************************************************)
Wanted ==
  /\ pipeline.batch
  /\ safe_head.val = Derived(pipeline.origin, Len(pipeline.origin) - 1)

Yield == idle' = TRUE /\ dpc' = "select" /\ UNCHANGED <<pipeline, pending>>

Produce(last) ==
  /\ dpc = "step" /\ pc # "dead" /\ Wanted
  /\ pending' = [parent |-> safe_head.val, content |-> Last(pipeline.origin),
                 derived_from |-> Len(pipeline.origin), last |-> last]
  /\ pipeline' = [pipeline EXCEPT !.batch = FALSE]
  /\ dpc' = "send"
  /\ UNCHANGED <<vars, idle, waiting, el_synced, l1_head>>

AdvanceOrigin ==
  /\ dpc = "step" /\ pc # "dead" /\ ~Wanted
  /\ Len(pipeline.origin) < Len(l1) /\ IsPrefix(pipeline.origin, l1)
  /\ pipeline' = [pipeline EXCEPT !.batch = TRUE,
                    !.origin = SubSeq(l1, 1, Len(pipeline.origin) + 1)]
  /\ UNCHANGED <<vars, idle, waiting, el_synced, l1_head, dpc, pending>>

\* The next L1 block does not extend the one read last: a reset is requested
\* from the engine, and everything waits for its signal.
ReorgDetected ==
  /\ dpc = "step" /\ pc # "dead" /\ ~Wanted
  /\ Len(pipeline.origin) < Len(l1) /\ ~IsPrefix(pipeline.origin, l1)
  /\ reset_requests' = reset_requests + 1
  /\ waiting' = TRUE
  /\ Yield
  /\ UNCHANGED <<l1, el, engine, build_requests, unsafe_blocks, attributes,
                 finalized_l1, outbound, el_synced, l1_head>>

\* The system config is read for the reset; an error there ends the actor,
\* and with it the node.
ReorgLookupFails ==
  /\ dpc = "step" /\ pc # "dead" /\ ~Wanted /\ RpcFails
  /\ Len(pipeline.origin) < Len(l1) /\ ~IsPrefix(pipeline.origin, l1)
  /\ pc' = "dead"
  /\ UNCHANGED <<l1, el, st, tasks, cur, start, origin, resume, awaiting,
                 sync_tx, inbound, outbound, derivation>>

\* No more L1 data, or a provider that failed.
Exhausted ==
  /\ dpc = "step" /\ pc # "dead"
  /\ \/ ~Wanted /\ Len(pipeline.origin) >= Len(l1)
     \/ RpcFails
  /\ Yield
  /\ UNCHANGED <<vars, waiting, el_synced, l1_head>>

\* The end of process: busy, the CURRENT safe head is marked as seen, and the
\* attributes are sent.
SendAttributes ==
  /\ dpc = "send" /\ pc # "dead"
  /\ idle' = FALSE
  /\ safe_head' = [safe_head EXCEPT !.new = FALSE]
  /\ attributes' = Append(attributes, pending)
  /\ pending' = NoAttributes /\ dpc' = "select"
  /\ UNCHANGED <<l1, el, engine, reset_requests, build_requests, unsafe_blocks,
                 finalized_l1, payloads, signals, unsafe_head, pipeline,
                 waiting, el_synced, l1_head>>

DerivationStep ==
  \/ RecvSignal \/ RecvL1Head \/ RecvSafeHead \/ RecvELSyncComplete
  \/ \E last \in BOOLEAN : Produce(last)
  \/ AdvanceOrigin \/ ReorgDetected \/ ReorgLookupFails
  \/ Exhausted \/ SendAttributes

DerivationTypeOK ==
  /\ pipeline \in [origin : Seq(Content), batch : BOOLEAN, ready : BOOLEAN]
  /\ idle \in BOOLEAN /\ waiting \in BOOLEAN /\ el_synced \in BOOLEAN
  /\ l1_head \in BOOLEAN
  /\ dpc \in {"select", "step", "send"}
  /\ pending \in Attributes \cup {NoAttributes}
=============================================================================
