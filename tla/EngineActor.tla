----------------------------- MODULE EngineActor -----------------------------
(***************************************************************************)
(* The engine actor of crates/node/service: the loop that drains the task  *)
(* queue of the Engine, then takes one message from its channels.  With it *)
(* the L1 chain it reads on a reset, the finalizer it owns, and both ends  *)
(* of its channels.  The senders (derivation, sequencer, network, L1       *)
(* watcher) act in the modules that compose this one.                      *)
(***************************************************************************)
EXTENDS EngineTasks

CONSTANTS
  SeqWindow,    \* RollupConfig::seq_window_size
  OriginLag,    \* an L2 block's L1 origin is this many blocks behind it
  ReorgDepth,   \* how many L1 blocks a reorganisation may replace
  FinalityLag,  \* how far the finalized L1 block is behind the head
  MaxL1,        \* bound: length of the L1 chain
  MaxQueue      \* bound: messages in one channel

ASSUME BoundAssumption ==
  /\ SeqWindow \in Nat /\ OriginLag \in Nat
  /\ ReorgDepth \in Nat /\ FinalityLag \in Nat
  /\ MaxL1 \in Nat /\ MaxQueue \in Nat

VARIABLES
  l1,             \* the canonical L1 chain: the batch in each of its blocks
  el,             \* the execution layer
  st,             \* EngineState
  tasks,          \* Engine::tasks, in order of arrival
  cur,            \* position of the task being executed, 0 for none
  pc,             \* where the loop is, see Pcs
  start,          \* the forkchoice a reset synchronizes to
  origin,         \* the L1 chain up to the origin the reset found
  resume,         \* where the loop continues after a reset
  awaiting,       \* L2Finalizer::awaiting_finalization
  sync_tx,        \* sync_complete_tx: "held", "taken", "sent" or "dropped"
  payloads,       \* built payloads delivered, per receiver
  reset_requests, build_requests, unsafe_blocks, attributes,  \* mpsc, inbound
  finalized_l1,   \* watch, inbound: [val, new]
  signals,        \* mpsc to the derivation actor
  safe_head,      \* watch to the derivation actor: [val, new]
  unsafe_head     \* watch to the sequencer: [val, new]

engine  == <<st, tasks, cur, pc, start, origin, resume, awaiting, sync_tx>>
inbound == <<reset_requests, build_requests, unsafe_blocks, attributes,
             finalized_l1>>
outbound == <<payloads, signals, safe_head, unsafe_head>>
vars == <<l1, el, engine, inbound, outbound>>

-----------------------------------------------------------------------------
\* What the rollup derives from L1: block n of L2 carries the batch in L1
\* block n; a batch whose payload is INVALID becomes a deposits-only block.
Derived(chain, n) ==
  [i \in 1 .. n |-> IF chain[i] \in Invalid THEN Deposits ELSE chain[i]]

\* The L1 origin of an L2 block, and whether it is on the canonical chain.
OriginNumber(b) == IF Len(b) < OriginLag THEN 0 ELSE Len(b) - OriginLag

OriginCanonical(b) ==
  /\ OriginNumber(b) <= Len(l1)
  /\ SubSeq(b, 1, OriginNumber(b)) = Derived(l1, OriginNumber(b))

(***************************************************************************)
(* find_starting_forkchoice.  The unsafe block is the highest one whose L1 *)
(* origin the L1 node still has; it always has the canonical ones and may  *)
(* have orphaned ones.  From it the safe block is searched down to the     *)
(* first block beyond the sequencing window, the finalized block, genesis. *)
(***************************************************************************)
StartCandidates ==
  {u \in Ancestors(el.head) :
     \A b \in Ancestors(el.head) : OriginCanonical(b) => Len(b) <= Len(u)}

StopsAt(u, c, fin) ==
  OriginNumber(u) - SeqWindow > OriginNumber(c) \/ c = fin \/ c = Genesis

IsSafeStart(u, c, fin) ==
  /\ StopsAt(u, c, fin)
  /\ \A d \in Ancestors(u) : StopsAt(u, d, fin) => Len(d) <= Len(c)

FinalizedStart == IF el.finalized = NoBlock THEN Genesis ELSE el.finalized

StartingForkchoice(u, c) ==
  [unsafe |-> u, cross_unsafe |-> u, local_safe |-> c, safe |-> c,
   finalized |-> FinalizedStart]

FindsStart(s) ==
  \E u \in StartCandidates :
    \E c \in Ancestors(u) :
      IsSafeStart(u, c, FinalizedStart) /\ s = StartingForkchoice(u, c)

\* watch::Sender::send_if_modified.
SendIfModified(w, v) == IF w.val = v THEN w ELSE [val |-> v, new |-> TRUE]

-----------------------------------------------------------------------------
\* The L1 chain grows, or is reorganised above its finalized part to a longer
\* chain: block n carries another batch, the blocks after it those they had.
L1Extend(c) ==
  /\ pc # "dead" /\ Len(l1) < MaxL1
  /\ l1' = Append(l1, c)
  /\ UNCHANGED <<el, engine, inbound, outbound>>

L1Reorg(n, c, d) ==
  /\ pc # "dead" /\ Len(l1) < MaxL1
  /\ finalized_l1.val < n /\ n <= Len(l1) /\ Len(l1) < n + ReorgDepth
  /\ l1[n] # c
  /\ l1' = Append([l1 EXCEPT ![n] = c], d)
  /\ UNCHANGED <<el, engine, inbound, outbound>>

\* The L1 watcher publishes a finalized L1 block.
L1Finalize ==
  /\ pc # "dead" /\ finalized_l1.val + FinalityLag < Len(l1)
  /\ finalized_l1' = [val |-> finalized_l1.val + 1, new |-> TRUE]
  /\ UNCHANGED <<l1, el, engine, outbound, reset_requests, build_requests,
                 unsafe_blocks, attributes>>

\* The execution layer completes a sync.
ELSync ==
  /\ pc # "dead" /\ CanFinishSync(el)
  /\ el' = FinishSync(el)
  /\ UNCHANGED <<l1, engine, inbound, outbound>>

-----------------------------------------------------------------------------
\* Mutant of Search: the task being retried outlives the queue.
MutSearch ==
  /\ pc = "search"
  /\ tasks' = << >>
  /\ FindsStart(start') /\ pc' = "reset"
  /\ UNCHANGED <<l1, el, st, cur, origin, resume, awaiting, sync_tx, inbound,
                 outbound>>

\* Engine::reset, its first part: the task queue is cleared and the starting
\* point is searched.  An RPC error in the search ends the actor.
Search ==
  /\ pc = "search"
  /\ tasks' = << >> /\ cur' = 0
  /\ \/ FindsStart(start') /\ pc' = "reset"
     \/ RpcFails /\ pc' = "dead" /\ UNCHANGED start
  /\ UNCHANGED <<l1, el, st, origin, resume, awaiting, sync_tx, inbound,
                 outbound>>

\* Mutant of Reset: the safe head is not published before the signal.
MutReset ==
  /\ pc = "reset"
  /\ \E o \in Synchronize(st, el, start) :
       /\ st' = o.st /\ el' = o.el
       /\ \/ /\ o.err = "Ok" /\ OriginNumber(start.safe) <= Len(l1)
             /\ origin' = SubSeq(l1, 1, OriginNumber(start.safe))
             /\ pc' = "signal"
          \/ o.err # "Ok" /\ UNCHANGED <<pc, origin>>
  /\ UNCHANGED <<l1, tasks, cur, start, resume, awaiting, sync_tx, inbound,
                 outbound>>

(***************************************************************************)
(* The rest of Engine::reset, the first half of EngineActorState::reset:   *)
(* synchronize to the starting point until it succeeds, look the origin of *)
(* the safe block up on L1, and publish the safe head.                     *)
(***************************************************************************)
Reset ==
  /\ pc = "reset"
  /\ \E o \in Synchronize(st, el, start) :
       /\ st' = o.st /\ el' = o.el
       /\ \/ /\ o.err = "Ok" /\ OriginNumber(start.safe) <= Len(l1)
             /\ origin' = SubSeq(l1, 1, OriginNumber(start.safe))
             /\ safe_head' = SendIfModified(safe_head, o.st.sync.safe)
             /\ pc' = "signal"
          \/ /\ \/ o.err = "Critical"
                \/ o.err = "Ok" /\ OriginNumber(start.safe) > Len(l1)
                \/ o.err = "Ok" /\ RpcFails
             /\ pc' = "dead"
             /\ UNCHANGED <<origin, safe_head>>
          \/ /\ o.err \in {"Temporary", "Reset"}
             /\ UNCHANGED <<pc, origin, safe_head>>
  /\ UNCHANGED <<l1, tasks, cur, start, resume, awaiting, sync_tx, inbound,
                 payloads, signals, unsafe_head>>

\* Its second half: only after the safe head is published is the derivation
\* actor signalled; then the finalizer is cleared.
ResetSignal(safe, view) == [kind |-> "Reset", safe |-> safe, view |-> view]

FlushSignal == [kind |-> "FlushChannel"]

SignalReset ==
  /\ pc = "signal"
  /\ signals' = Append(signals, ResetSignal(start.safe, origin))
  /\ awaiting' = << >>
  /\ pc' = resume /\ start' = DefaultSync /\ origin' = << >>
  /\ UNCHANGED <<l1, el, st, tasks, cur, resume, sync_tx, inbound, payloads,
                 safe_head, unsafe_head>>

-----------------------------------------------------------------------------
(***************************************************************************)
(* Engine::drain, one attempt at a task.  BinaryHeap::peek leaves open     *)
(* which of several tasks of the highest priority it returns; a task that  *)
(* fails temporarily is attempted again before any other.                  *)
(***************************************************************************)
Peekable ==
  {i \in DOMAIN tasks :
     \A j \in DOMAIN tasks : Priority(tasks[j]) <= Priority(tasks[i])}

\* BinaryHeap::pop takes the task just executed off the queue.
RemoveAt(q, i) == SubSeq(q, 1, i - 1) \o SubSeq(q, i + 1, Len(q))

\* BuildTask sends the payload to the sequencer, if that still listens.
Delivers(t, o) == t.kind = "Build" /\ o.payload # NoBlock

Execution(i, o) ==
  /\ st' = o.st /\ el' = o.el
  /\ LET sev == IF Delivers(tasks[i], o) /\ tasks[i].rx \in DOMAIN payloads
                THEN "Critical" ELSE Severity(o.err)
     IN  /\ payloads' = IF Delivers(tasks[i], o) /\ sev # "Critical"
                        THEN [r \in DOMAIN payloads \cup {tasks[i].rx} |->
                                IF r = tasks[i].rx THEN o.payload
                                                   ELSE payloads[r]]
                        ELSE payloads
         /\ \/ /\ sev = "Ok"
               /\ tasks' = RemoveAt(tasks, i) /\ cur' = 0
               /\ UNCHANGED <<pc, start, origin, resume, signals>>
            \/ /\ sev = "Temporary"
               /\ cur' = i
               /\ UNCHANGED <<tasks, pc, start, origin, resume, signals>>
            \/ /\ sev = "Critical"
               /\ pc' = "dead"
               /\ UNCHANGED <<tasks, cur, start, origin, resume, signals>>
            \/ /\ sev = "Flush"
               /\ pc' = "drained" /\ cur' = 0
               /\ signals' = Append(signals, FlushSignal)
               /\ UNCHANGED <<tasks, start, origin, resume>>
            \/ /\ sev = "Reset"
               /\ pc' = "search" /\ resume' = "drained"
               /\ UNCHANGED <<tasks, cur, start, origin, signals>>

Drain ==
  /\ pc = "drain" /\ tasks # << >>
  /\ \E i \in IF cur = 0 THEN Peekable ELSE {cur} :
       \E o \in Execute(st, el, tasks[i]) : Execution(i, o)
  /\ UNCHANGED <<l1, inbound, safe_head, unsafe_head, awaiting, sync_tx>>

DrainEmpty ==
  /\ pc = "drain" /\ tasks = << >>
  /\ pc' = "drained"
  /\ UNCHANGED <<l1, el, st, tasks, cur, start, origin, resume, awaiting,
                 sync_tx, inbound, outbound>>

(***************************************************************************)
(* The end of EngineActorState::drain and of the loop's first half:        *)
(* publish the safe head, check for the end of the EL sync (the first time *)
(* it is seen, the engine is reset unless it knows a finalized block, and  *)
(* dropping the sender also wakes the derivation actor), publish the       *)
(* unsafe head.                                                            *)
(***************************************************************************)
Drained ==
  /\ pc = "drained"
  /\ safe_head' = SendIfModified(safe_head, st.sync.safe)
  /\ IF st.el_sync_finished /\ sync_tx = "held" /\ st.sync.finalized = NoBlock
     THEN /\ pc' = "search" /\ resume' = "synced" /\ sync_tx' = "taken"
          /\ UNCHANGED unsafe_head
     ELSE /\ pc' = "select"
          /\ sync_tx' = IF st.el_sync_finished /\ sync_tx = "held"
                        THEN "dropped" ELSE sync_tx
          /\ unsafe_head' = SendIfModified(unsafe_head, st.sync.unsafe)
          /\ UNCHANGED resume
  /\ UNCHANGED <<l1, el, st, tasks, cur, start, origin, awaiting, inbound,
                 payloads, signals>>

\* The reset at the end of the EL sync is done: derivation may begin.
Synced ==
  /\ pc = "synced"
  /\ sync_tx' = "sent"
  /\ unsafe_head' = SendIfModified(unsafe_head, st.sync.unsafe)
  /\ pc' = "select"
  /\ UNCHANGED <<l1, el, st, tasks, cur, start, origin, resume, awaiting,
                 inbound, payloads, signals, safe_head>>

-----------------------------------------------------------------------------
(***************************************************************************)
(* The loop's second half, a biased select: one message of the first       *)
(* channel that has one, in the order reset requests, build requests,      *)
(* unsafe blocks, attributes, finalized L1 block; then back to draining.   *)
(***************************************************************************)
Enqueue(t) == tasks' = Append(tasks, t) /\ pc' = "drain"

RecvResetRequest ==
  /\ pc = "select" /\ reset_requests > 0
  /\ reset_requests' = reset_requests - 1
  /\ pc' = "search" /\ resume' = "drain"
  /\ UNCHANGED <<l1, el, st, tasks, cur, start, origin, awaiting, sync_tx,
                 build_requests, unsafe_blocks, attributes, finalized_l1,
                 outbound>>

RecvBuildRequest ==
  /\ pc = "select" /\ reset_requests = 0 /\ build_requests # << >>
  /\ Enqueue(BuildTask(Head(build_requests).attrs, Head(build_requests).rx))
  /\ build_requests' = Tail(build_requests)
  /\ UNCHANGED <<l1, el, st, cur, start, origin, resume, awaiting, sync_tx,
                 reset_requests, unsafe_blocks, attributes, finalized_l1,
                 outbound>>

RecvUnsafeBlock ==
  /\ pc = "select" /\ reset_requests = 0 /\ build_requests = << >>
  /\ unsafe_blocks # << >>
  /\ Enqueue(InsertTask(Head(unsafe_blocks)))
  /\ unsafe_blocks' = Tail(unsafe_blocks)
  /\ UNCHANGED <<l1, el, st, cur, start, origin, resume, awaiting, sync_tx,
                 reset_requests, build_requests, attributes, finalized_l1,
                 outbound>>

\* L2Finalizer::enqueue_for_finalization: the highest L2 block per L1 block.
EnqueueForFinalization(a) ==
  [n \in DOMAIN awaiting \cup {a.derived_from} |->
     IF n \notin DOMAIN awaiting THEN BlockNumber(a)
     ELSE IF n = a.derived_from /\ awaiting[n] < BlockNumber(a)
          THEN BlockNumber(a) ELSE awaiting[n]]

RecvAttributes ==
  /\ pc = "select" /\ reset_requests = 0 /\ build_requests = << >>
  /\ unsafe_blocks = << >> /\ attributes # << >>
  /\ awaiting' = EnqueueForFinalization(Head(attributes))
  /\ Enqueue(ConsolidateTask(Head(attributes)))
  /\ attributes' = Tail(attributes)
  /\ UNCHANGED <<l1, el, st, cur, start, origin, resume, sync_tx,
                 reset_requests, build_requests, unsafe_blocks, finalized_l1,
                 outbound>>

\* Mutant of Finalizable: one L1 block too many.
MutFinalizable(n) == {k \in DOMAIN awaiting : k <= n + 1}

\* L2Finalizer::try_finalize_next: the entry of the highest finalized L1
\* block that has one; every entry of a finalized L1 block is dropped.
Finalizable(n) == {k \in DOMAIN awaiting : k <= n}

TryFinalizeNext(n) ==
  IF Finalizable(n) = {} THEN UNCHANGED <<tasks, awaiting>>
  ELSE /\ \E k \in Finalizable(n) :
            /\ \A j \in Finalizable(n) : j <= k
            /\ tasks' = Append(tasks, FinalizeTask(awaiting[k]))
       /\ awaiting' = [k \in DOMAIN awaiting \ Finalizable(n) |-> awaiting[k]]

RecvFinalizedL1 ==
  /\ pc = "select" /\ reset_requests = 0 /\ build_requests = << >>
  /\ unsafe_blocks = << >> /\ attributes = << >> /\ finalized_l1.new
  /\ TryFinalizeNext(finalized_l1.val)
  /\ finalized_l1' = [finalized_l1 EXCEPT !.new = FALSE]
  /\ pc' = "drain"
  /\ UNCHANGED <<l1, el, st, cur, start, origin, resume, sync_tx,
                 reset_requests, build_requests, unsafe_blocks, attributes,
                 outbound>>

-----------------------------------------------------------------------------
\* A node starts with a default engine state beside an execution layer that
\* kept its chain, and its labels, from before.
EngineInit(e) ==
  /\ el = e
  /\ st = [sync |-> DefaultSync, el_sync_finished |-> FALSE]
  /\ tasks = << >> /\ cur = 0 /\ pc = "drain"
  /\ start = DefaultSync /\ origin = << >> /\ resume = "drain"
  /\ awaiting = << >> /\ sync_tx = "held" /\ payloads = << >>
  /\ reset_requests = 0 /\ build_requests = << >> /\ unsafe_blocks = << >>
  /\ attributes = << >> /\ finalized_l1 = [val |-> 0, new |-> FALSE]
  /\ signals = << >>
  /\ safe_head = [val |-> NoBlock, new |-> FALSE]
  /\ unsafe_head = [val |-> NoBlock, new |-> FALSE]

EngineStep ==
  \/ Search \/ Reset \/ SignalReset \/ Drain \/ DrainEmpty \/ Drained \/ Synced
  \/ RecvResetRequest \/ RecvBuildRequest \/ RecvUnsafeBlock
  \/ RecvAttributes \/ RecvFinalizedL1

L1Step ==
  \/ \E c \in Content : L1Extend(c)
  \/ \E n \in 1 .. MaxL1, c, d \in Content : L1Reorg(n, c, d)
  \/ L1Finalize

-----------------------------------------------------------------------------
Pcs == {"drain", "drained", "search", "reset", "signal", "synced", "select",
        "dead"}

BuildRequest == [attrs : Attributes, rx : Nat]

Signal == [kind : {"Reset"}, safe : Block, view : Seq(Content)]
            \cup [kind : {"FlushChannel"}]

Watch(S) == [val : S, new : BOOLEAN]

\* Every variable has the type its field or channel has in the code.
EngineTypeOK ==
  /\ l1 \in Seq(Content)
  /\ el \in ELState
  /\ st \in EngineState
  /\ tasks \in Seq(Task)
  /\ cur \in 0 .. Len(tasks)
  /\ pc \in Pcs /\ resume \in {"drain", "drained", "synced"}
  /\ start \in EngineSyncState /\ origin \in Seq(Content)
  /\ DOMAIN awaiting \subseteq Nat
  /\ \A n \in DOMAIN awaiting : awaiting[n] \in Nat
  /\ sync_tx \in {"held", "taken", "sent", "dropped"}
  /\ DOMAIN payloads \subseteq Nat
  /\ \A r \in DOMAIN payloads : payloads[r] \in Block
  /\ reset_requests \in Nat
  /\ build_requests \in Seq(BuildRequest)
  /\ unsafe_blocks \in Seq(Block)
  /\ attributes \in Seq(Attributes)
  /\ finalized_l1 \in Watch(Nat)
  /\ signals \in Seq(Signal)
  /\ safe_head \in Watch(MaybeBlock)
  /\ unsafe_head \in Watch(MaybeBlock)
=============================================================================
