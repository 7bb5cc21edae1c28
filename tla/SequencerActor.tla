--------------------------- MODULE SequencerActor ---------------------------
(***************************************************************************)
(* The sequencer actor of a kona node: the L1 origin selector with its two *)
(* cached origins and its confirmation delay, the block building loop, the *)
(* admin queries, and the order in which the engine answers it.            *)
(*                                                                         *)
(* The L1 chain is a sequence: an L1 block is the sequence that ends in    *)
(* it, so a block determines its ancestors as a hash does.  An L2 block is *)
(* likewise a sequence, of the origin and the transactions of each block.  *)
(* Of the engine only what the sequencer sees is kept: it answers a build  *)
(* request before it publishes the new unsafe head (EngineTasks and        *)
(* EngineActor hold the engine itself).                                    *)
(***************************************************************************)
EXTENDS Integers, Sequences, SequencesExt

CONSTANTS
    L1Time,         \* seconds between two L1 blocks
    BlockTime,      \* cfg.block_time
    MaxDrift,       \* cfg.max_sequencer_drift
    UpgradeTimes,   \* times of the first block of each hardfork
    ConfDepth,      \* --sequencer.l1-confs
    Txs,            \* what the transaction pool may hand to a block
    OrphansServed,  \* whether the L1 node still serves orphaned blocks by hash
    NoBlock,        \* no block: None
    MaxL1, MaxL2,   \* bounds on the two chains
    MaxReorgs       \* bound on the number of L1 reorganisations

ASSUME SequencerAssumption ==
    /\ {L1Time, BlockTime, MaxDrift, ConfDepth, MaxL1, MaxL2, MaxReorgs} \subseteq Nat
    /\ L1Time > 0 /\ BlockTime > 0
    /\ OrphansServed \in BOOLEAN

NoTxs == "empty"

VARIABLES
    l1,         \* the canonical L1 chain
    reorgs,     \* how often it was reorganised; it marks the blocks mined since
    l1_head,    \* the L1 head watch: a block number, or NoBlock
    unsafe,     \* the engine's unsafe head
    published,  \* the unsafe head watch, NoBlock before the first publication
    epc,        \* the engine: "idle", or "publish" after a task changed the head
    resets,     \* whether a reset request waits for the engine
    request,    \* the build request in flight, or NoBlock
    payload,    \* the payload the engine sent back, or NoBlock
    spc,        \* where the sequencer is
    active,     \* is_active
    recovery,   \* is_recovery_mode
    current,    \* L1OriginSelector.current
    next,       \* L1OriginSelector.next
    head,       \* build_block's unsafe_head
    chosen,     \* build_block's l1_origin
    sent,       \* the last payload handed to gossip
    stopped     \* the hash the last StopSequencer query returned

l1Vars == <<l1, reorgs, l1_head>>
engineVars == <<unsafe, published, epc>>
selector == <<current, next>>
vars == <<l1Vars, engineVars, resets, request, payload, spc, active, recovery,
          selector, head, chosen, sent, stopped>>

ParentOf(b) == Front(b)
L1Timestamp(o) == L1Time * Len(o)
L2Timestamp(b) == BlockTime * Len(b)
NextTimestamp(b) == L2Timestamp(b) + BlockTime
Origin(b) == IF b = <<>> THEN <<>> ELSE Last(b).origin
Child(parent, origin, txs) == Append(parent, [origin |-> origin, txs |-> txs])

(* What eth_getBlockByHash answers: a canonical block, and of an orphan the  *)
(* block or nothing.                                                         *)
ByHash(o) ==
    IF IsPrefix(o, l1) \/ OrphansServed THEN {o} ELSE {o, NoBlock}

(* The delayed view: by-number lookups are held back by the confirmation     *)
(* depth once the L1 head is known.                                          *)
ByNumber(n) ==
    IF /\ n <= Len(l1)
       /\ l1_head = NoBlock \/ n = 0 \/ ConfDepth = 0 \/ n + ConfDepth <= l1_head
    THEN SubSeq(l1, 1, n) ELSE NoBlock

IsChild(o, p) == o # NoBlock /\ o # <<>> /\ ParentOf(o) = p

(* select_origins up to its by-number lookup: the pairs of current and next  *)
(* origins it may leave.                                                     *)
SelectCurrent ==
    IF recovery THEN {<<o, next>> : o \in ByHash(Origin(head))}
    ELSE IF current = Origin(head) THEN {<<current, next>>}
    ELSE IF next = Origin(head) THEN {<<next, NoBlock>>}
    ELSE {<<o, NoBlock>> : o \in ByHash(Origin(head))}

(* The by-number lookup: in recovery mode the block after the head's origin, *)
(* else try_fetch_next_origin, which keeps a cached next origin.             *)
FetchNext ==
    IF recovery THEN ByNumber(Len(Origin(head)) + 1)
    ELSE IF current = NoBlock \/ next # NoBlock THEN next
    ELSE LET n == ByNumber(Len(current) + 1)
         IN  IF IsChild(n, current) THEN n ELSE NoBlock

(* A selector that forgets to move on to the next origin.                    *)
MutNextL1Origin(n) ==
    IF current = NoBlock THEN [kind |-> "unreachable"]
    ELSE IF NextTimestamp(head) - L1Timestamp(current) > MaxDrift
    THEN [kind |-> "not enough data"] ELSE [kind |-> "ok", origin |-> current]

(* next_l1_origin after select_origins, with the next origin n.              *)
NextL1Origin(n) ==
    LET reached == n # NoBlock /\ NextTimestamp(head) >= L1Timestamp(n)
        pastDrift == NextTimestamp(head) - L1Timestamp(current) > MaxDrift
        Ok(o) == [kind |-> "ok", origin |-> o]
    IN  IF reached THEN Ok(n)
        ELSE IF current = NoBlock THEN [kind |-> "unreachable"]
        ELSE IF ~pastDrift \/ n # NoBlock THEN Ok(current)
        ELSE [kind |-> "not enough data"]

(* The check build_block makes on the selected origin.                       *)
Consistent(o) == Origin(head) = o \/ IsChild(o, Origin(head))

(* The rules without the drift threshold.                                    *)
MutNoTxPool == recovery \/ NextTimestamp(head) \in UpgradeTimes

(* The no_tx_pool rules of build_block.                                      *)
NoTxPool ==
    \/ recovery
    \/ NextTimestamp(head) > L1Timestamp(chosen) + MaxDrift
    \/ NextTimestamp(head) \in UpgradeTimes
-----------------------------------------------------------------------------
Init ==
    /\ l1 = <<>> /\ reorgs = 0 /\ l1_head = NoBlock
    /\ unsafe = <<>> /\ published = NoBlock /\ epc = "idle"
    /\ resets = FALSE /\ request = NoBlock /\ payload = NoBlock
    /\ spc = "boot" /\ active \in BOOLEAN /\ recovery = FALSE
    /\ current = NoBlock /\ next = NoBlock /\ head = NoBlock /\ chosen = NoBlock
    /\ sent = NoBlock /\ stopped = NoBlock

(* Where the sequencer waits for its next tick or query; the locals of       *)
(* build_block are gone.                                                     *)
Return ==
    /\ spc' = "select"
    /\ head' = NoBlock /\ chosen' = NoBlock

(* schedule_initial_reset: request the reset, then wait until the unsafe     *)
(* head watch changes.                                                       *)
RequestInitialReset ==
    /\ spc = "boot"
    /\ resets' = TRUE /\ spc' = "reset"
    /\ UNCHANGED <<l1Vars, engineVars, request, payload, active, recovery,
                   selector, head, chosen, sent, stopped>>

InitialResetDone ==
    /\ spc = "reset" /\ published # NoBlock
    /\ spc' = "select"
    /\ UNCHANGED <<l1Vars, engineVars, resets, request, payload, active,
                   recovery, selector, head, chosen, sent, stopped>>

(* handle_admin_query.                                                       *)
StartSequencer ==
    /\ spc = "select" /\ ~active
    /\ active' = TRUE
    /\ UNCHANGED <<l1Vars, engineVars, resets, request, payload, spc, recovery,
                   selector, head, chosen, sent, stopped>>

StopSequencer ==
    /\ spc = "select"
    /\ active' = FALSE /\ stopped' = published
    /\ UNCHANGED <<l1Vars, engineVars, resets, request, payload, spc, recovery,
                   selector, head, chosen, sent>>

SetRecoveryMode ==
    /\ spc = "select"
    /\ recovery' = ~recovery
    /\ UNCHANGED <<l1Vars, engineVars, resets, request, payload, spc, active,
                   selector, head, chosen, sent, stopped>>

(* build_block, from one await to the next.                                  *)
Tick ==
    /\ spc = "select" /\ active
    /\ Len(published) < MaxL2
    /\ head' = published /\ spc' = "current"
    /\ UNCHANGED <<l1Vars, engineVars, resets, request, payload, active,
                   recovery, selector, chosen, sent, stopped>>

SelectCurrentOrigin ==
    /\ spc = "current"
    /\ \E s \in SelectCurrent : current' = s[1] /\ next' = s[2]
    /\ spc' = "next"
    /\ UNCHANGED <<l1Vars, engineVars, resets, request, payload, active,
                   recovery, head, chosen, sent, stopped>>

SelectNextOrigin ==
    /\ spc = "next"
    /\ next' = FetchNext
    /\ LET r == NextL1Origin(FetchNext)
       IN  \/ /\ r.kind = "unreachable"
              /\ spc' = "panicked" /\ UNCHANGED <<resets, head, chosen>>
           \/ /\ r.kind = "not enough data"
              /\ Return /\ UNCHANGED resets
           \/ /\ r.kind = "ok" /\ Consistent(r.origin)
              /\ spc' = "prepare" /\ chosen' = r.origin /\ UNCHANGED <<resets, head>>
           \/ /\ r.kind = "ok" /\ ~Consistent(r.origin)
              /\ Return /\ resets' = TRUE
    /\ UNCHANGED <<l1Vars, engineVars, request, payload, active, recovery,
                   current, sent, stopped>>

(* A failed L1 request of the selector, or a temporary error of the          *)
(* attributes builder: nothing is undone, the next tick retries.             *)
L1RequestFails ==
    /\ spc \in {"current", "next", "prepare"}
    /\ Return
    /\ UNCHANGED <<l1Vars, engineVars, resets, request, payload, active,
                   recovery, selector, sent, stopped>>

(* prepare_payload_attributes on the selected origin, and the build request. *)
Prepare ==
    /\ spc = "prepare" /\ chosen \in ByHash(chosen)
    /\ LET reset == \/ Len(Origin(head)) # Len(chosen) /\ ~IsChild(chosen, Origin(head))
                    \/ Len(Origin(head)) = Len(chosen) /\ Origin(head) # chosen
                    \/ NextTimestamp(head) < L1Timestamp(chosen)
       IN  IF reset
           THEN Return /\ resets' = TRUE /\ UNCHANGED request
           ELSE /\ request' = [parent |-> head, origin |-> chosen, no_tx_pool |-> NoTxPool]
                /\ spc' = "wait" /\ UNCHANGED <<resets, head, chosen>>
    /\ UNCHANGED <<l1Vars, engineVars, payload, active, recovery, selector,
                   sent, stopped>>

(* try_wait_for_payload, the conductor's commitment (its failure is only     *)
(* logged) and schedule_gossip.                                              *)
Gossip ==
    /\ spc = "wait" /\ payload # NoBlock
    /\ sent' = payload /\ payload' = NoBlock
    /\ Return
    /\ UNCHANGED <<l1Vars, engineVars, resets, request, active, recovery,
                   selector, stopped>>
-----------------------------------------------------------------------------
(* The engine as the sequencer sees it.                                      *)

(* A reset request is served before a build request.  The new unsafe head is *)
(* the highest ancestor whose L1 origin the L1 node still serves.            *)
EngineReset ==
    /\ epc = "idle" /\ resets
    /\ \E k \in 0..Len(unsafe) :
         /\ \A j \in k + 1..Len(unsafe) : NoBlock \in ByHash(unsafe[j].origin)
         /\ unsafe' = SubSeq(unsafe, 1, k)
    /\ resets' = FALSE /\ epc' = "publish"
    /\ UNCHANGED <<l1Vars, published, request, payload, spc, active, recovery,
                   selector, head, chosen, sent, stopped>>

(* The build task: it builds on the request's parent, imports the block and  *)
(* answers; the new head is published only when the task queue is drained.   *)
EngineBuild ==
    /\ epc = "idle" /\ ~resets /\ request # NoBlock
    /\ \E t \in IF request.no_tx_pool THEN {NoTxs} ELSE Txs \cup {NoTxs} :
         /\ unsafe' = Child(request.parent, request.origin, t)
         /\ payload' = Child(request.parent, request.origin, t)
    /\ request' = NoBlock /\ epc' = "publish"
    /\ UNCHANGED <<l1Vars, published, resets, spc, active, recovery, selector,
                   head, chosen, sent, stopped>>

EnginePublish ==
    /\ epc = "publish"
    /\ published' = unsafe /\ epc' = "idle"
    /\ UNCHANGED <<l1Vars, unsafe, resets, request, payload, spc, active,
                   recovery, selector, head, chosen, sent, stopped>>

(* A block of another leader arrives by gossip while this one is stopped.    *)
EngineImport ==
    /\ epc = "idle" /\ ~resets /\ request = NoBlock /\ ~active /\ published # NoBlock
    /\ Len(unsafe) < MaxL2
    /\ \E n \in {Len(Origin(unsafe)), Len(Origin(unsafe)) + 1}, t \in Txs :
         LET o == SubSeq(l1, 1, n)
         IN  /\ n <= Len(l1) /\ (o = Origin(unsafe) \/ IsChild(o, Origin(unsafe)))
             /\ NextTimestamp(unsafe) \in L1Timestamp(o)..L1Timestamp(o) + MaxDrift
             /\ NextTimestamp(unsafe) \notin UpgradeTimes
             /\ unsafe' = Child(unsafe, o, t)
    /\ epc' = "publish"
    /\ UNCHANGED <<l1Vars, published, resets, request, payload, spc, active,
                   recovery, selector, head, chosen, sent, stopped>>
-----------------------------------------------------------------------------
(* The L1 chain and the L1 head watch.                                       *)
L1Extend ==
    /\ Len(l1) < MaxL1
    /\ l1' = Append(l1, reorgs)
    /\ UNCHANGED <<reorgs, l1_head, engineVars, resets, request, payload, spc,
                   active, recovery, selector, head, chosen, sent, stopped>>

L1Reorg ==
    /\ reorgs < MaxReorgs
    /\ \E n \in 0..Len(l1) - 1 : l1' = Append(SubSeq(l1, 1, n), reorgs + 1)
    /\ reorgs' = reorgs + 1
    /\ UNCHANGED <<l1_head, engineVars, resets, request, payload, spc, active,
                   recovery, selector, head, chosen, sent, stopped>>

L1Head ==
    /\ l1_head # Len(l1)
    /\ l1_head' = Len(l1)
    /\ UNCHANGED <<l1, reorgs, engineVars, resets, request, payload, spc, active,
                   recovery, selector, head, chosen, sent, stopped>>

Next ==
    \/ RequestInitialReset \/ InitialResetDone
    \/ StartSequencer \/ StopSequencer \/ SetRecoveryMode
    \/ Tick \/ SelectCurrentOrigin \/ SelectNextOrigin \/ L1RequestFails
    \/ Prepare \/ Gossip
    \/ EngineReset \/ EngineBuild \/ EnginePublish \/ EngineImport
    \/ L1Extend \/ L1Reorg \/ L1Head

(* Every task of the runtime keeps running, the ticker keeps ticking, L1     *)
(* keeps producing blocks, and L1 requests do not fail for ever.             *)
Fairness ==
    /\ WF_vars(RequestInitialReset) /\ WF_vars(InitialResetDone)
    /\ WF_vars(Tick) /\ WF_vars(Gossip)
    /\ SF_vars(SelectCurrentOrigin) /\ SF_vars(SelectNextOrigin) /\ SF_vars(Prepare)
    /\ WF_vars(EngineReset) /\ WF_vars(EngineBuild) /\ WF_vars(EnginePublish)
    /\ WF_vars(L1Extend) /\ WF_vars(L1Head)

Spec == Init /\ [][Next]_vars
FairSpec == Spec /\ Fairness
-----------------------------------------------------------------------------
(* Whatever L1 does between the awaits of build_block, and however stale the *)
(* selector's cached origins are, a block handed to gossip is one that the   *)
(* derivation of every other node accepts: its epoch is its parent's or the  *)
(* L1 child of it, it is not older than its epoch, and it carries            *)
(* transactions only within the sequencer drift and outside upgrade blocks.  *)
Derivable ==
    (sent # NoBlock) =>
        LET o == Origin(sent)  p == Origin(ParentOf(sent))
        IN  /\ o = p \/ IsChild(o, p)
            /\ L2Timestamp(sent) >= L1Timestamp(o)
            /\ Last(sent).txs # NoTxs =>
                 /\ L2Timestamp(sent) <= L1Timestamp(o) + MaxDrift
                 /\ L2Timestamp(sent) \notin UpgradeTimes

(* An active sequencer on an L1 chain that is never reorganised fills its    *)
(* chain: the origin selector never waits for ever on the confirmation       *)
(* delay, the drift or a failed request, and a sibling built on a stale head *)
(* does not stop the chain from growing.                                     *)
KeepsSequencing ==
    [](active /\ reorgs = 0) => <>(Len(unsafe) = MaxL2)

(* "building L2 blocks on top of the current unsafe head and extending the   *)
(* L2 chain" (docs, sequencer mode): two successive blocks of one leader are *)
(* never siblings.                                                           *)
ExtendsTheChain ==
    [][sent' # sent /\ sent # NoBlock => ParentOf(sent') # ParentOf(sent)]_vars
=============================================================================
