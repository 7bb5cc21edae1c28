---------------------------- MODULE ChainProcessor ----------------------------
(***************************************************************************)
(* The supervisor's handling of one chain, crates/supervisor/core: the     *)
(* chain processor and its handlers, the log indexer whose catch-up runs   *)
(* beside it, the two cross safety checker jobs, the L1 watcher with its   *)
(* reorg task, and the command task of the managed node.  They share the   *)
(* database of the chain and nothing else, one transaction at a time.      *)
(*                                                                         *)
(* External: L1, and the managed node, of which there is only what the     *)
(* supervisor sees: its chain, the events it sends, the commands it takes. *)
(***************************************************************************)
EXTENDS ChainDb

CONSTANTS
  Ancestors,    \* the ancestors of a block or source, itself included
  Activation,   \* the derived pair of the interop activation block
  Bad,          \* blocks with an invalid executing message
  MaxEvents,    \* capacity of the event channel (1000 in the code)
  Jobs,         \* the cross safety checker jobs that run (both in the code)
  MaxSpawned,   \* bound: sync_logs tasks that have not started
  MaxCommands,  \* bound: commands the managed node has not taken
  MaxForks,     \* bound: how often L1 is reorganised
  Trees,        \* bound: the blocks and sources that may come up, per behaviour
  NodeFails,    \* may a request to the managed node fail?
  L1Fails       \* may a request to L1 fail?

ASSUME AncestorAssumption ==
  Ancestors = [b \in Block \cup Source |->
                 {b} \cup IF Parent[b] = None THEN {} ELSE Ancestors[Parent[b]]]

ASSUME ProcessorAssumption ==
  /\ Activation \in DerivedRefPair
  /\ Parent[Activation.derived] = None /\ Parent[Activation.source] # None
  /\ Bad \subseteq Block
  /\ MaxEvents \in Nat \ {0} /\ MaxForks \in Nat /\ MaxSpawned \in Nat \ {0}
  /\ MaxCommands \in Nat \ {0}
  /\ Jobs \subseteq {"CrossUnsafe", "CrossSafe"}
  /\ Trees \subseteq [blocks : SUBSET Block, sources : SUBSET Source]
  /\ NodeFails \in BOOLEAN /\ L1Fails \in BOOLEAN

VARIABLES
  db,           \* the ChainDb
  events,       \* the channel of ChainEvents to the processor
  invalidated,  \* ProcessorState::invalidated_block: a pair, or None
  proc,         \* where the processor is in the event it is handling
  spawned,      \* targets of sync_logs tasks that have not run yet
  catchup,      \* the running catch-up: its next number and fetched block
  checker,      \* per cross level, the candidate its job is validating
  watch,        \* L1Watcher: latest block seen, reorg task and its target
  commands,     \* the channel of ManagedNodeCommands
  node,         \* the managed node: unsafe tip, last derived block, L1 origin
  l1            \* L1: canonical tip, finalized block, number of forks so far,
                \* and the tree of this behaviour

external == <<node, l1>>
indexer  == <<spawned, catchup>>
vars == <<db, events, invalidated, proc, spawned, catchup, checker, watch,
          commands, node, l1>>

-----------------------------------------------------------------------------
\* SafetyPromoter::lower_bound_level.
LowerBound(l) == IF l = "CrossUnsafe" THEN "LocalUnsafe" ELSE "LocalSafe"

\* tip is None for a chain that has not reached the activation block.
OnChain(b, tip) == tip # None /\ b \in Ancestors[tip]

Canonical(s) == OnChain(s, l1.tip)

\* RollupConfig::is_post_interop and is_interop_activation_block; the timestamp
\* of a block is given by its number.
IsPostInterop(b)       == Number[b] > Number[Activation.derived]
IsInteropActivation(b) == Number[b] = Number[Activation.derived]

Idle == [pc |-> "idle"]

\* mpsc::Sender::send waits for room; try_send gives up without it.
CanSend == Len(events) < MaxEvents
TrySend(e) == IF CanSend THEN Append(events, e) ELSE events

CanCommand == Len(commands) < MaxCommands

ResetCommand         == [kind |-> "Reset", block |-> None]
InvalidateCommand(b) == [kind |-> "Invalidate", block |-> b]

\* A request that may or may not be answered.
Answers == IF NodeFails THEN {TRUE, FALSE} ELSE {TRUE}

Init ==
  /\ db = InitialiseDerivationStorage(
             InitialiseLogStorage(EmptyDb, Activation.derived).db, Activation).db
  /\ events = << >> /\ commands = << >>
  /\ invalidated = None /\ proc = Idle
  /\ spawned = {} /\ catchup = None
  /\ checker = [l \in Jobs |-> None]
  /\ watch = [latest |-> Activation.source, task |-> "none", target |-> None]
  /\ node = [tip |-> Activation.derived, safe |-> Activation.derived,
             origin |-> Activation.source]
  /\ l1 \in [tip : {Activation.source}, final : {Parent[Activation.source]},
             forks : {0}, tree : Trees]

-----------------------------------------------------------------------------
(***************************************************************************)
(* ChainProcessor::handle_event.  A handler may wait for the managed node, *)
(* and other tasks run between its transactions: proc says what it does    *)
(* next.  Errors are only logged, so the processor goes on to the next     *)
(* event.                                                                  *)
(***************************************************************************)
Takes(kind) ==
  /\ proc = Idle
  /\ events # << >>
  /\ Head(events).kind = kind
  /\ events' = Tail(events)

\* UnsafeBlockHandler.
HandleUnsafeBlock ==
  /\ Takes("UnsafeBlock")
  /\ Cardinality(spawned) < MaxSpawned
  /\ LET b == Head(events).block
     IN  /\ spawned' = IF invalidated = None /\ IsPostInterop(b)
                       THEN spawned \cup {b} ELSE spawned
         /\ db' = IF invalidated = None /\ IsInteropActivation(b)
                  THEN InitialiseLogStorage(db, b).db ELSE db
  /\ UNCHANGED <<invalidated, proc, catchup, checker, watch, commands, external>>

\* SafeBlockHandler, up to the answer of save_derived_block.
AfterSave(p, err) ==
  IF err = "ReorgRequired" THEN [pc |-> "getlog", pair |-> p]
  ELSE IF err = "FutureData" THEN [pc |-> "resync", pair |-> p, replacing |-> FALSE]
  ELSE Idle

HandleDerivedBlock ==
  /\ Takes("DerivedBlock")
  /\ CanCommand
  /\ LET p  == Head(events).pair
         tx == IF invalidated # None THEN Commit(db, "Skipped")
               ELSE IF IsPostInterop(p.derived) THEN SaveDerivedBlock(db, p)
               ELSE IF IsInteropActivation(p.derived)
                    THEN Commit(InitialiseDerivationStorage(db, p).db, "Initialised")
               ELSE Commit(db, "Skipped")
     IN  /\ db' = tx.db
         /\ proc' = AfterSave(p, tx.err)
         /\ commands' = IF tx.err = "BlockOutOfOrder"
                        THEN Append(commands, ResetCommand) ELSE commands
  /\ UNCHANGED <<invalidated, indexer, checker, watch, external>>

\* SafeBlockHandler::rewind_log_storage: read the conflicting log block, then
\* rewind to it.
GetLogBlock ==
  /\ proc.pc = "getlog"
  /\ LET n == Number[proc.pair.derived]
     IN  proc' = IF n \in DOMAIN db.logs
                 THEN [pc |-> "rewindlog", pair |-> proc.pair, block |-> db.logs[n]]
                 ELSE Idle
  /\ UNCHANGED <<db, events, invalidated, indexer, checker, watch, commands, external>>

RewindLogBlock ==
  /\ proc.pc = "rewindlog"
  /\ LET tx == RewindLogStorage(db, proc.block)
     IN  /\ db' = tx.db
         /\ proc' = IF tx.err # "Ok" THEN Idle
                    ELSE [pc |-> "resync", pair |-> proc.pair, replacing |-> FALSE]
  /\ UNCHANGED <<events, invalidated, indexer, checker, watch, commands, external>>

\* retry_with_resync_derived_block of both handlers: process_and_store_logs,
\* then save_derived_block; ReplacementHandler clears the invalidated block
\* when both succeed.
ResyncLogs ==
  /\ proc.pc = "resync"
  /\ \E answered \in Answers :
       LET tx == StoreBlockLogs(db, proc.pair.derived)
       IN  /\ db' = IF answered THEN tx.db ELSE db
           /\ proc' = IF answered /\ tx.err = "Ok"
                      THEN [proc EXCEPT !.pc = "save"] ELSE Idle
  /\ UNCHANGED <<events, invalidated, indexer, checker, watch, commands, external>>

SaveResynced ==
  /\ proc.pc = "save"
  /\ LET tx == SaveDerivedBlock(db, proc.pair)
     IN  /\ db' = tx.db
         /\ invalidated' = IF proc.replacing /\ tx.err = "Ok"
                           THEN None ELSE invalidated
  /\ proc' = Idle
  /\ UNCHANGED <<events, indexer, checker, watch, commands, external>>

\* OriginHandler.
HandleDerivationOriginUpdate ==
  /\ Takes("DerivationOriginUpdate")
  /\ CanCommand
  /\ LET s  == Head(events).block
         tx == IF invalidated # None THEN Commit(db, "Skipped")
               ELSE SaveSourceBlock(db, s)
     IN  /\ db' = tx.db
         /\ commands' = IF tx.err = "BlockOutOfOrder"
                        THEN Append(commands, ResetCommand) ELSE commands
  /\ UNCHANGED <<invalidated, proc, indexer, checker, watch, external>>

\* InvalidationHandler: look the source up, rewind, tell the node, remember.
HandleInvalidateBlock ==
  /\ Takes("InvalidateBlock")
  /\ LET b == Head(events).block
     IN  proc' = IF invalidated = None /\ DerivedPairError(db, b) = "Ok"
                 THEN [pc |-> "invalidate", pair |-> Pair(DerivedToSource(db, b), b)]
                 ELSE Idle
  /\ UNCHANGED <<db, invalidated, indexer, checker, watch, commands, external>>

RewindInvalidated ==
  /\ proc.pc = "invalidate"
  /\ CanCommand
  /\ LET tx == Rewind(db, proc.pair.derived)
     IN  /\ db' = tx.db
         /\ commands' = IF tx.err = "Ok"
                        THEN Append(commands, InvalidateCommand(proc.pair.derived))
                        ELSE commands
         /\ invalidated' = IF tx.err = "Ok" THEN proc.pair ELSE invalidated
  /\ proc' = Idle
  /\ UNCHANGED <<events, indexer, checker, watch, external>>

\* ReplacementHandler.
HandleBlockReplaced ==
  /\ Takes("BlockReplaced")
  /\ LET e == Head(events)
     IN  proc' = IF invalidated # None /\ invalidated.derived = e.invalidated
                 THEN [pc |-> "resync", pair |-> Pair(invalidated.source, e.block),
                       replacing |-> TRUE]
                 ELSE Idle
  /\ UNCHANGED <<db, invalidated, indexer, checker, watch, commands, external>>

\* FinalizedHandler.
HandleFinalizedSourceUpdate ==
  /\ Takes("FinalizedSourceUpdate")
  /\ db' = UpdateFinalizedUsingSource(db, Head(events).block).db
  /\ UNCHANGED <<invalidated, proc, indexer, checker, watch, commands, external>>

-----------------------------------------------------------------------------
(***************************************************************************)
(* LogIndexer::sync_logs.  The task is spawned and runs at any later time; *)
(* is_catch_up_running lets one run and makes the others return.           *)
(***************************************************************************)
StartCatchUp ==
  \E b \in spawned :
    /\ spawned' = spawned \ {b}
    /\ catchup' = IF catchup # None \/ IsEmpty(db.logs) THEN catchup
                  ELSE [next |-> LastKey(db.logs) + 1, target |-> b, block |-> None]
    /\ UNCHANGED <<db, events, invalidated, proc, checker, watch, commands, external>>

\* index_log_upto asks the node for the blocks before the target.
BlocksByNumber(n) == {b \in Block : Number[b] = n /\ OnChain(b, node.tip)}

FetchBlock ==
  /\ catchup # None
  /\ catchup.block = None
  /\ IF catchup.next < Number[catchup.target]
     THEN \/ \E b \in BlocksByNumber(catchup.next) :
               catchup' = [catchup EXCEPT !.block = b]
          \/ /\ BlocksByNumber(catchup.next) = {} \/ NodeFails
             /\ catchup' = None
     ELSE catchup' = [catchup EXCEPT !.block = catchup.target]
  /\ UNCHANGED <<db, events, invalidated, proc, spawned, checker, watch,
                 commands, external>>

\* process_and_store_logs, once the receipts have come.
StoreFetched ==
  /\ catchup # None
  /\ catchup.block # None
  /\ \E answered \in Answers :
       LET tx == StoreBlockLogs(db, catchup.block)
       IN  /\ db' = IF answered THEN tx.db ELSE db
           /\ catchup' = IF ~answered \/ tx.err # "Ok"
                            \/ catchup.next >= Number[catchup.target]
                         THEN None
                         ELSE [catchup EXCEPT !.next = @ + 1, !.block = None]
  /\ UNCHANGED <<events, invalidated, proc, spawned, checker, watch,
                 commands, external>>

-----------------------------------------------------------------------------
(***************************************************************************)
(* CrossSafetyCheckerJob::promote_next_block, for this chain.  Whether the *)
(* candidate's messages are valid is a property of the block here; that    *)
(* the answer may have to wait for other chains is CandidateWaits.         *)
(***************************************************************************)
FindNextPromotable(l) ==
  LET head  == db.heads[l]
      upper == db.heads[LowerBound(l)]
  IN  /\ checker[l] = None
      /\ head # None /\ upper # None
      /\ Number[head] < Number[upper]
      /\ Number[head] + 1 \in DOMAIN db.logs
      /\ checker' = [checker EXCEPT ![l] = db.logs[Number[head] + 1]]
      /\ UNCHANGED <<db, events, invalidated, proc, indexer, watch, commands, external>>

\* A mutant that promotes by number, whatever the logs hold by then.
MutPromoteCandidate(l) ==
  /\ checker[l] \in Block \ Bad
  /\ db' = IF Number[checker[l]] \in DOMAIN db.logs
           THEN UpdateCurrentCross(db, l, db.logs[Number[checker[l]]]).db ELSE db
  /\ checker' = [checker EXCEPT ![l] = None]
  /\ UNCHANGED <<events, invalidated, proc, indexer, watch, commands, external>>

PromoteCandidate(l) ==
  /\ checker[l] \in Block \ Bad
  /\ db' = UpdateCurrentCross(db, l, checker[l]).db
  /\ checker' = [checker EXCEPT ![l] = None]
  /\ UNCHANGED <<events, invalidated, proc, indexer, watch, commands, external>>

RejectCandidate(l) ==
  /\ checker[l] \in Bad
  /\ events' = IF l = "CrossSafe"
               THEN TrySend([kind |-> "InvalidateBlock", block |-> checker[l]])
               ELSE events
  /\ checker' = [checker EXCEPT ![l] = None]
  /\ UNCHANGED <<db, invalidated, proc, indexer, watch, commands, external>>

CandidateWaits(l) ==
  /\ checker[l] # None
  /\ checker' = [checker EXCEPT ![l] = None]
  /\ UNCHANGED <<db, events, invalidated, proc, indexer, watch, commands, external>>

-----------------------------------------------------------------------------
\* L1Watcher::handle_new_latest_block: a block that does not follow the last
\* one seen starts the reorg task, and the watcher waits for it.
WatchLatest ==
  /\ watch.task = "none"
  /\ Number[l1.tip] > Number[watch.latest]
  /\ watch' = [watch EXCEPT
                 !.latest = l1.tip,
                 !.task = IF IsParentOf(watch.latest, l1.tip) THEN "none" ELSE "find"]
  /\ UNCHANGED <<db, events, invalidated, proc, indexer, checker, commands, external>>

\* L1 finalizes a block and the watcher sees it: handle_new_finalized_block,
\* which is update_finalized_l1 and the broadcast.
WatchFinalized ==
  /\ watch.task = "none"
  /\ \E s \in Ancestors[l1.tip] :
       /\ Number[s] > Number[l1.final]
       /\ l1' = [l1 EXCEPT !.final = s]
       /\ events' = TrySend([kind |-> "FinalizedSourceUpdate", block |-> s])
  /\ UNCHANGED <<db, invalidated, proc, indexer, checker, watch, commands, node>>

ActivationBlock == db.derived[FirstKey(db.derived)].derived

\* ReorgTask::find_common_ancestor: the source of the finalized block, else the
\* activation source when it is canonical, else None.
CommonAncestor ==
  IF db.heads["Finalized"] # None
  THEN DerivedToSource(db, db.heads["Finalized"])
  ELSE IF Canonical(DerivedToSource(db, ActivationBlock))
       THEN DerivedToSource(db, ActivationBlock) ELSE None

\* ReorgTask::find_rewind_target walks back to the oldest source above the
\* common ancestor that follows no other orphaned source.
RewindTarget ==
  LET last   == LastKey(db.traversal)
      stops  == {n \in DOMAIN db.traversal : n < last /\
                   (n <= Number[CommonAncestor] \/ Canonical(db.traversal[n].source))}
      stop   == CHOOSE n \in stops : \A m \in stops : m <= n
  IN  db.traversal[stop + 1].source

\* Its errors end the task: an empty storage, a source L1 has no block of the
\* number of, a finalized block that is not in the derivation storage, no
\* source before the latest one.
RewindTargetFails ==
  \/ IsEmpty(db.derived) \/ IsEmpty(db.traversal)
  \/ Number[LatestSource(db)] > Number[l1.tip]
  \/ /\ ~Canonical(LatestSource(db))
     /\ \/ /\ db.heads["Finalized"] # None
           /\ DerivedPairError(db, db.heads["Finalized"]) # "Ok"
        \/ LastKey(db.traversal) = FirstKey(db.traversal)
           /\ (db.heads["Finalized"] # None \/ CommonAncestor # None)

FindRewindTarget ==
  /\ watch.task = "find"
  /\ watch' = IF RewindTargetFails \/ Canonical(LatestSource(db))
              THEN [watch EXCEPT !.task = "none"]
              ELSE IF CommonAncestor = None
                   THEN [watch EXCEPT !.task = "activation"]
                   ELSE [watch EXCEPT !.task = "rewind", !.target = RewindTarget]
  /\ UNCHANGED <<db, events, invalidated, proc, indexer, checker, commands, external>>

\* An L1 request of the task fails.
ReorgTaskFails ==
  /\ L1Fails
  /\ watch.task = "find"
  /\ watch' = [watch EXCEPT !.task = "none"]
  /\ UNCHANGED <<db, events, invalidated, proc, indexer, checker, commands, external>>

\* rewind_to_target_source and rewind_to_activation_block.
RewindReorged ==
  /\ watch.task \in {"rewind", "activation"}
  /\ db' = IF watch.task = "rewind" THEN RewindToSource(db, watch.target).db
           ELSE IF IsEmpty(db.derived) THEN db
           ELSE Rewind(db, ActivationBlock).db
  /\ watch' = [watch EXCEPT !.task = "none", !.target = None]
  /\ UNCHANGED <<events, invalidated, proc, indexer, checker, commands, external>>

-----------------------------------------------------------------------------
(***************************************************************************)
(* The managed node and L1, external.  The node extends its unsafe chain,  *)
(* follows L1 as handle_exhaust_l1 provides it, derives blocks, which it   *)
(* has announced as unsafe blocks by then, and takes commands.             *)
(***************************************************************************)
Send(e) == CanSend /\ events' = Append(events, e)

\* A block on the unsafe tip, or one of the derivation that replaces it.
NodeUnsafe ==
  \E b \in l1.tree.blocks :
    /\ \/ IsParentOf(node.tip, b)
       \/ IsParentOf(node.safe, b) /\ ~OnChain(b, node.tip)
    /\ node' = [node EXCEPT !.tip = b]
    /\ Send([kind |-> "UnsafeBlock", block |-> b])
    /\ UNCHANGED <<db, invalidated, proc, indexer, checker, watch, commands, l1>>

NodeOrigin ==
  \E s \in Source :
    /\ IsParentOf(node.origin, s) /\ Canonical(s)
    /\ node' = [node EXCEPT !.origin = s]
    /\ Send([kind |-> "DerivationOriginUpdate", block |-> s])
    /\ UNCHANGED <<db, invalidated, proc, indexer, checker, watch, commands, l1>>

NodeDerive ==
  \E b \in Block :
    /\ IsParentOf(node.safe, b) /\ OnChain(b, node.tip)
    /\ node' = [node EXCEPT !.safe = b]
    /\ Send([kind |-> "DerivedBlock", pair |-> Pair(node.origin, b)])
    /\ UNCHANGED <<db, invalidated, proc, indexer, checker, watch, commands, l1>>

\* The node answers InvalidateBlock with a replacement by a valid sibling, and
\* derives on from an origin it had passed.
NodeReplaces(b) ==
  \E r \in Block \ Bad, s \in Ancestors[node.origin] :
    /\ Parent[r] = Parent[b]
    /\ OnChain(b, node.safe)
    /\ node' = [tip |-> r, safe |-> r, origin |-> s]
    /\ Send([kind |-> "BlockReplaced", invalidated |-> b, block |-> r])

\* Resetter::get_latest_valid_local_safe: from b down over the sources, to a
\* block the node has too; None when the walk ends without one.
ValidLocalSafe[b \in Block] ==
  IF OnChain(b, node.tip) THEN b
  ELSE LET s == Parent[DerivedToSource(db, b)]
       IN  IF s = None \/ Number[s] = 0 \/ AtSourceError(db, s) # "Ok" THEN None
           ELSE ValidLocalSafe[LatestDerivedAtSource(db, s)]

\* Resetter::reset: to a block whose source is canonical, or to before the
\* activation block when nothing is stored.
ResetNode ==
  IF IsEmpty(db.derived)
  THEN node' = [tip |-> None, safe |-> None, origin |-> Parent[Activation.source]]
  ELSE LET b == IF BlocksByNumber(Number[LatestDerived(db)]) = {} THEN None
                ELSE ValidLocalSafe[LatestDerived(db)]
       IN  node' = IF b = None \/ ~Canonical(DerivedToSource(db, b)) THEN node
                   ELSE [tip |-> b, safe |-> b, origin |-> DerivedToSource(db, b)]

\* run_command_task.
RunCommand ==
  /\ commands # << >>
  /\ LET c == Head(commands)
     IN  \/ c.kind = "Reset" /\ ResetNode /\ UNCHANGED events
         \/ c.kind = "Invalidate" /\ NodeReplaces(c.block)
         \/ /\ c.kind = "Invalidate"
            /\ NodeFails \/ ~OnChain(c.block, node.safe)
            /\ UNCHANGED <<node, events>>
  /\ commands' = Tail(commands)
  /\ UNCHANGED <<db, invalidated, proc, indexer, checker, watch, l1>>

\* A node whose origin is no longer canonical asks for a reset: handle_reset.
NodeAsksReset ==
  /\ ~Canonical(node.origin)
  /\ ResetNode
  /\ UNCHANGED <<db, events, invalidated, proc, indexer, checker, watch, commands, l1>>

L1Extends ==
  \E s \in l1.tree.sources :
    /\ IsParentOf(l1.tip, s)
    /\ l1' = [l1 EXCEPT !.tip = s]
    /\ UNCHANGED <<db, events, invalidated, proc, indexer, checker, watch,
                   commands, node>>

L1Forks ==
  /\ l1.forks < MaxForks
  /\ \E s \in l1.tree.sources :
       /\ ~OnChain(l1.tip, s) /\ ~OnChain(s, l1.tip) /\ OnChain(l1.final, s)
       /\ l1' = [l1 EXCEPT !.tip = s, !.forks = @ + 1]
  /\ UNCHANGED <<db, events, invalidated, proc, indexer, checker, watch,
                 commands, node>>

-----------------------------------------------------------------------------
Processor ==
  \/ HandleUnsafeBlock \/ HandleDerivedBlock \/ HandleDerivationOriginUpdate
  \/ HandleInvalidateBlock \/ HandleBlockReplaced \/ HandleFinalizedSourceUpdate
  \/ GetLogBlock \/ RewindLogBlock \/ ResyncLogs \/ SaveResynced
  \/ RewindInvalidated

Indexer == StartCatchUp \/ FetchBlock \/ StoreFetched

Checker ==
  \E l \in Jobs : \/ FindNextPromotable(l) \/ PromoteCandidate(l)
                  \/ RejectCandidate(l) \/ CandidateWaits(l)

Watcher ==
  \/ WatchLatest \/ WatchFinalized
  \/ FindRewindTarget \/ ReorgTaskFails \/ RewindReorged

Environment ==
  \/ NodeUnsafe \/ NodeOrigin \/ NodeDerive \/ NodeAsksReset
  \/ L1Extends \/ L1Forks

Next == Processor \/ Indexer \/ Checker \/ Watcher \/ RunCommand \/ Environment

Spec == Init /\ [][Next]_vars

-----------------------------------------------------------------------------
\* Both derivation tables and the log table are chains without gaps, and the
\* blocks recorded under a source are the blocks derived from it, in order:
\* what save_derived_block, save_source_block and the three rewinds leave
\* behind, whichever of them fails half way and commits.
StorageLinked ==
  /\ \A n \in DOMAIN db.derived : n # FirstKey(db.derived) =>
       /\ n - 1 \in DOMAIN db.derived
       /\ IsParentOf(db.derived[n - 1].derived, db.derived[n].derived)
  /\ \A n \in DOMAIN db.logs : n # FirstKey(db.logs) =>
       n - 1 \in DOMAIN db.logs /\ IsParentOf(db.logs[n - 1], db.logs[n])
  /\ \A n \in DOMAIN db.traversal :
       /\ n # FirstKey(db.traversal) =>
            /\ n - 1 \in DOMAIN db.traversal
            /\ IsParentOf(db.traversal[n - 1].source, db.traversal[n].source)
       /\ LET nums == db.traversal[n].nums
          IN  \A i \in 1..(Len(nums) - 1) : nums[i] < nums[i + 1]
       /\ {k \in DOMAIN db.derived : db.derived[k].source = db.traversal[n].source}
            = {db.traversal[n].nums[i] : i \in DOMAIN db.traversal[n].nums}
  /\ \A k \in DOMAIN db.derived : Number[db.derived[k].source] \in DOMAIN db.traversal

\* The logs of the blocks up to LocalSafe, on which the cross safety checks of
\* every chain rest, change only when an invalidated block or an L1 reorg is
\* rewound: neither the resync of the safe block handler nor a catch-up of the
\* indexer running beside it touches them.
SafeLogsKept ==
  [][LET h == db.heads["LocalSafe"]
     IN  h # None /\ ~RewindInvalidated /\ ~RewindReorged =>
           \A n \in DOMAIN db.logs :
             n <= Number[h] => n \in DOMAIN db'.logs /\ db'.logs[n] = db.logs[n]]_vars

\* No block with an invalid message is at or below CrossSafe or Finalized,
\* although a checker job validates a block it read by number from the logs and
\* promotes it in a later transaction.  A second reorganisation can break this:
\* update_current_cross_safe looks at the derivation storage only, and
\* reset_safety_head_ref_if_ahead then moves the head to the log block of its
\* own number.
NoInvalidCrossSafe ==
  l1.forks <= 1 =>
    \A l \in {"CrossSafe", "Finalized"} :
      db.heads[l] # None => Ancestors[db.heads[l]] \cap Bad = {}

\* LocalSafe is a block of both storages: save_derived_block moves it only when
\* they agree, and no rewind or resync takes the block away from under it, up to
\* a second reorganisation (initialise_derivation_storage does not look at the
\* logs).  As long as L1 has not been reorganised, all five heads agree with the
\* two storages and with each other, and Finalized was derived from finalized
\* L1.
HeadsJustified ==
  LET h == db.heads
  IN  /\ l1.forks <= 1 /\ h["LocalSafe"] # None =>
           HasLogBlock(db, h["LocalSafe"]) /\ HasPair(db, h["LocalSafe"])
      /\ l1.forks = 0 =>
        /\ \A l \in Levels : h[l] # None => HasLogBlock(db, h[l])
        /\ \A l \in {"CrossSafe", "Finalized"} : h[l] # None => HasPair(db, h[l])
        /\ Number[h["CrossSafe"]] <= Number[h["LocalSafe"]]
        /\ h["Finalized"] # None =>
             /\ Number[h["Finalized"]] <= Number[h["CrossSafe"]]
             /\ OnChain(DerivedToSource(db, h["Finalized"]), l1.final)
=============================================================================
