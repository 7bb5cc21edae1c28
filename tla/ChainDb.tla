------------------------------- MODULE ChainDb -------------------------------
(***************************************************************************)
(* The supervisor's database of one chain, crates/supervisor/storage: the  *)
(* log storage, the derivation storage and the safety head references.     *)
(* Every method of ChainDb is one transaction, so here it is one operator  *)
(* from a database to the database it commits and the error it returns.    *)
(* The logs of a block are a function of the block and are left out.       *)
(***************************************************************************)
EXTENDS Naturals, Sequences, FiniteSets

CONSTANTS
  Block,      \* the L2 blocks of the chain, a tree
  Source,     \* the L1 blocks, a tree
  Number,     \* the number of a block or source
  Parent,     \* the parent of a block or source, or None
  None

ASSUME TreeAssumption ==
  /\ Number \in [Block \cup Source -> Nat]
  /\ Parent \in [Block \cup Source -> Block \cup Source \cup {None}]
  /\ None \notin Block \cup Source
  /\ Block \cap Source = {}
  /\ \A b \in Block \cup Source :
        \/ Parent[b] = None
        \/ /\ Number[b] = Number[Parent[b]] + 1
           /\ b \in Block <=> Parent[b] \in Block

\* BlockInfo::is_parent_of; the numbers follow from the hashes.
IsParentOf(a, b) == Parent[b] = a

Pair(s, d) == [source |-> s, derived |-> d]

DerivedRefPair == [source : Source, derived : Block]

-----------------------------------------------------------------------------
(***************************************************************************)
(* The tables, keyed by number: logs is BlockRefs, derived is              *)
(* DerivedBlocks, traversal is BlockTraversal (a source and the numbers of *)
(* the blocks derived from it, in order), heads is SafetyHeadRefs.         *)
(***************************************************************************)
Levels == {"LocalUnsafe", "CrossUnsafe", "LocalSafe", "CrossSafe", "Finalized"}

UnsafeLevels == {"LocalUnsafe", "CrossUnsafe"}

EmptyTable == [n \in {} |-> None]

EmptyDb == [logs |-> EmptyTable, derived |-> EmptyTable,
            traversal |-> EmptyTable, heads |-> [l \in Levels |-> None]]

\* The last key of a table, its last row, and its rows before key n.
LastKey(t)     == CHOOSE n \in DOMAIN t : \A m \in DOMAIN t : m <= n
FirstKey(t)    == CHOOSE n \in DOMAIN t : \A m \in DOMAIN t : n <= m
LastRow(t)     == t[LastKey(t)]
IsEmpty(t)     == DOMAIN t = {}
Truncate(t, n) == [m \in {k \in DOMAIN t : k < n} |-> t[m]]
Put(t, n, row) == [m \in DOMAIN t \cup {n} |-> IF m = n THEN row ELSE t[m]]

\* reth's Database::update commits what the closure wrote and hands its result
\* through, so an error returned half way does not undo the writes before it.
Commit(db, err) == [db |-> db, err |-> err]

-----------------------------------------------------------------------------
\* SafetyHeadRefProvider.

\* update_safety_head_ref: never to a lower number.
UpdateHead(heads, l, b) ==
  IF heads[l] # None /\ Number[heads[l]] > Number[b]
  THEN heads
  ELSE [heads EXCEPT ![l] = b]

\* reset_safety_head_ref_if_ahead, for several levels.
ResetHeads(heads, ls, b) ==
  [l \in Levels |->
     IF l \in ls /\ heads[l] # None /\ Number[heads[l]] >= Number[b]
     THEN b ELSE heads[l]]

\* remove_safety_head_ref, for several levels.
RemoveHeads(heads, ls) == [l \in Levels |-> IF l \in ls THEN None ELSE heads[l]]

\* What the three rewinds do to the heads once the logs are cut.
RewindHeads(heads, ls, logs) ==
  IF IsEmpty(logs) THEN RemoveHeads(heads, ls)
                   ELSE ResetHeads(heads, ls, LastRow(logs))

-----------------------------------------------------------------------------
\* LogProvider.

HasLogBlock(db, b) == Number[b] \in DOMAIN db.logs /\ db.logs[Number[b]] = b

\* LogProvider::store_block_logs: how it ends, and the rows it leaves.
StoreLogsError(logs, b) ==
  IF IsEmpty(logs) THEN "DatabaseNotInitialised"
  ELSE IF LastKey(logs) >= Number[b]
       THEN IF Number[b] \notin DOMAIN logs THEN "EntryNotFound"
            ELSE IF logs[Number[b]] = b THEN "Ok" ELSE "ConflictError"
       ELSE IF IsParentOf(LastRow(logs), b) THEN "Ok" ELSE "BlockOutOfOrder"

\* LogProvider::rewind_to removes b and everything after it.
RewindLogsError(logs, b) ==
  IF ~IsEmpty(logs) /\ Number[b] > LastKey(logs) THEN "FutureData"
  ELSE IF Number[b] \in DOMAIN logs /\ logs[Number[b]] # b
       THEN "ConflictError" ELSE "Ok"

\* ChainDb::initialise_log_storage.  The anchor is looked up at number 0.
InitialiseLogStorage(db, b) ==
  IF 0 \in DOMAIN db.logs /\ db.logs[0] # b
  THEN Commit(db, "ConflictError")
  ELSE Commit([db EXCEPT
         !.logs  = IF 0 \in DOMAIN @ THEN @ ELSE Put(@, Number[b], b),
         !.heads = UpdateHead(UpdateHead(@, "LocalUnsafe", b), "CrossUnsafe", b)],
         "Ok")

\* A mutant that overwrites a conflicting row.
MutStoreBlockLogs(db, b) ==
  IF StoreLogsError(db.logs, b) \in {"Ok", "ConflictError"}
  THEN Commit([db EXCEPT
         !.logs  = Put(@, Number[b], b),
         !.heads = UpdateHead(@, "LocalUnsafe", b)], "Ok")
  ELSE Commit(db, StoreLogsError(db.logs, b))

\* ChainDb::store_block_logs.
StoreBlockLogs(db, b) ==
  IF StoreLogsError(db.logs, b) # "Ok"
  THEN Commit(db, StoreLogsError(db.logs, b))
  ELSE Commit([db EXCEPT
         !.logs  = IF HasLogBlock(db, b) THEN @ ELSE Put(@, Number[b], b),
         !.heads = UpdateHead(@, "LocalUnsafe", b)], "Ok")

-----------------------------------------------------------------------------
\* DerivationProvider.

HasPair(db, b) ==
  Number[b] \in DOMAIN db.derived /\ db.derived[Number[b]].derived = b

\* get_derived_block_pair and derived_to_source.
DerivedPairError(db, b) ==
  IF Number[b] \notin DOMAIN db.derived THEN "EntryNotFound"
  ELSE IF db.derived[Number[b]].derived # b THEN "ConflictError" ELSE "Ok"

DerivedToSource(db, b) == db.derived[Number[b]].source

LatestDerived(db) == LastRow(db.derived).derived
LatestSource(db)  == LastRow(db.traversal).source

\* The sources up to number n some block was derived from.
DerivingSources(db, n) ==
  {m \in DOMAIN db.traversal : m <= n /\ db.traversal[m].nums # << >>}

\* latest_derived_block_at_source, which walks back over sources nothing was
\* derived from.
AtSourceError(db, s) ==
  IF Number[s] \notin DOMAIN db.traversal THEN "EntryNotFound"
  ELSE IF db.traversal[Number[s]].source # s THEN "ConflictError"
  ELSE IF DerivingSources(db, Number[s]) = {} THEN "EntryNotFound"
  ELSE "Ok"

LatestDerivedAtSource(db, s) ==
  LET n == CHOOSE n \in DerivingSources(db, Number[s]) :
             \A m \in DerivingSources(db, Number[s]) : m <= n
      nums == db.traversal[n].nums
  IN  db.derived[nums[Len(nums)]].derived

\* save_source_block_internal: an entry with no derived block yet.
PutSource(db, s) ==
  [db EXCEPT !.traversal = Put(@, Number[s], [source |-> s, nums |-> << >>])]

\* save_derived_block_internal: both tables.
PutDerived(db, p) ==
  [db EXCEPT
     !.derived   = Put(db.derived, Number[p.derived], p),
     !.traversal = [db.traversal EXCEPT ![LastKey(db.traversal)].nums =
                                          Append(@, Number[p.derived])]]

\* DerivationProvider::initialise; again the anchor is looked up at number 0.
InitialiseDerivation(db, p) ==
  IF 0 \in DOMAIN db.derived
  THEN Commit(db, IF db.derived[0] = p THEN "Ok" ELSE "ConflictError")
  ELSE IF LatestSource(PutSource(db, p.source)) # p.source
       THEN Commit(PutSource(db, p.source), "BlockOutOfOrder")
       ELSE Commit(PutDerived(PutSource(db, p.source), p), "Ok")

\* ChainDb::initialise_derivation_storage.
InitialiseDerivationStorage(db, p) ==
  LET tx == InitialiseDerivation(db, p)
  IN  IF tx.err # "Ok" THEN tx
      ELSE Commit([tx.db EXCEPT !.heads =
             UpdateHead(UpdateHead(@, "LocalSafe", p.derived),
                        "CrossSafe", p.derived)], "Ok")

\* DerivationProvider::save_derived_block: how it ends.
SaveDerivedError(db, p) ==
  IF IsEmpty(db.derived) \/ IsEmpty(db.traversal)
  THEN "DatabaseNotInitialised"
  ELSE IF Number[LatestDerived(db)] >= Number[p.derived]
       THEN IF Number[p.derived] \notin DOMAIN db.derived THEN "EntryNotFound"
            ELSE IF db.derived[Number[p.derived]] = p
                 THEN "Ok" ELSE "ConflictError"
  ELSE IF LatestSource(db) = p.source /\ IsParentOf(LatestDerived(db), p.derived)
       THEN "Ok" ELSE "BlockOutOfOrder"

\* ChainDb::save_derived_block: the pair is saved first, and only then compared
\* with the log storage; LocalSafe moves when the two agree.
SaveDerivedBlock(db, p) ==
  IF SaveDerivedError(db, p) # "Ok"
  THEN Commit(db, SaveDerivedError(db, p))
  ELSE LET saved == IF HasPair(db, p.derived) THEN db ELSE PutDerived(db, p)
       IN  IF Number[p.derived] \notin DOMAIN db.logs
           THEN Commit(saved, "FutureData")
           ELSE IF ~HasLogBlock(db, p.derived)
                THEN Commit(saved, "ReorgRequired")
                ELSE Commit([saved EXCEPT !.heads =
                       UpdateHead(@, "LocalSafe", p.derived)], "Ok")

\* A mutant that takes any later source.
MutSaveSourceError(db, s) ==
  IF IsEmpty(db.traversal) THEN "DatabaseNotInitialised"
  ELSE IF Number[LatestSource(db)] >= Number[s]
       THEN IF Number[s] \notin DOMAIN db.traversal THEN "EntryNotFound"
            ELSE IF db.traversal[Number[s]].source = s
                 THEN "Ok" ELSE "ConflictError"
  ELSE "Ok"

\* ChainDb::save_source_block.
SaveSourceError(db, s) ==
  IF IsEmpty(db.traversal) THEN "DatabaseNotInitialised"
  ELSE IF LatestSource(db) = s THEN "Ok"
  ELSE IF Number[LatestSource(db)] > Number[s]
       THEN IF Number[s] \notin DOMAIN db.traversal THEN "EntryNotFound"
            ELSE IF db.traversal[Number[s]].source = s
                 THEN "Ok" ELSE "ConflictError"
  ELSE IF IsParentOf(LatestSource(db), s) THEN "Ok" ELSE "BlockOutOfOrder"

SaveSourceBlock(db, s) ==
  IF SaveSourceError(db, s) = "Ok" /\ Number[s] \notin DOMAIN db.traversal
  THEN Commit(PutSource(db, s), "Ok")
  ELSE Commit(db, SaveSourceError(db, s))

-----------------------------------------------------------------------------
\* HeadRefStorageWriter.

\* A mutant that finalizes the cross safe head whatever its source.
MutFinalizedBySource(db, s) == db.heads["CrossSafe"]

\* update_finalized_using_source; the block it returns is the new finalized
\* block it asks for, whether or not the head moves.
FinalizedBySource(db, s) ==
  IF Number[s] >= Number[DerivedToSource(db, db.heads["CrossSafe"])]
  THEN db.heads["CrossSafe"]
  ELSE LatestDerivedAtSource(db, s)

UpdateFinalizedError(db, s) ==
  IF db.heads["CrossSafe"] = None THEN "FutureData"
  ELSE IF DerivedPairError(db, db.heads["CrossSafe"]) # "Ok"
       THEN DerivedPairError(db, db.heads["CrossSafe"])
  ELSE IF Number[s] >= Number[DerivedToSource(db, db.heads["CrossSafe"])]
       THEN "Ok" ELSE AtSourceError(db, s)

UpdateFinalizedUsingSource(db, s) ==
  IF UpdateFinalizedError(db, s) # "Ok"
  THEN Commit(db, UpdateFinalizedError(db, s))
  ELSE Commit([db EXCEPT !.heads =
         UpdateHead(@, "Finalized", FinalizedBySource(db, s))], "Ok")

\* update_current_cross_unsafe and update_current_cross_safe: a child of the
\* current head that is still in the log, respectively derivation, storage.
CrossHeadError(db, l, b) ==
  IF db.heads[l] = None THEN "FutureData"
  ELSE IF ~IsParentOf(db.heads[l], b) THEN "ConflictError"
  ELSE IF l = "CrossSafe" THEN DerivedPairError(db, b)
  ELSE IF Number[b] \notin DOMAIN db.logs THEN "EntryNotFound"
  ELSE IF HasLogBlock(db, b) THEN "Ok" ELSE "ConflictError"

UpdateCurrentCross(db, l, b) ==
  IF CrossHeadError(db, l, b) # "Ok"
  THEN Commit(db, CrossHeadError(db, l, b))
  ELSE Commit([db EXCEPT !.heads = UpdateHead(@, l, b)], "Ok")

-----------------------------------------------------------------------------
\* StorageRewinder.

\* rewind_log_storage: only above LocalSafe.
RewindLogStorage(db, b) ==
  IF db.heads["LocalSafe"] # None /\ Number[b] <= Number[db.heads["LocalSafe"]]
  THEN Commit(db, "RewindBeyondLocalSafeHead")
  ELSE IF RewindLogsError(db.logs, b) # "Ok"
  THEN Commit(db, RewindLogsError(db.logs, b))
  ELSE LET logs == Truncate(db.logs, Number[b])
       IN  Commit([db EXCEPT !.logs = logs,
                             !.heads = RewindHeads(@, UnsafeLevels, logs)], "Ok")

\* Vec::retain for the numbers below k.
Retain(nums, k) ==
  LET R[i \in 0..Len(nums)] ==
        IF i = 0 THEN << >>
        ELSE IF nums[i] < k THEN Append(R[i - 1], nums[i]) ELSE R[i - 1]
  IN  R[Len(nums)]

\* rewind_block_traversal_to: a source nothing is derived from any more goes,
\* and every later one.
RewindTraversal(traversal, p) ==
  LET n    == Number[p.source]
      kept == Retain(traversal[n].nums, Number[p.derived])
  IN  IF kept = << >> THEN Truncate(traversal, n)
      ELSE Put(Truncate(traversal, n), n, [traversal[n] EXCEPT !.nums = kept])

\* rewind: logs, then derivation, then heads.  The logs are already cut when
\* the derivation storage refuses.
Rewind(db, b) ==
  IF RewindLogsError(db.logs, b) # "Ok"
  THEN Commit(db, RewindLogsError(db.logs, b))
  ELSE LET logs == Truncate(db.logs, Number[b])
       IN  IF DerivedPairError(db, b) # "Ok"
           THEN Commit([db EXCEPT !.logs = logs], DerivedPairError(db, b))
           ELSE Commit([logs      |-> logs,
                        derived   |-> Truncate(db.derived, Number[b]),
                        traversal |-> RewindTraversal(db.traversal,
                                                      db.derived[Number[b]]),
                        heads     |-> RewindHeads(db.heads, Levels, logs)], "Ok")

\* DerivationProvider::rewind_to_source: the first block derived from s or a
\* later source, or None.
FirstDerivedFrom(db, s) ==
  LET later == {m \in DOMAIN db.traversal :
                  m >= Number[s] /\ db.traversal[m].nums # << >>}
      first == CHOOSE m \in later : \A k \in later : m <= k
  IN  IF later = {} THEN None
      ELSE db.derived[db.traversal[first].nums[1]].derived

\* rewind_to_source: derivation first; the heads are only reset when the logs
\* could be cut too.
RewindToSource(db, s) ==
  IF Number[s] \in DOMAIN db.traversal /\ db.traversal[Number[s]].source # s
  THEN Commit(db, "ConflictError")
  ELSE LET target  == FirstDerivedFrom(db, s)
           cut     == [db EXCEPT
                         !.traversal = Truncate(@, Number[s]),
                         !.derived = IF target = None THEN @
                                     ELSE Truncate(@, Number[target])]
           err     == IF target = None THEN "Ok"
                      ELSE RewindLogsError(db.logs, target)
           logs    == IF target = None THEN db.logs
                      ELSE Truncate(db.logs, Number[target])
       IN  IF err # "Ok" THEN Commit(cut, err)
           ELSE Commit([cut EXCEPT !.logs = logs,
                                   !.heads = RewindHeads(@, Levels, logs)], "Ok")
=============================================================================
