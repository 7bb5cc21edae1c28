----------------------------- MODULE CrossSafety -----------------------------
(***************************************************************************)
(* The supervisor across chains.  Each chain has the database of ChainDb;  *)
(* for each chain a CrossSafetyCheckerJob per level validates the messages *)
(* a block executes against the databases of the chains they come from,    *)
(* and promotes the block.  The job reads several times, and the other     *)
(* chains move between its reads.  The RPC methods that answer from the    *)
(* databases of all chains are operators of the state.                     *)
(*                                                                         *)
(* What a chain's own processor does is ChainProcessor; here its effects   *)
(* on the storage are taken one operation at a time, in any order.         *)
(***************************************************************************)
EXTENDS ChainDb, SequencesExt, FiniteSetsExt

CONSTANTS
  Chains,         \* the dependency set
  ChainOf,        \* the chain of a block
  Receipts,       \* the logs of a block's receipts, in order
  Time,           \* the timestamp of a block
  BlockTime,      \* of every chain
  InteropTime,    \* of every chain
  ExpiryWindow,   \* DependencySet::get_message_expiry_window
  Activation,     \* per chain, the pair its storage starts from
  Scenarios,      \* the blocks, sources and jobs of a behaviour
  AccessLists,    \* the access lists asked about
  Descriptors     \* the executing descriptors they are asked for

VARIABLES dbs, checker, invalid, invalidated, l1, rewound

safetyVars == <<dbs, checker, invalid, invalidated, l1, rewound>>

-----------------------------------------------------------------------------
(***************************************************************************)
(* Log indexing.  A log hash stands for the address and the payload it is  *)
(* computed from.                                                          *)
(***************************************************************************)
LogHash(address, payload) == <<address, payload>>

\* parse_log_to_executing_message: an event of the inbox, in its own form.
ExecutingMessage(log) ==
  IF log.address = "inbox" /\ log.event # None
  THEN [chain |-> log.event.chain, number |-> log.event.number,
        index |-> log.event.index, time |-> log.event.time,
        hash |-> LogHash(log.event.origin, log.event.payload)]
  ELSE None

\* process_and_store_logs: the entries of a block, indexed across receipts.
LogEntries(b) ==
  [i \in DOMAIN Receipts[b] |->
     [index |-> i - 1,
      hash |-> LogHash(Receipts[b][i].address, Receipts[b][i].payload),
      message |-> ExecutingMessage(Receipts[b][i])]]

\* LogProvider::get_logs of a number nothing is stored for has no rows.
GetLogs(db, n) == IF n \in DOMAIN db.logs THEN LogEntries(db.logs[n]) ELSE << >>

\* LogProvider::get_log seeks the first entry from the index on.
GetLog(db, n, index) ==
  LET found == SelectSeq(GetLogs(db, n), LAMBDA e : e.index >= index)
  IN  IF found = << >> THEN None ELSE Head(found)

Messages(db, n) ==
  LET executing == SelectSeq(GetLogs(db, n), LAMBDA e : e.message # None)
  IN  [i \in DOMAIN executing |-> executing[i].message]

-----------------------------------------------------------------------------
\* RollupConfig::is_post_interop: a whole block after the activation.
IsPostInterop(t) == Max({t - BlockTime, 0}) >= InteropTime

\* Config::validate_interop_timestamps.
ValidTimestamps(initChain, initTime, execChain, execTime, timeout) ==
  /\ initChain \in Chains /\ IsPostInterop(initTime)
  /\ execChain \in Chains /\ IsPostInterop(execTime)
  /\ initTime <= execTime
  /\ initTime + ExpiryWindow >= execTime + timeout

\* CrossSafetyChecker::verify_message_dependency.
MutVerifyDependency(level, m) ==
  IF dbs[m.chain].heads["LocalUnsafe"] = None THEN "Storage"
  ELSE IF Number[dbs[m.chain].heads["LocalUnsafe"]] < m.number
       THEN "DependencyNotSafe" ELSE "Ok"

VerifyDependency(level, m) ==
  IF dbs[m.chain].heads[level] = None THEN "Storage"
  ELSE IF Number[dbs[m.chain].heads[level]] < m.number
       THEN "DependencyNotSafe" ELSE "Ok"

\* CrossSafetyChecker::validate_executing_message, on the initiating block.
ValidateMessage(init, m) ==
  LET log == GetLog(dbs[m.chain], m.number, m.index)
  IN  IF Time[init] # m.time \/ log = None \/ log.hash # m.hash
      THEN "Validation" ELSE "Ok"

\* The first error of several checks made in order.
FirstError(results) ==
  LET errors == SelectSeq(results, LAMBDA r : r # "Ok")
  IN  IF errors = << >> THEN "Ok" ELSE Head(errors)

\* check_cyclic_dependency from current back to the candidate, over blocks of
\* the candidate's time that are not at the level yet.
RECURSIVE Cyclic(_, _, _, _)
Cyclic(level, candidate, current, visited) ==
  LET c    == ChainOf[current]
      head == dbs[c].heads[level]
      ms   == Messages(dbs[c], Number[current])
  IN  CASE Time[current] # Time[candidate] \/ current \in visited -> "Ok"
        [] current = candidate -> "Validation"
        [] head = None -> "Storage"
        [] Number[head] >= Number[current] -> "Ok"
        [] OTHER -> FirstError([i \in DOMAIN ms |->
             IF ms[i].number \notin DOMAIN dbs[ms[i].chain].logs THEN "Storage"
             ELSE Cyclic(level, candidate, dbs[ms[i].chain].logs[ms[i].number],
                         visited \cup {current})])

-----------------------------------------------------------------------------
(***************************************************************************)
(* CrossSafetyCheckerJob::promote_next_block of chain c at a level.  The   *)
(* job is at one of its reads of the databases: the candidate, the logs of *)
(* the candidate, and for each message left the head of the initiating     *)
(* chain and then the initiating block and log.                            *)
(***************************************************************************)
LowerBound(level) == IF level = "CrossUnsafe" THEN "LocalUnsafe" ELSE "LocalSafe"

Job(c, level, at) == checker[c][level] # None /\ checker[c][level].at = at
SetJob(c, level, job) == checker' = [checker EXCEPT ![c][level] = job]

\* find_next_promotable_block.
FindNextPromotableBlock(c, level) ==
  LET head  == dbs[c].heads[level]
      upper == dbs[c].heads[LowerBound(level)]
  IN  /\ level \in l1.scenario.jobs
      /\ checker[c][level] = None
      /\ head # None /\ upper # None
      /\ Number[head] < Number[upper]
      /\ Number[head] + 1 \in DOMAIN dbs[c].logs
      /\ SetJob(c, level, [at |-> "logs", block |-> dbs[c].logs[Number[head] + 1],
                           left |-> << >>])
      /\ UNCHANGED <<dbs, invalid, invalidated, l1, rewound>>

\* map_dependent_block reads the logs by the candidate's number.
ReadLogs(c, level) ==
  /\ Job(c, level, "logs")
  /\ SetJob(c, level, [checker[c][level] EXCEPT !.at = "head",
                         !.left = Messages(dbs[c], Number[checker[c][level].block])])
  /\ UNCHANGED <<dbs, invalid, invalidated, l1, rewound>>

\* A validation error invalidates the block, for the cross safe job only; any
\* other error leaves the block to a later attempt.
Ends(c, level, error) ==
  /\ SetJob(c, level, None)
  /\ invalid' = IF error = "Validation" /\ level = "CrossSafe"
                THEN [invalid EXCEPT ![c] = @ \cup {checker[c][level].block}]
                ELSE invalid
  /\ UNCHANGED <<dbs, invalidated, l1, rewound>>

\* Steps 1 and 2 of validate_block.
CheckDependency(c, level) ==
  /\ Job(c, level, "head")
  /\ checker[c][level].left # << >>
  /\ LET m     == Head(checker[c][level].left)
         error == IF ~ValidTimestamps(m.chain, m.time, c, Time[checker[c][level].block], 0)
                  THEN "Validation" ELSE VerifyDependency(level, m)
     IN  IF error # "Ok" THEN Ends(c, level, error)
         ELSE /\ SetJob(c, level, [checker[c][level] EXCEPT !.at = "message"])
              /\ UNCHANGED <<dbs, invalid, invalidated, l1, rewound>>

\* Steps 3 to 5 of validate_block.
CheckMessage(c, level) ==
  /\ Job(c, level, "message")
  /\ LET m     == Head(checker[c][level].left)
         logs  == dbs[m.chain].logs
         error == IF m.number \notin DOMAIN logs THEN "Storage"
                  ELSE FirstError(<<ValidateMessage(logs[m.number], m),
                                    Cyclic(level, checker[c][level].block,
                                           logs[m.number], {})>>)
     IN  IF error # "Ok" THEN Ends(c, level, error)
         ELSE /\ SetJob(c, level, [checker[c][level] EXCEPT !.at = "head", !.left = Tail(@)])
              /\ UNCHANGED <<dbs, invalid, invalidated, l1, rewound>>

\* update_and_emit_event of the two promoters.
Promote(c, level) ==
  /\ Job(c, level, "head")
  /\ checker[c][level].left = << >>
  /\ dbs' = [dbs EXCEPT ![c] = UpdateCurrentCross(@, level, checker[c][level].block).db]
  /\ SetJob(c, level, None)
  /\ UNCHANGED <<invalid, invalidated, l1, rewound>>

-----------------------------------------------------------------------------
(***************************************************************************)
(* What the chain's processor, its node and L1 do to its storage.          *)
(***************************************************************************)
Writes(c, tx) ==
  /\ tx.err = "Ok" /\ tx.db # dbs[c]
  /\ dbs' = [dbs EXCEPT ![c] = tx.db]

Blocks(c) == {b \in l1.scenario.blocks : ChainOf[b] = c}

\* UnsafeBlockHandler; the activation block starts the log storage.
StoreUnsafe(c) ==
  /\ invalidated[c] = None
  /\ \E b \in Blocks(c) :
       Writes(c, IF b = Activation[c].derived THEN InitialiseLogStorage(dbs[c], b)
                 ELSE StoreBlockLogs(dbs[c], b))
  /\ UNCHANGED <<checker, invalid, invalidated, l1, rewound>>

\* SafeBlockHandler.  A block that conflicts with the logs rewinds them, is
\* indexed and saved again.
Derive(db, p) ==
  LET tx      == SaveDerivedBlock(db, p)
      rewind  == RewindLogStorage(tx.db, tx.db.logs[Number[p.derived]])
      stored  == StoreBlockLogs(rewind.db, p.derived)
  IN  IF tx.err # "ReorgRequired" THEN tx
      ELSE IF rewind.err # "Ok" THEN rewind
      ELSE IF stored.err # "Ok" THEN stored ELSE SaveDerivedBlock(stored.db, p)

DeriveBlock(c) ==
  /\ invalidated[c] = None
  /\ \E b \in Blocks(c) :
       Writes(c, IF b = Activation[c].derived
                 THEN InitialiseDerivationStorage(dbs[c], Activation[c])
                 ELSE IF IsEmpty(dbs[c].traversal) THEN Commit(dbs[c], "DatabaseNotInitialised")
                 ELSE Derive(dbs[c], Pair(LatestSource(dbs[c]), b)))
  /\ UNCHANGED <<checker, invalid, invalidated, l1, rewound>>

\* OriginHandler.
UpdateOrigin(c) ==
  /\ invalidated[c] = None
  /\ \E s \in l1.canonical : Writes(c, SaveSourceBlock(dbs[c], s))
  /\ UNCHANGED <<checker, invalid, invalidated, l1, rewound>>

\* InvalidationHandler.
Invalidate(c) ==
  \E b \in invalid[c] :
    LET tx == Rewind(dbs[c], b)
    IN  /\ invalid' = [invalid EXCEPT ![c] = @ \ {b}]
        /\ IF invalidated[c] # None \/ DerivedPairError(dbs[c], b) # "Ok"
           THEN UNCHANGED <<dbs, invalidated>>
           ELSE /\ dbs' = [dbs EXCEPT ![c] = tx.db]
                /\ invalidated' = IF tx.err # "Ok" THEN invalidated
                                  ELSE [invalidated EXCEPT ![c] =
                                          Pair(DerivedToSource(dbs[c], b), b)]
        /\ UNCHANGED <<checker, l1, rewound>>

\* ReplacementHandler, for the deposits-only block the node builds.
Replace(c) ==
  /\ invalidated[c] # None
  /\ \E b \in Blocks(c) :
       LET stored == StoreBlockLogs(dbs[c], b)
           saved  == SaveDerivedBlock(stored.db, Pair(invalidated[c].source, b))
       IN  /\ Parent[b] = Parent[invalidated[c].derived]
           /\ Receipts[b] = << >>
           /\ dbs' = [dbs EXCEPT ![c] = IF stored.err = "Ok" THEN saved.db ELSE stored.db]
           /\ invalidated' = IF stored.err = "Ok" /\ saved.err = "Ok"
                             THEN [invalidated EXCEPT ![c] = None] ELSE invalidated
  /\ UNCHANGED <<checker, invalid, l1, rewound>>

\* L1 switches to its other branch, once.
L1Reorg ==
  /\ l1.canonical # l1.scenario.fork
  /\ l1' = [l1 EXCEPT !.canonical = l1.scenario.fork]
  /\ UNCHANGED <<dbs, checker, invalid, invalidated, rewound>>

\* The reorg task of a chain with an orphaned source.
RewindReorged(c) ==
  LET orphans == {n \in DOMAIN dbs[c].traversal : dbs[c].traversal[n].source \notin l1.canonical}
      target  == dbs[c].traversal[Min(orphans)].source
  IN  /\ orphans # {}
      /\ dbs' = [dbs EXCEPT ![c] = RewindToSource(@, target).db]
      /\ rewound' = rewound \cup {c}
      /\ UNCHANGED <<checker, invalid, invalidated, l1>>

-----------------------------------------------------------------------------
(***************************************************************************)
(* supervisor_checkAccessList.  An entry is a lookup, a chain id extension *)
(* of zeroes, a checksum or something else; a checksum stands for the      *)
(* access and the log hash it is computed from.                            *)
(***************************************************************************)
Checksum(access, hash) ==
  [chain |-> access.chain, number |-> access.number, time |-> access.time,
   index |-> access.index, hash |-> hash]

\* parse_access_list: groups of a lookup, at most one extension, a checksum.
ParseEntry(group, e) ==
  CASE group.error # "Ok" -> group
    [] e.type = "lookup" ->
         IF group.lookup # None THEN [group EXCEPT !.error = "MalformedEntry"]
         ELSE [group EXCEPT !.lookup = e.id]
    [] e.type = "extension" ->
         IF group.lookup = None \/ group.extended
         THEN [group EXCEPT !.error = "MalformedEntry"]
         ELSE [group EXCEPT !.extended = TRUE]
    [] e.type = "checksum" ->
         IF group.lookup = None THEN [group EXCEPT !.error = "MalformedEntry"]
         ELSE [group EXCEPT !.list = Append(@, [id |-> group.lookup, checksum |-> e.id]),
                            !.lookup = None, !.extended = FALSE]
    [] OTHER -> [group EXCEPT !.error = "UnexpectedType"]

ParseAccessList(entries) ==
  LET group == FoldLeft(ParseEntry, [list |-> << >>, lookup |-> None, extended |-> FALSE,
                                     error |-> "Ok"], entries)
  IN  IF group.error = "Ok" /\ group.lookup # None
      THEN [group EXCEPT !.error = "UnexpectedEnd"] ELSE group

\* verify_safety_level.
VerifySafetyLevel(c, b, level) ==
  IF dbs[c].heads[level] = None THEN "Storage"
  ELSE IF Number[dbs[c].heads[level]] < Number[b] THEN "ConflictingData" ELSE "Ok"

\* The checks of one access of Supervisor::check_access_list, in order.
ExecutingChain(id, desc) == IF desc.chain = None THEN id.chain ELSE desc.chain

MutCheckAccess(access, level, desc) ==
  LET id  == access.id
      db  == dbs[id.chain]
      log == GetLog(db, id.number, id.index)
  IN  IF ~ValidTimestamps(id.chain, id.time, ExecutingChain(id, desc), desc.time,
                          desc.timeout)
      THEN "ConflictingData"
      ELSE IF id.number \notin DOMAIN db.logs \/ log = None THEN "MissedData"
      ELSE IF access.checksum # Checksum(id, log.hash) THEN "ConflictingData"
      ELSE IF level = "LocalUnsafe" THEN "Ok"
      ELSE VerifySafetyLevel(id.chain, db.logs[id.number], level)

CheckAccess(access, level, desc) ==
  LET id  == access.id
      db  == dbs[id.chain]
      log == GetLog(db, id.number, id.index)
  IN  IF ~ValidTimestamps(id.chain, id.time, ExecutingChain(id, desc), desc.time,
                          desc.timeout)
      THEN "ConflictingData"
      ELSE IF id.number \notin DOMAIN db.logs THEN "MissedData"
      ELSE IF Time[db.logs[id.number]] # id.time THEN "ConflictingData"
      ELSE IF log = None THEN "MissedData"
      ELSE IF access.checksum # Checksum(id, log.hash) THEN "ConflictingData"
      ELSE IF level = "LocalUnsafe" THEN "Ok"
      ELSE VerifySafetyLevel(id.chain, db.logs[id.number], level)

CheckAccessList(entries, level, desc) ==
  LET parsed == ParseAccessList(entries)
  IN  IF parsed.error # "Ok" THEN parsed.error
      ELSE FirstError([i \in DOMAIN parsed.list |-> CheckAccess(parsed.list[i], level, desc)])

-----------------------------------------------------------------------------
(***************************************************************************)
(* The RPC methods on the heads of the chains.                             *)
(***************************************************************************)
\* get_super_head needs the LocalUnsafe head; the others may be missing.
Initialised(c) == dbs[c].heads["LocalUnsafe"] # None

TimeAt(c, level) == IF dbs[c].heads[level] = None THEN 0 ELSE Time[dbs[c].heads[level]]

\* sync_status: the lowest of the chains, without the ones not initialised.
SafeTimestamp == Min({TimeAt(c, "CrossSafe") : c \in {d \in Chains : Initialised(d)}})

MinSyncedL1 ==
  LET synced == {c \in Chains : Initialised(c)}
      number(c) == IF IsEmpty(dbs[c].traversal) THEN 0 ELSE Number[LatestSource(dbs[c])]
      lowest == CHOOSE c \in synced : \A d \in synced : number(c) <= number(d)
  IN  IF IsEmpty(dbs[lowest].traversal) THEN None ELSE LatestSource(dbs[lowest])

\* local_unsafe, local_safe, cross_safe and finalized of the service.
HeadAt(c, level) == dbs[c].heads[level]

\* derived_to_source_block and latest_block_from: None is an error.
DerivedToSourceBlock(c, b) ==
  IF DerivedPairError(dbs[c], b) # "Ok" THEN None ELSE DerivedToSource(dbs[c], b)

LatestBlockFrom(c, s) ==
  IF AtSourceError(dbs[c], s) # "Ok" THEN None ELSE LatestDerivedAtSource(dbs[c], s)

\* local_safe and cross_safe: the head with its source.
SafePair(c, level) ==
  LET head == HeadAt(c, level)
  IN  IF head = None \/ DerivedToSourceBlock(c, head) = None THEN None
      ELSE Pair(DerivedToSourceBlock(c, head), head)

\* all_safe_derived_at: the last block each chain derived by a source.
AllSafeDerivedAt(s) ==
  IF \E c \in Chains : LatestBlockFrom(c, s) = None THEN None
  ELSE [c \in Chains |-> LatestBlockFrom(c, s)]

\* The node's block at a time: the last one it has indexed by then.
NodeBlockAt(c, t) ==
  LET earlier == {n \in DOMAIN dbs[c].logs : Time[dbs[c].logs[n]] <= t}
  IN  IF earlier = {} THEN None ELSE dbs[c].logs[Max(earlier)]

\* super_root_at_timestamp: the block of each chain and the highest source
\* they are derived from, or an error.
SuperRootAt(t) ==
  LET block == [c \in Chains |-> NodeBlockAt(c, t)]
      ok(c) == block[c] # None /\ DerivedPairError(dbs[c], block[c]) = "Ok"
  IN  IF \E c \in Chains : ~ok(c) THEN None
      ELSE [blocks |-> block,
            source |-> Max({Number[DerivedToSource(dbs[c], block[c])] : c \in Chains})]

-----------------------------------------------------------------------------
SafetyInit ==
  /\ dbs = [c \in Chains |-> EmptyDb]
  /\ checker = [c \in Chains |-> [level \in {"CrossUnsafe", "CrossSafe"} |-> None]]
  /\ invalid = [c \in Chains |-> {}]
  /\ invalidated = [c \in Chains |-> None]
  /\ l1 \in {[scenario |-> s, canonical |-> s.main] : s \in Scenarios}
  /\ rewound = {}

SafetyNext ==
  \/ L1Reorg
  \/ \E c \in Chains :
       \/ StoreUnsafe(c) \/ DeriveBlock(c) \/ UpdateOrigin(c)
       \/ Invalidate(c) \/ Replace(c) \/ RewindReorged(c)
       \/ \E level \in {"CrossUnsafe", "CrossSafe"} :
            \/ FindNextPromotableBlock(c, level) \/ ReadLogs(c, level)
            \/ CheckDependency(c, level) \/ CheckMessage(c, level)
            \/ Promote(c, level)

-----------------------------------------------------------------------------
\* The blocks of c that are cross safe, after the one the storage starts from.
CrossSafeBlocks(c) ==
  IF dbs[c].heads["CrossSafe"] = None THEN {}
  ELSE {b \in Range(dbs[c].logs) :
          /\ Number[b] > Number[Activation[c].derived]
          /\ Number[b] <= Number[dbs[c].heads["CrossSafe"]]}

\* The message m was sent: its chain's log storage holds the log it names.
Sent(m) ==
  /\ m.number \in DOMAIN dbs[m.chain].logs
  /\ ValidateMessage(dbs[m.chain].logs[m.number], m) = "Ok"

\* Cross safety is closed under dependencies: every message that a cross safe
\* block executes was sent, within its expiry, by a block that is cross safe in
\* its own chain, however the jobs of the chains, reorgs of their unsafe blocks
\* and invalidations interleave with the reads of validate_block.  A chain that
\* an L1 reorg rewound takes back what others relied on, and a job that reads
\* the logs of its candidate while they are rewound finds no message to check,
\* so blocks and messages of such a chain are left out.
DependenciesSafe ==
  \A c \in Chains \ rewound : \A b \in CrossSafeBlocks(c) :
    \A m \in Range(Messages(dbs[c], Number[b])) :
      \/ m.chain \in rewound
      \/ /\ ValidTimestamps(m.chain, m.time, c, Time[b], 0)
         /\ Sent(m)
         /\ VerifyDependency("CrossSafe", m) = "Ok"

\* check_access_list promises what validate_block will find: an access list it
\* accepts at a level names messages that a block at the descriptor's time, and
\* up to its timeout later, passes validation with at that level.
AccessListSound ==
  \A entries \in AccessLists, desc \in Descriptors, level \in {"CrossUnsafe", "CrossSafe"} :
    CheckAccessList(entries, level, desc) = "Ok" =>
      \A i \in DOMAIN ParseAccessList(entries).list :
        LET m == ParseAccessList(entries).list[i].checksum
        IN  /\ Sent(m)
            /\ VerifyDependency(level, m) = "Ok"
            /\ \A t \in desc.time .. desc.time + desc.timeout :
                 ValidTimestamps(m.chain, m.time, ExecutingChain(m, desc), t, 0)

\* What sync_status reports can be asked for.  Once every chain has a database,
\* super_root_at_timestamp answers for every time from the activation up to the
\* safe timestamp, and only with blocks that are cross safe; each cross safe
\* head has its source; and, L1 not having reorged, all_safe_derived_at answers
\* for the lowest synced L1 block.
StatusServed ==
  (\A c \in Chains : Initialised(c)) =>
    /\ \A t \in Max({Time[Activation[c].derived] : c \in Chains}) .. SafeTimestamp :
         /\ SuperRootAt(t) # None
         /\ \A c \in Chains : Number[SuperRootAt(t).blocks[c]]
                               <= Number[dbs[c].heads["CrossSafe"]]
    /\ \A c \in Chains :
         dbs[c].heads["CrossSafe"] # None => SafePair(c, "CrossSafe") # None
    /\ MinSyncedL1 # None /\ l1.canonical = l1.scenario.main =>
         AllSafeDerivedAt(MinSyncedL1) # None
=============================================================================
