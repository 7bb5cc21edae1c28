-------------------------- MODULE SupervisorProofs --------------------------
(***************************************************************************)
(* The storage of the supervisor keeps its shape for every tree of L1 and  *)
(* L2 blocks, any number of reorganisations, invalidations and catch-ups,  *)
(* and every interleaving of the tasks that share it; and nothing but a    *)
(* rewind touches the logs of locally safe blocks.                         *)
(***************************************************************************)
EXTENDS ChainProcessor, StorageProofs

\* The activation block is the genesis of its chain: both storages look their
\* anchor up at number 0.
GenesisActivation == Number[Activation.derived] = 0

-----------------------------------------------------------------------------
(* What the tasks hold between their transactions *)

Event ==
  [kind : {"UnsafeBlock", "InvalidateBlock"}, block : Block]
  \cup [kind : {"DerivedBlock"}, pair : DerivedRefPair]
  \cup [kind : {"DerivationOriginUpdate", "FinalizedSourceUpdate"}, block : Source]
  \cup [kind : {"BlockReplaced"}, invalidated : Block \cup {None}, block : Block]

Stage ==
  {Idle}
  \cup [pc : {"getlog", "invalidate"}, pair : DerivedRefPair]
  \cup [pc : {"rewindlog"}, pair : DerivedRefPair, block : Block]
  \cup [pc : {"resync", "save"}, pair : DerivedRefPair, replacing : BOOLEAN]

CatchUp == [next : Nat, target : Block, block : Block \cup {None}]

Command == [kind : {"Reset", "Invalidate"}, block : Block \cup {None}]

WatchOk == /\ DOMAIN watch = {"latest", "task", "target"}
           /\ watch.task = "rewind" => watch.target \in Source

NodeOk == DOMAIN node = {"tip", "safe", "origin"} /\ node.origin \in Source

L1Ok == /\ DOMAIN l1 = {"tip", "final", "forks", "tree"}
        /\ l1.tip \in Source /\ l1.tree \in Trees

\* The blocks and sources in flight are of the right kind.
TasksOk ==
  /\ events \in Seq(Event) /\ commands \in Seq(Command)
  /\ invalidated \in DerivedRefPair \cup {None}
  /\ proc \in Stage
  /\ spawned \subseteq Block
  /\ catchup \in CatchUp \cup {None}
  /\ WatchOk /\ NodeOk /\ L1Ok

\* The inductive invariant: the tasks interfere only through the database, and
\* every transaction finds and leaves it well formed.
ProcessorInv == StorageOk(db) /\ TasksOk

\* The logs up to LocalSafe stay.
SafeRowsKept ==
  LET h == db.heads["LocalSafe"]
  IN  h # None => \A n \in DOMAIN db.logs : n <= Number[h] =>
                    n \in DOMAIN db'.logs /\ db'.logs[n] = db.logs[n]

\* The ancestors of a source are sources.
LEMMA SourceAncestors ==
  \A s \in Source : Ancestors[s] \subseteq Source
<1> DEFINE bad == {s \in Source : ~(Ancestors[s] \subseteq Source)}
           S == {Number[s] : s \in bad}
<1>1. SUFFICES ASSUME bad # {} PROVE FALSE
  OBVIOUS
<1>2. S \in SUBSET Nat /\ S # {}
  <2>1. \A s \in bad : Number[s] \in Nat
    BY Numbers
  <2> HIDE DEF bad
  <2> QED BY <1>1, <2>1
<1>3. PICK x \in S : \A y \in S : x <= y
  <2> HIDE DEF S
  <2> QED BY <1>2, LeastNumber
<1>4. PICK s \in bad : x = Number[s]
  <2> HIDE DEF bad
  <2> QED BY <1>3
<1>5. Ancestors[s] = {s} \cup IF Parent[s] = None THEN {} ELSE Ancestors[Parent[s]]
  <2> DEFINE f == [b \in Block \cup Source |->
                    {b} \cup IF Parent[b] = None THEN {} ELSE Ancestors[Parent[b]]]
  <2>1. s \in Block \cup Source
    OBVIOUS
  <2>2. f[s] = {s} \cup IF Parent[s] = None THEN {} ELSE Ancestors[Parent[s]]
    BY <2>1
  <2>3. Ancestors = f
    BY AncestorAssumption, ZenonT(30)
  <2> HIDE DEF f
  <2> QED BY <2>2, <2>3
<1>6. Parent[s] # None /\ ~(Ancestors[Parent[s]] \subseteq Source)
  BY <1>5
<1>7. Parent[s] \in bad /\ Number[s] = Number[Parent[s]] + 1
  BY <1>6, Numbers
<1>8. Number[Parent[s]] \in S /\ Number[Parent[s]] \in Nat
  <2> HIDE DEF bad
  <2> QED BY <1>2, <1>7
<1> HIDE DEF S, bad
<1>9. x <= Number[Parent[s]]
  BY <1>3, <1>8
<1> QED BY <1>4, <1>7, <1>8, <1>9

\* A canonical source is a source.
LEMMA CanonicalSource ==
  ASSUME L1Ok, NEW s, Canonical(s)
  PROVE  s \in Source
BY SourceAncestors DEF Canonical, OnChain, L1Ok

\* find_rewind_target returns a source that is stored: its walk stops at the
\* common ancestor at the latest, whose number is not below that of the first
\* source, and takes the source after it.
LEMMA TargetSource ==
  ASSUME StorageOk(db), ~RewindTargetFails, ~Canonical(LatestSource(db)), CommonAncestor # None
  PROVE  RewindTarget \in Source
<1> DEFINE t == db.traversal
           last == LastKey(t)
           x == Number[CommonAncestor]
           stops == {n \in DOMAIN t : n < last /\ (n <= x \/ Canonical(t[n].source))}
           stop == CHOOSE n \in stops : \A m \in stops : m <= n
<1>0. /\ DerivationOk(db.derived, t) /\ DerivedOk(db.derived) /\ SourcesOk(t)
      /\ ~IsEmpty(db.derived) /\ ~IsEmpty(t)
  BY DEF StorageOk, DerivationOk, RewindTargetFails
<1>1. PICK f, l \in Nat : f <= l /\ DOMAIN t = f..l
  BY <1>0 DEF SourcesOk, NoGaps, IsEmpty
<1>2. FirstKey(t) = f /\ last = l
  BY <1>1, Keys
<1>3. f < l
  <2>1. LastKey(t) # FirstKey(t)
    BY DEF RewindTargetFails
  <2> QED BY <1>1, <1>2, <2>1
<1>4. \E k \in DOMAIN db.derived : CommonAncestor = db.derived[k].source
  <2>1. CASE db.heads["Finalized"] # None
    <3>1. Number[db.heads["Finalized"]] \in DOMAIN db.derived
      BY <2>1 DEF RewindTargetFails, DerivedPairError
    <3> QED BY <2>1, <3>1 DEF CommonAncestor, DerivedToSource
  <2>2. CASE db.heads["Finalized"] = None
    <3>1. PICK z \in Nat : DOMAIN db.derived = 0..z
      BY <1>0 DEF DerivedOk, FromZero, IsEmpty
    <3>2. FirstKey(db.derived) \in DOMAIN db.derived
      BY <3>1, SMTT(40) DEF FirstKey
    <3>3. Number[ActivationBlock] \in DOMAIN db.derived
      BY <1>0, <3>2 DEF ActivationBlock, DerivedOk
    <3>4. CommonAncestor = DerivedToSource(db, ActivationBlock)
      BY <2>2 DEF CommonAncestor
    <3> QED BY <3>3, <3>4 DEF DerivedToSource
  <2> QED BY <2>1, <2>2
<1>5. x \in f..l
  <2>1. x \in DOMAIN t
    BY <1>0, <1>4, ZenonT(30) DEF DerivationOk, Recorded
  <2> QED BY <1>1, <2>1
<1>6. stops # {} /\ stops \in SUBSET Nat /\ \A n \in stops : n <= l
  <2> HIDE DEF t, last, x
  <2>1. f \in stops
    BY <1>1, <1>2, <1>3, <1>5
  <2> QED BY <1>1, <1>2, <2>1
<1>7. stop \in stops
  <2> HIDE DEF stops
  <2>1. \E n \in stops : \A m \in stops : m <= n
    BY <1>6, GreatestNumber, ZenonT(30)
  <2> QED BY <2>1
<1>8. stop + 1 \in DOMAIN t
  <2> HIDE DEF stop, t, last, x
  <2> QED BY <1>1, <1>2, <1>7
<1>9. t[stop + 1].source \in Source
  <2> HIDE DEF stop
  <2> QED BY <1>0, <1>8, Typed
<1> QED BY <1>9 DEF RewindTarget

\* What an event carries, by kind.
LEMMA EventFacts ==
  ASSUME NEW e \in Event
  PROVE  /\ e.kind \in {"UnsafeBlock", "InvalidateBlock", "BlockReplaced"} => e.block \in Block
         /\ e.kind = "DerivedBlock" => e.pair \in DerivedRefPair
         /\ e.kind \in {"DerivationOriginUpdate", "FinalizedSourceUpdate"} => e.block \in Source
<1> HIDE DEF DerivedRefPair
<1> QED BY DEF Event

\* What a handler holds while it waits.
LEMMA StageFacts ==
  ASSUME NEW q \in Stage
  PROVE  /\ q.pc # "idle" => q.pair \in DerivedRefPair
         /\ q.pc = "rewindlog" => q.block \in Block
         /\ q.pc = "resync" => [q EXCEPT !.pc = "save"] \in Stage
<1> HIDE DEF DerivedRefPair
<1> QED BY DEF Stage, Idle

\* The stages the handlers enter.
LEMMA StageForms ==
  ASSUME NEW p \in DerivedRefPair
  PROVE  /\ Idle \in Stage
         /\ [pc |-> "getlog", pair |-> p] \in Stage
         /\ [pc |-> "invalidate", pair |-> p] \in Stage
         /\ \A b \in Block : [pc |-> "rewindlog", pair |-> p, block |-> b] \in Stage
         /\ \A r \in BOOLEAN : [pc |-> "resync", pair |-> p, replacing |-> r] \in Stage
BY DEF Stage

\* The processor takes an event of a kind.
LEMMA TakesEvent ==
  ASSUME TasksOk, NEW kind, Takes(kind)
  PROVE  Head(events) \in Event /\ Head(events).kind = kind /\ events' \in Seq(Event)
<1>1. events \in Seq(Event) /\ events # << >>
  BY DEF TasksOk, Takes
<1>2. Head(events) \in Event /\ Tail(events) \in Seq(Event)
  BY <1>1
<1> QED BY <1>2 DEF Takes

\* A transaction that leaves the logs leaves the safe ones.
LEMMA SameLogs ==
  ASSUME StorageOk(db), db'.logs = db.logs \/ RowsKept(db.logs, db'.logs)
  PROVE  SafeRowsKept
BY DEF SafeRowsKept, RowsKept

\* UnsafeBlockHandler.
LEMMA UnsafeBlockKeeps ==
  ASSUME GenesisActivation, ProcessorInv, HandleUnsafeBlock
  PROVE  ProcessorInv' /\ SafeRowsKept
<1> DEFINE b == Head(events).block
<1>0. StorageOk(db) /\ TasksOk /\ Takes("UnsafeBlock")
  BY DEF ProcessorInv, HandleUnsafeBlock
<1>1. b \in Block /\ events' \in Seq(Event)
  BY <1>0, TakesEvent, EventFacts
<1>2. spawned' \subseteq Block
  BY <1>0, <1>1 DEF HandleUnsafeBlock, TasksOk
<1>3. StorageOk(db') /\ RowsKept(db.logs, db'.logs)
  <2>1. CASE db' = db
    BY <1>0, <2>1 DEF RowsKept
  <2>2. CASE db' # db
    <3>1. IsInteropActivation(b) /\ db' = InitialiseLogStorage(db, b).db
      BY <2>2 DEF HandleUnsafeBlock
    <3>2. Number[b] = 0
      BY <3>1 DEF IsInteropActivation, GenesisActivation
    <3> HIDE DEF b
    <3> QED BY <1>0, <1>1, <3>1, <3>2, InitialiseLogKeeps
  <2> QED BY <2>1, <2>2
<1>4. TasksOk'
  BY <1>0, <1>1, <1>2 DEF TasksOk, HandleUnsafeBlock, external, WatchOk, NodeOk, L1Ok
<1>5. SafeRowsKept
  BY <1>0, <1>3, SameLogs
<1> QED BY <1>3, <1>4, <1>5 DEF ProcessorInv

\* A command is sent when there is room.
LEMMA CommandSent ==
  ASSUME commands \in Seq(Command)
  PROVE  /\ Append(commands, ResetCommand) \in Seq(Command)
         /\ \A b \in Block : Append(commands, InvalidateCommand(b)) \in Seq(Command)
<1>1. ResetCommand \in Command /\ \A b \in Block : InvalidateCommand(b) \in Command
  BY DEF ResetCommand, InvalidateCommand, Command
<1> QED BY <1>1

\* SafeBlockHandler, first transaction.
LEMMA DerivedBlockKeeps ==
  ASSUME GenesisActivation, ProcessorInv, HandleDerivedBlock
  PROVE  ProcessorInv' /\ SafeRowsKept
<1> DEFINE p == Head(events).pair
           tx == IF invalidated # None THEN Commit(db, "Skipped")
                 ELSE IF IsPostInterop(p.derived) THEN SaveDerivedBlock(db, p)
                 ELSE IF IsInteropActivation(p.derived)
                      THEN Commit(InitialiseDerivationStorage(db, p).db, "Initialised")
                 ELSE Commit(db, "Skipped")
<1>0. StorageOk(db) /\ TasksOk /\ Takes("DerivedBlock")
  BY DEF ProcessorInv, HandleDerivedBlock
<1>1. p \in DerivedRefPair /\ events' \in Seq(Event)
  BY <1>0, TakesEvent, EventFacts, ZenonT(30)
<1>2. /\ db' = tx.db /\ proc' = AfterSave(p, tx.err)
      /\ commands' = IF tx.err = "BlockOutOfOrder"
                     THEN Append(commands, ResetCommand) ELSE commands
  BY DEF HandleDerivedBlock
<1> HIDE DEF p
<1>3. StorageOk(tx.db) /\ tx.db.logs = db.logs
  <2>1. CASE tx.db = db
    BY <1>0, <2>1
  <2>2. CASE tx.db # db /\ tx.db = SaveDerivedBlock(db, p).db
    BY <1>0, <1>1, <2>2, SaveDerivedKeeps
  <2>3. CASE IsInteropActivation(p.derived) /\ tx.db = InitialiseDerivationStorage(db, p).db
    <3>1. Number[p.derived] = 0
      BY <2>3 DEF IsInteropActivation, GenesisActivation
    <3> QED BY <1>0, <1>1, <2>3, <3>1, InitialiseDerivationKeeps
  <2> QED BY <2>1, <2>2, <2>3 DEF Commit
<1> HIDE DEF tx
<1>4. proc' \in Stage
  BY <1>1, <1>2, StageForms, ZenonT(30) DEF AfterSave
<1>5. commands' \in Seq(Command)
  BY <1>0, <1>2, CommandSent DEF TasksOk
<1>6. TasksOk'
  BY <1>0, <1>1, <1>4, <1>5, ZenonT(30)
     DEF TasksOk, HandleDerivedBlock, indexer, external, WatchOk, NodeOk, L1Ok
<1>7. SafeRowsKept
  BY <1>0, <1>2, <1>3, SameLogs
<1> QED BY <1>2, <1>3, <1>6, <1>7 DEF ProcessorInv

\* The later steps of SafeBlockHandler and ReplacementHandler.
LEMMA ResyncKeeps ==
  ASSUME ProcessorInv, GetLogBlock \/ RewindLogBlock \/ ResyncLogs \/ SaveResynced
  PROVE  ProcessorInv' /\ SafeRowsKept
<1>0. StorageOk(db) /\ TasksOk /\ proc \in Stage
  BY DEF ProcessorInv, TasksOk
<1>1. ASSUME GetLogBlock
      PROVE  ProcessorInv' /\ SafeRowsKept
  <2>1. proc.pair \in DerivedRefPair
    BY <1>0, <1>1, StageFacts, ZenonT(30) DEF GetLogBlock
  <2>2. \A n \in DOMAIN db.logs : db.logs[n] \in Block
    BY <1>0 DEF StorageOk, LogsOk
  <2>3. proc' \in Stage
    BY <1>1, <2>1, <2>2, StageForms, ZenonT(30) DEF GetLogBlock
  <2>4. TasksOk' /\ db' = db
    BY <1>0, <1>1, <2>3 DEF TasksOk, GetLogBlock, indexer, external, WatchOk, NodeOk, L1Ok
  <2> QED BY <1>0, <2>4, SameLogs DEF ProcessorInv
<1>2. ASSUME RewindLogBlock
      PROVE  ProcessorInv' /\ SafeRowsKept
  <2> DEFINE tx == RewindLogStorage(db, proc.block)
  <2>1. proc.pair \in DerivedRefPair /\ proc.block \in Block
    BY <1>0, <1>2, StageFacts, ZenonT(30) DEF RewindLogBlock
  <2>2. db' = tx.db /\ (proc' = Idle \/ proc' = [pc |-> "resync", pair |-> proc.pair, replacing |-> FALSE])
    BY <1>2 DEF RewindLogBlock
  <2> HIDE DEF tx
  <2>3. StorageOk(db') /\ SafeRowsKept
    BY <1>0, <2>1, <2>2, RewindLogKeeps DEF SafeRowsKept, tx
  <2>4. proc' \in Stage
    BY <2>1, <2>2, StageForms, ZenonT(30)
  <2>5. TasksOk'
    BY <1>0, <1>2, <2>4 DEF TasksOk, RewindLogBlock, indexer, external, WatchOk, NodeOk, L1Ok
  <2> QED BY <2>3, <2>5 DEF ProcessorInv
<1>3. ASSUME ResyncLogs
      PROVE  ProcessorInv' /\ SafeRowsKept
  <2> DEFINE tx == StoreBlockLogs(db, proc.pair.derived)
  <2>1. proc.pair \in DerivedRefPair /\ proc.pair.derived \in Block /\ proc.pc = "resync"
    BY <1>0, <1>3, StageFacts DEF ResyncLogs, DerivedRefPair
  <2>2. (db' = tx.db \/ db' = db) /\ (proc' = Idle \/ proc' = [proc EXCEPT !.pc = "save"])
    BY <1>3 DEF ResyncLogs
  <2> HIDE DEF tx
  <2>3. StorageOk(db') /\ RowsKept(db.logs, db'.logs)
    <3>1. CASE db' = db
      BY <1>0, <3>1 DEF RowsKept
    <3>2. CASE db' = tx.db
      BY <1>0, <2>1, <3>2, StoreLogsKeeps DEF tx
    <3> QED BY <2>2, <3>1, <3>2
  <2>4. proc' \in Stage
    BY <1>0, <2>1, <2>2, StageForms, StageFacts, ZenonT(30)
  <2>5. TasksOk'
    BY <1>0, <1>3, <2>4 DEF TasksOk, ResyncLogs, indexer, external, WatchOk, NodeOk, L1Ok
  <2> QED BY <1>0, <2>3, <2>5, SameLogs DEF ProcessorInv
<1>4. ASSUME SaveResynced
      PROVE  ProcessorInv' /\ SafeRowsKept
  <2>1. proc.pair \in DerivedRefPair
    BY <1>0, <1>4, StageFacts, ZenonT(30) DEF SaveResynced
  <2>2. /\ db' = SaveDerivedBlock(db, proc.pair).db /\ proc' = Idle
        /\ invalidated' \in {None, invalidated}
    BY <1>4 DEF SaveResynced
  <2>3. StorageOk(db') /\ db'.logs = db.logs
    BY <1>0, <2>1, <2>2, SaveDerivedKeeps
  <2>4. proc' \in Stage
    BY <2>1, <2>2, StageForms, ZenonT(30)
  <2>5. TasksOk'
    BY <1>0, <1>4, <2>2, <2>4 DEF TasksOk, SaveResynced, indexer, external, WatchOk, NodeOk, L1Ok
  <2> QED BY <1>0, <2>3, <2>5, SameLogs DEF ProcessorInv
<1> QED BY <1>1, <1>2, <1>3, <1>4

\* OriginHandler and FinalizedHandler.
LEMMA SourceEventKeeps ==
  ASSUME ProcessorInv, HandleDerivationOriginUpdate \/ HandleFinalizedSourceUpdate
  PROVE  ProcessorInv' /\ SafeRowsKept
<1>0. StorageOk(db) /\ TasksOk
  BY DEF ProcessorInv
<1> DEFINE s == Head(events).block
<1>1. ASSUME HandleDerivationOriginUpdate
      PROVE  ProcessorInv' /\ SafeRowsKept
  <2>1. s \in Source /\ events' \in Seq(Event)
    BY <1>0, <1>1, TakesEvent, EventFacts, ZenonT(30) DEF HandleDerivationOriginUpdate
  <2>2. /\ db' = db \/ db' = SaveSourceBlock(db, s).db
        /\ commands' = commands \/ commands' = Append(commands, ResetCommand)
    BY <1>1 DEF HandleDerivationOriginUpdate, Commit
  <2> HIDE DEF s
  <2>3. StorageOk(db') /\ db'.logs = db.logs
    BY <1>0, <2>1, <2>2, SaveSourceKeeps
  <2>4. commands' \in Seq(Command)
    BY <1>0, <2>2, CommandSent DEF TasksOk
  <2>5. TasksOk'
    BY <1>0, <1>1, <2>1, <2>4 DEF TasksOk, HandleDerivationOriginUpdate, indexer, external, WatchOk, NodeOk, L1Ok
  <2> QED BY <1>0, <2>3, <2>5, SameLogs DEF ProcessorInv
<1>2. ASSUME HandleFinalizedSourceUpdate
      PROVE  ProcessorInv' /\ SafeRowsKept
  <2>1. s \in Source /\ events' \in Seq(Event)
    BY <1>0, <1>2, TakesEvent, EventFacts DEF HandleFinalizedSourceUpdate
  <2>2. db' = UpdateFinalizedUsingSource(db, s).db
    BY <1>2 DEF HandleFinalizedSourceUpdate
  <2> HIDE DEF s
  <2>3. StorageOk(db') /\ db'.logs = db.logs
    BY <1>0, <2>1, <2>2, FinalizedKeeps
  <2>5. TasksOk'
    BY <1>0, <1>2, <2>1 DEF TasksOk, HandleFinalizedSourceUpdate, indexer, external, WatchOk, NodeOk, L1Ok
  <2> QED BY <1>0, <2>3, <2>5, SameLogs DEF ProcessorInv
<1> QED BY <1>1, <1>2

\* InvalidationHandler and ReplacementHandler up to their first wait.
LEMMA InvalidationKeeps ==
  ASSUME ProcessorInv, HandleInvalidateBlock \/ HandleBlockReplaced
  PROVE  ProcessorInv' /\ SafeRowsKept
<1>0. StorageOk(db) /\ TasksOk
  BY DEF ProcessorInv
<1> DEFINE b == Head(events).block
<1>1. ASSUME HandleInvalidateBlock
      PROVE  ProcessorInv' /\ SafeRowsKept
  <2>1. b \in Block /\ events' \in Seq(Event)
    BY <1>0, <1>1, TakesEvent, EventFacts, ZenonT(30) DEF HandleInvalidateBlock
  <2>2. \/ proc' = Idle
        \/ /\ DerivedPairError(db, b) = "Ok"
           /\ proc' = [pc |-> "invalidate", pair |-> Pair(DerivedToSource(db, b), b)]
    BY <1>1, ZenonT(30) DEF HandleInvalidateBlock
  <2> HIDE DEF b
  <2>3. DerivedPairError(db, b) = "Ok" => Pair(DerivedToSource(db, b), b) \in DerivedRefPair
    <3> SUFFICES ASSUME DerivedPairError(db, b) = "Ok"
                 PROVE  Pair(DerivedToSource(db, b), b) \in DerivedRefPair
      OBVIOUS
    <3>1. Number[b] \in DOMAIN db.derived
      BY DEF DerivedPairError
    <3>2. db.derived[Number[b]] \in DerivedRefPair
      BY <1>0, <3>1 DEF StorageOk, DerivationOk, DerivedOk
    <3> QED BY <2>1, <3>2 DEF DerivedToSource, Pair, DerivedRefPair
  <2>4. proc' \in Stage
    BY <2>2, <2>3, StageForms DEF Stage
  <2>5. TasksOk' /\ db' = db
    BY <1>0, <1>1, <2>1, <2>4, ZenonT(30)
       DEF TasksOk, HandleInvalidateBlock, indexer, external, WatchOk, NodeOk, L1Ok
  <2> QED BY <1>0, <2>5, SameLogs, ZenonT(30) DEF ProcessorInv
<1>2. ASSUME HandleBlockReplaced
      PROVE  ProcessorInv' /\ SafeRowsKept
  <2>1. b \in Block /\ events' \in Seq(Event)
    BY <1>0, <1>2, TakesEvent, EventFacts, ZenonT(30) DEF HandleBlockReplaced
  <2>2. \/ proc' = Idle
        \/ /\ invalidated # None
           /\ proc' = [pc |-> "resync", pair |-> Pair(invalidated.source, b), replacing |-> TRUE]
    BY <1>2 DEF HandleBlockReplaced
  <2> HIDE DEF b
  <2>3. invalidated # None => Pair(invalidated.source, b) \in DerivedRefPair
    BY <1>0, <2>1 DEF TasksOk, Pair, DerivedRefPair
  <2>4. proc' \in Stage
    <3>1. CASE proc' = Idle
      BY <3>1 DEF Stage
    <3>2. CASE proc' # Idle
      BY <2>2, <2>3, <3>2, StageForms, ZenonT(30)
    <3> QED BY <3>1, <3>2
  <2>5. TasksOk' /\ db' = db
    BY <1>0, <1>2, <2>1, <2>4 DEF TasksOk, HandleBlockReplaced, indexer, external, WatchOk, NodeOk, L1Ok
  <2> QED BY <1>0, <2>5, SameLogs DEF ProcessorInv
<1> QED BY <1>1, <1>2

\* The two rewinds below LocalSafe.
LEMMA RewindsKeep ==
  ASSUME ProcessorInv, RewindInvalidated \/ RewindReorged
  PROVE  ProcessorInv'
<1>0. StorageOk(db) /\ TasksOk
  BY DEF ProcessorInv
<1>1. ASSUME RewindInvalidated
      PROVE  ProcessorInv'
  <2>1. proc.pair \in DerivedRefPair /\ proc.pair.derived \in Block
    BY <1>0, <1>1, StageFacts, ZenonT(30) DEF RewindInvalidated, TasksOk, DerivedRefPair
  <2>2. /\ db' = Rewind(db, proc.pair.derived).db
        /\ commands' \in {commands, Append(commands, InvalidateCommand(proc.pair.derived))}
        /\ invalidated' \in {invalidated, proc.pair} /\ proc' = Idle
    BY <1>1 DEF RewindInvalidated
  <2>3. StorageOk(db')
    BY <1>0, <2>1, <2>2, RewindKeeps
  <2>4. commands' \in Seq(Command) /\ proc' \in Stage
    BY <1>0, <2>1, <2>2, CommandSent, StageForms, ZenonT(30) DEF TasksOk
  <2>5. TasksOk'
    BY <1>0, <1>1, <2>1, <2>2, <2>4 DEF TasksOk, RewindInvalidated, indexer, external, WatchOk, NodeOk, L1Ok
  <2> QED BY <2>3, <2>5 DEF ProcessorInv
<1>2. ASSUME RewindReorged
      PROVE  ProcessorInv'
  <2>1. CASE watch.task = "rewind"
    <3>1. db' = RewindToSource(db, watch.target).db /\ watch.target \in Source
      BY <1>0, <1>2, <2>1 DEF RewindReorged, TasksOk, WatchOk
    <3>2. StorageOk(db')
      BY <1>0, <3>1, RewindToSourceKeeps
    <3> QED BY <1>0, <1>2, <3>2
              DEF ProcessorInv, TasksOk, RewindReorged, indexer, external, WatchOk, NodeOk, L1Ok
  <2>2. CASE watch.task = "activation"
    <3>1. db' = db \/ (~IsEmpty(db.derived) /\ db' = Rewind(db, ActivationBlock).db)
      BY <1>2, <2>2 DEF RewindReorged
    <3>2. ~IsEmpty(db.derived) => ActivationBlock \in Block
      <4> SUFFICES ASSUME ~IsEmpty(db.derived) PROVE ActivationBlock \in Block
        OBVIOUS
      <4>1. PICK z \in Nat : DOMAIN db.derived = 0..z
        BY <1>0, ZenonT(30) DEF StorageOk, DerivationOk, DerivedOk, FromZero, IsEmpty
      <4>2. FirstKey(db.derived) \in DOMAIN db.derived
        BY <4>1, SMTT(40) DEF FirstKey
      <4> QED BY <1>0, <4>2, ZenonT(30) DEF ActivationBlock, StorageOk, DerivationOk, DerivedOk, DerivedRefPair
    <3>3. StorageOk(db')
      BY <1>0, <3>1, <3>2, RewindKeeps
    <3> QED BY <1>0, <1>2, <3>3
              DEF ProcessorInv, TasksOk, RewindReorged, indexer, external, WatchOk, NodeOk, L1Ok
  <2> QED BY <1>2, <2>1, <2>2 DEF RewindReorged
<1> QED BY <1>1, <1>2

\* The log indexer's catch-up.
LEMMA IndexerKeeps ==
  ASSUME ProcessorInv, Indexer
  PROVE  ProcessorInv' /\ SafeRowsKept
<1>0. StorageOk(db) /\ TasksOk /\ spawned \subseteq Block /\ catchup \in CatchUp \cup {None}
  BY DEF ProcessorInv, TasksOk
<1>1. ASSUME StartCatchUp
      PROVE  ProcessorInv' /\ SafeRowsKept
  <2>1. PICK b \in spawned :
          /\ spawned' = spawned \ {b}
          /\ catchup' = IF catchup # None \/ IsEmpty(db.logs) THEN catchup
                        ELSE [next |-> LastKey(db.logs) + 1, target |-> b, block |-> None]
    BY <1>1, ZenonT(30) DEF StartCatchUp
  <2>2. ~IsEmpty(db.logs) => LastKey(db.logs) + 1 \in Nat
    BY <1>0, LastLog DEF StorageOk
  <2>3. spawned' \subseteq Block /\ catchup' \in CatchUp \cup {None}
    BY <1>0, <2>1, <2>2 DEF CatchUp
  <2>4. TasksOk' /\ db' = db
    BY <1>0, <1>1, <2>3 DEF TasksOk, StartCatchUp, external, WatchOk, NodeOk, L1Ok
  <2> QED BY <1>0, <2>4, SameLogs, ZenonT(30) DEF ProcessorInv
<1>2. ASSUME FetchBlock
      PROVE  ProcessorInv' /\ SafeRowsKept
  <2>1. catchup \in CatchUp
    BY <1>0, <1>2 DEF FetchBlock
  <2>2. \/ catchup' = None
        \/ \E b \in Block : catchup' = [catchup EXCEPT !.block = b]
    BY <1>2, <2>1 DEF FetchBlock, BlocksByNumber, CatchUp
  <2>3. catchup' \in CatchUp \cup {None}
    BY <2>1, <2>2 DEF CatchUp
  <2>4. TasksOk' /\ db' = db
    BY <1>0, <1>2, <2>3 DEF TasksOk, FetchBlock, external, WatchOk, NodeOk, L1Ok
  <2> QED BY <1>0, <2>4, SameLogs DEF ProcessorInv
<1>3. ASSUME StoreFetched
      PROVE  ProcessorInv' /\ SafeRowsKept
  <2>1. catchup \in CatchUp /\ catchup.block \in Block
    BY <1>0, <1>3 DEF StoreFetched, CatchUp
  <2>2. /\ db' = db \/ db' = StoreBlockLogs(db, catchup.block).db
        /\ catchup' = None \/ catchup' = [catchup EXCEPT !.next = @ + 1, !.block = None]
    BY <1>3 DEF StoreFetched
  <2>3. StorageOk(db') /\ RowsKept(db.logs, db'.logs)
    <3>1. CASE db' = db
      BY <1>0, <3>1 DEF RowsKept
    <3>2. CASE db' = StoreBlockLogs(db, catchup.block).db
      BY <1>0, <2>1, <3>2, StoreLogsKeeps
    <3> QED BY <2>2, <3>1, <3>2
  <2>4. catchup' \in CatchUp \cup {None}
    <3>1. catchup.next + 1 \in Nat
      BY <2>1 DEF CatchUp
    <3>2. [catchup EXCEPT !.next = @ + 1] \in CatchUp
      BY <2>1, <3>1 DEF CatchUp
    <3>3. [[catchup EXCEPT !.next = @ + 1] EXCEPT !.block = None] \in CatchUp
      BY <3>2, ZenonT(30) DEF CatchUp
    <3> QED BY <2>2, <3>3
  <2>5. TasksOk'
    BY <1>0, <1>3, <2>4 DEF TasksOk, StoreFetched, external, WatchOk, NodeOk, L1Ok
  <2> QED BY <1>0, <2>3, <2>5, SameLogs DEF ProcessorInv
<1> QED BY <1>1, <1>2, <1>3 DEF Indexer

\* An event is sent when there is room.
LEMMA EventSent ==
  ASSUME events \in Seq(Event), NEW e \in Event
  PROVE  TrySend(e) \in Seq(Event) /\ (Send(e) => events' \in Seq(Event))
<1>1. Append(events, e) \in Seq(Event)
  OBVIOUS
<1> QED BY <1>1 DEF TrySend, Send

\* The cross safety checker jobs.
LEMMA CheckerKeeps ==
  ASSUME ProcessorInv, Checker
  PROVE  ProcessorInv' /\ SafeRowsKept
<1>0. StorageOk(db) /\ TasksOk /\ events \in Seq(Event)
  BY DEF ProcessorInv, TasksOk
<1>1. PICK l \in Jobs : \/ FindNextPromotable(l) \/ PromoteCandidate(l)
                        \/ RejectCandidate(l) \/ CandidateWaits(l)
  BY ZenonT(30) DEF Checker
<1>2. ASSUME FindNextPromotable(l) \/ CandidateWaits(l)
      PROVE  ProcessorInv' /\ SafeRowsKept
  <2>1. UNCHANGED <<db, events, invalidated, proc, indexer, watch, commands, external>>
    BY <1>2, ZenonT(30) DEF FindNextPromotable, CandidateWaits
  <2> QED BY <1>0, <2>1, SameLogs DEF ProcessorInv, TasksOk, indexer, external, WatchOk, NodeOk, L1Ok
<1>3. ASSUME PromoteCandidate(l)
      PROVE  ProcessorInv' /\ SafeRowsKept
  <2>1. checker[l] \in Block /\ db' = UpdateCurrentCross(db, l, checker[l]).db
    BY <1>3 DEF PromoteCandidate
  <2>2. StorageOk(db') /\ db'.logs = db.logs
    BY <1>0, <2>1, CrossKeeps
  <2>3. UNCHANGED <<events, invalidated, proc, indexer, watch, commands, external>>
    BY <1>3, ZenonT(30) DEF PromoteCandidate
  <2> QED BY <1>0, <2>2, <2>3, SameLogs DEF ProcessorInv, TasksOk, indexer, external, WatchOk, NodeOk, L1Ok
<1>4. ASSUME RejectCandidate(l)
      PROVE  ProcessorInv' /\ SafeRowsKept
  <2>1. checker[l] \in Block
    BY <1>4, ProcessorAssumption DEF RejectCandidate
  <2>2. [kind |-> "InvalidateBlock", block |-> checker[l]] \in Event
    BY <2>1 DEF Event
  <2>3. events' \in Seq(Event)
    BY <1>0, <1>4, <2>2, EventSent DEF RejectCandidate
  <2>4. UNCHANGED <<db, invalidated, proc, indexer, watch, commands, external>>
    BY <1>4 DEF RejectCandidate
  <2> QED BY <1>0, <2>3, <2>4, SameLogs, ZenonT(30) DEF ProcessorInv, TasksOk, indexer, external, WatchOk, NodeOk, L1Ok
<1> QED BY <1>1, <1>2, <1>3, <1>4

\* The L1 watcher, up to the rewind of its reorg task.
LEMMA WatcherKeeps ==
  ASSUME ProcessorInv, WatchLatest \/ WatchFinalized \/ FindRewindTarget \/ ReorgTaskFails
  PROVE  ProcessorInv' /\ SafeRowsKept
<1>0. StorageOk(db) /\ TasksOk /\ events \in Seq(Event) /\ WatchOk /\ L1Ok
  BY ZenonT(30) DEF ProcessorInv, TasksOk
<1>1. ASSUME WatchLatest \/ ReorgTaskFails
      PROVE  ProcessorInv' /\ SafeRowsKept
  <2>1. WatchOk'
    BY <1>0, <1>1, ZenonT(30) DEF WatchLatest, ReorgTaskFails, WatchOk
  <2>2. UNCHANGED <<db, events, invalidated, proc, indexer, commands, external>>
    BY <1>1 DEF WatchLatest, ReorgTaskFails
  <2> QED BY <1>0, <2>1, <2>2, SameLogs DEF ProcessorInv, TasksOk, indexer, external, NodeOk, L1Ok
<1>2. ASSUME WatchFinalized
      PROVE  ProcessorInv' /\ SafeRowsKept
  <2>1. PICK s \in Ancestors[l1.tip] :
          /\ l1' = [l1 EXCEPT !.final = s]
          /\ events' = TrySend([kind |-> "FinalizedSourceUpdate", block |-> s])
    BY <1>2 DEF WatchFinalized
  <2>2. s \in Source
    BY <1>0, SourceAncestors DEF L1Ok
  <2>3. [kind |-> "FinalizedSourceUpdate", block |-> s] \in Event
    BY <2>2 DEF Event
  <2>4. events' \in Seq(Event) /\ L1Ok'
    <3>1. events' \in Seq(Event)
      BY <1>0, <2>1, <2>3, EventSent
    <3>2. L1Ok'
      BY <1>0, <2>1 DEF L1Ok
    <3> QED BY <3>1, <3>2
  <2>5. UNCHANGED <<db, invalidated, proc, indexer, watch, commands, node>>
    BY <1>2 DEF WatchFinalized
  <2> QED BY <1>0, <2>4, <2>5, SameLogs DEF ProcessorInv, TasksOk, indexer, NodeOk, WatchOk
<1>3. ASSUME FindRewindTarget
      PROVE  ProcessorInv' /\ SafeRowsKept
  <2>1. WatchOk'
    <3>1. CASE RewindTargetFails \/ Canonical(LatestSource(db)) \/ CommonAncestor = None
      BY <1>0, <1>3, <3>1 DEF FindRewindTarget, WatchOk
    <3>2. CASE ~(RewindTargetFails \/ Canonical(LatestSource(db)) \/ CommonAncestor = None)
      <4>1. RewindTarget \in Source
        BY <1>0, <3>2, TargetSource
      <4>2. watch' = [watch EXCEPT !.task = "rewind", !.target = RewindTarget]
        BY <1>3, <3>2 DEF FindRewindTarget
      <4> QED BY <1>0, <4>1, <4>2 DEF WatchOk
    <3> QED BY <3>1, <3>2
  <2>2. UNCHANGED <<db, events, invalidated, proc, indexer, commands, external>>
    BY <1>3, ZenonT(30) DEF FindRewindTarget
  <2> QED BY <1>0, <2>1, <2>2, SameLogs DEF ProcessorInv, TasksOk, indexer, external, NodeOk, L1Ok
<1> QED BY <1>1, <1>2, <1>3

\* Resetter::reset leaves the node at a source.
LEMMA ResetKeeps ==
  ASSUME ProcessorInv, ResetNode
  PROVE  NodeOk'
<1>0. NodeOk /\ L1Ok
  BY DEF ProcessorInv, TasksOk
<1>1. \/ node' = node
      \/ node' = [tip |-> None, safe |-> None, origin |-> Parent[Activation.source]]
      \/ \E b : /\ Canonical(DerivedToSource(db, b))
                /\ node' = [tip |-> b, safe |-> b, origin |-> DerivedToSource(db, b)]
  BY Zenon DEF ResetNode
<1>2. Parent[Activation.source] \in Source
  BY ProcessorAssumption, Numbers DEF DerivedRefPair
<1> QED BY <1>0, <1>1, <1>2, CanonicalSource DEF NodeOk

\* The managed node takes a command.
LEMMA CommandKeeps ==
  ASSUME ProcessorInv, RunCommand
  PROVE  ProcessorInv' /\ SafeRowsKept
<1> DEFINE c == Head(commands)
<1>0. /\ StorageOk(db) /\ TasksOk /\ events \in Seq(Event) /\ NodeOk
      /\ commands \in Seq(Command) /\ commands # << >>
  BY ZenonT(30) DEF ProcessorInv, TasksOk, RunCommand
<1>1. c \in Command /\ commands' \in Seq(Command)
  <2>1. c \in Command /\ Tail(commands) \in Seq(Command)
    BY <1>0
  <2> QED BY <2>1 DEF RunCommand
<1>2. NodeOk' /\ events' \in Seq(Event)
  <2>1. CASE ResetNode /\ UNCHANGED events
    BY <1>0, <2>1, ResetKeeps
  <2>2. CASE NodeReplaces(c.block)
    <3> HIDE DEF c
    <3>1. PICK r \in Block \ Bad, s \in Ancestors[node.origin] :
            /\ node' = [tip |-> r, safe |-> r, origin |-> s]
            /\ Send([kind |-> "BlockReplaced", invalidated |-> c.block, block |-> r])
      BY <2>2, ZenonT(30) DEF NodeReplaces
    <3>2. s \in Source
      BY <1>0, SourceAncestors, ZenonT(30) DEF NodeOk
    <3>3. [kind |-> "BlockReplaced", invalidated |-> c.block, block |-> r] \in Event
      BY <1>1, ZenonT(30) DEF Event, Command
    <3>4. events' \in Seq(Event)
      BY <1>0, <3>1, <3>3, EventSent, ZenonT(30)
    <3> QED BY <3>1, <3>2, <3>4, ZenonT(30) DEF NodeOk
  <2>3. CASE UNCHANGED <<node, events>>
    BY <1>0, <2>3 DEF NodeOk
  <2> QED BY <2>1, <2>2, <2>3, ZenonT(30) DEF RunCommand
<1>3. UNCHANGED <<db, invalidated, proc, indexer, watch, l1>>
  BY DEF RunCommand
<1> QED BY <1>0, <1>1, <1>2, <1>3, SameLogs, ZenonT(30) DEF ProcessorInv, TasksOk, indexer, WatchOk, L1Ok

\* The managed node and L1 on their own.
LEMMA EnvironmentKeeps ==
  ASSUME ProcessorInv, Environment
  PROVE  ProcessorInv' /\ SafeRowsKept
<1>0. /\ StorageOk(db) /\ TasksOk /\ events \in Seq(Event) /\ NodeOk /\ L1Ok
      /\ l1.tree.blocks \subseteq Block /\ l1.tree.sources \subseteq Source
  BY ProcessorAssumption, ZenonT(30) DEF ProcessorInv, TasksOk, L1Ok
<1>1. ASSUME NodeOk', L1Ok', events' \in Seq(Event),
             UNCHANGED <<db, invalidated, proc, indexer, watch, commands>>
      PROVE  ProcessorInv' /\ SafeRowsKept
  BY <1>0, <1>1, SameLogs, ZenonT(30) DEF ProcessorInv, TasksOk, indexer, WatchOk
<1>2. ASSUME NodeUnsafe
      PROVE  ProcessorInv' /\ SafeRowsKept
  <2>1. PICK b \in l1.tree.blocks :
          node' = [node EXCEPT !.tip = b] /\ Send([kind |-> "UnsafeBlock", block |-> b])
    BY <1>2, ZenonT(30) DEF NodeUnsafe
  <2>2. [kind |-> "UnsafeBlock", block |-> b] \in Event
    BY <1>0 DEF Event
  <2>3. events' \in Seq(Event)
    BY <1>0, <2>1, <2>2, EventSent
  <2>4. NodeOk'
    BY <1>0, <2>1 DEF NodeOk
  <2>5. UNCHANGED <<db, invalidated, proc, indexer, watch, commands, l1>>
    BY <1>2, ZenonT(30) DEF NodeUnsafe
  <2> QED BY <1>0, <1>1, <2>3, <2>4, <2>5 DEF L1Ok
<1>3. ASSUME NodeOrigin
      PROVE  ProcessorInv' /\ SafeRowsKept
  <2>1. PICK s \in Source :
          node' = [node EXCEPT !.origin = s] /\ Send([kind |-> "DerivationOriginUpdate", block |-> s])
    BY <1>3, ZenonT(30) DEF NodeOrigin
  <2>2. [kind |-> "DerivationOriginUpdate", block |-> s] \in Event
    BY DEF Event
  <2>3. events' \in Seq(Event)
    BY <1>0, <2>1, <2>2, EventSent
  <2>4. NodeOk'
    BY <1>0, <2>1 DEF NodeOk
  <2>5. UNCHANGED <<db, invalidated, proc, indexer, watch, commands, l1>>
    BY <1>3 DEF NodeOrigin
  <2> QED BY <1>0, <1>1, <2>3, <2>4, <2>5 DEF L1Ok
<1>4. ASSUME NodeDerive
      PROVE  ProcessorInv' /\ SafeRowsKept
  <2>1. PICK b \in Block :
          /\ node' = [node EXCEPT !.safe = b]
          /\ Send([kind |-> "DerivedBlock", pair |-> Pair(node.origin, b)])
    BY <1>4 DEF NodeDerive
  <2>2. [kind |-> "DerivedBlock", pair |-> Pair(node.origin, b)] \in Event
    <3>1. Pair(node.origin, b) \in DerivedRefPair
      BY <1>0 DEF Pair, DerivedRefPair, NodeOk
    <3> QED BY <3>1 DEF Event
  <2>3. events' \in Seq(Event)
    BY <1>0, <2>1, <2>2, EventSent
  <2>4. NodeOk'
    BY <1>0, <2>1 DEF NodeOk
  <2>5. UNCHANGED <<db, invalidated, proc, indexer, watch, commands, l1>>
    BY <1>4 DEF NodeDerive
  <2> QED BY <1>0, <1>1, <2>3, <2>4, <2>5 DEF L1Ok
<1>5. ASSUME NodeAsksReset
      PROVE  ProcessorInv' /\ SafeRowsKept
  <2>1. NodeOk'
    BY <1>5, ResetKeeps DEF NodeAsksReset
  <2>2. UNCHANGED <<db, events, invalidated, proc, indexer, watch, commands, l1>>
    BY <1>5 DEF NodeAsksReset
  <2> QED BY <1>0, <1>1, <2>1, <2>2 DEF L1Ok
<1>6. ASSUME L1Extends \/ L1Forks
      PROVE  ProcessorInv' /\ SafeRowsKept
  <2>1. \E s \in l1.tree.sources : \/ l1' = [l1 EXCEPT !.tip = s]
                                   \/ l1' = [l1 EXCEPT !.tip = s, !.forks = @ + 1]
    BY <1>6, ZenonT(30) DEF L1Extends, L1Forks
  <2>2. L1Ok'
    BY <1>0, <2>1, ZenonT(30) DEF L1Ok
  <2>3. UNCHANGED <<db, events, invalidated, proc, indexer, watch, commands, node>>
    BY <1>6, ZenonT(30) DEF L1Extends, L1Forks
  <2> QED BY <1>0, <1>1, <2>2, <2>3 DEF NodeOk
<1> QED BY <1>2, <1>3, <1>4, <1>5, <1>6 DEF Environment

-----------------------------------------------------------------------------
(* The theorems *)

\* initialise_log_storage and initialise_derivation_storage on an empty database.
LEMMA ProcessorInit ==
  ASSUME GenesisActivation, Init
  PROVE  ProcessorInv
<1> DEFINE db1 == InitialiseLogStorage(EmptyDb, Activation.derived).db
<1>0. Activation \in DerivedRefPair /\ Activation.derived \in Block /\ Activation.source \in Source
  BY ProcessorAssumption DEF DerivedRefPair
<1>1. StorageOk(EmptyDb)
  <2>1. DOMAIN EmptyTable = {}
    BY ZenonT(30) DEF EmptyTable
  <2>2. /\ DOMAIN EmptyDb = {"logs", "derived", "traversal", "heads"} /\ EmptyDb.logs = EmptyTable
        /\ EmptyDb.derived = EmptyTable /\ EmptyDb.traversal = EmptyTable
        /\ EmptyDb.heads = [l \in Levels |-> None]
    BY DEF EmptyDb
  <2>3. LogsOk(EmptyTable) /\ DerivationOk(EmptyTable, EmptyTable)
    BY <2>1, EmptyOk DEF LogsOk, FromZero
  <2>4. HeadsOk([l \in Levels |-> None])
    BY DEF HeadsOk
  <2> QED BY <2>2, <2>3, <2>4 DEF StorageOk
<1>2. StorageOk(db1)
  BY <1>0, <1>1, InitialiseLogKeeps DEF GenesisActivation
<1>3. StorageOk(InitialiseDerivationStorage(db1, Activation).db)
  <2> HIDE DEF db1
  <2> QED BY <1>0, <1>2, InitialiseDerivationKeeps DEF GenesisActivation
<1>4. StorageOk(db)
  BY <1>3, ZenonT(30) DEF Init
<1>5. events \in Seq(Event) /\ commands \in Seq(Command) /\ proc \in Stage
  <2>1. events = << >> /\ commands = << >> /\ proc = Idle
    BY ZenonT(30) DEF Init
  <2>2. proc \in Stage
    BY <2>1, ZenonT(30) DEF Stage
  <2>3. events \in Seq(Event) /\ commands \in Seq(Command)
    BY <2>1
  <2> QED BY <2>2, <2>3
<1>6. WatchOk /\ NodeOk /\ L1Ok
  BY <1>0, ZenonT(30) DEF Init, WatchOk, NodeOk, L1Ok
<1>7. TasksOk
  BY <1>5, <1>6, ZenonT(30) DEF Init, TasksOk
<1> QED BY <1>4, <1>7 DEF ProcessorInv

\* Every step of every task.
LEMMA ProcessorStep ==
  ASSUME GenesisActivation, ProcessorInv, [Next]_vars
  PROVE  /\ ProcessorInv'
         /\ ~RewindInvalidated /\ ~RewindReorged => SafeRowsKept
<1>1. CASE HandleUnsafeBlock
  BY <1>1, UnsafeBlockKeeps
<1>2. CASE HandleDerivedBlock
  BY <1>2, DerivedBlockKeeps
<1>3. CASE HandleDerivationOriginUpdate \/ HandleFinalizedSourceUpdate
  BY <1>3, SourceEventKeeps
<1>4. CASE HandleInvalidateBlock \/ HandleBlockReplaced
  BY <1>4, InvalidationKeeps
<1>5. CASE GetLogBlock \/ RewindLogBlock \/ ResyncLogs \/ SaveResynced
  BY <1>5, ResyncKeeps
<1>6. CASE RewindInvalidated \/ RewindReorged
  BY <1>6, RewindsKeep
<1>7. CASE Indexer
  BY <1>7, IndexerKeeps
<1>8. CASE Checker
  BY <1>8, CheckerKeeps
<1>9. CASE WatchLatest \/ WatchFinalized \/ FindRewindTarget \/ ReorgTaskFails
  BY <1>9, WatcherKeeps
<1>10. CASE RunCommand
  BY <1>10, CommandKeeps
<1>11. CASE Environment
  BY <1>11, EnvironmentKeeps
<1>12. CASE UNCHANGED vars
  BY <1>12, SameLogs, ZenonT(30) DEF ProcessorInv, TasksOk, vars, WatchOk, NodeOk, L1Ok
<1> QED BY <1>1, <1>2, <1>3, <1>4, <1>5, <1>6, <1>7, <1>8, <1>9, <1>10, <1>11, <1>12
        DEF Next, Processor, Watcher

\* The invariant gives what the storages promise.
LEMMA StorageOkLinked ==
  ASSUME StorageOk(db)
  PROVE  StorageLinked
<1> DEFINE d == db.derived
           t == db.traversal
<1>0. /\ LogsOk(db.logs) /\ DerivedOk(d) /\ SourcesOk(t)
      /\ Recorded(d, t) /\ Justified(d, t)
  BY ZenonT(30) DEF StorageOk, DerivationOk
<1>1. ASSUME NEW n \in DOMAIN d, n # FirstKey(d)
      PROVE  n - 1 \in DOMAIN d /\ IsParentOf(d[n - 1].derived, d[n].derived)
  <2>1. PICK l \in Nat : DOMAIN d = 0..l
    BY <1>0, <1>1 DEF DerivedOk, FromZero
  <2>2. FirstKey(d) = 0
    BY <2>1 DEF FirstKey
  <2> HIDE DEF d
  <2>3. n > 0 /\ n - 1 \in DOMAIN d
    BY <1>1, <2>1, <2>2
  <2> QED BY <1>0, <2>3, ZenonT(30) DEF DerivedOk
<1>2. ASSUME NEW n \in DOMAIN db.logs, n # FirstKey(db.logs)
      PROVE  n - 1 \in DOMAIN db.logs /\ IsParentOf(db.logs[n - 1], db.logs[n])
  <2>1. PICK l \in Nat : DOMAIN db.logs = 0..l
    BY <1>0, <1>2 DEF LogsOk, FromZero
  <2>2. FirstKey(db.logs) = 0
    BY <2>1 DEF FirstKey
  <2>3. n > 0 /\ n - 1 \in DOMAIN db.logs
    BY <1>2, <2>1, <2>2
  <2> QED BY <1>0, <2>3, ZenonT(30) DEF LogsOk
<1>3. ASSUME NEW n \in DOMAIN t, n # FirstKey(t)
      PROVE  n - 1 \in DOMAIN t /\ IsParentOf(t[n - 1].source, t[n].source)
  <2>1. PICK f, l \in Nat : f <= l /\ DOMAIN t = f..l
    BY <1>0, <1>3 DEF SourcesOk, NoGaps
  <2>2. FirstKey(t) = f
    BY <2>1 DEF FirstKey
  <2> HIDE DEF t
  <2>3. n - 1 \in DOMAIN t
    BY <1>3, <2>1, <2>2
  <2> QED BY <1>0, <2>3, ZenonT(30) DEF SourcesOk
<1>4. ASSUME NEW n \in DOMAIN t, NEW i \in 1..(Len(t[n].nums) - 1)
      PROVE  t[n].nums[i] < t[n].nums[i + 1]
  <2>1. Increasing(t[n].nums) /\ Len(t[n].nums) \in Nat
    BY <1>0, Typed, ZenonT(30) DEF SourcesOk
  <2> DEFINE nums == t[n].nums
  <2> HIDE DEF nums
  <2>2. Increasing(nums) /\ Len(nums) \in Nat /\ i \in 1..(Len(nums) - 1)
    BY <2>1 DEF nums
  <2>3. nums[i] < nums[i + 1]
    BY <2>2 DEF Increasing
  <2> QED BY <2>3 DEF nums
<1>5. ASSUME NEW n \in DOMAIN t
      PROVE  {k \in DOMAIN d : d[k].source = t[n].source} = {t[n].nums[i] : i \in DOMAIN t[n].nums}
  <2>0. t[n].nums \in Seq(Nat)
    BY <1>0, Typed
  <2>4. Number[t[n].source] = n
    BY <1>0, ZenonT(30) DEF SourcesOk
  <2> HIDE DEF t
  <2>1. Number[t[n].source] = n /\ DOMAIN t[n].nums = 1..Len(t[n].nums)
    BY <2>0, <2>4
  <2>2. ASSUME NEW k \in DOMAIN d, d[k].source = t[n].source
        PROVE  \E i \in DOMAIN t[n].nums : t[n].nums[i] = k
    <3>1. \E i \in 1..Len(t[Number[d[k].source]].nums) : t[Number[d[k].source]].nums[i] = k
      BY <1>0, ZenonT(30) DEF Recorded
    <3>2. Number[d[k].source] = n
      BY <2>1, <2>2
    <3> QED BY <2>1, <3>1, <3>2
  <2>3. ASSUME NEW i \in DOMAIN t[n].nums
        PROVE  t[n].nums[i] \in DOMAIN d /\ d[t[n].nums[i]].source = t[n].source
    BY <1>0, <2>1, ZenonT(30) DEF Justified
  <2> HIDE DEF d
  <2> QED BY <2>2, <2>3, ZenonT(30)
<1>6. \A k \in DOMAIN d : Number[d[k].source] \in DOMAIN t
  BY <1>0, ZenonT(30) DEF Recorded
<1> QED BY <1>1, <1>2, <1>3, <1>4, <1>5, <1>6, ZenonT(30) DEF StorageLinked

\* For every tree of blocks, any number of L1 reorganisations and every schedule
\* of the processor, the indexer, the checkers and the reorg task: the tables
\* save_derived_block, save_source_block, store_block_logs and the three rewinds
\* leave are chains without gaps, and a source has exactly its blocks.
THEOREM SupervisorStorageLinked ==
  ASSUME GenesisActivation
  PROVE  Spec => []StorageLinked
<1>1. Init => ProcessorInv
  BY ProcessorInit
<1>2. ProcessorInv /\ [Next]_vars => ProcessorInv'
  BY ProcessorStep
<1>3. ProcessorInv => StorageLinked
  BY StorageOkLinked DEF ProcessorInv
<1> QED BY <1>1, <1>2, <1>3, PTL DEF Spec

\* The logs of locally safe blocks change only in rewind (an invalidated block)
\* and in the rewind of the reorg task; rewind_log_storage stops above LocalSafe.
THEOREM SupervisorSafeLogsKept ==
  ASSUME GenesisActivation
  PROVE  Spec => SafeLogsKept
<1>1. Init => ProcessorInv
  BY ProcessorInit
<1>2. ProcessorInv /\ [Next]_vars => ProcessorInv'
  BY ProcessorStep
<1> DEFINE Kept == LET h == db.heads["LocalSafe"]
                   IN  h # None /\ ~RewindInvalidated /\ ~RewindReorged =>
                         \A n \in DOMAIN db.logs :
                           n <= Number[h] => n \in DOMAIN db'.logs /\ db'.logs[n] = db.logs[n]
<1>3. ProcessorInv /\ [Next]_vars => [Kept]_vars
  BY ProcessorStep DEF SafeRowsKept
<1> HIDE DEF Kept
<1>4. Spec => [][Kept]_vars
  BY <1>1, <1>2, <1>3, PTL DEF Spec
<1> QED BY <1>4 DEF SafeLogsKept, Kept
=============================================================================
