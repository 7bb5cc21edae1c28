----------------------------- MODULE EngineTasks -----------------------------
(***************************************************************************)
(* The engine tasks of crates/node/engine: what one attempt to execute a   *)
(* task may do to the engine state and to the execution layer, and with    *)
(* which error it may end.  A task holds the engine state exclusively, so  *)
(* an attempt is one step; the answers of the execution layer, including   *)
(* lost ones, make its outcome a SET of outcomes.                          *)
(***************************************************************************)
EXTENDS Integers, Sequences

(***************************************************************************)
(* THE EXECUTION LAYER (op-geth, op-reth) as the rollup node sees it       *)
(* through the Engine API.  It is a service outside this repository: every *)
(* operator here is modelled from the way crates/node/engine calls it and  *)
(* classifies its answers.                                                 *)
(*                                                                         *)
(* A block hash commits to the whole history of the block, so a block IS   *)
(* the sequence of the payload contents since genesis: its number is its   *)
(* length, its parent is its front, its ancestors are its prefixes.        *)
(***************************************************************************)
CONSTANTS
  Txs,        \* payload contents that carry user transactions
  Invalid,    \* those of them the execution layer rejects
  Deposits,   \* the content of a deposits-only payload
  NoBlock,    \* L2BlockInfo::default(): the zero hash, at number 0
  RpcFails    \* may a call to the execution layer fail in transport?

ASSUME ContentAssumption ==
  /\ Invalid \subseteq Txs
  /\ Deposits \notin Txs
  /\ NoBlock \notin Seq(Txs \cup {Deposits})
  /\ RpcFails \in BOOLEAN

Content == Txs \cup {Deposits}
Block   == Seq(Content)
Genesis == << >>
MaybeBlock    == Block \cup {NoBlock}

\* Front, Last and IsPrefix have the meaning SequencesExt gives them; that
\* module is too large a context for the proofs about this one.
Front(s) == SubSeq(s, 1, Len(s) - 1)
Last(s)  == s[Len(s)]
IsPrefix(s, t) == Len(s) <= Len(t) /\ SubSeq(s, 1, Len(s)) = SubSeq(t, 1, Len(s))

Number(h) == IF h = NoBlock THEN 0 ELSE Len(h)

\* a is b or an ancestor of b; the zero hash is a wildcard of the Engine API.
IsAncestor(a, b) == a = NoBlock \/ IsPrefix(a, b)

Ancestors(b) == {SubSeq(b, 1, n) : n \in 0 .. Len(b)}

(***************************************************************************)
(* known: the blocks imported so far; head, safe, finalized: the labels of *)
(* the last forkchoice accepted; target: the head of an unfinished sync.   *)
(***************************************************************************)
ELState == [known : SUBSET Block, head : Block, safe : MaybeBlock,
            finalized : MaybeBlock, target : MaybeBlock]

ELStart(b, s, f) == [known |-> Ancestors(b), head |-> b, safe |-> s,
                     finalized |-> f, target |-> NoBlock]

Answer(e, status) == [el |-> e, status |-> status]

\* A call may fail in transport before or after it took effect.
WithRpcFailure(e, answer) ==
  {answer} \cup (IF RpcFails THEN {Answer(e, "RpcError"),
                                   Answer(answer.el, "RpcError")}
                             ELSE {})

(***************************************************************************)
(* engine_newPayload: VALID and imported on a known parent, INVALID if the *)
(* content is, SYNCING on an unknown parent.                               *)
(***************************************************************************)
NewPayload(e, b) ==
  WithRpcFailure(e,
    IF b # Genesis /\ Last(b) \in Invalid THEN Answer(e, "Invalid")
    ELSE IF b = Genesis \/ Front(b) \in e.known
         THEN Answer([e EXCEPT !.known = @ \cup {b}], "Valid")
         ELSE Answer(e, "Syncing"))

(***************************************************************************)
(* engine_forkchoiceUpdated: a known head whose ancestors include the safe *)
(* and the finalized block becomes canonical; an unknown head starts a     *)
(* sync; anything else is the error INVALID_FORK_CHOICE_STATE.             *)
(***************************************************************************)
ForkchoiceUpdated(e, h, s, f) ==
  WithRpcFailure(e,
    IF h \notin e.known THEN Answer([e EXCEPT !.target = h], "Syncing")
    ELSE IF IsAncestor(s, h) /\ IsAncestor(f, h)
         THEN Answer([e EXCEPT !.head = h, !.target = NoBlock,
                               !.safe = IF s = NoBlock THEN @ ELSE s,
                               !.finalized = IF f = NoBlock THEN @ ELSE f],
                     "Valid")
         ELSE Answer(e, "InvalidForkchoiceState"))

\* eth_getBlockByNumber: the canonical block at height n, or NoBlock.
BlockAt(e, n) == IF n <= Len(e.head) THEN SubSeq(e.head, 1, n) ELSE NoBlock

\* The sync the execution layer was asked for completes.
CanFinishSync(e) == /\ e.target # NoBlock
                    /\ \A i \in DOMAIN e.target : e.target[i] \notin Invalid

FinishSync(e) == [e EXCEPT !.known = @ \cup Ancestors(e.target),
                           !.head = e.target, !.target = NoBlock]

-----------------------------------------------------------------------------
(* THE TASKS. *)
CONSTANTS
  HoloceneActive,   \* is Holocene active at the attributes' timestamps?
  Malformed         \* contents no L2BlockInfo can be read from

ASSUME TaskAssumption == HoloceneActive \in BOOLEAN /\ Malformed \subseteq Txs

-----------------------------------------------------------------------------
\* EngineSyncState and EngineState.
EngineSyncState == [unsafe : MaybeBlock, cross_unsafe : MaybeBlock,
                    local_safe : MaybeBlock, safe : MaybeBlock,
                    finalized : MaybeBlock]

DefaultSync == [unsafe |-> NoBlock, cross_unsafe |-> NoBlock,
                local_safe |-> NoBlock, safe |-> NoBlock,
                finalized |-> NoBlock]

EngineState == [sync : EngineSyncState, el_sync_finished : BOOLEAN]

\* The updates the tasks hand to EngineSyncState::apply_update.
UnsafeUpdate(sync, b)    == [sync EXCEPT !.unsafe = b, !.cross_unsafe = b]
SafeUpdate(sync, b)      == [sync EXCEPT !.safe = b, !.local_safe = b]
FinalizedUpdate(sync, b) == [sync EXCEPT !.finalized = b]

-----------------------------------------------------------------------------
\* How an attempt ends: "Ok", the severity of its error, or "Status", which is
\* InsertTaskError::UnexpectedPayloadStatus, the one error BuildTask tells
\* apart by more than its severity.
Severity(err) == IF err = "Status" THEN "Temporary" ELSE err

Outcome(st, e, err) ==
  [st |-> st, el |-> e, err |-> err, payload |-> NoBlock]

\* A plain read of the execution layer may fail too.
RpcFailure(st, e) == IF RpcFails THEN {Outcome(st, e, "Temporary")} ELSE {}

\* L2BlockInfo::from_block_and_genesis fails on a malformed block.
HasBlockInfo(b) == b = Genesis \/ Last(b) \notin Malformed

\* OpAttributesWithParent: derived_from is the L1 block number (0 for the
\* sequencer's own attributes), last is is_last_in_span.
Attributes == [parent : Block, content : Content, derived_from : Nat,
               last : BOOLEAN]

BlockNumber(a) == Len(a.parent) + 1

\* The transactions of a payload: the L1 info deposit always comes first.
Transactions(c) ==
  IF c = Deposits THEN <<"deposit">> ELSE <<"deposit", "user">>

\* OpAttributesWithParent::is_deposits_only iterates over the Option around
\* the list, so it looks at the first transaction only.
IsDepositsOnly(a) == Head(Transactions(a.content)) = "deposit"

\* as_deposits_only turns every transaction into the single byte 0x7e, which
\* the execution layer cannot decode.
Undecodable == "undecodable"

\* It is no content: what the execution layer cannot decode is no payload.
ASSUME UndecodableAssumption == Undecodable \notin Content

AsDepositsOnly(a) == [a EXCEPT !.content = Undecodable]

(***************************************************************************)
(* SynchronizeTask::execute: adopt the sync state n once the execution     *)
(* layer took the forkchoice it stands for (VALID or SYNCING).             *)
(***************************************************************************)
ForkchoiceNeeded(st, n) == st.sync = DefaultSync \/ st.sync # n

\* Mutant of Synchronized: a rejected forkchoice is adopted all the same.
MutSynchronizedRejected(st, n, r) ==
  IF r.status = "RpcError" THEN Outcome(st, r.el, "Temporary")
  ELSE Outcome([sync |-> n, el_sync_finished |-> TRUE], r.el, "Ok")

Synchronized(st, n, r) ==
  CASE r.status = "Valid"   -> Outcome([sync |-> n, el_sync_finished |-> TRUE],
                                       r.el, "Ok")
    [] r.status = "Syncing" -> Outcome([st EXCEPT !.sync = n], r.el, "Ok")
    [] r.status = "InvalidForkchoiceState" -> Outcome(st, r.el, "Reset")
    [] OTHER                -> Outcome(st, r.el, "Temporary")

\* Mutant of Synchronize: without the check of the finalized head.
MutSynchronize(st, e, n) ==
  IF ~ForkchoiceNeeded(st, n) THEN {Outcome(st, e, "Ok")}
  ELSE {Synchronized(st, n, r) :
          r \in ForkchoiceUpdated(e, n.unsafe, n.safe, n.finalized)}

Synchronize(st, e, n) ==
  IF ~ForkchoiceNeeded(st, n) THEN {Outcome(st, e, "Ok")}
  ELSE IF Number(n.unsafe) < Number(n.finalized)
       THEN {Outcome(st, e, "Critical")}
       ELSE {Synchronized(st, n, r) :
               r \in ForkchoiceUpdated(e, n.unsafe, n.safe, n.finalized)}

(***************************************************************************)
(* InsertTask::execute: engine_newPayload, then a forkchoice update that   *)
(* makes the block the unsafe head, and the safe head if it was derived.   *)
(***************************************************************************)
\* Mutant of Insert: the status of the new payload is not looked at.
MutInsert(st, e, b, derived) ==
  UNION {Synchronize(st, r.el,
           IF derived THEN SafeUpdate(UnsafeUpdate(st.sync, b), b)
                      ELSE UnsafeUpdate(st.sync, b)) : r \in NewPayload(e, b)}

Insert(st, e, b, derived) ==
  UNION {CASE r.status = "RpcError" -> {Outcome(st, r.el, "Temporary")}
           [] r.status = "Invalid"  -> {Outcome(st, r.el, "Status")}
           [] OTHER ->
                IF HasBlockInfo(b)
                THEN Synchronize(st, r.el,
                       IF derived THEN SafeUpdate(UnsafeUpdate(st.sync, b), b)
                                  ELSE UnsafeUpdate(st.sync, b))
                ELSE {Outcome(st, r.el, "Critical")} :
         r \in NewPayload(e, b)}

(***************************************************************************)
(* BuildTask::start_build: a forkchoice update with the attributes' parent *)
(* as head.  Any answer but VALID is a temporary error, the errors for an  *)
(* invalid forkchoice and for undecodable attributes included; the latter  *)
(* is sent after the forkchoice took effect.                               *)
(***************************************************************************)
StartBuild(st, e, a) ==
  IF Number(st.sync.unsafe) < Number(st.sync.finalized)
  THEN {Outcome(st, e, "Critical")}
  ELSE {Outcome(st, r.el,
                IF r.status = "Valid" /\ a.content # Undecodable
                THEN "Ok" ELSE "Temporary") :
          r \in ForkchoiceUpdated(e, a.parent, st.sync.safe,
                                  st.sync.finalized)}

\* BuildTask::fetch_payload and the import of the payload it returns.
SealAndImport(st, e, a, derived) ==
  LET b == Append(a.parent, a.content)
  IN  RpcFailure(st, e) \cup
      (IF HasBlockInfo(b)
       THEN {[o EXCEPT !.payload = IF o.err = "Ok" THEN b ELSE NoBlock] :
               o \in Insert(st, e, b, derived)}
       ELSE {Outcome(st, e, "Critical")})

BuildOnce(st, e, a, derived) ==
  UNION {IF o.err = "Ok" THEN SealAndImport(st, o.el, a, derived) ELSE {o} :
           o \in StartBuild(st, e, a)}

\* The second attempt, on what as_deposits_only returns: imported, it would ask
\* for a flush; failing for whatever reason, it is critical.
Reattempt(st, e, a, derived) ==
  {[o EXCEPT !.err = IF o.err = "Ok" THEN "Flush" ELSE "Critical"] :
     o \in BuildOnce(st, e, AsDepositsOnly(a), derived)}

(***************************************************************************)
(* BuildTask::execute: what an INVALID payload leads to depends on the     *)
(* attributes and on Holocene.                                             *)
(***************************************************************************)
Build(st, e, a, derived) ==
  UNION {CASE o.err = "Status" /\ IsDepositsOnly(a) ->
                {[o EXCEPT !.err = "Critical"]}
           [] o.err = "Status" /\ ~IsDepositsOnly(a) /\ HoloceneActive ->
                Reattempt(o.st, o.el, a, derived)
           [] OTHER -> {o} :
         o \in BuildOnce(st, e, a, derived)}

(***************************************************************************)
(* ConsolidateTask::execute: match the attributes against the canonical    *)
(* block at their height while the unsafe head is ahead of the safe head,  *)
(* build them otherwise.                                                   *)
(***************************************************************************)
\* Mutant of AttributesMatch: the transactions are not compared.
MutAttributesMatch(a, b) == a.parent = Front(b)

\* check_transactions, check_withdrawals and check_eip1559: what the
\* attributes describe is what the block holds.
SameContent(a, b) == a.content = Last(b)

AttributesMatch(a, b) == a.parent = Front(b) /\ SameContent(a, b)

ConsolidateMatch(st, e, a, b) ==
  IF a.last THEN Synchronize(st, e, SafeUpdate(st.sync, b))
  ELSE {Outcome([st EXCEPT !.sync = SafeUpdate(@, b)], e, "Ok")}

Consolidate(st, e, a) ==
  LET b == BlockAt(e, BlockNumber(a))
  IN  IF Number(st.sync.safe) >= Number(st.sync.unsafe)
      THEN Build(st, e, a, TRUE)
      ELSE RpcFailure(st, e) \cup
           (IF b = NoBlock THEN {Outcome(st, e, "Reset")}
            ELSE IF AttributesMatch(a, b) /\ HasBlockInfo(b)
                 THEN ConsolidateMatch(st, e, a, b)
                 ELSE Build(st, e, a, TRUE))

(***************************************************************************)
(* FinalizeTask::execute.                                                  *)
(***************************************************************************)
Finalize(st, e, n) ==
  IF Number(st.sync.safe) < n THEN {Outcome(st, e, "Critical")}
  ELSE RpcFailure(st, e) \cup
       (IF BlockAt(e, n) # NoBlock /\ HasBlockInfo(BlockAt(e, n))
        THEN Synchronize(st, e, FinalizedUpdate(st.sync, BlockAt(e, n)))
        ELSE {Outcome(st, e, "Critical")})

-----------------------------------------------------------------------------
\* EngineTask, and the order of its variants (Ord for EngineTask).
Priority(t) == CASE t.kind = "Build" -> 4 [] t.kind = "Insert" -> 3
                 [] t.kind = "Consolidate" -> 2 [] OTHER -> 1

\* rx names the receiver of the channel the payload is sent to.
BuildTask(a, rx)   == [kind |-> "Build", attrs |-> a, rx |-> rx]
InsertTask(b)      == [kind |-> "Insert", block |-> b]
ConsolidateTask(a) == [kind |-> "Consolidate", attrs |-> a]
FinalizeTask(n)    == [kind |-> "Finalize", number |-> n]

Task == [kind : {"Build"}, attrs : Attributes, rx : Nat]
          \cup [kind : {"Consolidate"}, attrs : Attributes]
          \cup [kind : {"Insert"}, block : Block]
          \cup [kind : {"Finalize"}, number : Nat]

\* EngineTask::execute_inner.
Execute(st, e, t) ==
  CASE t.kind = "Build"       -> Build(st, e, t.attrs, FALSE)
    [] t.kind = "Insert"      -> Insert(st, e, t.block, FALSE)
    [] t.kind = "Consolidate" -> Consolidate(st, e, t.attrs)
    [] t.kind = "Finalize"    -> Finalize(st, e, t.number)
=============================================================================
