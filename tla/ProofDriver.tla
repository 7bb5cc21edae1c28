---------------------------- MODULE ProofDriver ----------------------------
(***************************************************************************)
(* The driver of the fault proof program: it steps the derivation pipeline *)
(* from the cursor's tip, executes the attributes it yields and advances   *)
(* the cursor, until the claimed block is reached or L1 is exhausted.      *)
(*                                                                         *)
(* An L2 block is the chain that ends with it, a sequence of headers from  *)
(* the agreed block on, and stands for its own hash.  Blocks are BlockTime *)
(* apart.  The pipeline is what the driver sees of it: the L1 block it is  *)
(* at, whether its data was read, and the batches left of it.  A temporary *)
(* error repeats the step and is left out.                                 *)
(***************************************************************************)
EXTENDS Integers, FiniteSetsExt, SequencesExt

CONSTANTS ChannelTimeout, CacheMargin,   \* their sum is the capacity of the cursor
          GenesisL1, L1Head,             \* the first L1 block and the last the program may read
          SafeNumber, SafeOrigin,        \* number and L1 origin of the agreed L2 block
          BlockTime,
          Cases       \* activation times of the forks, the claimed block number, the batches an L1
                      \* block may complete and the system config's eip_1559_params, "zero" by default

VARIABLES config,     \* the case
          cursor,     \* PipelineCursor
          pipeline,   \* OraclePipeline: origin and the batches left of the channel
          executor,   \* the chain the executor builds on, <<>> when there is none
          driver      \* the state of advance_to_target

driverVars == <<config, cursor, pipeline, executor, driver>>

-----------------------------------------------------------------------------
Number(head) == SafeNumber + Len(head) - 1
Timestamp(number) == number * BlockTime

IsActive(fork, time) == time >= config[fork]

\* extra_data: the version of its encoding and the fee parameters in it.  The
\* zero parameters of the attributes stand for the parameters of the config.
EncodeParams(params) == IF params = "zero" THEN "base" ELSE params

ExtraData(time, params) ==
  CASE IsActive("jovian", time) -> [version |-> 1, params |-> EncodeParams(params)]
    [] IsActive("holocene", time) /\ ~IsActive("jovian", time) ->
         [version |-> 0, params |-> EncodeParams(params)]
    [] OTHER -> [version |-> -1, params |-> "none"]

\* decode_holocene_extra_data and decode_jovian_extra_data check the version.
Decode(header, version) == IF header.extra.version = version THEN header.extra.params ELSE "error"

ActiveBaseFeeParams(parent, time) ==
  LET parentTime == Timestamp(Number(parent))
  IN CASE IsActive("jovian", parentTime) -> Decode(Last(parent), 1)
       [] IsActive("holocene", parentTime) /\ ~IsActive("jovian", parentTime) -> Decode(Last(parent), 0)
       [] OTHER -> IF IsActive("canyon", time) THEN "canyon" ELSE "base"

\* The base fee of a block: by the parameters, the gas its parent used and,
\* after Jovian, the data gas and the minimum its parent names.
NextBlockBaseFee(params, parent) ==
  [params |-> params, floor |-> IsActive("jovian", Timestamp(Number(parent)))]

PrepareBlockEnv(parent, attributes) ==
  LET params == ActiveBaseFeeParams(parent, attributes.time)
  IN [number |-> Number(parent) + 1, time |-> attributes.time,
      fee |-> NextBlockBaseFee(params, parent), valid |-> params # "error"]

SealBlock(env, attributes) ==
  [number |-> env.number, time |-> env.time, txs |-> attributes.txs, fee |-> env.fee,
   extra |-> ExtraData(env.time, attributes.params)]

-----------------------------------------------------------------------------
(***************************************************************************)
(* StatelessL2Builder: builds on the header it was made for.  A block that *)
(* is sealed becomes the parent, and the output root is the parent's.      *)
(***************************************************************************)
UpdateSafeHead(head) == head

\* "invalid" holds a transaction that cannot be in the block, "broken" a
\* deposit that cannot.
Executes(attributes) == attributes.txs \in {"good", "deposits"}

BuildBlock(parent, attributes) ==
  LET env == PrepareBlockEnv(parent, attributes)
  IN IF env.valid /\ Executes(attributes) THEN {Append(parent, SealBlock(env, attributes))} ELSE {}

ExecutePayload(attributes) == IF executor = <<>> THEN {} ELSE BuildBlock(executor, attributes)

ZeroRoot == [zero |-> TRUE, of |-> <<>>]
ComputeOutputRoot(parent) == [zero |-> FALSE, of |-> parent]

DepositsOnly(attributes) ==
  [attributes EXCEPT !.txs = IF @ \in {"good", "invalid"} THEN "deposits" ELSE @]

-----------------------------------------------------------------------------
(***************************************************************************)
(* PipelineCursor: the tips by the L1 block they were derived at.          *)
(***************************************************************************)
TipCursor(head, root) == [head |-> head, root |-> root]

NewCursor(origin) == [origin |-> origin, origins |-> <<origin>>, tips |-> <<>>]

Tip(c) == c.tips[Max(DOMAIN c.tips)]

Capacity == ChannelTimeout + CacheMargin

Evict(c) ==
  IF Cardinality(DOMAIN c.tips) < Capacity THEN c
  ELSE [c EXCEPT !.origins = Tail(@),
                 !.tips = [n \in DOMAIN @ \ {Head(c.origins)} |-> @[n]]]

Advance(c, origin, tip) ==
  LET kept == Evict(c)
  IN [origin |-> origin, origins |-> Append(kept.origins, origin),
      tips |-> [n \in DOMAIN kept.tips \cup {origin} |-> IF n = origin THEN tip ELSE kept.tips[n]]]

\* reset: the tips it may go back to when L1 forks at a block.
Anchors(c, fork) == {n \in DOMAIN c.tips : n <= fork - ChannelTimeout}

\* new_oracle_pipeline_cursor: the cursor starts a channel timeout before the
\* L1 origin of the agreed block.
StartOrigin == Max({SafeOrigin - ChannelTimeout, GenesisL1})

AgreedHeader ==
  [number |-> SafeNumber, time |-> Timestamp(SafeNumber), txs |-> "good",
   fee |-> [params |-> "base", floor |-> FALSE], extra |-> ExtraData(Timestamp(SafeNumber), config.params)]

DriverInit ==
  /\ config \in Cases
  /\ cursor = Advance(NewCursor(StartOrigin), StartOrigin, TipCursor(<<AgreedHeader>>, ZeroRoot))
  /\ pipeline = [origin |-> StartOrigin, read |-> FALSE, batches |-> <<>>]
  /\ executor = <<>>
  /\ driver = [pc |-> "check", target |-> config.claim, attributes |-> <<>>, artifacts |-> <<>>,
               head |-> <<>>, root |-> ZeroRoot]

-----------------------------------------------------------------------------
SafeHead == Tip(cursor).head

Return(pc) == [driver EXCEPT !.pc = pc, !.attributes = <<>>]

\* The loop's head: returns at the target.
CheckTarget ==
  /\ driver.pc = "check"
  /\ driver' = IF Number(SafeHead) >= driver.target
               THEN [Return("done") EXCEPT !.head = SafeHead, !.root = Tip(cursor).root]
               ELSE [driver EXCEPT !.pc = "step"]
  /\ UNCHANGED <<config, cursor, pipeline, executor>>

\* Pipeline::step: the next batch of the channel gives the attributes of the
\* next block, and the driver goes on to execute them.
StepPrepared ==
  /\ driver.pc = "step" /\ pipeline.batches # <<>>
  /\ LET batch == Head(pipeline.batches)
     IN /\ batch.number = Number(SafeHead) + 1
        /\ driver' = [driver EXCEPT !.pc = "execute",
                        !.attributes = <<[time |-> Timestamp(batch.number), txs |-> batch.txs,
                                          params |-> config.params]>>]
  /\ pipeline' = [pipeline EXCEPT !.batches = Tail(@)]
  /\ UNCHANGED <<config, cursor, executor>>

\* A batch that does not follow the tip, since the one before it was
\* discarded, is dropped with the rest of its span.
StepDrop ==
  /\ driver.pc = "step" /\ pipeline.batches # <<>>
  /\ Head(pipeline.batches).number # Number(SafeHead) + 1
  /\ pipeline' = [pipeline EXCEPT !.batches = <<>>]
  /\ UNCHANGED <<config, cursor, executor, driver>>

\* The data of the L1 block completes a channel, with batches for the blocks
\* after the tip.
Batches(contents) ==
  [i \in DOMAIN contents |-> [number |-> Number(SafeHead) + i, txs |-> contents[i]]]

StepRead ==
  /\ driver.pc = "step" /\ pipeline.batches = <<>> /\ ~pipeline.read
  /\ \E contents \in config.contents :
       pipeline' = [pipeline EXCEPT !.read = TRUE, !.batches = Batches(contents)]
  /\ UNCHANGED <<config, cursor, executor, driver>>

\* Otherwise the pipeline moves to the next L1 block.  At the first block of
\* Holocene an activation signal clears the stages, which are empty here.
StepAdvancedOrigin ==
  /\ driver.pc = "step" /\ pipeline.batches = <<>> /\ pipeline.read /\ pipeline.origin < L1Head
  /\ pipeline' = [pipeline EXCEPT !.origin = @ + 1, !.read = FALSE]
  /\ UNCHANGED <<config, cursor, executor, driver>>

\* The reset of the pipeline, whatever it was that asked for it: the stages
\* are cleared, and it stays at the L1 block it has reached.
MutResetSignal(p) == [origin |-> StartOrigin, read |-> FALSE, batches |-> <<>>]
ResetSignal(p) == [p EXCEPT !.read = FALSE, !.batches = <<>>]

StepReset ==
  /\ driver.pc = "step"
  /\ pipeline' = ResetSignal(pipeline)
  /\ UNCHANGED <<config, cursor, executor, driver>>

\* At the L1 head the source is exhausted: the tip becomes the target, but
\* with interop the caller is told.  is_interop_active gets the block number.
StepEndOfSource ==
  /\ driver.pc = "step" /\ pipeline.batches = <<>> /\ pipeline.read /\ pipeline.origin = L1Head
  /\ driver' = IF IsActive("interop", Number(SafeHead))
               THEN Return("exhausted")
               ELSE [Return("check") EXCEPT !.target = Number(SafeHead)]
  /\ UNCHANGED <<config, cursor, pipeline, executor>>

Execute ==
  /\ driver.pc = "execute"
  /\ executor' = UpdateSafeHead(SafeHead)
  /\ driver' = [driver EXCEPT !.pc = "build"]
  /\ UNCHANGED <<config, cursor, pipeline>>

\* The tip is the executed block's, under the L1 block the pipeline is at.
Sealed(head) ==
  /\ executor' = head
  /\ cursor' = Advance(cursor, pipeline.origin, TipCursor(head, ComputeOutputRoot(head)))
  /\ driver' = [Return("check") EXCEPT !.artifacts = head]
  /\ UNCHANGED <<config, pipeline>>

BuildSucceeds ==
  /\ driver.pc \in {"build", "retry"}
  /\ \E head \in ExecutePayload(driver.attributes[1]) : Sealed(head)

\* Since Holocene a block that cannot be executed flushes the channel and is
\* tried again with its deposits only; before, it is discarded.
BuildFails ==
  /\ driver.pc = "build" /\ ExecutePayload(driver.attributes[1]) = {}
  /\ IF IsActive("holocene", driver.attributes[1].time)
     THEN /\ pipeline' = [pipeline EXCEPT !.batches = <<>>]
          /\ executor' = UpdateSafeHead(SafeHead)
          /\ driver' = [driver EXCEPT !.pc = "retry", !.attributes = <<DepositsOnly(@[1])>>]
     ELSE /\ driver' = Return("check")
          /\ UNCHANGED <<pipeline, executor>>
  /\ UNCHANGED <<config, cursor>>

RetryFails ==
  /\ driver.pc = "retry" /\ ExecutePayload(driver.attributes[1]) = {}
  /\ driver' = Return("failed")
  /\ UNCHANGED <<config, cursor, pipeline, executor>>

DriverNext ==
  \/ CheckTarget \/ StepPrepared \/ StepDrop \/ StepRead \/ StepAdvancedOrigin \/ StepReset
  \/ StepEndOfSource \/ Execute \/ BuildSucceeds \/ BuildFails \/ RetryFails

-----------------------------------------------------------------------------
(***************************************************************************)
(* The driver derives one chain: the cursor's tip is the block executed    *)
(* last, each block was built on the one before it for the time that       *)
(* follows it, and a result is a block with its own output root, which is  *)
(* unknown only when nothing was executed.  A block fails for its          *)
(* transactions only, never for the fee parameters of its parent.  A fork  *)
(* of L1 at the cursor's origin finds a tip a channel timeout before it    *)
(* (Driver::advance_to_target, PipelineCursor::tip, advance and reset,     *)
(* StatelessL2Builder::build_block).                                       *)
(***************************************************************************)
DriverSound ==
  /\ driver.artifacts # <<>> => /\ SafeHead = driver.artifacts
                                /\ Tip(cursor).root = ComputeOutputRoot(driver.artifacts)
  /\ \A i \in DOMAIN SafeHead : /\ SafeHead[i].number = SafeNumber + i - 1
                                /\ SafeHead[i].time = Timestamp(SafeNumber + i - 1)
  /\ driver.pc = "done" => /\ Number(driver.head) >= driver.target
                           /\ driver.root = IF driver.artifacts = <<>> THEN ZeroRoot
                                            ELSE ComputeOutputRoot(driver.head)
  /\ driver.pc = "build" => ActiveBaseFeeParams(executor, driver.attributes[1].time) # "error"
  /\ cursor.origin - ChannelTimeout >= StartOrigin => Anchors(cursor, cursor.origin) # {}
=============================================================================
