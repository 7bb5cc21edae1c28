-------------------------- MODULE AttributesBuilder --------------------------
(***************************************************************************)
(* The stateful attributes builder, and the system config on its way from  *)
(* L1 logs into L2 blocks and into the L1 traversal of the derivation      *)
(* pipeline.                                                               *)
(*                                                                         *)
(* The builder keeps no state: it reads the config of the parent block,    *)
(* applies the logs of the epoch's L1 block when the epoch is new, and     *)
(* writes it into the block it builds.  The traversal keeps a config of    *)
(* its own, replaced by that of the L2 safe head at a reset and at the     *)
(* activation of Holocene.                                                 *)
(*                                                                         *)
(* Both read L2 blocks by number through a provider of their own.  That of *)
(* the node keeps the last CacheSize answers and never drops one because   *)
(* the chain changed; that of the fault proof program keeps none.          *)
(*                                                                         *)
(* An L1 block is named by the sequence of the contents of the blocks up   *)
(* to it, which stands for its hash; its number is the length.  L1 block n *)
(* has time n * L1Time and L2 block i has time i * BlockTime.              *)
(***************************************************************************)
EXTENDS SystemConfig

CONSTANTS Schedules,     \* the fork schedules a rollup may have
          Contents,      \* the contents of L1 blocks
          Receipts(_),   \* the receipts of an L1 block with that content
          L1Time,
          CacheSize,     \* capacity of block_by_number_cache, 0 for no cache
          MaxL1, MaxL2,  \* bounds on the length of the two chains
          MaxReorgs      \* bound on L1 reorgs

VARIABLES schedule,   \* the rollup config's hardforks
          l1,         \* the canonical L1 chain
          l2,         \* the unsafe L2 chain after genesis
          safe,       \* the number of the L2 safe head
          traversal,  \* the traversal stage: its block, its config, and the
                      \* start and safe origin of the last signal
          caches,     \* the builder's and the pipeline's block_by_number_cache,
                      \* the most recently used entry first
          halted,     \* a critical error has stopped the node
          reorgs

avars == <<schedule, l1, l2, safe, traversal, caches, halted, reorgs>>

Time(number) == number * BlockTime
L1BlockTime(block) == Len(block) * L1Time
ReceiptsOf(block) == Receipts(Last(block))

OriginOf(number) == IF number = 0 THEN <<>> ELSE l2[number].origin

\* block_by_number of a provider: the cached answer or that of the node, and
\* the cache with it in front.
BlockByNumber(who, number) ==
    LET i == SelectInSeq(caches[who], LAMBDA e : e.number = number)
    IN  IF i = 0 THEN l2[number] ELSE caches[who][i].block

Cached(who, number) ==
    LET others == SelectSeq(caches[who], LAMBDA e : e.number # number)
        entry == [number |-> number, block |-> BlockByNumber(who, number)]
        new == <<entry>> \o others
    IN  IF number = 0 THEN caches
        ELSE [caches EXCEPT ![who] = SubSeq(new, 1, Min({Len(new), CacheSize}))]

ConfigByNumber(who, number) ==
    IF number = 0 THEN GenesisConfig
    ELSE ToSystemConfig(schedule, BlockByNumber(who, number), Time(number))

PredeploysAt(number) ==
    IF number = 0 THEN Upgraded[ActiveUpgrades(schedule, 0)] ELSE l2[number].predeploys

Signalled(block, config, safeOrigin) ==
    [block |-> block, config |-> config, start |-> Len(block), safeOrigin |-> safeOrigin]

AttributesInit ==
    /\ schedule \in Schedules
    /\ l1 = <<>> /\ l2 = <<>> /\ safe = 0
    /\ traversal = Signalled(<<>>, GenesisConfig, <<>>)
    /\ caches = [builder |-> <<>>, pipeline |-> <<>>]
    /\ halted = FALSE /\ reorgs = 0

-----------------------------------------------------------------------------
(* L1.                                                                       *)

ExtendL1 ==
    /\ Len(l1) < MaxL1
    /\ \E content \in Contents : l1' = Append(l1, content)
    /\ UNCHANGED <<schedule, l2, safe, traversal, caches, halted, reorgs>>

ReorgL1 ==
    /\ reorgs < MaxReorgs /\ l1 # <<>>
    /\ \E kept \in 0..(Len(l1) - 1) : \E content \in Contents \ {l1[kept + 1]} :
          l1' = Append(SubSeq(l1, 1, kept), content)
    /\ reorgs' = reorgs + 1
    /\ UNCHANGED <<schedule, l2, safe, traversal, caches, halted>>

-----------------------------------------------------------------------------
(* prepare_payload_attributes, and the block the execution layer makes of    *)
(* the attributes.                                                           *)

\* A deposit is identified by its source: the L1 block and the log's index
\* among those of the block's successful transactions.
DecodeDeposit(block, index) == [block |-> block, index |-> index]

DeriveDeposits(block) ==
    LET logs == Logs(ReceiptsOf(block))
        deposits == {j \in DOMAIN logs : logs[j].topic = "deposit" /\ logs[j].address = "portal"}
        order == SetToSortSeq(deposits, <)
    IN  [i \in DOMAIN order |-> DecodeDeposit(block, order[i])]

UpgradesDue(time, parentTime) ==
    FlattenSeq([i \in DOMAIN UpgradeForks |->
        IF /\ IsActive(schedule, UpgradeForks[i], time)
           /\ ~IsActive(schedule, UpgradeForks[i], parentTime)
        THEN UpgradeTxs[UpgradeForks[i]] ELSE <<>>])

\* The parent's origin, and the next canonical block when it extends it.
MutEpochFits(parent, epoch) ==
    IF Len(epoch) # Len(OriginOf(parent)) THEN TRUE ELSE OriginOf(parent) = epoch

EpochFits(parent, epoch) ==
    IF Len(epoch) # Len(OriginOf(parent)) THEN OriginOf(parent) = Front(epoch)
    ELSE OriginOf(parent) = epoch

Attributes(parent, epoch) ==
    LET time == Time(parent + 1)
        new == Len(epoch) # Len(OriginOf(parent))
        config == IF new THEN UpdateWithReceipts(ConfigByNumber("builder", parent), ReceiptsOf(epoch),
                                     IsActive(schedule, "ecotone", L1BlockTime(epoch)))
                  ELSE ConfigByNumber("builder", parent)
    IN  [info |-> Info(schedule, config, time),
         deposits |-> IF new THEN DeriveDeposits(epoch) ELSE <<>>,
         upgrades |-> UpgradesDue(time, Time(parent)),
         withdrawals |-> IsActive(schedule, "canyon", time),
         beaconRoot |-> IsActive(schedule, "ecotone", time),
         gasLimit |-> config.gasLimit,
         eip1559 |-> Eip1559Params(schedule, config, Time(parent), time),
         minBaseFee |-> IF IsActive(schedule, "jovian", time)
                        THEN OrDefault(config.minBaseFee, 0) ELSE None]

Block(parent, epoch, attributes) ==
    [origin |-> epoch, info |-> attributes.info, deposits |-> attributes.deposits,
     upgrades |-> attributes.upgrades, gasLimit |-> attributes.gasLimit,
     extra |-> ExtraData(schedule, attributes, Time(parent + 1)),
     predeploys |-> FoldLeft(Execute, PredeploysAt(parent), attributes.upgrades)]

\* The epochs a sequencer or a batch may name: the parent's number or the
\* next, on the canonical chain.
Build ==
    LET parent == Len(l2)
        from == Len(OriginOf(parent))
    IN  /\ ~halted /\ parent < MaxL2
        /\ \E number \in {from, from + 1} \cap (0..Len(l1)) :
              LET epoch == SubSeq(l1, 1, number)
              IN  /\ EpochFits(parent, epoch)
                  /\ Time(parent + 1) >= L1BlockTime(epoch)
                  /\ IF number # from /\ UpdateFails(ReceiptsOf(epoch))
                     THEN halted' = TRUE /\ UNCHANGED l2
                     ELSE /\ l2' = Append(l2, Block(parent, epoch, Attributes(parent, epoch)))
                          /\ UNCHANGED halted
        /\ caches' = Cached("builder", parent)
        /\ UNCHANGED <<schedule, l1, safe, traversal, reorgs>>

-----------------------------------------------------------------------------
(* The derivation pipeline.                                                  *)

\* advance_origin.  When the step crosses the activation of Holocene the
\* driver answers with an activation signal, which carries the config of
\* the safe head.
AdvanceOrigin ==
    /\ ~halted /\ Len(traversal.block) < Len(l1)
    /\ IsPrefix(traversal.block, l1)
    /\ LET next == SubSeq(l1, 1, Len(traversal.block) + 1)
           config == UpdateWithReceipts(traversal.config, ReceiptsOf(next),
                         IsActive(schedule, "ecotone", L1BlockTime(next)))
           activates == /\ ~IsActive(schedule, "holocene", L1BlockTime(traversal.block))
                        /\ IsActive(schedule, "holocene", L1BlockTime(next))
       IN  IF UpdateFails(ReceiptsOf(next)) THEN halted' = TRUE /\ UNCHANGED <<traversal, caches>>
           ELSE /\ IF activates
                   THEN /\ traversal' = Signalled(next, ConfigByNumber("pipeline", safe), OriginOf(safe))
                        /\ caches' = Cached("pipeline", safe)
                   ELSE /\ traversal' = [traversal EXCEPT !.block = next, !.config = config]
                        /\ UNCHANGED caches
                /\ UNCHANGED halted
    /\ UNCHANGED <<schedule, l1, l2, safe, reorgs>>

\* The next unsafe block becomes safe once its origin has been read.
Consolidate ==
    /\ ~halted /\ safe < Len(l2)
    /\ IsPrefix(l2[safe + 1].origin, traversal.block)
    /\ safe' = safe + 1
    /\ UNCHANGED <<schedule, l1, l2, traversal, caches, halted, reorgs>>

\* A reset of the engine, which ends in a reset signal to the pipeline: the
\* unsafe chain is cut back to its last block with a canonical origin, and
\* some block at or below it and the safe head becomes the safe head.
Reset ==
    LET canonical == {i \in 0..Len(l2) : IsPrefix(OriginOf(i), l1)}
    IN  /\ ~halted
        /\ l2' = SubSeq(l2, 1, Max(canonical))
        /\ \E head \in canonical :
              /\ head <= safe
              /\ safe' = head
              /\ caches' = Cached("pipeline", head)
              /\ LET start == SaturatingSub(Len(OriginOf(head)), ChannelTimeout(schedule, Time(head)))
                 IN  traversal' = Signalled(SubSeq(l1, 1, start), ConfigByNumber("pipeline", head), OriginOf(head))
        /\ UNCHANGED <<schedule, l1, halted, reorgs>>

AttributesNext ==
    \/ ExtendL1 \/ ReorgL1 \/ Build \/ AdvanceOrigin \/ Consolidate \/ Reset

AttributesSpec == AttributesInit /\ [][AttributesNext]_avars

-----------------------------------------------------------------------------
(* What the L1 logs say, read off the chain.                                 *)

\* The first L2 block of an epoch, and the first L2 block from whose epoch
\* on the updates of a field are kept: in the first block of a fork the new
\* fields are still at their defaults, unless the fork was active at genesis.
EpochStart(number) == Min({i \in DOMAIN l2 : Len(l2[i].origin) = number})

FirstBlockOf(fork) == Min({i \in 0..Len(l2) : IsActive(schedule, fork, Time(i))})

KeptFrom(fork, delay) ==
    IF IsActive(schedule, fork, 0) THEN 1 ELSE FirstBlockOf(fork) + delay

\* The last update of a kind in the blocks of an L1 chain from a first one on.
LastUpdate(kind, block, first, default) ==
    LET logs == FlattenSeq([n \in DOMAIN block |->
                  IF n < first THEN <<>>
                  ELSE SelectSeq(ConfigLogs(Receipts(block[n])), LAMBDA l : l.kind = kind)])
    IN  IF logs = <<>> THEN default ELSE Last(logs).value

\* The first epoch whose updates of a field of the fork are kept.
FirstEpoch(fork, delay) ==
    Min({n \in DOMAIN OriginOf(Len(l2)) : EpochStart(n) >= KeptFrom(fork, delay)}
        \cup {Len(l1) + MaxL1 + 1})

InForce(kind, fork, delay, default) ==
    LastUpdate(kind, OriginOf(Len(l2)), FirstEpoch(fork, delay), default)

GenesisOr(fork, field, default) ==
    IF IsActive(schedule, fork, 0) THEN OrDefault(GenesisConfig[field], default) ELSE default

\* The gas config an L1 chain leaves behind: after Ecotone an update whose
\* scalar is malformed is ignored as a whole.
GasConfigIn(block) ==
    LET Counts(n, log) == /\ log.kind = "gas_config"
                          /\ \/ ~IsActive(schedule, "ecotone", n * L1Time)
                             \/ ValidScalar(log.value.scalar)
        logs == FlattenSeq([n \in DOMAIN block |->
                  SelectSeq(ConfigLogs(Receipts(block[n])), LAMBDA l : Counts(n, l))])
    IN  IF logs = <<>> THEN GenesisConfig.scalar ELSE Last(logs).value.scalar

-----------------------------------------------------------------------------
(* Properties.                                                               *)

\* Once the traversal is at or past the origin of the safe head it was last
\* signalled with, its batcher address is the last one set on its L1 chain,
\* although the logs before that origin are read a second time on the way
\* from the reset's start (update_with_receipts in advance_origin, signal).
BatcherInForce ==
    (/\ traversal.start <= Len(traversal.safeOrigin)
     /\ IsPrefix(traversal.safeOrigin, traversal.block))
      => traversal.config.batcher
           = LastUpdate("batcher", traversal.block, 1, GenesisConfig.batcher)

\* The config read back from the head of the L2 chain is the one the L1 logs
\* of its epochs define: for each field the last update wins, no update is
\* lost between the block that applies it and the next one that reads it,
\* whichever forms of the L1 info transaction and of the extra data lie
\* between them, and no value of an orphaned L1 block stays
\* (prepare_payload_attributes, try_new, to_system_config).  The traversal
\* filters the data of a block by the batcher of the same config.
ConfigCarried ==
    LET head == Len(l2)
        origin == OriginOf(head)
        config == ToSystemConfig(schedule, l2[head], Time(head))
        Active(fork) == IsActive(schedule, fork, Time(head))
    IN  /\ BatcherInForce
        /\ head > 0 =>
           /\ config.batcher = LastUpdate("batcher", origin, 1, GenesisConfig.batcher)
           /\ config.gasLimit = LastUpdate("gas_limit", origin, 1, GenesisConfig.gasLimit)
           /\ FeeScalars(config.scalar) = FeeScalars(GasConfigIn(origin))
           /\ Active("holocene") =>
                config.eip1559 = InForce("eip1559", "holocene", 1, GenesisOr("holocene", "eip1559", BaseFeeParams))
           /\ Active("isthmus") =>
                config.operatorFee = InForce("operator_fee", "isthmus", 1, GenesisOr("isthmus", "operatorFee", 0))
           /\ Active("jovian") =>
                /\ config.minBaseFee = InForce("min_base_fee", "jovian", 0, GenesisOr("jovian", "minBaseFee", 0))
                /\ LET footprint == InForce("da_footprint", "jovian", 1,
                                            GenesisOr("jovian", "daFootprint", DefaultFootprint))
                   IN  OrDefault(config.daFootprint, DefaultFootprint)
                         = IF footprint = 0 THEN DefaultFootprint ELSE footprint

\* The user deposits in the L2 chain are those of the L1 blocks up to the
\* head's origin, each once and in order: none is lost or repeated when the
\* epoch advances, when a block is rebuilt after a reset, or when L1 reorgs
\* between two blocks (derive_deposits and the parent hash checks of
\* prepare_payload_attributes).
DepositsOnce ==
    LET origin == OriginOf(Len(l2))
    IN  FlattenSeq([i \in DOMAIN l2 |-> l2[i].deposits])
          = FlattenSeq([n \in DOMAIN origin |-> DeriveDeposits(SubSeq(origin, 1, n))])

\* Every upgrade transaction succeeds and is run once: after each block the
\* predeploys are those of the forks active at its time, however many forks
\* start in the same block, and the L1 info transaction of the block has the
\* form its L1Block contract knows at that point, which is before the
\* block's own upgrades (Hardforks::*.txs, try_new).
UpgradesApplied ==
    LET head == Len(l2)
    IN  head > 0 =>
        /\ l2[head].predeploys = Upgraded[ActiveUpgrades(schedule, Time(head))]
        /\ PredeploysAt(head - 1).impl["L1Block"] = <<"L1Block", l2[head].info.form>>
=============================================================================
