---------------------------- MODULE SystemConfig ----------------------------
(***************************************************************************)
(* The hardforks of a rollup (when they are active, and the transactions   *)
(* that upgrade the predeployed contracts in the first block of a fork)    *)
(* and its system config: how the logs of an L1 block change it, how an L2 *)
(* block carries it (the L1 info transaction, the gas limit and the extra  *)
(* data of the header), and how it is read back from that block.           *)
(*                                                                         *)
(* A schedule maps each fork to its activation time, or to None when the   *)
(* rollup config has no time for it.  A fork is active when it or a later  *)
(* one has been activated.                                                 *)
(*                                                                         *)
(* A fee scalar is the word the contract stores, split where the code      *)
(* reads it: version byte, padding (clean or not), blob base fee scalar    *)
(* and base fee scalar.  The two EIP-1559 parameters are one value, 0 when *)
(* both are zero, and so are the two operator fee parameters.              *)
(***************************************************************************)
EXTENDS Integers, Sequences, SequencesExt, TLC

CONSTANTS None,            \* an absent value: a fork without a time, an unset field
          BlockTime,       \* RollupConfig::block_time
          Timeout,         \* RollupConfig::channel_timeout, in L1 blocks
          GraniteTimeout,  \* RollupConfig::granite_channel_timeout
          GenesisConfig,   \* the system config of the rollup's genesis
          BaseFeeParams,   \* what ChainConfig's EIP-1559 values encode to
          DefaultFootprint \* DEFAULT_DA_FOOTPRINT_GAS_SCALAR

Forks == <<"regolith", "canyon", "delta", "ecotone", "fjord", "granite",
           "holocene", "isthmus", "jovian", "interop">>

Rank == [f \in ToSet(Forks) |-> CHOOSE i \in DOMAIN Forks : Forks[i] = f]

IsActive(schedule, fork, time) ==
    \E i \in Rank[fork]..Len(Forks) : schedule[Forks[i]] # None /\ time >= schedule[Forks[i]]

SaturatingSub(a, b) == IF a > b THEN a - b ELSE 0

IsFirstBlock(schedule, fork, time) ==
    /\ IsActive(schedule, fork, time)
    /\ ~IsActive(schedule, fork, SaturatingSub(time, BlockTime))

ChannelTimeout(schedule, time) ==
    IF IsActive(schedule, "granite", time) THEN GraniteTimeout ELSE Timeout

-----------------------------------------------------------------------------
(* The upgrade transactions.  An implementation is named by its contract     *)
(* and the fork that brings it.  Create deploys it at the address its        *)
(* deployer's first transaction yields, Upgrade points the proxy of the      *)
(* predeploy at it, Enable calls the gas price oracle's setter of the fork.  *)

Create(contract, fork) == [do |-> "create", impl |-> <<contract, fork>>]
Upgrade(contract, fork) == [do |-> "upgrade", impl |-> <<contract, fork>>]
Enable(fork) == [do |-> "enable", impl |-> <<"GasPriceOracle", fork>>]

EcotoneTxs ==
    <<Create("L1Block", "ecotone"), Create("GasPriceOracle", "ecotone"),
      Upgrade("L1Block", "ecotone"), Upgrade("GasPriceOracle", "ecotone"),
      Enable("ecotone"), Create("BeaconRoots", "ecotone")>>

FjordTxs ==
    <<Create("GasPriceOracle", "fjord"), Upgrade("GasPriceOracle", "fjord"),
      Enable("fjord")>>

IsthmusTxs ==
    <<Create("L1Block", "isthmus"), Create("GasPriceOracle", "isthmus"),
      Create("OperatorFeeVault", "isthmus"), Upgrade("L1Block", "isthmus"),
      Upgrade("GasPriceOracle", "isthmus"), Upgrade("OperatorFeeVault", "isthmus"),
      Enable("isthmus"), Create("BlockHashHistory", "isthmus")>>

JovianTxs ==
    <<Create("L1Block", "jovian"), Upgrade("L1Block", "jovian"),
      Create("GasPriceOracle", "jovian"), Upgrade("GasPriceOracle", "jovian"),
      Enable("jovian")>>

InteropTxs ==
    <<Create("CrossL2Inbox", "interop"), Upgrade("CrossL2Inbox", "interop"),
      Create("L2ToL2CrossDomainMessenger", "interop"),
      Upgrade("L2ToL2CrossDomainMessenger", "interop")>>

UpgradeForks == <<"ecotone", "fjord", "isthmus", "jovian", "interop">>
UpgradeTxs == [ecotone |-> EcotoneTxs, fjord |-> FjordTxs, isthmus |-> IsthmusTxs,
               jovian |-> JovianTxs, interop |-> InteropTxs]

-----------------------------------------------------------------------------
(* What the transactions do to the predeploys on the execution layer: the    *)
(* code deployed, the implementation each proxy points at, the forks the gas *)
(* price oracle has been told of, and whether a transaction failed.          *)

Proxies == {"L1Block", "GasPriceOracle", "OperatorFeeVault", "CrossL2Inbox",
            "L2ToL2CrossDomainMessenger"}

\* The predeploys of a chain on which the first n of the upgrades have taken
\* effect: the newest implementation of each contract.
Upgraded ==
    [n \in 0..Len(UpgradeForks) |->
       LET txs == FlattenSeq([i \in 1..n |-> UpgradeTxs[UpgradeForks[i]]])
           Done(do) == {t \in ToSet(txs) : t.do = do}
           Newest(contract) == SelectLastInSeq(txs, LAMBDA t : t.do = "upgrade" /\ t.impl[1] = contract)
       IN  [code |-> {t.impl : t \in Done("create")},
            impl |-> [c \in Proxies |-> IF Newest(c) = 0 THEN <<c, "bedrock">> ELSE txs[Newest(c)].impl],
            enabled |-> {t.impl[2] : t \in Done("enable")},
            failed |-> FALSE]]

ActiveUpgrades(schedule, time) ==
    Cardinality({i \in DOMAIN UpgradeForks : IsActive(schedule, UpgradeForks[i], time)})

\* The setter of a fork exists from that fork's oracle on, and wants the
\* fork before it to be set.
CanEnable(state, fork) ==
    /\ state.impl["GasPriceOracle"] = <<"GasPriceOracle", fork>>
    /\ \A i, j \in DOMAIN UpgradeForks :
          (i < j /\ UpgradeForks[j] = fork) => UpgradeForks[i] \in state.enabled

Execute(state, tx) ==
    CASE tx.do = "create" ->
           [state EXCEPT !.code = @ \cup {tx.impl}, !.failed = @ \/ tx.impl \in state.code]
      [] tx.do = "upgrade" ->
           [state EXCEPT !.impl[tx.impl[1]] = tx.impl, !.failed = @ \/ tx.impl \notin state.code]
      [] tx.do = "enable" ->
           [state EXCEPT !.enabled = @ \cup {tx.impl[2]}, !.failed = @ \/ ~CanEnable(state, tx.impl[2])]

-----------------------------------------------------------------------------
(* The system config. *)

OrDefault(value, default) == IF value = None THEN default ELSE value

Scalar(version, clean, blob, base) ==
    [version |-> version, clean |-> clean, blob |-> blob, base |-> base]

\* Version 0 has the blob scalar's place as padding, too.
ValidScalar(s) ==
    \/ s.version = 0 /\ s.clean /\ s.blob = 0
    \/ s.version = 1 /\ s.clean

-----------------------------------------------------------------------------
(* Updates.  An update log is [kind, value]; each kind sets its own field.   *)

BatcherUpdate(config, value) == [config EXCEPT !.batcher = value]
GasLimitUpdate(config, value) == [config EXCEPT !.gasLimit = value]
Eip1559Update(config, value) == [config EXCEPT !.eip1559 = value]
OperatorFeeUpdate(config, value) == [config EXCEPT !.operatorFee = value]
MinBaseFeeUpdate(config, value) == [config EXCEPT !.minBaseFee = value]
UnsafeBlockSignerUpdate(config, value) == config

DaFootprintUpdate(config, value) ==
    [config EXCEPT !.daFootprint = IF value = 0 THEN DefaultFootprint ELSE value]

MutGasConfigUpdate(config, value, ecotone) ==
    [config EXCEPT !.scalar = value.scalar, !.overhead = IF ecotone THEN 0 ELSE value.overhead]

\* After Ecotone an update with a malformed scalar is ignored as a whole.
GasConfigUpdate(config, value, ecotone) ==
    IF ~ecotone THEN [config EXCEPT !.scalar = value.scalar, !.overhead = value.overhead]
    ELSE IF ValidScalar(value.scalar) THEN [config EXCEPT !.scalar = value.scalar, !.overhead = 0]
    ELSE config

Apply(config, log, ecotone) ==
    CASE log.kind = "batcher" -> BatcherUpdate(config, log.value)
      [] log.kind = "gas_config" -> GasConfigUpdate(config, log.value, ecotone)
      [] log.kind = "gas_limit" -> GasLimitUpdate(config, log.value)
      [] log.kind = "eip1559" -> Eip1559Update(config, log.value)
      [] log.kind = "operator_fee" -> OperatorFeeUpdate(config, log.value)
      [] log.kind = "min_base_fee" -> MinBaseFeeUpdate(config, log.value)
      [] log.kind = "da_footprint" -> DaFootprintUpdate(config, log.value)
      [] log.kind = "signer" -> UnsafeBlockSignerUpdate(config, log.value)

Kinds == {"batcher", "gas_config", "gas_limit", "eip1559", "operator_fee",
          "min_base_fee", "da_footprint", "signer"}

\* The logs of the receipts of successful transactions, in order.
Logs(receipts) ==
    FlattenSeq([i \in DOMAIN receipts |-> IF receipts[i].ok THEN receipts[i].logs ELSE <<>>])

ConfigLogs(receipts) ==
    SelectSeq(Logs(receipts), LAMBDA l : l.address = "system_config" /\ l.topic = "config_update")

\* A log of an unknown kind or version is a critical error.
UpdateFails(receipts) ==
    \E i \in DOMAIN ConfigLogs(receipts) : ConfigLogs(receipts)[i].kind \notin Kinds

UpdateWithReceipts(config, receipts, ecotone) ==
    FoldLeft(LAMBDA c, log : Apply(c, log, ecotone), config, ConfigLogs(receipts))

-----------------------------------------------------------------------------
(* The L1 info transaction.  In the first block of a fork the L1Block        *)
(* contract is not upgraded yet, and the form before it is used.             *)

MutInfoForm(schedule, time) ==
    CASE ~IsActive(schedule, "ecotone", time) \/ IsFirstBlock(schedule, "ecotone", time) -> "bedrock"
      [] OTHER ->
           IF IsActive(schedule, "jovian", time) THEN "jovian"
           ELSE IF IsActive(schedule, "isthmus", time) /\ ~IsFirstBlock(schedule, "isthmus", time)
           THEN "isthmus"
           ELSE "ecotone"

InfoForm(schedule, time) ==
    CASE ~IsActive(schedule, "ecotone", time) \/ IsFirstBlock(schedule, "ecotone", time) -> "bedrock"
      [] OTHER ->
           IF IsActive(schedule, "jovian", time) /\ ~IsFirstBlock(schedule, "jovian", time)
           THEN "jovian"
           ELSE IF IsActive(schedule, "isthmus", time) /\ ~IsFirstBlock(schedule, "isthmus", time)
           THEN "isthmus"
           ELSE "ecotone"

FeeScalars(s) == [blob |-> IF s.version = 1 THEN s.blob ELSE 0, base |-> s.base]

\* The calldata of each form has room for these fields only.
BedrockInfo(config) ==
    [form |-> "bedrock", batcher |-> config.batcher,
     overhead |-> config.overhead, scalar |-> config.scalar]

EcotoneInfo(config) ==
    [form |-> "ecotone", batcher |-> config.batcher, scalars |-> FeeScalars(config.scalar)]

IsthmusInfo(config) ==
    [form |-> "isthmus", batcher |-> config.batcher, scalars |-> FeeScalars(config.scalar),
     operatorFee |-> OrDefault(config.operatorFee, 0)]

JovianInfo(config) ==
    [form |-> "jovian", batcher |-> config.batcher, scalars |-> FeeScalars(config.scalar),
     operatorFee |-> OrDefault(config.operatorFee, 0),
     daFootprint |-> IF OrDefault(config.daFootprint, 0) = 0
                     THEN DefaultFootprint ELSE config.daFootprint]

Info(schedule, config, time) ==
    LET form == InfoForm(schedule, time)
    IN  CASE form = "bedrock" -> BedrockInfo(config)
          [] form = "ecotone" -> EcotoneInfo(config)
          [] form = "isthmus" -> IsthmusInfo(config)
          [] form = "jovian" -> JovianInfo(config)

\* SystemConfig::eip_1559_params
Eip1559Params(schedule, config, parentTime, time) ==
    IF ~IsActive(schedule, "holocene", time) THEN None
    ELSE IF ~IsActive(schedule, "holocene", parentTime) THEN 0
    ELSE OrDefault(config.eip1559, 0)

\* The extra data of the header built from the attributes; parameters that
\* are zero stand for those of the chain config.
ExtraData(schedule, attributes, time) ==
    LET params == IF attributes.eip1559 = 0 THEN BaseFeeParams ELSE attributes.eip1559
    IN  IF IsActive(schedule, "jovian", time)
        THEN [eip1559 |-> params, minBaseFee |-> attributes.minBaseFee]
        ELSE IF IsActive(schedule, "holocene", time) THEN [eip1559 |-> params]
        ELSE <<>>

\* to_system_config, of a block other than the genesis block.
ToSystemConfig(schedule, block, time) ==
    LET info == block.info
        Field(record, name) == IF name \in DOMAIN record THEN record[name] ELSE None
    IN  [batcher |-> info.batcher,
         overhead |-> IF info.form = "bedrock" THEN info.overhead ELSE 0,
         scalar |-> IF info.form = "bedrock" THEN info.scalar
                    ELSE Scalar(1, TRUE, info.scalars.blob, info.scalars.base),
         gasLimit |-> block.gasLimit,
         eip1559 |-> Field(block.extra, "eip1559"),
         minBaseFee |-> Field(block.extra, "minBaseFee"),
         operatorFee |-> IF IsActive(schedule, "isthmus", time)
                         THEN OrDefault(Field(info, "operatorFee"), 0) ELSE None,
         daFootprint |-> Field(info, "daFootprint")]
=============================================================================
