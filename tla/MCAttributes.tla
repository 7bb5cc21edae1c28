---------------------------- MODULE MCAttributes ----------------------------
(***************************************************************************)
(* A validator node, and apart from it the attributes builder with the     *)
(* traversal stage: two independent parts, one chosen for each behaviour.  *)
(* L1 blocks are without logs, with an update of every kind, with updates  *)
(* that are ignored or normalised and logs that are not updates, and with  *)
(* an update of a kind the node does not know.                             *)
(***************************************************************************)
EXTENDS ValidatorNode

CONSTANTS t1, None, CacheSize

\* The execution layer stopped several blocks ahead of what L1 holds; the
\* unsafe blocks conflict with the batches on a known and an unknown parent.
LongChain == <<t1, t1, t1, t1>>
L1Two == <<t1, t1>>
ForkGossip == {<<t1, t1, Deposits>>, <<Deposits, Deposits>>}

VARIABLES part, schedule, epochs, chain, safe, traversal, caches, halted, reorgs

builder == <<schedule, epochs, chain, safe, traversal, caches, halted, reorgs>>

Config(kind, value) ==
  [address |-> "system_config", topic |-> "config_update", kind |-> kind, value |-> value]

Deposit(address) == [address |-> address, topic |-> "deposit", kind |-> "", value |-> 0]

Word(version, blob, base) == [version |-> version, clean |-> TRUE, blob |-> blob, base |-> base]

Receipts(content) ==
  CASE content = "plain" -> <<>>
    [] content = "updates" ->
         <<[ok |-> TRUE, logs |-> <<Deposit("other"), Deposit("portal"), Config("batcher", "b1"),
                                    Config("gas_limit", 2)>>],
           [ok |-> TRUE, logs |-> <<Config("signer", "s"), Deposit("portal"), Config("eip1559", 2),
                                    Config("gas_config", [scalar |-> Word(1, 3, 4), overhead |-> 5]),
                                    Config("operator_fee", 6), Config("min_base_fee", 7),
                                    Config("da_footprint", 8)>>]>>
    [] content = "odd" ->
         <<[ok |-> FALSE, logs |-> <<Deposit("portal"), Config("batcher", "b3")>>],
           [ok |-> TRUE, logs |-> <<[Config("batcher", "b3") EXCEPT !.address = "other"], Deposit("portal"),
                                    Config("gas_config", [scalar |-> Word(0, 9, 9), overhead |-> 9]),
                                    Config("da_footprint", 0), Config("eip1559", 3),
                                    Config("batcher", "b2")>>]>>
    [] content = "unknown" -> <<[ok |-> TRUE, logs |-> <<Config("future", 0)>>]>>

\* All forks at genesis, all at once in the second block, one or two per
\* block, and on a chain that starts with some: the times lie on blocks and
\* between them.
Schedule(times) ==
  [f \in {"regolith", "canyon", "delta", "ecotone", "fjord", "granite", "holocene", "isthmus",
          "jovian", "interop"} |-> IF f \in DOMAIN times THEN times[f] ELSE None]

Builder ==
  INSTANCE AttributesBuilder
    WITH l1 <- epochs, l2 <- chain,
         BlockTime <- 2, Timeout <- 2, GraniteTimeout <- 1, L1Time <- 2,
         BaseFeeParams <- 1, DefaultFootprint <- 400,
         GenesisConfig <- [batcher |-> "b0", overhead |-> 1,
                           scalar |-> [version |-> 0, clean |-> FALSE, blob |-> 0, base |-> 1],
                           gasLimit |-> 1, eip1559 |-> None, minBaseFee |-> None,
                           operatorFee |-> None, daFootprint |-> None],
         Schedules <- {Schedule([interop |-> 0]), Schedule([canyon |-> 0, interop |-> 3]),
                       Schedule([ecotone |-> 2, granite |-> 3, holocene |-> 4, isthmus |-> 6]),
                       Schedule([ecotone |-> 1, holocene |-> 3, isthmus |-> 3, jovian |-> 5]),
                       Schedule([isthmus |-> 0, jovian |-> 3])},
         Contents <- {"plain", "updates", "odd", "unknown"},
         MaxL1 <- 2, MaxL2 <- 3, MaxReorgs <- 1

-----------------------------------------------------------------------------
MCInit ==
  \/ /\ part = "node" /\ Init
     /\ schedule = "" /\ epochs = "" /\ chain = "" /\ safe = "" /\ traversal = "" /\ caches = "" /\ halted = ""
     /\ reorgs = ""
  \/ /\ part = "builder" /\ Init
     /\ Builder!AttributesInit

MCNext ==
  \/ part = "node" /\ Next /\ UNCHANGED <<part, builder>>
  \/ part = "builder" /\ Builder!AttributesNext /\ UNCHANGED <<part, nodeVars>>

MCSpec == MCInit /\ [][MCNext]_<<part, nodeVars, builder>>

\* AttributesBuilder's properties, of the behaviours of that part: what the L2
\* chain carries is what the L1 logs say, deposits and upgrades are applied
\* once, and the traversal filters data by the batcher in force.
ConfigCarried == part = "builder" => Builder!ConfigCarried
DepositsOnce == part = "builder" => Builder!DepositsOnce
UpgradesApplied == part = "builder" => Builder!UpgradesApplied
=============================================================================
