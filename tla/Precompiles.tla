---------------------------- MODULE Precompiles ----------------------------
(***************************************************************************)
(* The precompiles of the fault proof program's EVM.  Those that are       *)
(* costly in the fault proof VM are checked by the client for their gas    *)
(* and the length of their input, and executed by the host, which answers  *)
(* a hint with a status byte and the output.                               *)
(*                                                                         *)
(* An input is its length and whether the precompile accepts its bytes.    *)
(* The chain goes through the forks in order.  A call names the precompile *)
(* as its target.  The store of the host holds the last result only: the   *)
(* key is the hash of the whole call, and the result is a function of it.  *)
(***************************************************************************)
EXTENDS Integers, Sequences, TLC

CONSTANTS Lengths,     \* input lengths of each precompile
          MaxFork      \* the last fork the chain reaches

VARIABLES fork,        \* the position of the latest active fork
          evm,         \* OpFpvmPrecompiles: the spec it was made for and its two tables
          call,        \* a call of a precompile
          store        \* the results the host holds

precompileVars == <<fork, evm, call, store>>

Forks == <<"bedrock", "regolith", "canyon", "ecotone", "fjord", "granite", "holocene",
           "isthmus", "jovian", "interop">>
IsActive(name) == \E i \in 1..fork : Forks[i] = name

\* RollupConfig::spec_id: Granite has no spec of its own.
SpecId(f) == IF Forks[f] = "granite" THEN "fjord" ELSE Forks[f]

-----------------------------------------------------------------------------
(***************************************************************************)
(* What each accelerated precompile checks before the host is asked.       *)
(***************************************************************************)
OutOfGas == [check |-> "oog", cost |-> 0]
Error == [check |-> "error", cost |-> 0]
Run(cost) == [check |-> "run", cost |-> cost]

Pay(cost, gas, next) == IF cost > gas THEN OutOfGas ELSE next
Exactly(length, input, next) == IF input.length # length THEN Error ELSE next
AtMost(length, input, next) == IF input.length > length THEN Error ELSE next

\* Without the discounts for many points.
MsmRequiredGas(k, base) == k * base

FpvmEcRecover(input, gas) == Pay(3000, gas, Run(3000))
FpvmKzgPointEval(input, gas) == Pay(50000, gas, Exactly(192, input, Run(50000)))

FpvmBn128Pair(input, gas) ==
  LET used == (input.length \div 192) * 34000 + 45000
  IN Pay(used, gas, IF input.length % 192 # 0 THEN Error ELSE Run(used))
FpvmBn128PairGranite(input, gas) == AtMost(112687, input, FpvmBn128Pair(input, gas))
FpvmBn128PairJovian(input, gas) == AtMost(81984, input, FpvmBn128Pair(input, gas))

FpvmBls12G1Add(input, gas) == Pay(375, gas, Exactly(256, input, Run(375)))
FpvmBls12G2Add(input, gas) == Pay(600, gas, Exactly(512, input, Run(600)))
FpvmBls12MapFp(input, gas) == Pay(5500, gas, Exactly(64, input, Run(5500)))
FpvmBls12MapFp2(input, gas) == Pay(23800, gas, Exactly(128, input, Run(23800)))

FpvmBls12G1Msm(input, gas) ==
  LET cost == MsmRequiredGas(input.length \div 160, 12000)
  IN AtMost(513760, input, IF input.length = 0 \/ input.length % 160 # 0 THEN Error
                           ELSE Pay(cost, gas, Run(cost)))
FpvmBls12G1MsmJovian(input, gas) == AtMost(288960, input, FpvmBls12G1Msm(input, gas))

FpvmBls12G2Msm(input, gas) ==
  LET cost == MsmRequiredGas(input.length \div 288, 22500)
  IN AtMost(488448, input, IF input.length = 0 \/ input.length % 288 # 0 THEN Error
                           ELSE Pay(cost, gas, Run(cost)))
FpvmBls12G2MsmJovian(input, gas) == AtMost(278784, input, FpvmBls12G2Msm(input, gas))

FpvmBls12Pairing(input, gas) ==
  LET cost == 32600 * (input.length \div 384) + 37700
  IN AtMost(235008, input, IF input.length % 384 # 0 THEN Error ELSE Pay(cost, gas, Run(cost)))
FpvmBls12PairingJovian(input, gas) == AtMost(156672, input, FpvmBls12Pairing(input, gas))

-----------------------------------------------------------------------------
\* The accelerated precompile at each address; a later entry for an address
\* replaces an earlier one.
AcceleratedBedrock == [ecrecover |-> "ec_recover", bn128 |-> "bn128_pair"]
AcceleratedEcotone == [kzg |-> "kzg_point_eval"] @@ AcceleratedBedrock
AcceleratedGranite == [bn128 |-> "bn128_pair_granite"] @@ AcceleratedEcotone
AcceleratedIsthmus ==
  [g1_add |-> "g1_add", g1_msm |-> "g1_msm", g2_add |-> "g2_add", g2_msm |-> "g2_msm",
   map_fp |-> "map_fp", map_fp2 |-> "map_fp2", pairing |-> "pairing"] @@ AcceleratedGranite
AcceleratedJovian ==
  [bn128 |-> "bn128_pair_jovian", g1_msm |-> "g1_msm_jovian", g2_msm |-> "g2_msm_jovian",
   pairing |-> "pairing_jovian"] @@ AcceleratedIsthmus

Accelerated(spec) ==
  CASE spec \in {"bedrock", "regolith", "canyon"} -> AcceleratedBedrock
    [] spec \in {"ecotone", "fjord"} -> AcceleratedEcotone
    [] spec = "holocene" -> AcceleratedGranite
    [] spec \in {"isthmus", "interop"} -> AcceleratedIsthmus
    [] spec = "jovian" -> AcceleratedJovian

\* The default precompiles of a spec.
Inner(spec) ==
  CASE spec \in {"bedrock", "regolith", "canyon"} -> {"ecrecover", "bn128"}
    [] spec = "ecotone" -> {"ecrecover", "bn128", "kzg"}
    [] spec \in {"fjord", "holocene"} -> {"ecrecover", "bn128", "kzg", "p256"}
    [] spec \in {"isthmus", "jovian", "interop"} ->
         {"ecrecover", "bn128", "kzg", "p256"} \cup DOMAIN AcceleratedIsthmus

Check(name, input, gas) ==
  CASE name = "ec_recover" -> FpvmEcRecover(input, gas)
    [] name = "kzg_point_eval" -> FpvmKzgPointEval(input, gas)
    [] name = "bn128_pair" -> FpvmBn128Pair(input, gas)
    [] name = "bn128_pair_granite" -> FpvmBn128PairGranite(input, gas)
    [] name = "bn128_pair_jovian" -> FpvmBn128PairJovian(input, gas)
    [] name = "g1_add" -> FpvmBls12G1Add(input, gas)
    [] name = "g2_add" -> FpvmBls12G2Add(input, gas)
    [] name = "map_fp" -> FpvmBls12MapFp(input, gas)
    [] name = "map_fp2" -> FpvmBls12MapFp2(input, gas)
    [] name = "g1_msm" -> FpvmBls12G1Msm(input, gas)
    [] name = "g1_msm_jovian" -> FpvmBls12G1MsmJovian(input, gas)
    [] name = "g2_msm" -> FpvmBls12G2Msm(input, gas)
    [] name = "g2_msm_jovian" -> FpvmBls12G2MsmJovian(input, gas)
    [] name = "pairing" -> FpvmBls12Pairing(input, gas)
    [] name = "pairing_jovian" -> FpvmBls12PairingJovian(input, gas)

-----------------------------------------------------------------------------
(***************************************************************************)
(* The precompiles themselves: the length they take, what they cost and    *)
(* what they answer, without the limits of any fork.  ecrecover answers    *)
(* with nothing when there is no signer.                                   *)
(***************************************************************************)
Takes(address, length) ==
  CASE address \in {"ecrecover", "p256"} -> TRUE
    [] address = "kzg" -> length = 192
    [] address = "bn128" -> length % 192 = 0
    [] address = "g1_add" -> length = 256
    [] address = "g2_add" -> length = 512
    [] address = "map_fp" -> length = 64
    [] address = "map_fp2" -> length = 128
    [] address = "g1_msm" -> length > 0 /\ length % 160 = 0
    [] address = "g2_msm" -> length > 0 /\ length % 288 = 0
    [] address = "pairing" -> length % 384 = 0

Cost(address, length) ==
  CASE address = "ecrecover" -> 3000
    [] address = "p256" -> 3450
    [] address = "kzg" -> 50000
    [] address = "bn128" -> 45000 + 34000 * (length \div 192)
    [] address = "g1_add" -> 375
    [] address = "g2_add" -> 600
    [] address = "map_fp" -> 5500
    [] address = "map_fp2" -> 23800
    [] address = "g1_msm" -> 12000 * (length \div 160)
    [] address = "g2_msm" -> 22500 * (length \div 288)
    [] address = "pairing" -> 37700 + 32600 * (length \div 384)

Failure == [ok |-> FALSE, gas |-> 0, output |-> "none"]
Success(cost, output) == [ok |-> TRUE, gas |-> cost, output |-> output]

Execute(address, input, gas) ==
  IF ~Takes(address, input.length) \/ Cost(address, input.length) > gas THEN Failure
  ELSE IF input.valid THEN Success(Cost(address, input.length), "value")
  ELSE IF address \in {"ecrecover", "p256"} THEN Success(Cost(address, input.length), "empty")
  ELSE Failure

-----------------------------------------------------------------------------
NewWithSpec(spec) == [spec |-> spec, accelerated |-> Accelerated(spec), inner |-> Inner(spec)]

NoCall == [pc |-> "none"]

PrecompileInit ==
  /\ fork = 1
  /\ evm = NewWithSpec(SpecId(1))
  /\ call = NoCall
  /\ store = {}

\* create_evm for the next block, which may be the first of a fork.
CreateEvm ==
  /\ call.pc \in {"none", "done"}
  /\ \E f \in {fork, fork + 1} \cap 1..MaxFork :
       /\ fork' = f
       /\ evm' = NewWithSpec(SpecId(f))
  /\ call' = NoCall /\ store' = {}

Return(result) == call' = [call EXCEPT !.pc = "done", !.result = result]

\* run: the accelerated version first, the default one otherwise, and no
\* precompile when there is neither.
RunPrecompile ==
  /\ call.pc = "none"
  /\ \E address \in DOMAIN Lengths : \E length \in Lengths[address], valid \in BOOLEAN, short \in {0, 1} :
       LET input == [length |-> length, valid |-> valid]
           gas == Cost(address, length) - short
           made == [pc |-> "done", address |-> address, input |-> input, gas |-> gas,
                    cost |-> 0, result |-> Failure, lost |-> FALSE]
       IN call' = IF address \in DOMAIN evm.accelerated
                  THEN LET check == Check(evm.accelerated[address], input, gas)
                       IN IF check.check = "run" THEN [made EXCEPT !.pc = "hint", !.cost = check.cost]
                          ELSE made
                  ELSE IF address \in evm.inner THEN [made EXCEPT !.result = Execute(address, input, gas)]
                  ELSE [made EXCEPT !.result = Success(0, "empty")]
  /\ UNCHANGED <<fork, evm, store>>

\* The key of a call, for the client and for the host: the data of the hint.
Key(c) == <<c.address, c.cost, c.input>>

\* The host's answer to the L1Precompile hint: with the gas of the hint.
HostExecutes ==
  /\ call.pc = "hint"
  /\ store' = {<<Key(call), Execute(call.address, call.input, call.cost)>>}
  /\ call' = [call EXCEPT !.pc = "get"]
  /\ UNCHANGED <<fork, evm>>

\* What the caller gets from a run on the host: ecrecover takes any error for
\* an empty output.
Output(status) ==
  IF status.ok THEN Success(call.cost, status.output)
  ELSE IF call.address = "ecrecover" THEN Success(call.cost, "empty")
  ELSE Failure

GetResult ==
  /\ call.pc = "get"
  /\ \E entry \in store : entry[1] = Key(call) /\ Return(Output(entry[2]))
  /\ UNCHANGED <<fork, evm, store>>

\* The oracle fails: an error like any other of the precompile.
OracleFails ==
  /\ call.pc \in {"hint", "get"}
  /\ call' = [call EXCEPT !.pc = "done", !.result = Output(Failure), !.lost = TRUE]
  /\ UNCHANGED <<fork, evm, store>>

PrecompileNext == CreateEvm \/ RunPrecompile \/ HostExecutes \/ GetResult \/ OracleFails

-----------------------------------------------------------------------------
\* The fork that brings a precompile, and the limits the forks put on the
\* length of its input, the latest first.
Since(address) ==
  CASE address \in {"ecrecover", "bn128"} -> "bedrock"
    [] address = "kzg" -> "ecotone"
    [] address = "p256" -> "fjord"
    [] OTHER -> "isthmus"

Limits ==
  [bn128 |-> <<<<"jovian", 81984>>, <<"granite", 112687>>>>,
   g1_msm |-> <<<<"jovian", 288960>>, <<"isthmus", 513760>>>>,
   g2_msm |-> <<<<"jovian", 278784>>, <<"isthmus", 488448>>>>,
   pairing |-> <<<<"jovian", 156672>>, <<"isthmus", 235008>>>>]

\* Not in force though their fork is active: the limit of Granite before
\* Holocene, and those of Jovian with interop.
Suspended(name) ==
  \/ name = "granite" /\ ~IsActive("holocene")
  \/ name = "jovian" /\ IsActive("interop")

Within(address, length) ==
  address \in DOMAIN Limits =>
    LET inForce == SelectSeq(Limits[address], LAMBDA l : IsActive(l[1]) /\ ~Suspended(l[1]))
    IN inForce # <<>> => length <= inForce[1][2]

(***************************************************************************)
(* A precompile gives in the fault proof VM what it gives elsewhere: with  *)
(* its fork active and the input within the limits in force, the output,   *)
(* the gas and the failure are those of the precompile itself, although    *)
(* client and host check apart from one another, in different order and    *)
(* with the gas of the hint only; an oversized input fails, and before its *)
(* fork the address has no precompile.  A call whose oracle failed ends as *)
(* a failed precompile, and for ecrecover as one without a signer, not as  *)
(* a failure of the program (OpFpvmPrecompiles::run, fpvm_*,               *)
(* precompile_run!, eth::execute).                                         *)
(***************************************************************************)
ResultsMatch ==
  call.pc = "done" /\ ~call.lost =>
    call.result = IF ~IsActive(Since(call.address)) THEN Success(0, "empty")
                  ELSE IF ~Within(call.address, call.input.length) THEN Failure
                  ELSE Execute(call.address, call.input, call.gas)
=============================================================================
