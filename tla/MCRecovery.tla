----------------------------- MODULE MCRecovery -----------------------------
(***************************************************************************)
(* The node under one of two sets of circumstances: those of the           *)
(* configuration, or a recovery, where no call to the execution layer      *)
(* fails while L1 is reorganised by up to two blocks, and tokio runs every *)
(* actor that can run.                                                     *)
(***************************************************************************)
EXTENDS ValidatorNode

CONSTANTS t1, x1

\* The execution layer stopped where L1 did; the unsafe blocks agree with the
\* batches, or conflict with them on a known parent.
ShortChain == <<t1>>
L1One == <<t1>>
MixedGossip == {<<t1, t1>>, <<t1, t1, t1>>, <<t1, Deposits>>}

VARIABLE part

Recovery == INSTANCE ValidatorNode
              WITH Invalid <- {}, RpcFails <- FALSE, SeqWindow <- 2,
                   ReorgDepth <- 2, FinalityLag <- 3, MaxL1 <- 3

MCInit ==
  \/ part = "faults" /\ Init
  \/ part = "recovery" /\ Recovery!Init

MCNext ==
  \/ part = "faults" /\ Next /\ UNCHANGED part
  \/ part = "recovery" /\ Recovery!Next /\ UNCHANGED part

allVars == <<nodeVars, part>>

Recovering == part = "recovery" /\ UNCHANGED part

MCSpec ==
  /\ MCInit /\ [][MCNext]_allVars
  /\ WF_allVars(Recovering /\ Recovery!EngineStep /\ UNCHANGED rest)
  /\ WF_allVars(Recovering /\ Recovery!DerivationStep /\ UNCHANGED gossiped)
  /\ WF_allVars(Recovering /\ Recovery!L1Head /\ UNCHANGED gossiped)
  /\ WF_allVars(Recovering /\ Recovery!ELSync /\ UNCHANGED rest)

(***************************************************************************)
(* Once the EL sync is complete, the safe head catches up with L1, through *)
(* reorganisations of L1 and the resets they cause (Reset, Search,         *)
(* DerivationActor::process).                                              *)
(***************************************************************************)
CatchesUp == (part = "recovery" /\ el_synced) ~> (part = "recovery" => Recovery!CaughtUp)
=============================================================================
