---------------------------- MODULE MCSupervisor ----------------------------
(***************************************************************************)
(* The supervisor of one chain for TLC: an L2 tree of two branches from    *)
(* the activation block, and an L1 tree that branches at and above the     *)
(* block it is derived from.                                               *)
(***************************************************************************)
EXTENDS ChainProcessor

MCBlock  == {"g", "a1", "b1", "a2"}
MCSource == {"r", "s2", "s3", "t2", "t3", "u3", "u4"}

\* Two L2 blocks on an L1 without a fork, or one L2 block on an L1 that forks
\* at, or above the source of the activation block.
MCTrees == {[blocks |-> MCBlock, sources |-> {"r", "s2"}],
            [blocks |-> {"g", "a1", "b1"}, sources |-> {"r", "s2", "t2", "t3"}],
            [blocks |-> {"g", "b1"}, sources |-> {"r", "s2", "s3", "u3", "u4"}]}

MCNumber == [b \in Block \cup Source |->
  CASE b = "g" -> 0 [] b \in {"a1", "b1", "r"} -> 1
    [] b \in {"a2", "s2", "t2"} -> 2 [] b = "u4" -> 4 [] OTHER -> 3]

MCParent == [b \in Block \cup Source |->
  CASE b \in {"g", "r"} -> None [] b \in {"a1", "b1"} -> "g" [] b = "a2" -> "a1"
    [] b \in {"s2", "t2"} -> "r" [] b \in {"s3", "u3"} -> "s2"
    [] b = "t3" -> "t2" [] OTHER -> "u3"]

MCAncestors == [b \in Block \cup Source |->
  CASE b \in {"g", "r"} -> {b} [] b \in {"a1", "b1"} -> {"g", b}
    [] b = "a2" -> {"g", "a1", b} [] b \in {"s2", "t2"} -> {"r", b}
    [] b \in {"s3", "u3"} -> {"r", "s2", b} [] b = "t3" -> {"r", "t2", b}
    [] OTHER -> {"r", "s2", "u3", b}]

MCActivation == [source |-> "s2", derived |-> "g"]
MCBad        == {"a1"}
MCBothJobs   == {"CrossUnsafe", "CrossSafe"}
MCSafeJob    == {"CrossSafe"}
=============================================================================
