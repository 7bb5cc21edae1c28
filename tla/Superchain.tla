------------------------------ MODULE Superchain ------------------------------
(***************************************************************************)
(* The data of a superchain, as the interop fault proof and its            *)
(* specification see it.                                                   *)
(*                                                                         *)
(* A block is known by its hash and an output root commits to one block,   *)
(* so both stand here for the chain that ends in the block: the sequence   *)
(* of its blocks after genesis, whose length is the block's number.  Of a  *)
(* block only what messages can tell apart is kept: whether it still has   *)
(* its user transactions, and the executing messages they emit.            *)
(***************************************************************************)
EXTENDS Naturals, Sequences, FiniteSets

CONSTANTS
  NumChains,       \* the dependency set, in the order of the super root
  BlockTime,       \* [Chains -> seconds]
  GenesisTime,     \* timestamp of block 0 of every chain
  InteropTime,     \* hardforks.interop_time
  ExpiryWindow,    \* MESSAGE_EXPIRY_WINDOW
  AnchorTime,      \* the super root the trace starts from: its timestamp
  Anchor,          \* and the chain of each member
  Claimed,         \* claimed_l2_timestamp
  Messages         \* the executing messages blocks may carry

Chains == 1..NumChains

ASSUME SuperchainAssumption ==
  /\ NumChains \in Nat \ {0}
  /\ BlockTime \in [Chains -> Nat \ {0}]
  /\ GenesisTime \in Nat
  /\ InteropTime \in Nat
  /\ ExpiryWindow \in Nat
  /\ AnchorTime \in Nat
  /\ Claimed \in Nat
  /\ Messages \subseteq [chain : Nat, number : Nat, timestamp : Nat,
                         log : {"user", "deposit", "absent"}]

(***************************************************************************)
(* A block: with all its transactions, with nothing but deposits, or       *)
(* rebuilt from its deposits because one of its messages was invalid.      *)
(***************************************************************************)
Block == [kind : {"full", "bare", "replaced"}, msgs : SUBSET Messages]
Bare == [kind |-> "bare", msgs |-> {}]
Replaced == [kind |-> "replaced", msgs |-> {}]

(***************************************************************************)
(* What L1, up to the agreed head, holds for a block: nothing, a batch     *)
(* that does not execute, deposits only, or a batch with messages.         *)
(***************************************************************************)
Feed == [kind : {"missing", "failing", "bare", "full"}, msgs : SUBSET Messages]

Timestamp(c, n) == GenesisTime + n * BlockTime[c]

(***************************************************************************)
(* The log a message names is in a block.                                  *)
(***************************************************************************)
HasLog(block, m) ==
  \/ m.log = "deposit"
  \/ m.log = "user" /\ block.kind = "full"

(***************************************************************************)
(* The three time rules of an executing message.                           *)
(***************************************************************************)
InTime(m, executing) ==
  /\ m.timestamp <= executing
  /\ m.timestamp >= InteropTime + BlockTime[m.chain]
  /\ m.timestamp + ExpiryWindow >= executing

(***************************************************************************)
(* Whether the block after `h' is built in the second after `ts'.          *)
(***************************************************************************)
IsDue(c, h, ts) == Timestamp(c, Len(h)) + BlockTime[c] <= ts + 1
=============================================================================
