---------------------------- MODULE SuperRootSpec ----------------------------
(***************************************************************************)
(* What the interop fault proof promises: one second of the superchain at  *)
(* a time, every chain that is due gains the block L1 holds for it, and    *)
(* the largest set of those blocks whose messages are all satisfied is     *)
(* kept; the others are rebuilt from their deposits.  When L1 does not     *)
(* hold a block that is due, the transition is invalid, and stays so.      *)
(***************************************************************************)
EXTENDS Superchain

VARIABLES
  feed,     \* [Chains -> [Nat -> Feed]], never changes
  valid,    \* FALSE once the transition is invalid
  root      \* the super root: timestamp and a chain per member

vars == <<feed, valid, root>>

Init ==
  /\ valid = TRUE
  /\ root = [timestamp |-> AnchorTime, outputs |-> Anchor]

Due == {c \in Chains : IsDue(c, root.outputs[c], root.timestamp)}

Offered(c) == feed[c][Len(root.outputs[c]) + 1]

Optimistic(c) ==
  IF Offered(c).kind = "full" THEN [kind |-> "full", msgs |-> Offered(c).msgs] ELSE Bare

(***************************************************************************)
(* The superchain a second later when the blocks of `kept' are kept.       *)
(***************************************************************************)
After(kept) ==
  [c \in Chains |->
     IF c \notin Due THEN root.outputs[c]
     ELSE Append(root.outputs[c], IF c \in kept THEN Optimistic(c) ELSE Replaced)]

(***************************************************************************)
(* A message holds on a superchain: the block it names exists, at the time *)
(* it names, and has the log.                                              *)
(***************************************************************************)
Holds(m, executing, chains) ==
  /\ m.chain \in Chains
  /\ InTime(m, executing)
  /\ m.number \in 1..Len(chains[m.chain])
  /\ m.timestamp = Timestamp(m.chain, m.number)
  /\ HasLog(chains[m.chain][m.number], m)

Consistent(kept) ==
  \A c \in kept : \A m \in Optimistic(c).msgs :
    Holds(m, Timestamp(c, Len(root.outputs[c]) + 1), After(kept))

Advance ==
  /\ \A c \in Due : Offered(c).kind # "missing"
  /\ \E kept \in SUBSET Due :
       /\ Consistent(kept)
       /\ \A other \in SUBSET Due : Consistent(other) => other \subseteq kept
       /\ root' = [timestamp |-> root.timestamp + 1, outputs |-> After(kept)]
  /\ UNCHANGED <<feed, valid>>

Invalidate ==
  /\ \E c \in Due : Offered(c).kind = "missing"
  /\ valid' = FALSE
  /\ UNCHANGED <<feed, root>>

Next == valid /\ root.timestamp < Claimed /\ (Advance \/ Invalidate)

Spec == Init /\ [][Next]_vars
=============================================================================
