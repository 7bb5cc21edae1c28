------------------------------ MODULE MCInterop ------------------------------
(***************************************************************************)
(* Three chains, one with a block every second and two with a block every  *)
(* other second.  Isthmus and interop activated two seconds after genesis; *)
(* the trace starts two seconds later and runs for Claimed - AnchorTime    *)
(* seconds, over every content L1 may hold for the blocks in between.      *)
(***************************************************************************)
EXTENDS InteropProof, TLC

MCBlockTime == <<1, 2, 2>>

(***************************************************************************)
(* The history contract was deployed by the upgrade transactions of the    *)
(* first Isthmus block, or it was part of genesis.                         *)
(***************************************************************************)
MCFromUpgrade == <<2, 1, 1>>
MCFromGenesis == <<0, 0, 0>>

Full(msgs) == [kind |-> "full", msgs |-> msgs]
Plain(kind) == [kind |-> kind, msgs |-> {}]

MCAnchor == [c \in Chains |-> [n \in 1..(4 \div MCBlockTime[c]) |-> Full({})]]

Message(c, n, log) ==
  [chain |-> c, number |-> n, timestamp |-> Timestamp(c, n), log |-> log]

MCMessages == {Message(1, 2, "user"), Message(1, 5, "user"), Message(1, 6, "user"),
               Message(2, 3, "user"), Message(3, 3, "user"), Message(2, 3, "deposit"),
               Message(1, 6, "absent")}

Offers(c, n) ==
  CASE c = 1 /\ n = 5 -> {Plain("bare"), Full({}), Full({Message(2, 3, "user")})}
    [] c = 1 /\ n = 6 -> {Plain("failing"), Plain("missing"), Full({}),
                          Full({Message(2, 3, "user"), Message(3, 3, "user")})}
                         \cup {Full({m}) : m \in MCMessages}
    [] c = 1 /\ n = 7 -> {Full({m}) : m \in MCMessages}
    [] OTHER -> {Plain("missing"), Plain("bare"), Full({})} \cup {Full({m}) : m \in MCMessages}

Init ==
  /\ ProofInit
  /\ \E x \in Offers(1, 5), y \in Offers(1, 6), z \in Offers(1, 7),
        b \in Offers(2, 3), d \in Offers(3, 3) :
       feed = <<5 :> x @@ 6 :> y @@ 7 :> z, 3 :> b, 3 :> d>>

Next == ProofNext

Spec == Init /\ [][Next]_proofVars /\ WF_proofVars(Next)
=============================================================================
