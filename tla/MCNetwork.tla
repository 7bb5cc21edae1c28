----------------------------- MODULE MCNetwork -----------------------------
(* The network actor for TLC.  Its two halves share no state, so a behaviour  *)
(* moves only one of them while the other rests in its initial state.         *)
EXTENDS BlockGossip, PeerNetwork, TLC

VARIABLE part

MCBlocks == {"a1", "a2", "b2", "c2", "a3"}
MCOwnBlocks == {"a3"}
MCHeight(b) == CASE b = "a1" -> 1 [] b = "a3" -> 3 [] OTHER -> 2
MCTimestamp(b) == MCHeight(b)
MCKeys == {"old", "new"}
MCPeers == {"p"}
MCBootNodes == <<>>
MCBootEnodes == {"p"}
MCValidEnr(p) == p = "p"
MCSubnet(p) == "net"

vars == <<blockVars, peerVars, part>>

Init == BlockInit /\ PeerInit /\ part \in {"blocks", "peers"}

Next ==
    /\ UNCHANGED part
    /\ \/ part = "blocks" /\ BlockNext /\ UNCHANGED peerVars
       \/ part = "peers" /\ PeerNext /\ UNCHANGED blockVars

\* The select! of the loop picks a ready branch at random, so a branch that stays
\* ready is taken; the engine actor keeps receiving.
Spec ==
    /\ Init /\ [][Next]_vars
    /\ WF_vars(part = "blocks" /\ TakeUnsafe /\ UNCHANGED <<peerVars, part>>)
    /\ WF_vars(part = "blocks" /\ SendToEngine /\ UNCHANGED <<peerVars, part>>)
    /\ WF_vars(part = "blocks" /\ EngineTakes /\ UNCHANGED <<peerVars, part>>)
============================================================================
