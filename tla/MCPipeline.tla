------------------------------ MODULE MCPipeline ------------------------------
(***************************************************************************)
(* The two halves of the derivation pipeline for TLC.  They share no state *)
(* here (ChannelStages ends where a channel is handed to ChannelReader,    *)
(* BatchStages starts there), so a behaviour moves only one of them.       *)
(***************************************************************************)
EXTENDS ChannelStages, BatchStages

VARIABLE part

(***************************************************************************)
(* The batcher transactions worth telling apart: whole channels, channels  *)
(* split over transactions in and out of order, frames past the end of a   *)
(* channel, and an unparsable transaction.                                 *)
(***************************************************************************)
F(i, n, l) == [id |-> i, num |-> n, last |-> l]

MCItems ==
    { <<>>,
      <<F("a", 0, FALSE)>>, <<F("a", 1, TRUE)>>,
      <<F("a", 0, FALSE), F("b", 0, TRUE)>>,
      <<F("b", 0, FALSE), F("a", 1, FALSE)>>,
      <<F("b", 2, FALSE), F("b", 1, TRUE)>>,
      <<F("a", 2, FALSE), F("b", 0, TRUE)>> }

(***************************************************************************)
(* Batches cut from two L2 chains that part after the first block.         *)
(***************************************************************************)
B(e, t) == [epoch |-> e, txs |-> t]
ChainA == <<B(2, "none"), B(3, "x"), B(4, "x"), B(4, "none")>>
ChainB == <<B(2, "none"), B(3, "bad"), B(4, "y")>>

TimeOf(n) == L1Time(GenesisOrigin) + BlockTime * n

Single(chain, n) ==
    [kind |-> "single", parent |-> SubSeq(chain, 1, n - 1), canon |-> TRUE,
     epoch |-> chain[n].epoch, ts |-> TimeOf(n), txs |-> chain[n].txs]

Span(chain, n, m) ==
    [kind |-> "span", parent |-> SubSeq(chain, 1, n - 1), canon |-> TRUE,
     blocks |-> [i \in 1..(m - n + 1) |->
        [epoch |-> chain[n + i - 1].epoch, ts |-> TimeOf(n + i - 1),
         txs |-> chain[n + i - 1].txs]]]

HonestBatches ==
    {Single(ChainA, n) : n \in 1..4}
    \cup {Span(ChainA, n, m) : n \in 1..2, m \in 2..4}

AnyBatches ==
    {Single(ChainA, 1), Single(ChainB, 2), Single(ChainB, 3),
     Span(ChainA, 1, 2), Span(ChainB, 2, 3)}
    \cup {[Single(ChainA, 2) EXCEPT !.canon = FALSE]}

MCBatchSets == [h \in BOOLEAN |-> IF h THEN HonestBatches ELSE AnyBatches]

-----------------------------------------------------------------------------
vars == <<channelVars, batchVars, part>>

Init ==
  /\ ChannelInit /\ BatchInit
  /\ part \in {"channels", "batches"}
  /\ part = "channels" => honest /\ holocene = 0
  /\ part = "batches" => l1Data = <<<<>>>>

Next ==
  /\ UNCHANGED part
  /\ \/ part = "channels" /\ ChannelNext /\ UNCHANGED batchVars
     \/ part = "batches" /\ BatchNext /\ UNCHANGED channelVars

Spec == Init /\ [][Next]_vars
=============================================================================
