----------------------------- MODULE MCServices -----------------------------
(***************************************************************************)
(* The sequencer, and the components that others call and that keep a      *)
(* state of their own: independent parts, one chosen for each behaviour.   *)
(* The services share the variables s1 to s6, which each of them uses for  *)
(* its own.                                                                *)
(***************************************************************************)
EXTENDS SequencerActor

CONSTANTS None, NoAddress

VARIABLES part, s1, s2, s3, s4, s5, s6

services == <<s1, s2, s3, s4, s5, s6>>
allVars == <<part, vars, services>>

-----------------------------------------------------------------------------
\* A cache that holds less than the chain, and reorganisations on both sides
\* of the depth that clears it and of the depth it refuses.
Buffer == INSTANCE ChainBuffer
            WITH Capacity <- 3, MaxReorgDepth <- 2, ClearDepth <- 1, HasConfig <- TRUE,
                 MaxNumber <- 3, Branches <- {1, 2},
                 chain <- s1, todo <- s2, event <- s3, byHash <- s4, byNumber <- s5, heads <- s6

-----------------------------------------------------------------------------
\* L1 blocks with transactions of the batcher and of others, with blobs that
\* are full, short, empty, repeated or not in the encoding.
Data(n, a) == [i \in 1..n |-> (a * i + 193) % 256]
PlainTx(inbox, batcher, data) ==
  [kind |-> "plain", inbox |-> inbox, batcher |-> batcher, data |-> data, parts |-> <<>>]
BlobTx(inbox, batcher, parts) ==
  [kind |-> "blob", inbox |-> inbox, batcher |-> batcher, data |-> <<9>>, parts |-> parts]
SetCodeTx == [kind |-> "setcode", inbox |-> TRUE, batcher |-> TRUE, data |-> <<8>>, parts |-> <<>>]
L1Block(ecotone, slotted, txs) == [ecotone |-> ecotone, slotted |-> slotted, txs |-> txs]

Mixed == <<BlobTx(TRUE, FALSE, <<Data(5, 3)>>), PlainTx(TRUE, TRUE, <<1>>),
           BlobTx(TRUE, TRUE, <<Data(1, 7), Data(19, 37)>>), SetCodeTx,
           BlobTx(FALSE, TRUE, <<Data(2, 5)>>), PlainTx(FALSE, TRUE, <<2>>),
           BlobTx(TRUE, TRUE, <<<<-1>>, Data(20, 91), <<-2>>>>)>>
L1Blocks ==
  {L1Block(TRUE, TRUE, Mixed), L1Block(FALSE, FALSE, Mixed), L1Block(TRUE, FALSE, Mixed),
   L1Block(TRUE, FALSE, <<PlainTx(TRUE, TRUE, <<3>>), PlainTx(TRUE, FALSE, <<4>>)>>),
   L1Block(TRUE, TRUE, <<BlobTx(TRUE, TRUE, <<Data(42, 255), Data(42, 255)>>),
                         BlobTx(FALSE, FALSE, <<Data(42, 255)>>)>>),
   L1Block(TRUE, TRUE, <<BlobTx(TRUE, TRUE, <<<<>>>>)>>), L1Block(FALSE, FALSE, <<>>)}

Blobs == INSTANCE BlobSource
           WITH FieldBytes <- 6, Rounds <- 2, Blocks <- L1Blocks,
                block <- s1, source <- s2, items <- s3, result <- s4

-----------------------------------------------------------------------------
\* Chains of blocks with transactions of every type, the third with
\* transactions a span batch cannot hold.
Tx(type, protected, to, n) ==
  [type |-> type, protected |-> protected, chain |-> IF protected THEN 10 ELSE 0, to |-> to,
   nonce |-> n, gas |-> n + 1, parity |-> n % 3 = 0, rs |-> n + 2, body |-> n + 3]
SignedTxs ==
  <<Tx("legacy", FALSE, "alice", 1), Tx("eip1559", TRUE, NoAddress, 2), Tx("legacy", TRUE, NoAddress, 3),
    Tx("eip2930", TRUE, "bob", 4), Tx("eip7702", TRUE, "carol", 5), Tx("legacy", TRUE, "alice", 6),
    Tx("legacy", FALSE, NoAddress, 7), Tx("eip1559", TRUE, "bob", 8), Tx("legacy", TRUE, "bob", 9)>>
Posts(epoch, txs) == [epoch |-> epoch, txs |-> txs]
PostedChains ==
  {<<Posts(1, <<>>), Posts(1, SubSeq(SignedTxs, 1, 2)), Posts(2, <<>>), Posts(3, SubSeq(SignedTxs, 3, 5)),
     Posts(3, <<>>), Posts(3, <<SignedTxs[6]>>), Posts(4, <<>>), Posts(4, <<SignedTxs[7]>>),
     Posts(5, <<>>), Posts(5, SubSeq(SignedTxs, 8, 9))>>,
   <<Posts(1, SignedTxs), Posts(2, <<SignedTxs[3]>>), Posts(2, SignedTxs)>>,
   <<Posts(1, <<SignedTxs[1]>>), Posts(1, <<SignedTxs[3], [SignedTxs[2] EXCEPT !.chain = 11]>>),
     Posts(2, <<SignedTxs[6], [SignedTxs[2] EXCEPT !.type = "blob"]>>), Posts(2, <<>>)>>}

Codec == INSTANCE SpanCodec
           WITH ChainId <- 10, BlockTime <- 2, GenesisTime <- 5, FjordTime <- 10, MaxElements <- 12,
                MaxRlp <- 70, Chains <- PostedChains, MaxBatches <- 3,
                chain <- s1, posted <- s2, span <- s3, channel <- s4, reader <- s5, read <- s6

-----------------------------------------------------------------------------
\* Two chains that execute messages of each other.  b1 sends what a1 executes,
\* a1 sends what b2 executes; a2 and b2c execute each other's message of the
\* same time; a1x and b1x hold no message, and a1x replaces an invalid a1.
L2Chains == {"A", "B"}
L2Block == {"a0", "a1", "a1x", "a2", "b0", "b1", "b1x", "b2", "b2c"}
L1Source == {"s1", "s2", "t2"}
TreeNumber ==
  [b \in L2Block \cup L1Source |->
     IF b \in {"a0", "b0"} THEN 0 ELSE IF b \in {"a1", "a1x", "b1", "b1x", "s1"} THEN 1 ELSE 2]
TreeParent ==
  [b \in L2Block \cup L1Source |->
     CASE b \in {"a0", "b0", "s1"} -> None [] b \in {"a1", "a1x"} -> "a0" [] b \in {"b1", "b1x"} -> "b0"
       [] b = "a2" -> "a1" [] b \in {"b2", "b2c"} -> "b1" [] b \in {"s2", "t2"} -> "s1"]
ChainOfBlock == [b \in L2Block |-> IF b \in {"a0", "a1", "a1x", "a2"} THEN "A" ELSE "B"]
TimeOfBlock == [b \in L2Block |-> 2 * TreeNumber[b] + 2]

AppLog(text) == [address |-> "app", payload |-> text, event |-> None]
Executes(c, n, i, t, text) ==
  LET event == [chain |-> c, number |-> n, index |-> i, time |-> t, origin |-> "app", payload |-> text]
  IN  [address |-> "inbox", payload |-> event, event |-> event]
ReceiptsOf ==
  [b \in L2Block |->
     CASE b = "b1" -> <<AppLog("p"), AppLog("q")>>
       [] b = "a1" -> <<Executes("B", 1, 1, 4, "q"), AppLog("r")>>
       [] b = "a2" -> <<Executes("B", 2, 0, 6, "z")>>
       [] b = "b2" -> <<Executes("A", 1, 1, 4, "r")>>
       [] b = "b2c" -> <<Executes("A", 2, 0, 6, "z")>>
       [] OTHER -> <<>>]

Scenario(blocks, main, fork, jobs) ==
  [blocks |-> {"a0", "b0"} \cup blocks, main |-> main, fork |-> fork, jobs |-> jobs]
ScenarioSet ==
  {Scenario({"a1", "a1x", "b1", "b1x", "b2"}, {"s1", "s2"}, {"s1", "s2"}, {"CrossSafe"}),
   Scenario({"a1", "a1x", "b1", "b1x"}, {"s1"}, {"s1"}, {"CrossSafe", "CrossUnsafe"}),
   Scenario({"a1", "a1x", "a2", "b1", "b2c"}, {"s1"}, {"s1"}, {"CrossSafe"}),
   Scenario({"a1", "b1"}, {"s1", "s2"}, {"s1", "t2"}, {"CrossSafe"})}

\* Access lists: well formed, with a wrong log, a wrong time, out of order or
\* cut off.
Lookup(c, n, t, i) == [type |-> "lookup", id |-> [chain |-> c, number |-> n, time |-> t, index |-> i]]
ChecksumEntry(c, n, t, i, text) ==
  [type |-> "checksum", id |-> [chain |-> c, number |-> n, time |-> t, index |-> i,
                                hash |-> <<"app", text>>]]
Extension == [type |-> "extension"]
Lists ==
  {<<Lookup("B", 1, 4, 1), ChecksumEntry("B", 1, 4, 1, "q")>>,
   <<Lookup("B", 1, 4, 1), Extension, ChecksumEntry("B", 1, 4, 1, "q"),
     Lookup("A", 1, 4, 1), ChecksumEntry("A", 1, 4, 1, "r")>>,
   <<Lookup("B", 1, 4, 0), ChecksumEntry("B", 1, 4, 0, "q")>>,
   <<Lookup("B", 1, 5, 1), ChecksumEntry("B", 1, 5, 1, "q")>>,
   <<Lookup("B", 1, 4, 1)>>, <<ChecksumEntry("B", 1, 4, 1, "q")>>, <<[type |-> "other"]>>,
   <<Lookup("B", 1, 4, 1), Extension, Extension>>}

Cross == INSTANCE CrossSafety
           WITH Block <- L2Block, Source <- L1Source, Number <- TreeNumber, Parent <- TreeParent,
                Chains <- L2Chains, ChainOf <- ChainOfBlock, Receipts <- ReceiptsOf, Time <- TimeOfBlock,
                BlockTime <- 2, InteropTime <- 2, ExpiryWindow <- 3,
                Activation <- [c \in L2Chains |-> [source |-> "s1", derived |-> IF c = "A" THEN "a0" ELSE "b0"]],
                Scenarios <- ScenarioSet, AccessLists <- Lists,
                Descriptors <- [chain : {"A", None}, time : {4, 6, 8}, timeout : {0, 2}],
                dbs <- s1, checker <- s2, invalid <- s3, invalidated <- s4, l1 <- s5, rewound <- s6

-----------------------------------------------------------------------------
\* A configured node or none, a second node for the same chain, and a chain
\* without a place in the dependency set; one caller that may try again.
Rollups == {"a", "b"}
NodeUrls == {"a1", "a2", "b1"}
Service == INSTANCE SupervisorService
             WITH Dependencies <- {"a", "d"}, Nodes <- NodeUrls,
                  ServedChain <- [n \in NodeUrls |-> IF n = "b1" THEN "b" ELSE "a"],
                  Configured <- {<<>>, <<"a1">>}, Callers <- {"k"}, Absent <- None, AdminCapacity <- 2,
                  MaxCalls <- 2, MaxDrops <- 2,
                  service <- s1, init <- s2, clients <- s3, nodes <- s4, admin <- s5, tasks <- s6

-----------------------------------------------------------------------------
\* Callers that change and query the peers at the same time.  The key of q is
\* not a secp256k1 key, x is no peer id.
Peer(method, p) == [method |-> method, peer |-> p]
Script(first, second) == [k |-> first, l |-> second]
PeerScripts ==
  {Script(<<Peer(<<"block", "peers">>, "p"), Peer(<<"list", "peers">>, "p")>>,
          <<Peer(<<"dump", "connected">>, "p")>>),
   Script(<<Peer(<<"unblock", "peers">>, "p")>>,
          <<Peer(<<"block", "protected">>, "p"), Peer(<<"dump", "known">>, "p")>>),
   Script(<<Peer(<<"connect", "peer">>, "p")>>, <<Peer(<<"disconnect", "peer">>, "p")>>),
   Script(<<Peer(<<"stats", "known">>, "p"), Peer(<<"connect", "peer">>, "p")>>,
          <<Peer(<<"count", "known">>, "p")>>),
   Script(<<Peer(<<"block", "addrs">>, "p"), Peer(<<"connect", "peer">>, "p")>>,
          <<Peer(<<"table", "known">>, "p")>>),
   Script(<<Peer(<<"block", "subnets">>, "p"), Peer(<<"connect", "peer">>, "p")>>,
          <<Peer(<<"self", "known">>, "p")>>),
   Script(<<Peer(<<"connect", "peer">>, "x"), Peer(<<"connect", "peer">>, "q")>>,
          <<Peer(<<"connect", "peer">>, "q")>>)}

Api == INSTANCE PeerApi
         WITH Peers <- {"p", "q"}, Decodable <- {"p"}, Callers <- {"k", "l"}, Scripts <- PeerScripts,
              Redialing <- 1, Capacity <- 3, Retries <- 1, MaxEvents <- 1,
              calls <- s1, queue <- s2, gossip <- s3, tasks <- s4, net <- s5

-----------------------------------------------------------------------------
\* Callers of a node whose chains move while their queries are answered.
Ask(method, label) == [method |-> method, label |-> label]
Tag(tag) == <<"tag", tag>>
Session(mode, first, second, tasks, blocks, faults, ends) ==
    [mode |-> mode, calls |-> [k |-> first, l |-> second],
     bounds |-> [tasks |-> tasks, blocks |-> blocks, faults |-> faults, ends |-> ends]]
Sessions ==
  {Session("validator", <<Ask("outputAtBlock", Tag("latest"))>>, <<>>, 2, 0, 0, 0),
   Session("validator", <<Ask("outputAtBlock", <<"number", 1>>), Ask("outputAtBlock", <<"number", 3>>)>>,
           <<>>, 1, 0, 1, 0),
   Session("validator", <<Ask("syncStatus", Tag(""))>>, <<Ask("safeHeadAtL1Block", Tag(""))>>, 0, 2, 1, 0),
   Session("sequencer", <<Ask("subscribe", Tag("unsafe"))>>, <<Ask("sequencerActive", Tag(""))>>, 1, 0, 0, 1),
   Session("validator", <<Ask("subscribe", Tag("finalized"))>>, <<Ask("subscribe", Tag("length"))>>, 2, 0, 1, 0),
   Session("validator", <<Ask("outputAtBlock", Tag("safe"))>>,
           <<Ask("stopSequencer", Tag("")), Ask("syncStatus", Tag(""))>>, 1, 0, 0, 0),
   Session("validator", <<Ask("subscribe", Tag("safe"))>>, <<Ask("outputAtBlock", Tag("finalized"))>>, 1, 0, 0, 0),
   Session("validator", <<Ask("syncStatus", Tag("")), Ask("version", Tag(""))>>,
           <<Ask("rollupConfig", Tag("")), Ask("taskQueueLength", Tag(""))>>, 0, 0, 0, 2)}

Node == INSTANCE NodeApi
          WITH Callers <- {"k", "l"}, Scripts <- Sessions, IsthmusAt <- 2, Restarts <- 1,
               chain <- s1, l1 <- s2, engine <- s3, watcher <- s4, calls <- s5, node <- s6

-----------------------------------------------------------------------------
\* Program runs of the proof driver: each with fork times, fee parameters, a
\* claim and the contents a batcher may have posted.
Case(canyon, holocene, jovian, interop, params, claim, contents) ==
  [canyon |-> canyon, holocene |-> holocene, jovian |-> jovian, interop |-> interop, params |-> params,
   claim |-> claim, contents |-> contents]
CaseSet ==
  {Case(0, 7, 9, 99, "set", 7, {<<"good", "good">>, <<"invalid", "good">>}),
   Case(6, 99, 99, 99, "zero", 5, {<<>>, <<"invalid", "good">>, <<"good">>}),
   Case(0, 0, 6, 4, "zero", 6, {<<>>, <<"good", "broken">>, <<"invalid", "good">>}),
   Case(0, 0, 0, 99, "zero", 2, {<<"good">>})}

Proof == INSTANCE ProofDriver
           WITH ChannelTimeout <- 1, CacheMargin <- 2, GenesisL1 <- 0, L1Head <- 4, SafeNumber <- 2,
                SafeOrigin <- 1, BlockTime <- 2, Cases <- CaseSet,
                config <- s1, cursor <- s2, pipeline <- s3, executor <- s4, driver <- s5

-----------------------------------------------------------------------------
IdleSequencer ==
  /\ l1 = "" /\ reorgs = "" /\ l1_head = "" /\ unsafe = "" /\ published = "" /\ epc = ""
  /\ resets = "" /\ request = "" /\ payload = "" /\ spc = "" /\ active = FALSE /\ recovery = ""
  /\ current = "" /\ next = "" /\ head = "" /\ chosen = "" /\ sent = NoBlock /\ stopped = ""

ServicesInit ==
  \/ part = "sequencer" /\ Init /\ s1 = "" /\ s2 = "" /\ s3 = "" /\ s4 = "" /\ s5 = "" /\ s6 = ""
  \/ /\ IdleSequencer
     /\ \/ part = "buffer" /\ Buffer!BufferInit
        \/ part = "blobs" /\ Blobs!SourceInit /\ s5 = "" /\ s6 = ""
        \/ part = "codec" /\ Codec!CodecInit
        \/ part = "cross" /\ Cross!SafetyInit
        \/ part = "service" /\ Service!ServiceInit
        \/ part = "api" /\ Api!ApiInit /\ s6 = ""
        \/ part = "node" /\ Node!NodeInit
        \/ part = "driver" /\ Proof!DriverInit /\ s6 = ""

ServicesNext ==
  \/ part = "sequencer" /\ Next /\ UNCHANGED <<part, services>>
  \/ part = "buffer" /\ Buffer!BufferNext /\ UNCHANGED <<part, vars>>
  \/ part = "blobs" /\ Blobs!SourceNext /\ UNCHANGED <<part, vars, s5, s6>>
  \/ part = "codec" /\ Codec!CodecNext /\ UNCHANGED <<part, vars>>
  \/ part = "cross" /\ Cross!SafetyNext /\ UNCHANGED <<part, vars>>
  \/ part = "service" /\ Service!ServiceNext /\ UNCHANGED <<part, vars>>
  \/ part = "api" /\ Api!ApiNext /\ UNCHANGED <<part, vars, s6>>
  \/ part = "node" /\ Node!NodeNext /\ UNCHANGED <<part, vars>>
  \/ part = "driver" /\ Proof!DriverNext /\ UNCHANGED <<part, vars, s6>>

Others == UNCHANGED <<part, services>>

ServicesSpec ==
  /\ ServicesInit /\ [][ServicesNext]_allVars
  /\ WF_allVars(part = "sequencer" /\ RequestInitialReset /\ Others)
  /\ WF_allVars(part = "sequencer" /\ InitialResetDone /\ Others)
  /\ WF_allVars(part = "sequencer" /\ Tick /\ Others)
  /\ WF_allVars(part = "sequencer" /\ Gossip /\ Others)
  /\ SF_allVars(part = "sequencer" /\ SelectCurrentOrigin /\ Others)
  /\ SF_allVars(part = "sequencer" /\ SelectNextOrigin /\ Others)
  /\ SF_allVars(part = "sequencer" /\ Prepare /\ Others)
  /\ WF_allVars(part = "sequencer" /\ EngineReset /\ Others)
  /\ WF_allVars(part = "sequencer" /\ EngineBuild /\ Others)
  /\ WF_allVars(part = "sequencer" /\ EnginePublish /\ Others)
  /\ WF_allVars(part = "sequencer" /\ L1Extend /\ Others)
  /\ WF_allVars(part = "sequencer" /\ L1Head /\ Others)

-----------------------------------------------------------------------------
\* The buffer answers with the chain's block or an error that is retried,
\* whatever was evicted, reverted or cleared (ChainStateBuffer).
ServesTheChain == part = "buffer" => Buffer!ServesTheChain

\* The data source hands on what the batcher posted, in order and once, or
\* reports an error (BlobSource, OnlineBlobProvider).
ReadsWhatWasPosted == part = "blobs" => Blobs!ReadsWhatWasPosted

\* Reading a channel gives back the blocks posted in it (SpanBatch,
\* SpanBatchTransactions, BatchReader).
ReadsBack == part = "codec" => Codec!ReadsBack

\* A cross safe block depends on cross safe blocks only (CrossSafetyChecker,
\* CrossSafetyCheckerJob).
DependenciesSafe == part = "cross" => Cross!DependenciesSafe

\* An access list that is accepted names messages that would pass validation
\* (Supervisor::check_access_list), and what sync_status reports can be asked
\* for (SupervisorRpc::sync_status, Supervisor::super_root_at_timestamp).
QueriesSound == part = "cross" => Cross!AccessListSound /\ Cross!StatusServed

\* All parts of the supervisor use the same node for a chain, and a retried
\* subscription reaches it (Service::init_managed_node, handle_admin_request,
\* run_subscription_task, spawn_task_with_retry).
NodesAgree == part = "service" => Service!NodesAgree

\* An answer of the p2p RPC shows one moment of the gossip driver, and every
\* caller gets one (P2pRpcRequest::handle, P2pRpc).
AnswersConsistent == part = "api" => Api!AnswersConsistent

\* What the node's RPC tells a caller or a subscriber is true (RollupRpc,
\* EngineQueries::handle, WsRPC).
AnswersTruthful == part = "node" => Node!AnswersTruthful

\* The block a program run claims extends the agreed chain block by block
\* with origins that were read, and the headers carry the parameters in force
\* (Driver::advance_to_target, PipelineCursor, StatelessL2Builder).
DriverSound == part = "driver" => Proof!DriverSound
=============================================================================
