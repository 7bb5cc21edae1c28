------------------------------- MODULE NodeApi -------------------------------
(***************************************************************************)
(* The RPC of a rollup node and the service around it: the rollup, dev and *)
(* admin methods and the head subscriptions, the two tasks that answer     *)
(* their queries (one of the engine actor, one of the L1 watcher), the RPC *)
(* server with its restarts, and the actors that end together.             *)
(*                                                                         *)
(* Both query tasks answer one query at a time and await the L1 or the L2  *)
(* node in between, while the chains move on.  A block of the L2 chain is  *)
(* its number and a mark that tells siblings apart, the L1 chain its three *)
(* labels.  What the methods do after their query is in other modules: the *)
(* sequencer's part of the admin queries in SequencerActor, posting a      *)
(* payload in BlockGossip, the opp2p methods in PeerApi.                   *)
(***************************************************************************)
EXTENDS Integers, Sequences

CONSTANTS Callers,
          Scripts,      \* what the callers call, the mode of the node, and the bounds: tasks
                        \* (of the engine), blocks (how far L1's labels move), faults (failing
                        \* lookups, timeouts), ends (failing actors and server stops)
          IsthmusAt,    \* number of the first block of Isthmus
          Restarts      \* RpcBuilder::restart_count

VARIABLES chain,     \* the L2 node's chain, and the engine's two watches
          l1,        \* the labels of the L1 node, and the L1 head watch
          engine,    \* the engine's query task
          watcher,   \* the L1 watcher's query task
          calls,     \* each caller's calls and subscriptions
          node       \* the RPC server, the actors and the cancellation token

nodeVars == <<chain, l1, engine, watcher, calls, node>>

NoAnswer == [kind |-> "none"]
Failed == [kind |-> "failed"]
Unknown == <<>>
EngineMethods == {"outputAtBlock", "syncStatus", "rollupConfig", "taskQueueLength", "subscribe"}
WatcherMethods == {"outputAtBlock", "syncStatus"}
AdminMethods == {"sequencerActive", "stopSequencer"}

-----------------------------------------------------------------------------
(* The L2 chain.                                                             *)

BlockAt(c, n) == IF n > Len(c.blocks) THEN Unknown ELSE <<n, IF n = 0 THEN 0 ELSE c.blocks[n]>>

\* The block a number or a tag denotes.
Resolve(c, label) ==
    CASE label[1] = "number" -> BlockAt(c, label[2])
      [] label[2] = "latest" -> BlockAt(c, Len(c.blocks))
      [] label[2] = "safe" -> BlockAt(c, c.safe)
      [] label[2] = "finalized" -> BlockAt(c, c.finalized)

Isthmus(block) == block[1] >= IsthmusAt

EngineState(c) ==
    [unsafe |-> BlockAt(c, Len(c.blocks)), safe |-> BlockAt(c, c.safe), finalized |-> BlockAt(c, c.finalized)]

\* What a subscription watches.
Watched(label) == IF label[2] = "length" THEN <<chain.length>> ELSE chain.state[label[2]]

\* The watches are sent to: every receiver has something it has not seen.
Sent(cs) ==
    [k \in Callers |-> [cs[k] EXCEPT !.fresh = cs[k].state \in {"received", "watching", "sending"}]]

Enqueue ==
    /\ "engine" \in node.alive /\ chain.length = 0 /\ chain.tasks < node.bounds.tasks
    /\ chain' = [chain EXCEPT !.length = 1, !.tasks = @ + 1]
    /\ calls' = Sent(calls)
    /\ UNCHANGED <<l1, engine, watcher, node>>

\* A task changes the L2 node's labels.
Changes ==
    LET last == Len(chain.blocks)
    IN  {[chain EXCEPT !.blocks = Append(@, 0)]}
        \cup {[chain EXCEPT !.safe = n] : n \in {chain.safe + 1} \cap 1..last}
        \cup {[chain EXCEPT !.finalized = n] : n \in {chain.finalized + 1} \cap 1..chain.safe}
        \cup {[chain EXCEPT !.blocks[n] = 1] : n \in {last} \ 0..chain.safe}

Execute ==
    /\ "engine" \in node.alive /\ chain.length = 1 /\ ~chain.ran
    /\ \E c \in Changes :
         /\ chain' = [c EXCEPT !.ran = TRUE]
         /\ engine' = IF engine.job = NoAnswer \/ Resolve(c, engine.job.label) = Resolve(chain, engine.job.label)
                       THEN engine ELSE [engine EXCEPT !.job.moved = TRUE]
    /\ UNCHANGED <<l1, watcher, calls, node>>

\* What a caller could be told of the engine: kept while it waits.
Seen(cs, state) ==
    [k \in Callers |-> IF cs[k].state = "waiting" THEN [cs[k] EXCEPT !.seen = @ \cup {state}] ELSE cs[k]]

MutDrained ==
    /\ "engine" \in node.alive /\ chain.ran
    /\ chain' = [chain EXCEPT !.state = EngineState(chain), !.length = 0, !.ran = FALSE]
    /\ calls' = Seen(IF EngineState(chain).unsafe # chain.state.unsafe THEN Sent(calls) ELSE calls, EngineState(chain))
    /\ UNCHANGED <<l1, engine, watcher, node>>

\* The task is done: drain publishes the new state and the new length.
Drained ==
    /\ "engine" \in node.alive /\ chain.ran
    /\ chain' = [chain EXCEPT !.state = EngineState(chain), !.length = 0, !.ran = FALSE]
    /\ calls' = Seen(Sent(calls), EngineState(chain))
    /\ UNCHANGED <<l1, engine, watcher, node>>

\* The L1 node's labels move; the watcher polls its head.
L1Moves ==
    /\ \E label \in {"latest", "safe", "finalized"} :
         LET limit == CASE label = "safe" -> l1.latest [] label = "finalized" -> l1.safe [] OTHER -> l1[label] + 1
         IN  /\ l1[label] < limit /\ l1[label] < node.bounds.blocks
             /\ l1' = [l1 EXCEPT ![label] = @ + 1]
    /\ UNCHANGED <<chain, engine, watcher, calls, node>>

HeadPolled ==
    /\ "watcher" \in node.alive /\ l1.polled # l1.latest
    /\ l1' = [l1 EXCEPT !.polled = l1.latest]
    /\ UNCHANGED <<chain, engine, watcher, calls, node>>

-----------------------------------------------------------------------------
(* Callers.                                                                  *)

Up == node.server = "up"
Faulty == node.faults < node.bounds.faults
Fault == node' = [node EXCEPT !.faults = @ + 1]

Ends(call, result) == [call EXCEPT !.state = "done", !.result = result]
Error(code) == [error |-> code]

\* sync_status_from_actor_queries and OutputResponse::from_v0, once both
\* queries are answered; try_join! gives up at the first that fails.
Joined(call) ==
    IF Failed \in {call.l1, call.l2} THEN Ends(call, Error("InternalError"))
    ELSE IF NoAnswer \in {call.l1, call.l2} THEN call
    ELSE Ends(call, [l1 |-> call.l1, l2 |-> call.l2])

\* An answer to query q arrives: of the engine's task or of the watcher's.
Answered(cs, q, part, answer) ==
    [cs EXCEPT ![q.caller] =
       IF @.number # q.number \/ @.state # "waiting" THEN @
       ELSE IF q.method = "subscribe" /\ answer # Failed THEN [@ EXCEPT !.state = "received", !.fresh = TRUE]
       ELSE Joined([@ EXCEPT ![part] = answer])]

\* A caller makes its next call.  The queries of one call are sent together.
Call(k) ==
    /\ Up /\ calls[k].state \in {"idle", "done"} /\ calls[k].left # <<>>
    /\ LET next == Head(calls[k].left)
           method == next.method
           number == calls[k].number + 1
           query == [kind |-> "query", caller |-> k, number |-> number, method |-> method, label |-> next.label,
                     state |-> NoAnswer, block |-> Unknown, moved |-> FALSE]
           call == [calls[k] EXCEPT !.left = Tail(@), !.method = method, !.label = next.label, !.number = number,
                                    !.state = "waiting", !.seen = {chain.state},
                                    !.l1 = IF method \notin WatcherMethods THEN [kind |-> "unused"]
                                           ELSE IF watcher.open THEN NoAnswer ELSE Failed,
                                    !.l2 = IF engine.open THEN NoAnswer ELSE Failed]
       IN  CASE method \in EngineMethods ->
                  /\ calls' = [calls EXCEPT ![k] = Joined(call)]
                  /\ engine' = IF engine.open THEN [engine EXCEPT !.queue = Append(@, query)] ELSE engine
                  /\ watcher' = IF watcher.open /\ method \in WatcherMethods
                                THEN [watcher EXCEPT !.queue = Append(@, query)] ELSE watcher
             [] method \in AdminMethods ->
                  /\ calls' = [calls EXCEPT ![k] =
                       IF node.mode # "sequencer" THEN Ends(call, Error("MethodNotFound"))
                       ELSE IF "sequencer" \notin node.alive THEN Ends(call, Error("InternalError"))
                       ELSE [call EXCEPT !.l2 = NoAnswer]]
                  /\ UNCHANGED <<engine, watcher>>
             [] OTHER ->
                  /\ calls' = [calls EXCEPT ![k] =
                       IF method = "version" THEN Ends(call, [version |-> TRUE])
                       ELSE Ends(call, Error("MethodNotFound"))]
                  /\ UNCHANGED <<engine, watcher>>
    /\ UNCHANGED <<chain, l1, node>>

\* The server's timeout layer drops the call; its queries stay where they are.
TimesOut(k) ==
    /\ Faulty /\ Fault
    /\ calls[k].state = "waiting" /\ calls[k].method # "subscribe"
    /\ calls' = [calls EXCEPT ![k] = Ends(@, Error("timeout"))]
    /\ UNCHANGED <<chain, l1, engine, watcher>>

\* The sequencer answers an admin query (SequencerActor).
SequencerAnswers(k) ==
    /\ "sequencer" \in node.alive /\ calls[k].state = "waiting" /\ calls[k].method \in AdminMethods
    /\ calls' = [calls EXCEPT ![k] = Ends(@, [admin |-> @.method])]
    /\ UNCHANGED <<chain, l1, engine, watcher, node>>

-----------------------------------------------------------------------------
(* EngineQueries::handle, in the task start_query_task spawns.               *)

\* The task takes a query and the state watched at that moment, and answers
\* at once or goes on to look up the block.
EngineTakes ==
    /\ engine.open /\ engine.job = NoAnswer /\ engine.queue # <<>>
    /\ LET q == Head(engine.queue)
           rest == [engine EXCEPT !.queue = Tail(@)]
           answer == CASE q.method = "syncStatus" -> [state |-> chain.state]
                       [] q.method = "taskQueueLength" -> [length |-> chain.length]
                       [] OTHER -> [config |-> TRUE]
       IN  IF q.method = "outputAtBlock"
           THEN /\ engine' = [rest EXCEPT !.job = [q EXCEPT !.state = chain.state]]
                /\ UNCHANGED calls
           ELSE /\ engine' = rest
                /\ calls' = Answered(calls, q, "l2", answer)
    /\ UNCHANGED <<chain, l1, watcher, node>>

JobDone(answer) ==
    /\ engine' = [engine EXCEPT !.job = NoAnswer]
    /\ calls' = Answered(calls, engine.job, "l2", answer)

Output(block, passer) ==
    [state |-> engine.job.state, block |-> block, passer |-> passer, moved |-> engine.job.moved]

\* From Isthmus on the storage root of the message passer is in the header.
BlockByLabel ==
    /\ engine.open /\ engine.job # NoAnswer /\ engine.job.block = Unknown
    /\ LET block == Resolve(chain, engine.job.label)
       IN  IF block = Unknown THEN JobDone(Failed)
           ELSE IF Isthmus(block) THEN JobDone(Output(block, block))
           ELSE /\ engine' = [engine EXCEPT !.job.block = block, !.job.moved = FALSE]
                /\ UNCHANGED calls
    /\ UNCHANGED <<chain, l1, watcher, node>>

\* Before Isthmus it is the subject of a second call, by the same label.
GetProof ==
    /\ engine.open /\ engine.job # NoAnswer /\ engine.job.block # Unknown
    /\ LET proved == Resolve(chain, engine.job.label)
       IN  JobDone(IF proved = Unknown THEN Failed ELSE Output(engine.job.block, proved))
    /\ UNCHANGED <<chain, l1, watcher, node>>

LookupFails ==
    /\ Faulty /\ Fault /\ engine.open /\ engine.job # NoAnswer
    /\ JobDone(Failed)
    /\ UNCHANGED <<chain, l1, watcher>>

-----------------------------------------------------------------------------
(* L1WatcherRpcState::start_query_processor                                  *)

WatcherTakes ==
    /\ watcher.open /\ watcher.job = NoAnswer /\ watcher.queue # <<>>
    /\ watcher' = [watcher EXCEPT !.queue = Tail(@), !.job = Head(watcher.queue),
                                  !.answer = <<[at |-> l1.polled, ok |-> TRUE]>>]
    /\ UNCHANGED <<chain, l1, engine, calls, node>>

\* One lookup after the other; what cannot be looked up is zeroed.
Lookups == <<"latest", "finalized", "safe">>

LooksUp ==
    /\ watcher.open /\ watcher.job # NoAnswer
    /\ LET label == Lookups[Len(watcher.answer)]
           Answer(at, ok) == Append(watcher.answer, [at |-> at, ok |-> ok])
           Goes(answer) ==
             IF Len(answer) <= Len(Lookups)
             THEN watcher' = [watcher EXCEPT !.answer = answer] /\ UNCHANGED calls
             ELSE /\ watcher' = [watcher EXCEPT !.job = NoAnswer, !.answer = <<>>]
                  /\ calls' = Answered(calls, watcher.job, "l1", [blocks |-> answer])
       IN  \/ Goes(Answer(l1[label], TRUE)) /\ UNCHANGED node
           \/ Goes(Answer(0, FALSE)) /\ Faulty /\ Fault
    /\ UNCHANGED <<chain, l1, engine>>

-----------------------------------------------------------------------------
(* WsRPC and DevEngineRpc: a subscription, once it has its receiver.         *)

\* The head of the moment is where it starts from; a length is also sent.
Borrow(k) ==
    /\ calls[k].state = "received"
    /\ calls' = [calls EXCEPT ![k].state = "watching", ![k].current = Watched(calls[k].label),
                              ![k].told = Watched(calls[k].label)]
    /\ UNCHANGED <<chain, l1, engine, watcher, node>>

\* wait_for looks at the watched value, and sleeps until it is sent to.
WaitFor(k) ==
    /\ calls[k].state = "watching"
    /\ LET value == Watched(calls[k].label)
       IN  \/ /\ value # calls[k].current
              /\ calls' = [calls EXCEPT ![k].state = "sending", ![k].current = value, ![k].fresh = FALSE]
           \/ /\ value = calls[k].current /\ calls[k].fresh
              /\ calls' = [calls EXCEPT ![k].fresh = FALSE]
    /\ UNCHANGED <<chain, l1, engine, watcher, node>>

SendUpdate(k) ==
    /\ calls[k].state = "sending"
    /\ calls' = [calls EXCEPT ![k].state = "watching", ![k].told = calls[k].current]
    /\ UNCHANGED <<chain, l1, engine, watcher, node>>

\* The client is gone, or the sender of the watch.
SubscriptionEnds(k) ==
    /\ \/ calls[k].state = "sending" /\ Faulty /\ Fault
       \/ calls[k].state = "watching" /\ "engine" \notin node.alive /\ UNCHANGED node
    /\ calls' = [calls EXCEPT ![k] = Ends(@, [closed |-> TRUE])]
    /\ UNCHANGED <<chain, l1, engine, watcher>>

-----------------------------------------------------------------------------
(* RpcActor::start and spawn_and_wait!.                                      *)

\* The network and derivation actors have no part in the calls but to fail.
Actors == {"rpc", "sequencer", "network or derivation", "watcher", "engine"}

\* A query task is aborted: its channel closes, what was in it is dropped.
Aborted(task) == [task EXCEPT !.open = FALSE, !.queue = <<>>, !.job = NoAnswer]
Pending(task) ==
    {task.queue[i] : i \in DOMAIN task.queue} \cup (IF task.job = NoAnswer THEN {} ELSE {task.job})

\* The calls whose query was dropped fail.
Dropped(pending) ==
    [k \in Callers |->
       IF calls[k].state = "waiting" /\ \E q \in pending : q.caller = k /\ q.number = calls[k].number
       THEN Ends(calls[k], Error("InternalError")) ELSE calls[k]]

\* Connections end with the server.
Cut == [k \in Callers |->
          IF calls[k].state \in {"idle", "done"} THEN calls[k] ELSE Ends(calls[k], Error("disconnected"))]

\* The server stops by itself and is launched again, a bounded number of
\* times; after that, or if it cannot be launched, the node is stopped.
ServerStops ==
    /\ Up /\ node.ends < node.bounds.ends
    /\ \E launched \in BOOLEAN :
         node' = IF launched /\ node.restarts > 0
                 THEN [node EXCEPT !.ends = @ + 1, !.restarts = @ - 1]
                 ELSE [node EXCEPT !.ends = @ + 1, !.server = "down", !.cancelled = TRUE,
                                   !.failed = TRUE, !.alive = @ \ {"rpc"}]
    /\ calls' = Cut
    /\ UNCHANGED <<chain, l1, engine, watcher>>

\* An actor returns an error.  Its guard cancels the token; its query task, if
\* it has one, is not aborted.
ActorFails(a) ==
    /\ a \in node.alive \ {"rpc"} /\ ~node.cancelled /\ node.ends < node.bounds.ends
    /\ node' = [node EXCEPT !.ends = @ + 1, !.alive = @ \ {a}, !.cancelled = TRUE, !.failed = TRUE]
    /\ calls' = [k \in Callers |-> IF a = "sequencer" /\ calls[k].state = "waiting" /\ calls[k].method \in AdminMethods
                                   THEN Ends(calls[k], Error("InternalError")) ELSE calls[k]]
    /\ UNCHANGED <<chain, l1, engine, watcher>>

\* An actor sees that the token is cancelled.
ActorStops(a) ==
    /\ node.cancelled /\ a \in node.alive
    /\ node' = [node EXCEPT !.alive = @ \ {a}, !.server = IF a = "rpc" THEN "down" ELSE @]
    /\ engine' = IF a = "engine" THEN Aborted(engine) ELSE engine
    /\ watcher' = IF a = "watcher" THEN Aborted(watcher) ELSE watcher
    /\ calls' = CASE a = "rpc" -> Cut
                  [] a = "engine" -> Dropped(Pending(engine))
                  [] a = "watcher" -> Dropped(Pending(watcher))
                  [] a = "sequencer" ->
                       [k \in Callers |-> IF calls[k].state = "waiting" /\ calls[k].method \in AdminMethods
                                          THEN Ends(calls[k], Error("InternalError")) ELSE calls[k]]
                  [] OTHER -> calls
    /\ UNCHANGED <<chain, l1>>

\* start returns at the first error it joins: the actors still there are
\* aborted with the JoinSet.
StartReturns ==
    /\ node.failed /\ node.alive # {}
    /\ node' = [node EXCEPT !.alive = {}, !.server = "down"]
    /\ calls' = Cut
    /\ UNCHANGED <<chain, l1, engine, watcher>>
-----------------------------------------------------------------------------
NodeInit ==
    /\ chain = [blocks |-> <<0>>, safe |-> 0, finalized |-> 0, length |-> 0, ran |-> FALSE, tasks |-> 0,
                state |-> [unsafe |-> <<1, 0>>, safe |-> <<0, 0>>, finalized |-> <<0, 0>>]]
    /\ l1 = [latest |-> 1, safe |-> 0, finalized |-> 0, polled |-> 0]
    /\ engine = [open |-> TRUE, queue |-> <<>>, job |-> NoAnswer]
    /\ watcher = [open |-> TRUE, queue |-> <<>>, job |-> NoAnswer, answer |-> <<>>]
    /\ \E script \in Scripts :
         /\ calls = [k \in Callers |->
              [left |-> script.calls[k], method |-> "", label |-> <<"tag", "">>, number |-> 0, state |-> "idle", seen |-> {},
               l1 |-> NoAnswer, l2 |-> NoAnswer, result |-> NoAnswer, fresh |-> FALSE, current |-> Unknown, told |-> Unknown]]
         /\ node = [mode |-> script.mode, bounds |-> script.bounds, server |-> "up", restarts |-> Restarts, cancelled |-> FALSE,
                    failed |-> FALSE, faults |-> 0, ends |-> 0,
                    alive |-> IF script.mode = "sequencer" THEN Actors ELSE Actors \ {"sequencer"}]

NodeNext ==
    \/ Enqueue \/ Execute \/ Drained \/ L1Moves \/ HeadPolled
    \/ EngineTakes \/ BlockByLabel \/ GetProof \/ LookupFails \/ WatcherTakes \/ LooksUp
    \/ \E k \in Callers : \/ Call(k) \/ TimesOut(k) \/ SequencerAnswers(k) \/ Borrow(k)
                          \/ WaitFor(k) \/ SendUpdate(k) \/ SubscriptionEnds(k)
    \/ ServerStops \/ StartReturns
    \/ \E a \in Actors : ActorFails(a) \/ ActorStops(a)

-----------------------------------------------------------------------------
\* What callers are told is true.  The L2 heads of a sync status are those of
\* one state the engine had during the call; its L1 blocks, looked up one
\* after the other, are in order where the order of the lookups allows it
\* (finalized no later than safe, current no later than the head), unless a
\* lookup failed and left a zero.  An output root is made of one block, but
\* for a block before Isthmus whose label came to denote another block between
\* the two lookups.  A subscriber that sleeps was told of the present head.
\* And a call that waits has a query that will be answered or dropped.
\* (RollupRpc, EngineQueries::handle, start_query_processor, WsRPC)
AnswersTruthful ==
    \A k \in Callers :
       LET call == calls[k]
           answered == call.state = "done" /\ "l2" \in DOMAIN call.result
           later(i, j) == LET blocks == call.result.l1.blocks IN ~blocks[j].ok \/ blocks[i].at <= blocks[j].at
       IN  /\ answered /\ call.method \in WatcherMethods =>
                call.result.l2.state \in call.seen /\ later(1, 2) /\ later(3, 4)
           /\ answered /\ call.method = "outputAtBlock" =>
                LET output == call.result.l2
                IN  output.passer = output.block \/ (~Isthmus(output.block) /\ output.moved)
           /\ call.state = "watching" /\ ~call.fresh =>
                call.told = Watched(call.label)
           /\ call.state = "waiting" =>
                IF call.method \in AdminMethods THEN "sequencer" \in node.alive
                ELSE \E q \in Pending(engine) \cup Pending(watcher) : q.caller = k /\ q.number = call.number
=============================================================================
