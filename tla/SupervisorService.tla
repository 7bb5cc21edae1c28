-------------------------- MODULE SupervisorService --------------------------
(***************************************************************************)
(* The supervisor's Service: it starts the tasks of every chain, registers *)
(* the managed nodes of the configuration and those the admin API adds,    *)
(* watches its tasks and shuts them down.  With it the Client through      *)
(* which a chain talks to its node, and the subscription task that retries *)
(* over this client.                                                       *)
(*                                                                         *)
(* init_managed_node awaits the node and two locks, so it takes three      *)
(* steps; the service does nothing else meanwhile, but nodes come and go,  *)
(* callers time out and an interrupt may drop it half way.                 *)
(***************************************************************************)
EXTENDS Integers, SequencesExt, FiniteSetsExt

CONSTANTS Rollups,         \* chains of the rollup config set
          Dependencies,    \* chains of the dependency set
          Nodes,           \* URLs of L2 consensus nodes
          ServedChain,     \* the chain the node at a URL serves
          Configured,      \* the values l2_consensus_nodes_config may have
          Callers,         \* clients of the admin API
          Absent,          \* None
          AdminCapacity,   \* capacity of the admin channel
          MaxCalls,        \* bound: requests of a caller
          MaxDrops         \* bound: losses of a connection or a subscription

VARIABLES service,   \* phase and registered nodes
          init,      \* the init_managed_node in progress
          clients,   \* the client of each chain's node, and its subscription
          nodes,     \* [up, drops]: reachable nodes
          admin,     \* [queue, callers]: the admin channel and who waits
          tasks      \* [running, failed, cancelled]: join_set and cancel_token

serviceVars == <<service, init, clients, nodes, admin, tasks>>

NoInit == [step |-> "none"]
NoClient == [url |-> Absent]

-----------------------------------------------------------------------------
(* Client: one web socket, opened when it is first needed and kept until     *)
(* reset_ws_client.  The socket of a node that went away is dead: calls over *)
(* it fail, and it is not replaced.                                          *)

\* Client::new
Fresh(url) == [url |-> url, ws |-> "none", sub |-> "idle", lost |-> FALSE]

\* get_ws_client
GetWsClient(client) ==
    IF client.ws = "none" /\ client.url \in nodes.up THEN [client EXCEPT !.ws = "open"] ELSE client

\* Does a call over the client succeed?
Answers(client) == GetWsClient(client).ws = "open"

\* reset_ws_client
ResetWsClient(client) == [client EXCEPT !.ws = "none"]

\* run_subscription_task reads the end of its subscription, and
\* spawn_task_with_retry starts it again.
ServerClosed(client) == [ResetWsClient(client) EXCEPT !.sub = "idle"]

\* What the client sees when its connection breaks.  A subscription ends; a
\* connection without one breaks unnoticed.
Broken(client) ==
    IF client.url = Absent \/ client.ws # "open" THEN client
    ELSE [client EXCEPT !.ws = "dead", !.sub = IF @ = "subscribed" THEN "closed" ELSE @,
                        !.lost = @ \/ client.sub # "subscribed"]

-----------------------------------------------------------------------------
(* The subscription task and the command task of a registered node.          *)

Actor(c) == clients[c] # NoClient

Subscribe(c) ==
    /\ Actor(c) /\ clients[c].sub = "idle"
    /\ clients' = [clients EXCEPT ![c] =
         IF tasks.cancelled THEN [@ EXCEPT !.sub = "stopped"]
         ELSE [GetWsClient(@) EXCEPT !.sub = IF Answers(clients[c]) THEN "subscribed" ELSE "backoff"]]
    /\ UNCHANGED <<service, init, nodes, admin, tasks>>

\* An event that cannot be decoded ends the task, not the connection.
EventError(c) ==
    /\ Actor(c) /\ clients[c].sub = "subscribed"
    /\ clients' = [clients EXCEPT ![c].sub = "backoff"]
    /\ UNCHANGED <<service, init, nodes, admin, tasks>>

SubscriptionClosed(c) ==
    /\ Actor(c) /\ clients[c].sub = "closed"
    /\ clients' = [clients EXCEPT ![c] = ServerClosed(@)]
    /\ UNCHANGED <<service, init, nodes, admin, tasks>>

\* sleep(backoff_delay), ended by the cancellation
Backoff(c) ==
    /\ Actor(c) /\ clients[c].sub = "backoff"
    /\ clients' = [clients EXCEPT ![c].sub = IF tasks.cancelled THEN "stopped" ELSE "idle"]
    /\ UNCHANGED <<service, init, nodes, admin, tasks>>

\* A command or a query of the supervisor goes through the same client, and
\* may be the first to open the socket again.
Request(c) ==
    /\ Actor(c) /\ <<"node", c>> \in tasks.running
    /\ clients' = [clients EXCEPT ![c] = GetWsClient(@)]
    /\ UNCHANGED <<service, init, nodes, admin, tasks>>

-----------------------------------------------------------------------------
(* Registration.                                                             *)

Begin(url, resp) == [step |-> "connect", client |-> Fresh(url), resp |-> resp]

\* Does the caller of a request still wait for this answer?
Waits(resp) ==
    LET caller == admin.callers[resp.caller]
    IN  caller.state = "waiting" /\ caller.calls = resp.call

Answer(resp, result) ==
    admin' = IF Waits(resp) THEN [admin EXCEPT !.callers[resp.caller].state = result] ELSE admin

\* The end of init_managed_node.  A caller that still waits gets the result;
\* a configured node that fails ends initialise, and run with it.
Finish(result, new) ==
    /\ init' = NoInit
    /\ IF init.resp # Absent THEN service' = new /\ Answer(init.resp, result)
       ELSE /\ service' = IF result = "Ok" THEN new ELSE [new EXCEPT !.phase = "returned"]
            /\ UNCHANGED admin

\* client.chain_id()
Connect ==
    /\ init.step = "connect"
    /\ IF Answers(init.client)
       THEN /\ init' = [init EXCEPT !.step = "register", !.client = GetWsClient(@)]
            /\ UNCHANGED <<service, admin>>
       ELSE Finish("ServiceError", service)
    /\ UNCHANGED <<clients, nodes, tasks>>

\* Supervisor::add_managed_node
AddManagedNode(c, url) ==
    /\ service' = [service EXCEPT !.supervisor[c] = IF @ = Absent THEN url ELSE @]
    /\ init' = [init EXCEPT !.step = "index"]
    /\ UNCHANGED admin

MutRegister ==
    LET c == ServedChain[init.client.url]
    IN  /\ init.step = "register"
        /\ IF c \notin Rollups \cap Dependencies THEN Finish("ServiceError", service)
           ELSE AddManagedNode(c, init.client.url)
        /\ UNCHANGED <<clients, nodes, tasks>>

\* The chain has a database and channels, has no node yet, and is supported.
Register ==
    LET c == ServedChain[init.client.url]
    IN  /\ init.step = "register"
        /\ IF c \notin Rollups THEN Finish("ServiceError", service)
           ELSE IF service.managed[c] # Absent THEN Finish("Ok", service)
           ELSE IF c \notin Dependencies THEN Finish("ServiceError", service)
           ELSE AddManagedNode(c, init.client.url)
        /\ UNCHANGED <<clients, nodes, tasks>>

\* set_block_provider, managed_nodes, and the actor with the chain's command
\* receiver.
Index ==
    LET url == init.client.url
        c == ServedChain[url]
        new == [service EXCEPT !.indexer[c] = url, !.managed[c] = url, !.receivers = @ \ {c}]
    IN  /\ init.step = "index"
        /\ IF c \in service.receivers
           THEN /\ Finish("Ok", new)
                /\ clients' = [clients EXCEPT ![c] = init.client]
                /\ tasks' = [tasks EXCEPT !.running = @ \cup {<<"node", c>>}]
           ELSE Finish("ServiceError", new) /\ UNCHANGED <<clients, tasks>>
        /\ UNCHANGED nodes

-----------------------------------------------------------------------------
(* initialise                                                                *)

\* Channels, databases and chain processors.
Start ==
    /\ service.phase = "start"
    /\ service' = [service EXCEPT !.phase = "nodes"]
    /\ tasks' = [tasks EXCEPT !.running = {<<"processor", c>> : c \in Rollups}]
    /\ UNCHANGED <<init, clients, nodes, admin>>

\* init_managed_nodes: one after the other.
NextConfigured ==
    /\ service.phase = "nodes" /\ init = NoInit /\ service.left # <<>>
    /\ init' = Begin(Head(service.left), Absent)
    /\ service' = [service EXCEPT !.left = Tail(@)]
    /\ UNCHANGED <<clients, nodes, admin, tasks>>

\* The L1 watcher, the safety checkers, the RPC server and the metrics.
StartServices ==
    /\ service.phase = "nodes" /\ init = NoInit /\ service.left = <<>>
    /\ service' = [service EXCEPT !.phase = "run"]
    /\ tasks' = [tasks EXCEPT !.running = @ \cup ({"l1", "rpc", "metrics"} \X {Absent})
                   \cup ({"cross_safe", "cross_unsafe"} \X Rollups)]
    /\ UNCHANGED <<init, clients, nodes, admin>>

-----------------------------------------------------------------------------
(* The admin API: add_l2_rpc sends a request and waits for its answer for a  *)
(* limited time.  A request nobody waits for any more stays in the channel.  *)

AddL2Rpc(k, url) ==
    LET call == admin.callers[k].calls + 1
    IN  /\ <<"rpc", Absent>> \in tasks.running /\ Len(admin.queue) < AdminCapacity
        /\ admin.callers[k].state # "waiting" /\ call <= MaxCalls
        /\ admin' = [queue |-> Append(admin.queue, [url |-> url, resp |-> [caller |-> k, call |-> call]]),
                     callers |-> [admin.callers EXCEPT ![k] =
                                    [state |-> "waiting", url |-> url, calls |-> call]]]
        /\ UNCHANGED <<service, init, clients, nodes, tasks>>

\* After ADMIN_REQUEST_TIMEOUT_SECS.
Timeout(k) ==
    /\ admin.callers[k].state = "waiting"
    /\ admin' = [admin EXCEPT !.callers[k].state = "Timeout"]
    /\ UNCHANGED <<service, init, clients, nodes, tasks>>

HandleAdminRequest ==
    /\ service.phase = "run" /\ init = NoInit /\ admin.queue # <<>>
    /\ init' = Begin(Head(admin.queue).url, Head(admin.queue).resp)
    /\ admin' = [admin EXCEPT !.queue = Tail(@)]
    /\ UNCHANGED <<service, clients, nodes, tasks>>

-----------------------------------------------------------------------------
(* The tasks, their end, and the end of the service.                         *)

\* SupervisorRpcActor: the server stops unexpectedly.
RpcFails ==
    /\ <<"rpc", Absent>> \in tasks.running
    /\ tasks' = [tasks EXCEPT !.running = @ \ {<<"rpc", Absent>>}, !.failed = TRUE]
    /\ UNCHANGED <<service, init, clients, nodes, admin>>

\* run: the failure of a task cancels the others and is returned.
JoinNext ==
    /\ service.phase = "run" /\ init = NoInit /\ tasks.failed
    /\ tasks' = [tasks EXCEPT !.cancelled = TRUE]
    /\ service' = [service EXCEPT !.phase = "returned"]
    /\ UNCHANGED <<init, clients, nodes, admin>>

\* The cancelled tasks end, in whatever order.
TasksEnd ==
    /\ tasks.cancelled /\ tasks.running # {}
    /\ tasks' = [tasks EXCEPT !.running = {}]
    /\ UNCHANGED <<service, init, clients, nodes, admin>>

\* The interrupt drops run, and init_managed_node with it.
Interrupt ==
    /\ service.phase \in {"start", "nodes", "run"}
    /\ service' = [service EXCEPT !.phase = "returned"]
    /\ init' = NoInit
    /\ IF init # NoInit /\ init.resp # Absent THEN Answer(init.resp, "SenderDropped")
       ELSE UNCHANGED admin
    /\ UNCHANGED <<clients, nodes, tasks>>

Shutdown ==
    /\ service.phase = "returned"
    /\ service' = [service EXCEPT !.phase = "shutdown"]
    /\ tasks' = [tasks EXCEPT !.cancelled = TRUE]
    /\ UNCHANGED <<init, clients, nodes, admin>>

\* All tasks joined: the service is dropped with the requests it holds.
ShutDown ==
    /\ service.phase = "shutdown" /\ tasks.running = {}
    /\ service' = [service EXCEPT !.phase = "ended"]
    /\ admin' = [queue |-> <<>>,
                 callers |-> [k \in Callers |->
                   LET caller == admin.callers[k]
                   IN  IF caller.state = "waiting" THEN [caller EXCEPT !.state = "SenderDropped"]
                       ELSE caller]]
    /\ UNCHANGED <<init, clients, nodes, tasks>>

-----------------------------------------------------------------------------
(* The nodes (external).                                                     *)

NodeDown(n) ==
    /\ n \in nodes.up /\ nodes.drops < MaxDrops
    /\ nodes' = [up |-> nodes.up \ {n}, drops |-> nodes.drops + 1]
    /\ clients' = [c \in Rollups |-> IF clients[c].url = n THEN Broken(clients[c]) ELSE clients[c]]
    /\ init' = IF init # NoInit /\ init.client.url = n THEN [init EXCEPT !.client = Broken(@)] ELSE init
    /\ UNCHANGED <<service, admin, tasks>>

NodeUp(n) ==
    /\ n \notin nodes.up
    /\ nodes' = [nodes EXCEPT !.up = @ \cup {n}]
    /\ UNCHANGED <<service, init, clients, admin, tasks>>

\* The node ends the subscription and keeps the connection.
Unsubscribed(c) ==
    /\ Actor(c) /\ clients[c].sub = "subscribed" /\ nodes.drops < MaxDrops
    /\ clients' = [clients EXCEPT ![c].sub = "closed"]
    /\ nodes' = [nodes EXCEPT !.drops = @ + 1]
    /\ UNCHANGED <<service, init, admin, tasks>>

-----------------------------------------------------------------------------
ServiceInit ==
    /\ \E urls \in Configured :
          service = [phase |-> "start", left |-> urls, receivers |-> Rollups,
                     supervisor |-> [c \in Rollups |-> Absent],
                     indexer |-> [c \in Rollups |-> Absent],
                     managed |-> [c \in Rollups |-> Absent]]
    /\ init = NoInit
    /\ clients = [c \in Rollups |-> NoClient]
    /\ nodes = [up |-> Nodes, drops |-> 0]
    /\ admin = [queue |-> <<>>,
                callers |-> [k \in Callers |-> [state |-> "idle", url |-> Absent, calls |-> 0]]]
    /\ tasks = [running |-> {}, failed |-> FALSE, cancelled |-> FALSE]

ServiceNext ==
    \/ Start \/ NextConfigured \/ StartServices
    \/ Connect \/ Register \/ Index
    \/ HandleAdminRequest
    \/ RpcFails \/ JoinNext \/ TasksEnd \/ Interrupt \/ Shutdown \/ ShutDown
    \/ \E c \in Rollups : \/ Subscribe(c) \/ EventError(c) \/ SubscriptionClosed(c)
                          \/ Backoff(c) \/ Request(c) \/ Unsubscribed(c)
    \/ \E k \in Callers : Timeout(k) \/ \E n \in Nodes : AddL2Rpc(k, n)
    \/ \E n \in Nodes : NodeDown(n) \/ NodeUp(n)

-----------------------------------------------------------------------------
\* A subscription task that is about to try again reaches its node if the node
\* can be reached, whether the node went away before or only closed the
\* subscription: no retry goes over a dead socket.  Not if the connection broke
\* while no subscription was open: then nothing resets the client.
\* (run_subscription_task, spawn_task_with_retry, Client::get_ws_client)
Resubscribes ==
    \A c \in Rollups :
       Actor(c) /\ clients[c].sub \in {"idle", "backoff"} /\ clients[c].url \in nodes.up
         => Answers(clients[c]) \/ clients[c].lost

\* While the service runs and registers nothing, the node a chain's queries
\* go to (Supervisor), the one its logs are read from (LogIndexer), the one it
\* is controlled through (managed_nodes) and the one whose events it receives
\* (ManagedNodeActor) are the same, and a chain without a node still has its
\* command receiver.  A request answered with success has left its chain with
\* a node.  Failed, repeated and timed out requests included.  A chain's
\* subscription is retried with the node its other parts use, and reaches it.
\* (Service::init_managed_node, handle_admin_request, AdminRpc::add_l2_rpc)
NodesAgree ==
    /\ Resubscribes
    /\ service.phase = "run" /\ init = NoInit =>
         \A c \in Rollups :
            LET url == service.managed[c]
            IN  /\ service.supervisor[c] = url /\ service.indexer[c] = url /\ clients[c].url = url
                /\ c \in service.receivers <=> url = Absent
    /\ \A k \in Callers : admin.callers[k].state = "Ok" =>
         service.managed[ServedChain[admin.callers[k].url]] # Absent
=============================================================================
