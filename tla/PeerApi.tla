------------------------------- MODULE PeerApi -------------------------------
(***************************************************************************)
(* The p2p RPC of the node: callers of the opp2p methods, the channel to   *)
(* the network actor, the actor that handles the requests between events   *)
(* of the swarm, and the tasks it spawns to wait for discovery before an   *)
(* answer is put together.                                                 *)
(*                                                                         *)
(* A request that changes something returns once it is in the channel.  A  *)
(* query reads the gossip driver when it is handled and is answered later, *)
(* when the driver may have changed.  An address and a subnet stand for    *)
(* the one peer that has them; the dial period does not pass.  What comes  *)
(* from the discovery table, the ping times and scores are left out of the *)
(* answers.                                                                *)
(***************************************************************************)
EXTENDS Integers, Sequences, FiniteSets

CONSTANTS Peers,
          Decodable,    \* peers whose id contains a secp256k1 key
          Callers,
          Scripts,      \* what the callers call: for each a sequence of [method, peer]
          Redialing,    \* GaterConfig.peer_redialing
          Capacity,     \* capacity of the request channel
          Retries,      \* attempts ExponentialBuilder makes after the first
          MaxEvents     \* bound: connections of peers and identify events

VARIABLES calls,     \* each caller's calls: what is left, the current one, its result
          queue,     \* the request channel
          gossip,    \* GossipDriver: swarm, peer store and connection gate
          tasks,     \* spawned tasks that wait for discovery
          net        \* the actor's and discovery's phase, and the bound's counter

apiVars == <<calls, queue, gossip, tasks, net>>

GateSets == {"peers", "addrs", "subnets", "protected"}
Sets == {"block", "unblock"} \X GateSets
Lists == {"list"} \X (GateSets \ {"protected"})
Queries == {"dump", "count", "stats", "table", "self"} \X {"connected", "known"}
Waits == {"connect", "disconnect"} \X {"peer"}

-----------------------------------------------------------------------------
(* The gossip driver as a query sees it.                                     *)

View(g) == [connected |-> g.connected, known |-> g.known, gate |-> g.gate, label |-> g.label]

\* PeerDump with its PeerInfos: a peer without a decodable key is left out.
Dump(v, ids) ==
    [total |-> Cardinality(v.connected),
     peers |-> [p \in ids \cap Decodable |->
                  [connectedness |-> v.label[p], identified |-> p \in v.known,
                   protected |-> p \in v.gate["protected"]]],
     banned |-> [s \in GateSets \ {"protected"} |-> v.gate[s]]]

PeerStats(v) ==
    [connected |-> Cardinality(v.connected), known |-> Cardinality(v.known),
     banned |-> Cardinality(v.gate["peers"])]

Reply(method, v) ==
    CASE method = <<"dump", "connected">> -> Dump(v, v.connected)
      [] method = <<"dump", "known">> -> Dump(v, v.known)
      [] method[1] = "stats" -> PeerStats(v)
      [] method[1] = "count" -> [gossip |-> Cardinality(v.connected)]
      [] method[1] = "list" -> v.gate[method[2]]
      [] OTHER -> [info |-> method[1]]

-----------------------------------------------------------------------------
(* Callers.                                                                  *)

Busy(call) == call.state \in {"check", "waiting"}

\* What a call would be told of the gossip driver.
Sight(method, p, g) == IF method \in Waits THEN p \in g.connected ELSE Reply(method, View(g))

\* The gossip driver becomes g: every call in progress might see it.
Changed(g) ==
    /\ gossip' = g
    /\ calls' = [k \in Callers |->
         IF Busy(calls[k])
         THEN [calls[k] EXCEPT !.seen = @ \cup {Sight(calls[k].method, calls[k].peer, g)}] ELSE calls[k]]

Done(call, result) == [call EXCEPT !.state = "done", !.result = result]

\* The call fails, or the check of connect and disconnect is tried again.
Fails(call) ==
    IF call.method \in Waits /\ call.tries < Retries
    THEN [call EXCEPT !.state = "check", !.tries = @ + 1]
    ELSE Done(call, [error |-> "InternalError"])

\* The answer arrives.  The closures of connect and disconnect return whether
\* the peer is (not) listed, and retry only retries errors.
Receives(call, body, applied) ==
    IF call.method \notin Waits THEN Done(call, [body |-> body, applied |-> applied])
    ELSE LET listed == call.peer \in DOMAIN body.peers
         IN  Done(call, IF listed <=> call.method[1] = "connect" THEN [wait |-> "Ok"]
                        ELSE [wait |-> "InvalidParams"])

Request(k, method, p) == [caller |-> k, method |-> method, peer |-> p]

Open == net.actor # "ended"

\* A query of k is in the channel.
Queued(k) == \E i \in DOMAIN queue : queue[i].caller = k /\ queue[i].method \in Lists \cup Queries

\* A caller makes its next call.
Call(k) ==
    /\ ~Busy(calls[k]) /\ calls[k].left # <<>> /\ Len(queue) < Capacity
    /\ LET next == Head(calls[k].left)
           method == next.method
           call == [calls[k] EXCEPT !.left = Tail(@), !.method = method, !.peer = next.peer,
                                    !.tries = 0,
                                    !.seen = IF method \in Sets THEN {} ELSE {Sight(method, next.peer, gossip)}]
           sent == next.peer \in Peers /\ Open
       IN  /\ calls' = [calls EXCEPT ![k] =
                CASE next.peer \notin Peers -> Done(call, [error |-> "InvalidParams"])
                  [] sent /\ method \in Sets -> [Done(call, [error |-> "none"]) EXCEPT !.writes = @ + 1]
                  [] sent /\ method \in Waits -> [call EXCEPT !.state = "check"]
                  [] sent /\ method \in Lists \cup Queries -> [call EXCEPT !.state = "waiting"]
                  [] OTHER -> Done(call, [error |-> "InternalError"])]
           /\ queue' = IF sent THEN Append(queue, Request(k, method, next.peer)) ELSE queue
    /\ UNCHANGED <<gossip, tasks, net>>

\* connect and disconnect ask for the connected peers.
Check(k) ==
    /\ calls[k].state = "check" /\ Len(queue) < Capacity
    /\ IF Open THEN /\ queue' = Append(queue, Request(k, <<"dump", "connected">>, calls[k].peer))
                    /\ calls' = [calls EXCEPT ![k].state = "waiting"]
       ELSE calls' = [calls EXCEPT ![k] = Fails(@)] /\ UNCHANGED queue
    /\ UNCHANGED <<gossip, tasks, net>>

-----------------------------------------------------------------------------
(* P2pRpcRequest::handle                                                     *)

\* The actor takes the next request, one of these methods.
Takes(methods) ==
    /\ net.actor = "running" /\ queue # <<>> /\ Head(queue).method \in methods
    /\ queue' = Tail(queue)

\* The gate's sets; blocking and unblocking a peer also label it.
GateChanged(g, method, p) ==
    [g EXCEPT !.gate[method[2]] = IF method[1] = "block" THEN @ \cup {p} ELSE @ \ {p},
              !.label[p] = CASE method = <<"block", "peers">> -> "CannotConnect"
                             [] method = <<"unblock", "peers">> -> "NotConnected"
                             [] OTHER -> @]

HandleSet ==
    LET r == Head(queue)
    IN  /\ Takes(Sets)
        /\ Changed(GateChanged([gossip EXCEPT !.applied[r.caller] = @ + 1], r.method, r.peer))
        /\ UNCHANGED <<tasks, net>>

\* dial_multiaddr with can_dial and dialing: what becomes of a dial of p, and
\* of a dial that the swarm refuses.
Labelled(g, p, label) == [g EXCEPT !.label[p] = label]

DialMultiaddr(g, p, ok) ==
    LET dialing == Labelled(g, p, "Connected")
    IN  IF p \in g.dials THEN g
        ELSE IF p \notin g.gate["protected"] /\ g.count[p] >= Redialing THEN Labelled(g, p, "CannotConnect")
        ELSE IF p \in g.gate["peers"] THEN g
        ELSE IF p \in g.gate["addrs"] THEN Labelled(g, p, "CannotConnect")
        ELSE IF p \in g.gate["subnets"] \/ p \in g.connected THEN g
        ELSE IF ok THEN [dialing EXCEPT !.dials = @ \cup {p}, !.pending = @ \cup {p}, !.count[p] = @ + 1]
        ELSE dialing

HandleConnect ==
    /\ Takes({<<"connect", "peer">>})
    /\ \E ok \in BOOLEAN : Changed(DialMultiaddr(gossip, Head(queue).peer, ok))
    /\ UNCHANGED <<tasks, net>>

\* disconnect_peer_id: the swarm closes the connections, if there are any.
HandleDisconnect ==
    /\ Takes({<<"disconnect", "peer">>})
    /\ Changed([gossip EXCEPT !.closing = @ \cup ({Head(queue).peer} \cap gossip.connected)])
    /\ UNCHANGED <<tasks, net>>

\* The lists of the gate are answered at once.
HandleList ==
    LET r == Head(queue)
    IN  /\ Takes(Lists)
        /\ calls' = [calls EXCEPT ![r.caller] =
                       Receives(@, Reply(r.method, View(gossip)), gossip.applied[r.caller])]
        /\ UNCHANGED <<gossip, tasks, net>>

\* The other queries read the driver and leave the rest to a task.
HandleQuery ==
    LET r == Head(queue)
    IN  /\ Takes(Queries)
        /\ tasks' = tasks \cup {[caller |-> r.caller, method |-> r.method, view |-> View(gossip),
                                 applied |-> gossip.applied[r.caller]]}
        /\ UNCHANGED <<calls, gossip, net>>

MutAnswer(t) ==
    /\ t \in tasks /\ net.disc \in {"running", "down"}
    /\ tasks' = tasks \ {t}
    /\ calls' = [calls EXCEPT ![t.caller] =
         IF net.disc = "running" \/ t.method[1] = "count"
         THEN Receives(@, Reply(t.method, [t.view EXCEPT !.gate = gossip.gate, !.label = gossip.label]),
                       t.applied)
         ELSE Fails(@)]
    /\ UNCHANGED <<queue, gossip, net>>

\* Discovery answers, or its task has ended and the oneshot is closed: then the
\* query fails, but for the peer count, which goes without discovery's part.
Answer(t) ==
    /\ t \in tasks /\ net.disc \in {"running", "down"}
    /\ tasks' = tasks \ {t}
    /\ calls' = [calls EXCEPT ![t.caller] =
         IF net.disc = "running" \/ t.method[1] = "count"
         THEN Receives(@, Reply(t.method, t.view), t.applied) ELSE Fails(@)]
    /\ UNCHANGED <<queue, gossip, net>>

-----------------------------------------------------------------------------
(* The network actor and discovery.                                          *)

\* NetworkBuilder::build and NetworkDriver::start: the swarm listens, discovery
\* is spawned; or one of them fails and the actor returns.
Start ==
    /\ net.actor = "starting"
    /\ net' = [net EXCEPT !.actor = "running", !.disc = "starting"]
    /\ UNCHANGED <<calls, queue, gossip, tasks>>

DiscoveryStarts ==
    /\ net.disc = "starting"
    /\ net' \in {[net EXCEPT !.disc = "running"], [net EXCEPT !.disc = "down"]}
    /\ UNCHANGED <<calls, queue, gossip, tasks>>

\* The actor returns: cancelled, on an error while it starts, or because the
\* channel of a discovery that is down is closed.  The requests go with it.
ActorEnds ==
    /\ Open
    /\ net' = [net EXCEPT !.actor = "ended"]
    /\ queue' = <<>>
    /\ calls' = [k \in Callers |->
                   IF calls[k].state = "waiting" /\ Queued(k) THEN Fails(calls[k]) ELSE calls[k]]
    /\ UNCHANGED <<gossip, tasks>>

-----------------------------------------------------------------------------
(* Events of the swarm, which the actor handles between requests.            *)

Running == net.actor = "running"

DialSucceeds(p) ==
    /\ Running /\ p \in gossip.pending
    /\ Changed([gossip EXCEPT !.pending = @ \ {p}, !.connected = @ \cup {p}])
    /\ UNCHANGED <<queue, tasks, net>>

DialFails(p) ==
    /\ Running /\ p \in gossip.pending
    /\ Changed([gossip EXCEPT !.pending = @ \ {p}])
    /\ UNCHANGED <<queue, tasks, net>>

Incoming(p) ==
    /\ Running /\ p \notin gossip.connected /\ net.events < MaxEvents
    /\ Changed([gossip EXCEPT !.connected = @ \cup {p}])
    /\ net' = [net EXCEPT !.events = @ + 1]
    /\ UNCHANGED <<queue, tasks>>

\* A connection ends, by us or by the peer: the peer may be dialed again.
ConnectionClosed(p) ==
    /\ Running /\ p \in gossip.connected
    /\ Changed([gossip EXCEPT !.connected = @ \ {p}, !.closing = @ \ {p}, !.dials = @ \ {p}])
    /\ UNCHANGED <<queue, tasks, net>>

IdentifyReceived(p) ==
    /\ Running /\ p \in gossip.connected \ gossip.known /\ net.events < MaxEvents
    /\ Changed([gossip EXCEPT !.known = @ \cup {p}])
    /\ net' = [net EXCEPT !.events = @ + 1]
    /\ UNCHANGED <<queue, tasks>>

-----------------------------------------------------------------------------
ApiInit ==
    /\ \E script \in Scripts :
         calls = [k \in Callers |->
           [left |-> script[k], state |-> "idle", method |-> <<>>, peer |-> "", tries |-> 0, writes |-> 0,
            seen |-> {}, result |-> [error |-> "none"]]]
    /\ queue = <<>> /\ tasks = {}
    /\ gossip = [connected |-> {}, pending |-> {}, closing |-> {}, dials |-> {}, known |-> {},
                 count |-> [p \in Peers |-> 0], label |-> [p \in Peers |-> "NotConnected"],
                 gate |-> [s \in GateSets |-> {}], applied |-> [k \in Callers |-> 0]]
    /\ net = [actor |-> "starting", disc |-> "off", events |-> 0]

ApiNext ==
    \/ \E k \in Callers : Call(k) \/ Check(k)
    \/ HandleSet \/ HandleConnect \/ HandleDisconnect \/ HandleList \/ HandleQuery
    \/ \E t \in tasks : Answer(t)
    \/ Start \/ DiscoveryStarts \/ ActorEnds
    \/ \E p \in Peers : \/ DialSucceeds(p) \/ DialFails(p) \/ Incoming(p)
                        \/ ConnectionClosed(p) \/ IdentifyReceived(p)

-----------------------------------------------------------------------------
\* An answer shows the gossip driver as it was at one moment of the call, all
\* its parts at the same moment, however late discovery answers; a moment
\* after everything the same caller asked for before was done.  connect and
\* disconnect answer with success only if the peer was (not) connected at a
\* moment of the call, at least a peer with a decodable id.  And no caller is
\* left behind: one that waits is waited for by the channel or a task.
\* (P2pRpcRequest::handle and its tasks, P2pRpc, NetworkActor::start)
AnswersConsistent ==
    \A k \in Callers :
       LET call == calls[k]
       IN  /\ call.state = "done" /\ "body" \in DOMAIN call.result =>
                call.result.body \in call.seen /\ call.result.applied = call.writes
           /\ call.state = "done" /\ call.result = [wait |-> "Ok"] =>
                (call.method[1] = "connect") \in call.seen \/ call.peer \notin Decodable
           /\ call.state = "waiting" =>
                Queued(k) \/ \E t \in tasks : t.caller = k
=============================================================================
