---------------------------- MODULE PeerNetwork ----------------------------
(* The peer half of the network actor: the discovery service with its boot    *)
(* store, the ENR channel, dialing through the connection gater, the events   *)
(* of the libp2p swarm, the peer-score monitor and the p2p RPC requests.      *)
(*                                                                            *)
(* A peer stands for its peer id, its ENR and its multiaddr at once.  The     *)
(* swarm and discv5 are external and do what the code's use of them allows.   *)
EXTENDS Naturals, Sequences, FiniteSets, SequencesExt

CONSTANTS
    Peers,           \* the peers that can be met
    BootNodes,       \* a sequence: the bootnode ENRs, in order
    BootEnodes,      \* bootnodes known by enode only: their ENR is requested
    ValidEnr(_),     \* EnrValidation: OP stack key, version 0 and our chain id
    Subnet(_),       \* the subnet of a peer's ip address
    Redialing,       \* GaterConfig.peer_redialing: {} for None, or {limit}
    DialPeriod,      \* GaterConfig.dial_period
    MaxPeers,        \* MAX_PEERS of the boot store
    Monitoring,      \* the gossip driver has a peer-score monitor
    MaxInstant,      \* bound: last instant of the run
    MaxEvents,       \* bound: events of discovery, of other peers and of their scores
    MaxDials,        \* bound: dials of a peer that the gater counts
    MaxRpc,          \* bound: RPC requests
    MaxBans,         \* bound: BanAddrs requests under way
    MaxCrashes       \* bound: restarts of the node

\* One redial limit at most is configured.
ASSUME GaterAssumption ==
    /\ DialPeriod \in Nat
    /\ Redialing \subseteq Nat /\ \A limit, other \in Redialing : limit = other

VARIABLES
    instant,         \* the monotonic clock
    currentDials,    \* ConnectionGater.current_dials
    dialInfo,        \* ConnectionGater.dialed_peers: num_dials and last_dial, 0 dials: absent
    protected, blockedPeers, blockedAddrs, blockedSubnets,   \* of the gater
    pending,         \* swarm: outgoing attempts in progress, per peer
    conns,           \* swarm: established connections, per peer
    closing,         \* swarm: peers it was told to disconnect
    peerstore,       \* identify info: "none", or whether the listen address names the peer id
    lowScore,        \* gossipsub: peers with a score below the ban threshold
    phase,           \* discovery: "starting", "running", "syncing" or "stopped"
    table, banned,   \* discv5: routing table and banned nodes
    store, disk,     \* boot store in memory and on disk (torn: truncated, not rewritten)
    enrs,            \* ENRs on their way to the actor (each sent by a task of its own)
    bans,            \* BanAddrs requests on their way to discovery
    up,              \* the node process runs
    failed,          \* history: peers whose attempt failed and that never closed since
    dialLog,         \* history: instants of the dials under the redial limit, per peer
    used             \* bound counters

gateVars == <<currentDials, dialInfo, protected, blockedPeers, blockedAddrs, blockedSubnets>>
swarmVars == <<pending, conns, closing, peerstore, lowScore>>
discVars == <<phase, table, banned, store, disk, enrs, bans>>
logVars == <<failed, dialLog>>
peerVars == <<instant, gateVars, swarmVars, discVars, up, logVars, used>>

NeverDialed == [dials |-> 0, last |-> 0]

GateFresh ==
    /\ currentDials = {} /\ dialInfo = [p \in Peers |-> NeverDialed]
    /\ protected = {} /\ blockedPeers = {} /\ blockedAddrs = {} /\ blockedSubnets = {}
----------------------------------------------------------------------------
(* The boot store *)

\* add_rotate: a known ENR is left where it is, a new one goes to the back and pushes
\* the oldest out of a full store.
AddRotate(s, p) ==
    IF Contains(s, p) THEN s
    ELSE LET t == Append(s, p) IN IF Len(t) > MaxPeers THEN Tail(t) ELSE t

\* merge: add_rotate for every ENR of a list.
Merge(s, ps) == FoldLeft(AddRotate, s, ps)

\* peers_from_file: a file that does not parse counts as empty.
PeersFromFile == IF disk.torn THEN <<>> ELSE disk.peers

\* The valid ENRs of the store, the ones forward sends to the actor.
ValidPeersWithChainId(s) == {p \in ToSet(s) : ValidEnr(p)}

PeerInit ==
    /\ instant = 0 /\ GateFresh
    /\ pending = [p \in Peers |-> 0] /\ conns = [p \in Peers |-> 0]
    /\ closing = {} /\ peerstore = [p \in Peers |-> "none"] /\ lowScore = {}
    /\ phase = "starting" /\ table = {} /\ banned = {}
    /\ disk = [torn |-> FALSE, peers |-> <<>>] /\ store = Merge(<<>>, BootNodes) /\ enrs = {} /\ bans = <<>>
    /\ up = TRUE /\ failed = {} /\ dialLog = [p \in Peers |-> <<>>]
    /\ used = [events |-> 0, rpc |-> 0, crashes |-> 0]
----------------------------------------------------------------------------
(* The connection gater *)

\* dial_threshold_reached: an undialed address never has, a dialed one has when no
\* limit is configured, never with the limit 0, and else from the limit on.
DialThresholdReached(p) ==
    /\ dialInfo[p].dials > 0
    /\ \A limit \in Redialing : limit > 0 /\ dialInfo[p].dials >= limit

MutDialPeriodExpired(p) ==
    dialInfo[p].dials > 0 /\ instant - dialInfo[p].last >= DialPeriod

\* dial_period_expired: the last dial lies more than a period back.
DialPeriodExpired(p) ==
    dialInfo[p].dials > 0 /\ instant - dialInfo[p].last > DialPeriod

\* can_dial, and the check for an open connection dial_multiaddr makes after it.
CanDial(p) ==
    /\ p \notin currentDials
    /\ p \in protected \/ ~DialThresholdReached(p) \/ DialPeriodExpired(p)
    /\ p \notin blockedPeers
    /\ p \notin blockedAddrs
    /\ Subnet(p) \notin blockedSubnets
    /\ conns[p] = 0

\* dialed: the count restarts when the last dial lies more than a period back.
Dialed(p) ==
    dialInfo' = [dialInfo EXCEPT ![p] =
        [dials |-> IF @.dials > 0 /\ instant - @.last > DialPeriod THEN 1 ELSE @.dials + 1,
         last |-> instant]]

\* dial_multiaddr: nothing happens when the gater objects; a dial the swarm refuses at
\* once leaves no trace; else the attempt is pending.
DialMultiaddr(p, ok) ==
    IF CanDial(p) /\ ok
    THEN /\ currentDials' = currentDials \cup {p}
         /\ Dialed(p)
         /\ pending' = [pending EXCEPT ![p] = @ + 1]
         /\ dialLog' = IF p \in protected THEN dialLog
                       ELSE [dialLog EXCEPT ![p] = Append(@, instant)]
         /\ UNCHANGED <<protected, blockedPeers, blockedAddrs, blockedSubnets>>
    ELSE UNCHANGED <<gateVars, pending, dialLog>>

\* The actor receives an ENR: dial checks it once more and dials its address.
Dial(p, ok) ==
    /\ up /\ p \in enrs /\ dialInfo[p].dials < MaxDials
    /\ enrs' = enrs \ {p}
    /\ IF ValidEnr(p) THEN DialMultiaddr(p, ok) ELSE UNCHANGED <<gateVars, pending, dialLog>>
    /\ UNCHANGED <<instant, conns, closing, peerstore, lowScore, phase, table, banned, store,
                   disk, bans, up, failed, used>>
----------------------------------------------------------------------------
(* Events of the swarm *)

\* A pending attempt succeeds.
OutgoingEstablished(p) ==
    /\ up /\ pending[p] > 0
    /\ pending' = [pending EXCEPT ![p] = @ - 1]
    /\ conns' = [conns EXCEPT ![p] = @ + 1]
    /\ UNCHANGED <<instant, gateVars, closing, peerstore, lowScore, discVars, up, logVars, used>>

\* A pending attempt fails: the handler only counts it, the peer stays in current_dials.
OutgoingConnectionError(p) ==
    /\ up /\ pending[p] > 0
    /\ pending' = [pending EXCEPT ![p] = @ - 1]
    /\ failed' = failed \cup {p}
    /\ UNCHANGED <<instant, gateVars, conns, closing, peerstore, lowScore, discVars, up, dialLog,
                   used>>

\* A peer dials us: the gater is not asked.
IncomingEstablished(p) ==
    /\ up /\ conns[p] < 2 /\ used.events < MaxEvents
    /\ conns' = [conns EXCEPT ![p] = @ + 1]
    /\ used' = [used EXCEPT !.events = @ + 1]
    /\ UNCHANGED <<instant, gateVars, pending, closing, peerstore, lowScore, discVars, up, logVars>>

\* A connection closes, whoever opened it: the peer may be dialed again.
ConnectionClosed(p) ==
    /\ up /\ conns[p] > 0
    /\ conns' = [conns EXCEPT ![p] = @ - 1]
    /\ closing' = IF conns[p] = 1 THEN closing \ {p} ELSE closing
    /\ currentDials' = currentDials \ {p}
    /\ failed' = failed \ {p}
    /\ UNCHANGED <<instant, dialInfo, protected, blockedPeers, blockedAddrs, blockedSubnets,
                   pending, peerstore, lowScore, discVars, up, dialLog, used>>

\* Identify info arrives; the listen address may or may not end in the peer id.
IdentifyReceived(p, form) ==
    /\ up /\ conns[p] > 0 /\ used.events < MaxEvents
    /\ peerstore' = [peerstore EXCEPT ![p] = form]
    /\ used' = [used EXCEPT !.events = @ + 1]
    /\ UNCHANGED <<instant, gateVars, pending, conns, closing, lowScore, discVars, up, logVars>>

\* A peer's score falls below the ban threshold.
ScoreDrops(p) ==
    /\ up /\ conns[p] > 0 /\ used.events < MaxEvents
    /\ lowScore' = lowScore \cup {p}
    /\ used' = [used EXCEPT !.events = @ + 1]
    /\ UNCHANGED <<instant, gateVars, pending, conns, closing, peerstore, discVars, up, logVars>>
----------------------------------------------------------------------------
(* Peer monitoring and RPC *)

\* handle_peer_monitoring: connected peers with a low score are disconnected (also the
\* protected ones); those with identify info are forgotten, may be dialed again, and
\* their listen addresses are sent to discovery to be banned.  A driver without a
\* monitor never does so, and GossipDriverBuilder::build hands none on.
HandlePeerMonitoring ==
    LET bad == {p \in lowScore : conns[p] > 0}
        known == {p \in bad : peerstore[p] # "none"}
    IN  /\ Monitoring /\ up /\ bad # {} /\ Len(bans) < MaxBans
        /\ closing' = closing \cup bad
        /\ currentDials' = currentDials \ known
        /\ failed' = failed \ known
        /\ peerstore' = [p \in Peers |-> IF p \in known THEN "none" ELSE peerstore[p]]
        /\ bans' = Append(bans, {<<p, peerstore[p]>> : p \in known})
        /\ lowScore' = lowScore \ bad
        /\ UNCHANGED <<instant, dialInfo, protected, blockedPeers, blockedAddrs, blockedSubnets,
                       pending, conns, phase, table, banned, store, disk, enrs, up, dialLog, used>>

\* The requests that change the gater or the swarm.
RpcSet(p) ==
    \/ /\ protected' \in {protected \cup {p}, protected \ {p}}
       /\ UNCHANGED <<blockedPeers, blockedAddrs, blockedSubnets, closing>>
    \/ /\ blockedPeers' \in {blockedPeers \cup {p}, blockedPeers \ {p}}
       /\ UNCHANGED <<protected, blockedAddrs, blockedSubnets, closing>>
    \/ /\ blockedAddrs' \in {blockedAddrs \cup {p}, blockedAddrs \ {p}}
       /\ UNCHANGED <<protected, blockedPeers, blockedSubnets, closing>>
    \/ /\ blockedSubnets' \in {blockedSubnets \cup {Subnet(p)}, blockedSubnets \ {Subnet(p)}}
       /\ UNCHANGED <<protected, blockedPeers, blockedAddrs, closing>>
    \/ /\ closing' = IF conns[p] > 0 THEN closing \cup {p} ELSE closing
       /\ UNCHANGED <<protected, blockedPeers, blockedAddrs, blockedSubnets>>

RpcRequest(p) ==
    /\ up /\ used.rpc < MaxRpc
    /\ RpcSet(p)
    /\ used' = [used EXCEPT !.rpc = @ + 1]
    /\ UNCHANGED <<instant, currentDials, dialInfo, pending, conns, peerstore, lowScore, discVars,
                   up, logVars>>

\* ConnectPeer dials an address given by the caller.
RpcConnect(p, ok) ==
    /\ up /\ used.rpc < MaxRpc /\ dialInfo[p].dials < MaxDials
    /\ DialMultiaddr(p, ok)
    /\ used' = [used EXCEPT !.rpc = @ + 1]
    /\ UNCHANGED <<instant, conns, closing, peerstore, lowScore, discVars, up, failed>>
----------------------------------------------------------------------------
(* Discovery *)

\* Start, bootstrap and forward.  Valid bootnodes and valid stored ENRs are offered to
\* the table, which takes any part of them; the bootnodes are merged into the store;
\* so are the enodes whose ENR the network returned, valid or not; the valid ENRs of
\* the store are then sent to the actor.
DiscoveryStart ==
    \E found \in SUBSET BootEnodes : \E order \in SetToSeqs(found) :
        LET merged == Merge(Merge(store, BootNodes), order)
        IN  /\ up /\ phase = "starting"
            /\ store' = merged
            /\ \E taken \in SUBSET ValidPeersWithChainId(Merge(store, BootNodes)) :
                 table' = taken \cup found
            /\ enrs' = enrs \cup ValidPeersWithChainId(merged)
            /\ phase' = "running"
            /\ UNCHANGED <<instant, gateVars, swarmVars, banned, disk, bans, up, logVars, used>>

\* The service cannot be started, or its event stream not within the retries: its task
\* ends, the ENR channel closes and the actor, and with it the node, returns.
DiscoveryFails ==
    /\ up /\ phase = "starting"
    /\ phase' = "stopped" /\ up' = FALSE
    /\ UNCHANGED <<instant, gateVars, swarmVars, table, banned, store, disk, enrs, bans, logVars, used>>

\* Discovered, SessionEstablished, UnverifiableEnr: a valid ENR enters the store and is
\* sent to the actor, an invalid one is dropped.
Discovered(p) ==
    /\ up /\ phase = "running" /\ used.events < MaxEvents /\ p \notin banned
    /\ store' = IF ValidEnr(p) THEN AddRotate(store, p) ELSE store
    /\ enrs' = IF ValidEnr(p) THEN enrs \cup {p} ELSE enrs
    /\ table' \in {table, table \cup {p}}
    /\ used' = [used EXCEPT !.events = @ + 1]
    /\ UNCHANGED <<instant, gateVars, swarmVars, phase, banned, disk, bans, up, logVars>>

\* A find_node query answers: valid ENRs go to the actor, not to the store.
FoundNode(p) ==
    /\ up /\ phase \in {"running", "syncing"} /\ p \in table /\ ValidEnr(p)
    /\ enrs' = enrs \cup {p}
    /\ UNCHANGED <<instant, gateVars, swarmVars, phase, table, banned, store, disk, bans, up,
                   logVars, used>>

\* BanAddrs: a table entry is banned when its multiaddr, which ends in the peer id, is
\* one of the addresses.
BanAddrs ==
    LET hit == {p \in table : <<p, "full">> \in Head(bans)}
    IN  /\ up /\ phase = "running" /\ bans # <<>>
        /\ bans' = Tail(bans)
        /\ banned' = banned \cup hit
        /\ table' = table \ hit
        /\ UNCHANGED <<instant, gateVars, swarmVars, phase, store, disk, enrs, up, logVars, used>>

\* The ban runs out.
BanExpires(p) ==
    /\ up /\ p \in banned
    /\ banned' = banned \ {p}
    /\ UNCHANGED <<instant, gateVars, swarmVars, phase, table, store, disk, enrs, bans, up,
                   logVars, used>>

\* The store interval: the table is merged in (in no particular order), the file
\* truncated, then written.
SyncTruncate ==
    /\ up /\ phase = "running"
    /\ \E order \in SetToSeqs(table) : store' = Merge(store, order)
    /\ disk' = [disk EXCEPT !.torn = TRUE] /\ phase' = "syncing"
    /\ UNCHANGED <<instant, gateVars, swarmVars, table, banned, enrs, bans, up, logVars, used>>

SyncWrite ==
    /\ up /\ phase = "syncing"
    /\ disk' = [torn |-> FALSE, peers |-> store] /\ phase' = "running"
    /\ UNCHANGED <<instant, gateVars, swarmVars, table, banned, store, enrs, bans, up, logVars, used>>
----------------------------------------------------------------------------
\* The node stops at any point and starts again: only the file survives.
Crash ==
    /\ up /\ used.crashes < MaxCrashes
    /\ up' = FALSE
    /\ used' = [used EXCEPT !.crashes = @ + 1]
    /\ UNCHANGED <<instant, gateVars, swarmVars, discVars, logVars>>

Restart ==
    /\ ~up
    /\ up' = TRUE
    /\ currentDials' = {} /\ dialInfo' = [p \in Peers |-> NeverDialed]
    /\ protected' = {} /\ blockedPeers' = {} /\ blockedAddrs' = {} /\ blockedSubnets' = {}
    /\ pending' = [p \in Peers |-> 0] /\ conns' = [p \in Peers |-> 0]
    /\ closing' = {} /\ peerstore' = [p \in Peers |-> "none"] /\ lowScore' = {}
    /\ phase' = "starting" /\ table' = {} /\ banned' = {}
    /\ store' = Merge(PeersFromFile, BootNodes) /\ enrs' = {} /\ bans' = <<>>
    /\ failed' = {} /\ dialLog' = [p \in Peers |-> <<>>]
    /\ UNCHANGED <<instant, disk, used>>

InstantPasses ==
    /\ instant < MaxInstant
    /\ instant' = instant + 1
    /\ UNCHANGED <<gateVars, swarmVars, discVars, up, logVars, used>>

PeerNext ==
    \/ \E p \in Peers, ok \in BOOLEAN : Dial(p, ok) \/ RpcConnect(p, ok)
    \/ \E p \in Peers :
         \/ OutgoingEstablished(p) \/ OutgoingConnectionError(p) \/ IncomingEstablished(p)
         \/ ConnectionClosed(p) \/ IdentifyReceived(p, "bare") \/ IdentifyReceived(p, "full")
         \/ ScoreDrops(p) \/ RpcRequest(p) \/ Discovered(p) \/ FoundNode(p) \/ BanExpires(p)
    \/ HandlePeerMonitoring
    \/ DiscoveryStart \/ DiscoveryFails
    \/ BanAddrs \/ SyncTruncate \/ SyncWrite
    \/ Crash \/ Restart \/ InstantPasses
----------------------------------------------------------------------------
(* Properties *)

\* A peer in current_dials, where it cannot be dialed, is being dialed or connected,
\* or its last attempt failed: OutgoingConnectionError is the only event that leaves a
\* peer there with nothing left to take it out.
DialsAccounted ==
    up => \A p \in currentDials : pending[p] > 0 \/ conns[p] > 0 \/ p \in failed

\* The gater's two records hold.  Under a redial limit n > 0, no n + 1 dials of one
\* peer made while it was not protected fall into one dial period, across resets of
\* the count: "a peer cannot be dialed more than `peer_redialing` times during this
\* period".  And a peer is kept from being dialed as current only while it is, or
\* after a failed attempt (ConnectionGater::can_dial, dialed, remove_dial).
DialRate ==
    /\ DialsAccounted
    /\ \A limit \in Redialing \ {0} : \A p \in Peers : \A i \in DOMAIN dialLog[p] :
         i > limit => dialLog[p][i] - dialLog[p][i - limit] > DialPeriod
============================================================================
