--------------------------- MODULE NetworkProofs ---------------------------
(***************************************************************************)
(* What the network actor promises whatever the blocks, keys, peers, cache *)
(* size, redial limit and length of the run are: no gossiped block is      *)
(* handed on twice, and no peer is dialed more often than the gater        *)
(* allows.  The first is where the size of seen_hashes and the validation  *)
(* window meet, the second where the restart of a count and the dials of a *)
(* protected peer do.                                                      *)
(***************************************************************************)
EXTENDS BlockGossip, PeerNetwork, WellFoundedInduction, TLAPS

BlockSpec == BlockInit /\ [][BlockNext]_blockVars
PeerSpec == PeerInit /\ [][PeerNext]_peerVars
----------------------------------------------------------------------------
(* Blocks *)

Heights == {Height(b) : b \in Blocks}

\* seen_hashes: at each height at least one hash, each of a block of that height
\* that was not too far in the future when it was accepted.
SeenOk(s, now) ==
  /\ DOMAIN s \subseteq Heights
  /\ \A h \in DOMAIN s :
       /\ s[h] # {}
       /\ \A x \in s[h] : /\ x \in Blocks /\ Height(x) = h
                          /\ Timestamp(x) <= now + Future

\* The block is in the map.
Known(s, b) == Height(b) \in DOMAIN s /\ b \in s[Height(b)]

\* Every accepted block was accepted once, and is either known or too old to pass
\* the timestamp check again.
BlockInv ==
  /\ clock \in Nat
  /\ SeenOk(seen, clock)
  /\ accepted \in [Blocks -> Nat]
  /\ \A b \in Blocks :
       /\ accepted[b] <= 1
       /\ accepted[b] = 1 => Known(seen, b) \/ Timestamp(b) + Past < clock

\* A set of heights that is not empty has a lowest one, the one pop_first removes.
LEMMA LowestIsLowest ==
  ASSUME NEW S \in SUBSET Nat, S # {}
  PROVE  Lowest(S) \in S /\ \A g \in S : Lowest(S) <= g
<1>1. \E x \in S : \A y \in S : ~(<<y, x>> \in OpToRel(<, Nat))
  BY NatLessThanWellFounded, WFMin, ZenonT(30)
<1>2. PICK x \in S : \A y \in S : ~(<<y, x>> \in OpToRel(<, Nat))
  BY <1>1, ZenonT(30)
<1>3. \A y \in S : ~(y < x)
  BY <1>2, Zenon DEF OpToRel
<1>4. \A y \in S : x <= y
  BY <1>3
<1> QED BY <1>4, ZenonT(30) DEF Lowest

\* Pruning forgets only blocks the timestamp check refuses: the heights of a full
\* map span more than the validation window, and its highest block was not ahead of
\* the clock by more than Future (SEEN_HASH_CACHE_SIZE, block_validity.rs).
LEMMA PruneForgetsOld ==
  ASSUME NEW s, NEW now \in Nat, SeenOk(s, now), DOMAIN s # {}
  PROVE  /\ SeenOk(Prune(s), now)
         /\ \A b \in Blocks : Known(s, b) => Known(Prune(s), b) \/ Timestamp(b) + Past < now
<1> DEFINE low == Lowest(DOMAIN s)
           cut == [h \in DOMAIN s \ {low} |-> s[h]]
<1>1. CASE Cardinality(DOMAIN s) >= CacheSize
  <2>1. Prune(s) = cut
    BY <1>1 DEF Prune
  <2>2. DOMAIN s \in SUBSET Nat
    BY ChainAssumption DEF SeenOk, Heights
  <2>3. low \in DOMAIN s /\ \A g \in DOMAIN s : low <= g
    BY <2>2, LowestIsLowest
  <2>4. SeenOk(cut, now)
    BY DEF SeenOk
  <2>5. ASSUME NEW b \in Blocks, Known(s, b), ~Known(cut, b)
        PROVE  Timestamp(b) + Past < now
    <3>1. Height(b) = low
      BY <2>5 DEF Known
    <3>2. PICK x \in Blocks, y \in Blocks :
            /\ {Height(x), Height(y)} \subseteq DOMAIN s
            /\ Timestamp(x) > Timestamp(y) + Past + Future
      BY <1>1, WindowAssumption DEF SeenOk, Heights
    <3>3. PICK z \in s[Height(x)] : z \in Blocks /\ Height(z) = Height(x)
                                    /\ Timestamp(z) <= now + Future
      BY <3>2 DEF SeenOk
    <3>4. Height(b) <= Height(y) /\ Height(x) <= Height(z)
      BY <3>1, <2>3, <3>2, <3>3, ChainAssumption
    <3>5. Timestamp(b) <= Timestamp(y) /\ Timestamp(x) <= Timestamp(z)
      BY <3>4, <3>3, ChainAssumption
    <3>6. /\ Timestamp(b) \in Nat /\ Timestamp(y) \in Nat /\ Timestamp(x) \in Nat
          /\ Timestamp(z) \in Nat /\ Past \in Nat /\ Future \in Nat
      BY <3>3, ChainAssumption, WindowAssumption
    <3> QED BY <3>2, <3>3, <3>5, <3>6
  <2> HIDE DEF cut
  <2> QED BY <2>1, <2>4, <2>5
<1>2. CASE ~(Cardinality(DOMAIN s) >= CacheSize)
  BY <1>2 DEF Prune
<1> QED BY <1>1, <1>2

\* The map with one more hash, before it is pruned.
Marked(s, b) ==
  [h \in DOMAIN s \cup {Height(b)} |-> IF h = Height(b) THEN SeenAt(b) \cup {b} ELSE s[h]]

\* Adding a block whose timestamp was valid (block_valid, before it prunes
\* seen_hashes) makes it known, forgets no block, and keeps the bounds of
\* the map.
LEMMA MarkedKnown ==
  ASSUME NEW b \in Blocks, SeenOk(seen, clock), TimestampValid(b)
  PROVE  /\ SeenOk(Marked(seen, b), clock)
         /\ DOMAIN Marked(seen, b) # {}
         /\ Known(Marked(seen, b), b)
         /\ \A c \in Blocks : Known(seen, c) => Known(Marked(seen, b), c)
<1>1. SeenOk(Marked(seen, b), clock)
  BY DEF SeenOk, Marked, SeenAt, TimestampValid, Heights
<1>2. \A c \in Blocks : Known(seen, c) => Known(Marked(seen, b), c)
  BY DEF Known, Marked, SeenAt
<1> QED BY <1>1, <1>2 DEF Known, Marked

\* Accepting a block, validated by block_valid, keeps the invariant: a known block
\* fails the check of seen_hashes, a forgotten one that of the timestamp.
LEMMA ReceiveKeeps ==
  ASSUME BlockInv, NEW b \in Blocks, NEW key, NEW defect, ReceiveMessage(b, key, defect)
  PROVE  BlockInv'
<1>1. TimestampValid(b) /\ b \notin SeenAt(b)
  BY DEF ReceiveMessage, BlockValid
<1>2. seen' = Prune(Marked(seen, b)) /\ clock' = clock
  BY DEF ReceiveMessage, MarkSeen, Marked
<1>3. accepted' = [accepted EXCEPT ![b] = @ + 1]
  BY DEF ReceiveMessage
<1>4. accepted[b] = 0
  <2>1. ~Known(seen, b)
    BY <1>1 DEF Known, SeenAt
  <2>2. ~(Timestamp(b) + Past < clock)
    BY <1>1, ChainAssumption, WindowAssumption DEF TimestampValid, BlockInv
  <2> QED BY <2>1, <2>2 DEF BlockInv
<1>5. /\ SeenOk(Marked(seen, b), clock) /\ DOMAIN Marked(seen, b) # {}
      /\ Known(Marked(seen, b), b)
      /\ \A c \in Blocks : Known(seen, c) => Known(Marked(seen, b), c)
  BY <1>1, MarkedKnown DEF BlockInv
<1>6. /\ SeenOk(seen', clock)
      /\ \A c \in Blocks : Known(Marked(seen, b), c) =>
           Known(seen', c) \/ Timestamp(c) + Past < clock
  BY <1>2, <1>5, PruneForgetsOld DEF BlockInv
<1>7. \A c \in Blocks : /\ accepted'[c] <= 1
                        /\ accepted'[c] = 1 => Known(seen', c) \/ Timestamp(c) + Past < clock
  BY <1>3, <1>4, <1>5, <1>6 DEF BlockInv
<1>8. accepted' \in [Blocks -> Nat] /\ clock' \in Nat
  BY <1>2, <1>3, <1>4 DEF BlockInv
<1> QED BY <1>2, <1>6, <1>7, <1>8 DEF BlockInv

\* Every step of the block half keeps the invariant; time only makes blocks older.
LEMMA BlockInvStep == BlockInv /\ [BlockNext]_blockVars => BlockInv'
<1> SUFFICES ASSUME BlockInv, [BlockNext]_blockVars
             PROVE  BlockInv'
  OBVIOUS
<1>1. CASE Messages
  <2>1. PICK b \in Blocks, key \in Keys, defect \in Defects :
          ReceiveMessage(b, key, defect) \/ RefuseMessage(b, key, defect)
    BY <1>1 DEF Messages
  <2>2. CASE ReceiveMessage(b, key, defect)
    BY <2>2, ReceiveKeeps
  <2>3. CASE RefuseMessage(b, key, defect)
    BY <2>3 DEF RefuseMessage, blockVars, BlockInv
  <2> QED BY <2>1, <2>2, <2>3
<1>2. CASE Second
  <2>1. /\ clock \in Nat /\ clock' = clock + 1 /\ seen' = seen /\ accepted' = accepted
    BY <1>2 DEF Second, BlockInv
  <2>2. SeenOk(seen', clock')
    BY <2>1, ChainAssumption, WindowAssumption DEF BlockInv, SeenOk
  <2>3. \A b \in Blocks : Timestamp(b) + Past < clock => Timestamp(b) + Past < clock'
    BY <2>1, ChainAssumption, WindowAssumption
  <2> QED BY <2>1, <2>2, <2>3 DEF BlockInv
<1>3. CASE UNCHANGED <<clock, seen, accepted>>
  BY <1>3 DEF BlockInv
<1>4. [BlockNext]_blockVars => Messages \/ Second \/ UNCHANGED <<clock, seen, accepted>>
  BY ZenonT(30) DEF BlockNext, blockVars, PostUnsafePayload, TakeUnsafe, SendToEngine, EngineTakes,
         ReceiveSigner, Publish, L1SignerUpdate, SequencerSeals
<1> QED BY <1>1, <1>2, <1>3, <1>4

\* AcceptedOnce for every set of blocks, every schedule of deliveries, signer changes
\* and prunings: the block handler hands a gossiped block on at most once.
THEOREM GossipAcceptedOnce == BlockSpec => []AcceptedOnce
<1>1. BlockInit => BlockInv
  BY DEF BlockInit, BlockInv, SeenOk, Heights
<1>2. BlockInv => AcceptedOnce
  BY DEF BlockInv, AcceptedOnce
<1> QED BY <1>1, <1>2, BlockInvStep, PTL DEF BlockSpec

----------------------------------------------------------------------------
(* Peers *)

DialInfo == [dials : Nat, last : Nat]

\* One peer's entry of dialed_peers against the dials made of it: the log runs up to
\* the last dial; the dials the count no longer covers lie more than a period back;
\* and the redial limit held so far.
RateOk(info, log, now) ==
  /\ log \in Seq(Nat)
  /\ info.last <= now
  /\ \A i \in 1..Len(log) : log[i] <= info.last
  /\ Len(log) > 0 => info.dials > 0
  /\ \A i \in 1..Len(log) : i <= Len(log) - info.dials => now - log[i] > DialPeriod
  /\ \A limit \in Redialing \ {0} : \A i \in 1..Len(log) :
       i > limit => log[i] - log[i - limit] > DialPeriod

PeerInv ==
  /\ instant \in Nat /\ currentDials \subseteq Peers
  /\ pending \in [Peers -> Nat] /\ conns \in [Peers -> Nat]
  /\ dialInfo \in [Peers -> DialInfo]
  /\ DialsAccounted
  /\ DOMAIN dialLog = Peers
  /\ \A p \in Peers : RateOk(dialInfo[p], dialLog[p], instant)

\* The count after a dial at instant now (ConnectionGater::dialed).
Counted(info, now) ==
  [dials |-> IF info.dials > 0 /\ now - info.last > DialPeriod THEN 1 ELSE info.dials + 1,
   last |-> now]

\* A dial that is not logged, of a protected peer, keeps the record: it counts, so
\* the count covers fewer of the logged dials only when it restarts.
LEMMA CountedKeeps ==
  ASSUME NEW info \in DialInfo, NEW log, NEW now \in Nat, RateOk(info, log, now)
  PROVE  /\ Counted(info, now) \in DialInfo
         /\ RateOk(Counted(info, now), log, now)
<1> DEFINE new == Counted(info, now)
<1>0. /\ info.dials \in Nat /\ info.last \in Nat /\ log \in Seq(Nat) /\ DialPeriod \in Nat
      /\ Len(log) \in Nat /\ \A i \in 1..Len(log) : log[i] \in Nat
  BY GaterAssumption DEF DialInfo, RateOk
<1>1. new.last = now /\ new.dials \in Nat /\ new.dials > 0 /\ new \in DialInfo
  BY <1>0 DEF Counted, DialInfo
<1>2. \A i \in 1..Len(log) : log[i] <= now
  BY <1>0, SMTT(40) DEF RateOk
<1>3. ASSUME NEW i \in 1..Len(log), i <= Len(log) - new.dials
      PROVE  now - log[i] > DialPeriod
  <2>1. CASE info.dials > 0 /\ now - info.last > DialPeriod
    BY <2>1, <1>0, SMTT(40) DEF RateOk
  <2>2. CASE ~(info.dials > 0 /\ now - info.last > DialPeriod)
    <3>1. new.dials = info.dials + 1
      BY <2>2 DEF Counted
    <3> QED BY <3>1, <1>0, <1>3, SMTT(40) DEF RateOk
  <2> QED BY <2>1, <2>2
<1> QED BY <1>0, <1>1, <1>2, <1>3 DEF RateOk

\* A dial the gater lets through and the log records: n dials ago, n the limit, lies
\* more than a period back, because either the last dial does or the count, below
\* the limit, covers all logged dials since (dial_threshold_reached).
LEMMA LoggedKeeps ==
  ASSUME NEW info \in DialInfo, NEW log, NEW now \in Nat, RateOk(info, log, now),
         \/ info.dials = 0
         \/ \E limit \in Redialing : limit = 0 \/ info.dials < limit
         \/ now - info.last > DialPeriod
  PROVE  RateOk(Counted(info, now), Append(log, now), now)
<1> DEFINE new == Counted(info, now)
           longer == Append(log, now)
           n == Len(log)
<1>0. /\ info.dials \in Nat /\ info.last \in Nat /\ log \in Seq(Nat) /\ DialPeriod \in Nat
      /\ n \in Nat /\ \A i \in 1..n : log[i] \in Nat
  BY GaterAssumption, SMTT(40) DEF DialInfo, RateOk
<1>1. new.last = now /\ new.dials \in Nat /\ new.dials > 0
  BY <1>0 DEF Counted, DialInfo
<1>2. /\ longer \in Seq(Nat) /\ Len(longer) = n + 1 /\ longer[n + 1] = now
      /\ \A i \in 1..n : longer[i] = log[i]
  BY <1>0
<1>3. \A i \in 1..n : log[i] <= info.last /\ info.last <= now
  BY <1>0 DEF RateOk
<1>4. \A i \in 1..n+1 : longer[i] <= now
  BY <1>0, <1>2, <1>3, SMTT(40)
<1>5. ASSUME NEW i \in 1..n+1, i <= n + 1 - new.dials
      PROVE  now - longer[i] > DialPeriod
  <2>0. i \in 1..n
    BY <1>0, <1>1, <1>5
  <2>1. CASE info.dials > 0 /\ now - info.last > DialPeriod
    BY <2>0, <2>1, <1>0, <1>2, <1>3, SMTT(40)
  <2>2. CASE ~(info.dials > 0 /\ now - info.last > DialPeriod)
    <3>1. new.dials = info.dials + 1
      BY <2>2 DEF Counted
    <3>2. i <= n - info.dials
      BY <3>1, <1>0, <1>5
    <3> QED BY <3>2, <2>0, <1>2, ZenonT(30) DEF RateOk
  <2> QED BY <2>1, <2>2
<1>6. ASSUME NEW limit \in Redialing \ {0}, NEW i \in 1..n+1, i > limit
      PROVE  longer[i] - longer[i - limit] > DialPeriod
  <2>0. limit \in Nat /\ limit > 0 /\ \A l \in Redialing : l = limit
    BY <1>6, GaterAssumption
  <2>1. CASE i \in 1..n
    <3>1. i - limit \in 1..n
      BY <2>0, <2>1, <1>0, <1>6
    <3> QED BY <2>1, <3>1, <1>2, <1>6 DEF RateOk
  <2>2. CASE i = n + 1
    <3> DEFINE k == i - limit
    <3>1. k \in 1..n /\ longer[i] = now /\ longer[k] = log[k]
      BY <2>0, <2>2, <1>0, <1>2, <1>6
    <3>2. info.dials > 0
      BY <3>1, <1>0 DEF RateOk
    <3>3. CASE now - info.last > DialPeriod
      BY <3>1, <3>3, <1>0, <1>3, SMTT(40)
    <3>4. CASE info.dials < limit
      <4>1. k <= n - info.dials
        BY <3>4, <2>0, <2>2, <1>0
      <4> HIDE DEF k
      <4>2. now - log[k] > DialPeriod
        BY <4>1, <3>1, SMTT(40) DEF RateOk
      <4> QED BY <4>2, <3>1 DEF k
    <3>5. info.dials < limit \/ now - info.last > DialPeriod
      BY <3>2, <2>0, <1>0
    <3> QED BY <3>3, <3>4, <3>5, ZenonT(30)
  <2>3. i \in 1..n \/ i = n + 1
    BY <1>0
  <2> QED BY <2>1, <2>2, <2>3, ZenonT(30)
<1> HIDE DEF new, longer
<1>7. RateOk(new, longer, now)
  BY <1>0, <1>1, <1>2, <1>4, <1>5, <1>6, SMTT(40) DEF RateOk
<1> QED BY <1>7 DEF new, longer

\* Time passing keeps every peer's record.
LEMMA LaterKeeps ==
  ASSUME NEW info \in DialInfo, NEW log, NEW now \in Nat, RateOk(info, log, now)
  PROVE  RateOk(info, log, now + 1)
<1>1. /\ info.dials \in Nat /\ info.last \in Nat /\ log \in Seq(Nat) /\ DialPeriod \in Nat
      /\ Len(log) \in Nat /\ \A i \in 1..Len(log) : log[i] \in Nat
  BY GaterAssumption DEF DialInfo, RateOk
<1>2. info.last <= now + 1
  BY <1>1 DEF RateOk
<1>3. \A i \in 1..Len(log) : i <= Len(log) - info.dials => (now + 1) - log[i] > DialPeriod
  BY <1>1, SMTT(40) DEF RateOk
<1> QED BY <1>2, <1>3 DEF RateOk

\* A peer that was never dialed.
LEMMA FreshRate == \A now \in Nat : RateOk(NeverDialed, <<>>, now)
BY GaterAssumption DEF RateOk, NeverDialed

\* dial_multiaddr, called for an ENR of discovery or for an RPC request, keeps the
\* gater's records.
LEMMA DialKeeps ==
  ASSUME PeerInv, NEW p \in Peers, NEW ok \in BOOLEAN, DialMultiaddr(p, ok),
         UNCHANGED <<instant, conns, failed, up>>
  PROVE  PeerInv'
<1> DEFINE info == dialInfo[p]
<1>1. CASE ~(CanDial(p) /\ ok)
  BY <1>1, ZenonT(30) DEF DialMultiaddr, gateVars, PeerInv, DialsAccounted
<1>2. CASE CanDial(p) /\ ok
  <2>0. info \in DialInfo /\ instant \in Nat /\ RateOk(info, dialLog[p], instant)
    BY ZenonT(30) DEF PeerInv
  <2>1. /\ currentDials' = currentDials \cup {p} /\ pending' = [pending EXCEPT ![p] = @ + 1]
        /\ dialInfo' = [dialInfo EXCEPT ![p] = Counted(info, instant)]
        /\ dialLog' = IF p \in protected THEN dialLog
                      ELSE [dialLog EXCEPT ![p] = Append(@, instant)]
    BY <1>2 DEF DialMultiaddr, Dialed, Counted
  <2>2. /\ pending' \in [Peers -> Nat] /\ conns' \in [Peers -> Nat] /\ pending'[p] > 0
        /\ \A q \in Peers : pending[q] > 0 => pending'[q] > 0
        /\ currentDials' \subseteq Peers
    BY <2>1 DEF PeerInv
  <2>3. DialsAccounted'
    BY <2>1, <2>2 DEF DialsAccounted, PeerInv
  <2>4. Counted(info, instant) \in DialInfo /\ RateOk(Counted(info, instant), dialLog[p], instant)
    BY <2>0, CountedKeeps, ZenonT(30)
  <2>5. p \notin protected => RateOk(Counted(info, instant), Append(dialLog[p], instant), instant)
    <3> SUFFICES ASSUME p \notin protected
                 PROVE  RateOk(Counted(info, instant), Append(dialLog[p], instant), instant)
      OBVIOUS
    <3>1. ~DialThresholdReached(p) \/ DialPeriodExpired(p)
      BY <1>2 DEF CanDial
    <3>2. \/ info.dials = 0
          \/ \E limit \in Redialing : limit = 0 \/ info.dials < limit
          \/ instant - info.last > DialPeriod
      <4>1. info.dials \in Nat /\ \A limit \in Redialing : limit \in Nat
        BY <2>0, GaterAssumption DEF DialInfo
      <4> QED BY <3>1, <4>1 DEF DialThresholdReached, DialPeriodExpired
    <3> QED BY <2>0, <3>2, LoggedKeeps
  <2>6. dialInfo' \in [Peers -> DialInfo] /\ DOMAIN dialLog' = Peers
    BY <2>1, <2>4, ZenonT(30) DEF PeerInv
  <2>7. \A q \in Peers : RateOk(dialInfo'[q], dialLog'[q], instant)
    BY <2>1, <2>4, <2>5 DEF PeerInv
  <2> QED BY <2>2, <2>3, <2>6, <2>7 DEF PeerInv
<1> QED BY <1>1, <1>2

\* The steps that leave the gater's counts and the clock alone.
Undialed == UNCHANGED <<instant, dialInfo, dialLog>>

\* An event of the swarm or of the score monitor keeps the account of current_dials:
\* a peer leaves the set, is connected, or is marked as failed.
LEMMA SwarmKeeps ==
  ASSUME PeerInv,
         \/ HandlePeerMonitoring
         \/ \E p \in Peers : \/ OutgoingEstablished(p) \/ OutgoingConnectionError(p)
                           \/ IncomingEstablished(p) \/ ConnectionClosed(p)
  PROVE  PeerInv'
<1>1. Undialed
  BY ZenonT(30) DEF Undialed, OutgoingEstablished, OutgoingConnectionError, IncomingEstablished,
         ConnectionClosed, HandlePeerMonitoring, gateVars, logVars
<1> DEFINE DialsOk == /\ currentDials' \subseteq Peers /\ pending' \in [Peers -> Nat]
                     /\ conns' \in [Peers -> Nat] /\ DialsAccounted'
<1>2. DialsOk
  <2>0. /\ currentDials \subseteq Peers /\ pending \in [Peers -> Nat] /\ conns \in [Peers -> Nat]
        /\ DialsAccounted
    BY ZenonT(30) DEF PeerInv
  <2>1. ASSUME NEW p \in Peers, OutgoingEstablished(p)
        PROVE  DialsOk
    BY <2>0, <2>1 DEF OutgoingEstablished, gateVars, logVars, DialsAccounted
  <2>2. ASSUME NEW p \in Peers, OutgoingConnectionError(p)
        PROVE  DialsOk
    BY <2>0, <2>2 DEF OutgoingConnectionError, gateVars, DialsAccounted
  <2>3. ASSUME NEW p \in Peers, IncomingEstablished(p)
        PROVE  DialsOk
    BY <2>0, <2>3 DEF IncomingEstablished, gateVars, logVars, DialsAccounted
  <2>4. ASSUME NEW p \in Peers, ConnectionClosed(p)
        PROVE  DialsOk
    BY <2>0, <2>4 DEF ConnectionClosed, DialsAccounted
  <2>5. CASE HandlePeerMonitoring
    BY <2>0, <2>5, ZenonT(30) DEF HandlePeerMonitoring, DialsAccounted
  <2> QED BY <2>1, <2>2, <2>3, <2>4, <2>5
<1> QED BY <1>1, <1>2, ZenonT(30) DEF PeerInv, Undialed

\* Every step of the peer half keeps the invariant.
LEMMA PeerInvStep == PeerInv /\ [PeerNext]_peerVars => PeerInv'
<1> SUFFICES ASSUME PeerInv, [PeerNext]_peerVars
             PROVE  PeerInv'
  OBVIOUS
<1>1. ASSUME NEW p \in Peers, NEW ok \in BOOLEAN, Dial(p, ok) \/ RpcConnect(p, ok)
      PROVE  PeerInv'
  <2>1. UNCHANGED <<instant, conns, failed, up>>
    BY <1>1 DEF Dial, RpcConnect
  <2>2. DialMultiaddr(p, ok) \/ UNCHANGED <<gateVars, pending, dialLog>>
    BY <1>1 DEF Dial, RpcConnect
  <2>3. CASE DialMultiaddr(p, ok)
    BY <2>1, <2>3, DialKeeps
  <2>4. CASE UNCHANGED <<gateVars, pending, dialLog>>
    BY <2>1, <2>4 DEF gateVars, PeerInv, DialsAccounted
  <2> QED BY <2>2, <2>3, <2>4
<1>2. ASSUME NEW p \in Peers,
             \/ OutgoingEstablished(p) \/ OutgoingConnectionError(p) \/ IncomingEstablished(p)
             \/ ConnectionClosed(p)
      PROVE  PeerInv'
  BY <1>2, SwarmKeeps
<1>3. CASE HandlePeerMonitoring
  BY <1>3, SwarmKeeps, ZenonT(30)
<1>4. CASE Restart
  <2>1. /\ dialInfo' = [p \in Peers |-> NeverDialed] /\ dialLog' = [p \in Peers |-> <<>>]
        /\ currentDials' = {} /\ instant' = instant
        /\ pending' = [p \in Peers |-> 0] /\ conns' = [p \in Peers |-> 0]
    BY <1>4 DEF Restart
  <2>2. NeverDialed \in DialInfo
    BY DEF NeverDialed, DialInfo
  <2> QED BY <2>1, <2>2, FreshRate DEF PeerInv, DialsAccounted
<1>5. CASE InstantPasses
  <2>1. /\ instant \in Nat /\ instant' = instant + 1
        /\ UNCHANGED <<currentDials, pending, conns, dialInfo, dialLog, failed, up>>
    BY <1>5 DEF InstantPasses, gateVars, swarmVars, logVars, PeerInv
  <2>2. \A p \in Peers : RateOk(dialInfo[p], dialLog[p], instant + 1)
    BY LaterKeeps DEF PeerInv
  <2> QED BY <2>1, <2>2 DEF PeerInv, DialsAccounted
<1>6. CASE UNCHANGED <<instant, currentDials, pending, conns, dialInfo, dialLog, failed>>
           /\ (up' => up)
  BY <1>6 DEF PeerInv, DialsAccounted
<1>7. ASSUME NEW p \in Peers,
             \/ IdentifyReceived(p, "bare") \/ IdentifyReceived(p, "full") \/ ScoreDrops(p)
             \/ RpcRequest(p) \/ Discovered(p) \/ FoundNode(p) \/ BanExpires(p)
      PROVE  PeerInv'
  BY <1>6, <1>7, ZenonT(30) DEF IdentifyReceived, ScoreDrops, RpcRequest, RpcSet, Discovered, FoundNode,
                    BanExpires, gateVars, swarmVars, logVars
<1>8. ASSUME UNCHANGED <<instant, gateVars, swarmVars, logVars>>, up' => up
      PROVE  PeerInv'
  BY <1>6, <1>8 DEF gateVars, swarmVars, logVars
<1>9. CASE DiscoveryStart \/ DiscoveryFails \/ BanAddrs
  BY <1>8, <1>9, Zenon DEF DiscoveryStart, DiscoveryFails, BanAddrs
<1>10. CASE SyncTruncate \/ SyncWrite
  BY <1>8, <1>10, Zenon DEF SyncTruncate, SyncWrite
<1>11. CASE Crash
  BY <1>8, <1>11 DEF Crash
<1>12. CASE UNCHANGED peerVars
  BY <1>8, <1>12 DEF peerVars
<1> QED BY <1>1, <1>2, <1>3, <1>4, <1>5, <1>7, <1>9, <1>10, <1>11, <1>12 DEF PeerNext

\* DialRate for every number of peers, every redial limit and period, and every
\* order of ENRs, RPC requests, protections, failures, closings and restarts.
THEOREM GaterDialRate == PeerSpec => []DialRate
<1>1. PeerInit => PeerInv
  <2> SUFFICES ASSUME PeerInit
               PROVE  PeerInv
    OBVIOUS
  <2>1. NeverDialed \in DialInfo
    BY ZenonT(30) DEF NeverDialed, DialInfo
  <2> QED BY <2>1, FreshRate DEF PeerInit, GateFresh, PeerInv, DialsAccounted
<1>2. PeerInv => DialRate
  <2> SUFFICES ASSUME PeerInv
               PROVE  DialRate
    BY ZenonT(30)
  <2>0. \A p \in Peers : dialLog[p] \in Seq(Nat)
    BY ZenonT(30) DEF PeerInv, RateOk
  <2>1. \A p \in Peers : DOMAIN dialLog[p] = 1..Len(dialLog[p])
    BY <2>0
  <2>2. \A p \in Peers : \A limit \in Redialing \ {0} : \A i \in 1..Len(dialLog[p]) :
          i > limit => dialLog[p][i] - dialLog[p][i - limit] > DialPeriod
    BY ZenonT(30) DEF PeerInv, RateOk
  <2>3. DialsAccounted
    BY ZenonT(30) DEF PeerInv
  <2> QED BY <2>1, <2>2, <2>3, ZenonT(30) DEF DialRate
<1> QED BY <1>1, <1>2, PeerInvStep, PTL DEF PeerSpec
=============================================================================
