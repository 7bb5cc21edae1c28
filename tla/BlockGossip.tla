---------------------------- MODULE BlockGossip ----------------------------
(* The block half of the network actor: a gossip message is decoded and       *)
(* validated by the block handler, accepted blocks wait in an unbounded       *)
(* channel and are handed to the engine's bounded one, the unsafe block       *)
(* signer is replaced by the L1 watcher, and the sequencer's blocks are       *)
(* signed and published.                                                      *)
(*                                                                            *)
(* A block is a model value with a height and a timestamp.  What a message    *)
(* carries besides the block is the key its signature recovers to and one     *)
(* defect: it does not decode, its payload does not match its hash or         *)
(* version, or its signature does not recover.                                *)
EXTENDS Naturals, Sequences, FiniteSets, SequencesExt

CONSTANTS
    Blocks,             \* the payloads that can be gossiped
    OwnBlocks,          \* those this node seals, or its operator posts
    Height(_),          \* block number of a payload
    Timestamp(_),       \* timestamp of a payload
    Keys,               \* addresses that may sign blocks
    InitialSigner,      \* the unsafe block signer the node starts with
    SignerKind,         \* "local", "remote" or "none": the configured BlockSigner
    OwnKey,             \* the key of the local signer, the address of the remote one
    Past, Future,       \* 60 and 5 seconds in block_validity.rs
    CacheSize,          \* SEEN_HASH_CACHE_SIZE
    MaxBlocksToKeep,    \* MAX_BLOCKS_TO_KEEP
    EngineCap,          \* capacity of the channel to the engine actor
    MaxClock,           \* bound: last second of the run
    MaxMessages,        \* bound: gossip messages that are accepted
    MaxUpdates,         \* bound: signer updates from L1
    MaxOwn              \* bound: blocks of the sequencer and of the admin API

\* Signed blocks of a chain: the timestamp grows with the height.
ASSUME ChainAssumption ==
    /\ \A b \in Blocks : Height(b) \in Nat /\ Timestamp(b) \in Nat
    /\ \A b, c \in Blocks : Height(b) <= Height(c) => Timestamp(b) <= Timestamp(c)

\* The seen-hash cache outlives the validation window, as the note on
\* SEEN_HASH_CACHE_SIZE asks: CacheSize heights span more time than the window.
ASSUME WindowAssumption ==
    /\ Past \in Nat /\ Future \in Nat
    /\ \A S \in SUBSET {Height(b) : b \in Blocks} :
         Cardinality(S) >= CacheSize =>
            \E b, c \in Blocks : /\ {Height(b), Height(c)} \subseteq S
                                 /\ Timestamp(b) > Timestamp(c) + Past + Future

None == "none"
Defects == {"none", "decode", "payload", "signature"}

VARIABLES
    clock,        \* system time in seconds
    seen,         \* BlockHandler.seen_hashes: height -> set of hashes, a partial map
    signer,       \* the watch channel of the unsafe block signer
    updates,      \* the mpsc channel the L1 watcher sends signers on
    outbox,       \* publish_rx: blocks of the sequencer waiting to be signed
    unsafe,       \* unsafe_block_rx: accepted blocks
    holding,      \* the block whose send to the engine is awaited
    inbox,        \* the engine actor's channel
    received,     \* what the engine actor took from it
    published,    \* envelopes given to gossipsub, with the signer of that moment
    running,      \* the actor's loop has not returned
    accepted,     \* history: how often each block was accepted
    spent         \* bound counters: messages, updates, own blocks

blockVars == <<clock, seen, signer, updates, outbox, unsafe, holding, inbox,
               received, published, running, accepted, spent>>

BlockInit ==
    /\ clock = 0 /\ seen = <<>> /\ signer = InitialSigner
    /\ updates = <<>> /\ outbox = <<>> /\ unsafe = <<>> /\ holding = None
    /\ inbox = <<>> /\ received = {} /\ published = {} /\ running = TRUE
    /\ accepted = [b \in Blocks |-> 0]
    /\ spent = [messages |-> 0, updates |-> 0, own |-> 0]

\* The loop is at its select!: it has not returned and awaits no send.
Idle == running /\ holding = None
----------------------------------------------------------------------------
(* Block validation *)

\* Not more than Future seconds ahead of the clock and not more than Past behind it.
\* The clock is large in practice, so current - 60 does not wrap: written as a sum.
TimestampValid(b) ==
    /\ Timestamp(b) <= clock + Future
    /\ Timestamp(b) + Past >= clock

\* The hashes already seen at the block's height.
SeenAt(b) == IF Height(b) \in DOMAIN seen THEN seen[Height(b)] ELSE {}

\* More than MaxBlocksToKeep blocks of this height were accepted.
TooManyBlocks(b) == Cardinality(SeenAt(b)) > MaxBlocksToKeep

\* The block hash and validate_version_specific_payload.
PayloadValid(defect) == defect # "payload"

\* block_valid and validate_block_internal: the checks in the order of the code.  Only the answer
\* matters here, so a refused block is simply not valid.
BlockValid(b, key, defect) ==
    /\ TimestampValid(b)
    /\ PayloadValid(defect)
    /\ ~TooManyBlocks(b)
    /\ b \notin SeenAt(b)
    /\ defect # "signature"
    /\ key = signer

Lowest(S) == CHOOSE h \in S : \A g \in S : h <= g

MutPrune(s) ==
    IF Cardinality(DOMAIN s) >= CacheSize
    THEN [h \in DOMAIN s \ {CHOOSE h \in DOMAIN s : \A g \in DOMAIN s : h >= g} |-> s[h]]
    ELSE s

\* pop_first once the map holds CacheSize heights: the lowest height goes, which may
\* be the one just inserted.
Prune(s) ==
    IF Cardinality(DOMAIN s) >= CacheSize
    THEN [h \in DOMAIN s \ {Lowest(DOMAIN s)} |-> s[h]]
    ELSE s

MarkSeen(b) ==
    Prune([h \in DOMAIN seen \cup {Height(b)} |->
             IF h = Height(b) THEN SeenAt(b) \cup {b} ELSE seen[h]])

\* A gossip message on one of the four block topics: handle decodes by topic and
\* validates; an accepted payload goes to the unbounded channel.  The same message
\* may arrive any number of times.
ReceiveMessage(b, key, defect) ==
    /\ Idle /\ spent.messages < MaxMessages
    /\ defect # "decode"
    /\ BlockValid(b, key, defect)
    /\ seen' = MarkSeen(b)
    /\ unsafe' = Append(unsafe, b)
    /\ accepted' = [accepted EXCEPT ![b] = @ + 1]
    /\ spent' = [spent EXCEPT !.messages = @ + 1]
    /\ UNCHANGED <<clock, signer, updates, outbox, holding, inbox, received, published, running>>

\* A message that is refused or ignored changes nothing in the handler.
RefuseMessage(b, key, defect) ==
    /\ Idle
    /\ defect = "decode" \/ ~BlockValid(b, key, defect)
    /\ UNCHANGED blockVars
----------------------------------------------------------------------------
(* The actor's loop *)

\* A block of the admin API skips the validation.
PostUnsafePayload(b) ==
    /\ Idle /\ spent.own < MaxOwn
    /\ unsafe' = Append(unsafe, b)
    /\ spent' = [spent EXCEPT !.own = @ + 1]
    /\ UNCHANGED <<clock, seen, signer, updates, outbox, holding, inbox, received, published,
                   running, accepted>>

MutTakeUnsafe ==
    /\ Idle /\ unsafe # <<>>
    /\ unsafe' = Tail(unsafe)
    /\ holding' = IF Len(inbox) < EngineCap THEN Head(unsafe) ELSE None
    /\ UNCHANGED <<clock, seen, signer, updates, outbox, inbox, received, published, running,
                   accepted, spent>>

\* The next accepted block is taken and its send to the engine awaited.
TakeUnsafe ==
    /\ Idle /\ unsafe # <<>>
    /\ unsafe' = Tail(unsafe)
    /\ holding' = Head(unsafe)
    /\ UNCHANGED <<clock, seen, signer, updates, outbox, inbox, received, published, running,
                   accepted, spent>>

\* The send completes when the engine's channel has room.
SendToEngine ==
    /\ running /\ holding # None /\ Len(inbox) < EngineCap
    /\ inbox' = Append(inbox, holding)
    /\ holding' = None
    /\ UNCHANGED <<clock, seen, signer, updates, outbox, unsafe, received, published, running,
                   accepted, spent>>

\* The engine actor takes a block.
EngineTakes ==
    /\ inbox # <<>>
    /\ received' = received \cup {Head(inbox)}
    /\ inbox' = Tail(inbox)
    /\ UNCHANGED <<clock, seen, signer, updates, outbox, unsafe, holding, published, running,
                   accepted, spent>>

\* The new signer reaches the watch channel the block handler reads.
ReceiveSigner ==
    /\ Idle /\ updates # <<>>
    /\ signer' = Head(updates)
    /\ updates' = Tail(updates)
    /\ UNCHANGED <<clock, seen, outbox, unsafe, holding, inbox, received, published, running,
                   accepted, spent>>

\* sign_block: the local signer signs with its key whatever the expected address is,
\* the remote one refuses an address that is not its own.
SignBlock(expected) ==
    IF SignerKind = "remote" /\ expected # OwnKey THEN None ELSE OwnKey

\* A block of the sequencer.  Without a signer it is dropped; a signing error (also
\* an RPC error of the remote signer) ends the actor; gossipsub may refuse the
\* envelope, which is only logged.
Publish(rpcOk, gossipOk) ==
    /\ Idle /\ outbox # <<>>
    /\ outbox' = Tail(outbox)
    /\ LET key == IF SignerKind = "remote" /\ ~rpcOk THEN None ELSE SignBlock(signer)
       IN  IF SignerKind = "none"
           THEN UNCHANGED <<published, running>>
           ELSE /\ running' = (key # None)
                /\ published' = IF key # None /\ gossipOk
                                THEN published \cup {[block |-> Head(outbox), key |-> key,
                                                      signer |-> signer]}
                                ELSE published
    /\ UNCHANGED <<clock, seen, signer, updates, unsafe, holding, inbox, received, accepted, spent>>

\* The surroundings: time passes, the L1 watcher sees a new signer, the sequencer
\* seals a block.
Second ==
    /\ clock < MaxClock
    /\ clock' = clock + 1
    /\ UNCHANGED <<seen, signer, updates, outbox, unsafe, holding, inbox, received, published,
                   running, accepted, spent>>

L1SignerUpdate(k) ==
    /\ spent.updates < MaxUpdates
    /\ updates' = Append(updates, k)
    /\ spent' = [spent EXCEPT !.updates = @ + 1]
    /\ UNCHANGED <<clock, seen, signer, outbox, unsafe, holding, inbox, received, published,
                   running, accepted>>

SequencerSeals(b) ==
    /\ spent.own < MaxOwn
    /\ outbox' = Append(outbox, b)
    /\ spent' = [spent EXCEPT !.own = @ + 1]
    /\ UNCHANGED <<clock, seen, signer, updates, unsafe, holding, inbox, received, published,
                   running, accepted>>

Messages == \E b \in Blocks, key \in Keys, defect \in Defects :
    ReceiveMessage(b, key, defect) \/ RefuseMessage(b, key, defect)

BlockNext ==
    \/ Messages
    \/ \E b \in OwnBlocks : PostUnsafePayload(b)
    \/ TakeUnsafe
    \/ SendToEngine
    \/ EngineTakes
    \/ ReceiveSigner
    \/ \E rpcOk, gossipOk \in BOOLEAN : Publish(rpcOk, gossipOk)
    \/ Second
    \/ \E k \in Keys : L1SignerUpdate(k)
    \/ \E b \in OwnBlocks : SequencerSeals(b)
----------------------------------------------------------------------------
(* Properties *)

\* No gossiped block is handed on twice, however often its message is delivered and
\* whatever was pruned in between: an entry of seen_hashes is dropped only once
\* every block of its height fails the timestamp check.
AcceptedOnce == \A b \in Blocks : accepted[b] <= 1

\* An accepted block reaches the engine actor unless the network actor ends: the
\* bounded channel to the engine delays blocks and loses none.
Delivered ==
    \A b \in Blocks : (accepted[b] > 0) ~> (b \in received \/ ~running)
============================================================================
