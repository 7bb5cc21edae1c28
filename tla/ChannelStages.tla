---------------------------- MODULE ChannelStages ----------------------------
(***************************************************************************)
(* The lower half of the derivation pipeline: PollingTraversal,            *)
(* L1Retrieval with its data source, FrameQueue and the ChannelProvider    *)
(* that muxes between ChannelBank (before Holocene) and ChannelAssembler   *)
(* (after it).  A stage is polled by the one above it, so one call of      *)
(* ChannelProvider::next_data is one atomic step; what interleaves with it *)
(* is the growth of L1, errors of the L1 RPC, and the signals the driver   *)
(* sends down the pipeline.                                                *)
(*                                                                         *)
(* A batcher transaction is the sequence of frames it parses to, <<>> when *)
(* Frame::parse_frames rejects it.  Every frame has the same size.  A      *)
(* channel's bytes are the set of its frames.                              *)
(***************************************************************************)
EXTENDS Integers, Sequences, FiniteSets, SequencesExt, FiniteSetsExt

CONSTANTS
    Ids,             \* channel ids
    Items,           \* the batcher transactions that may be posted
    MaxItems,        \* bound: how many of them are posted
    LastL1,           \* bound: the last L1 block
    MaxRestarts,       \* bound: how many resets the driver sends
    ResetMidBlock,   \* may a reset arrive while a block is being read?
    TimeoutBlocks,  \* RollupConfig::channel_timeout, in L1 blocks
    HoloceneBlock,      \* the first L1 block with Holocene active
    CanyonAt,        \* the first L1 block with Canyon active
    FrameSize,       \* Frame::size
    MaxBankSize,     \* (FJORD_)MAX_CHANNEL_BANK_SIZE
    MaxChannelSize   \* MAX_RLP_BYTES_PER_CHANNEL_*

ASSUME ChannelBounds ==
    /\ {MaxItems, MaxRestarts, TimeoutBlocks, FrameSize} \subseteq Nat
    /\ {LastL1, HoloceneBlock, CanyonAt} \subseteq Nat \ {0}
    /\ ResetMidBlock \in BOOLEAN

VARIABLES
    l1Data,    \* l1Data[n]: the batcher transactions of L1 block n
    l1Origin,  \* PollingTraversal.block, the origin of the whole pipeline
    done,      \* PollingTraversal.done
    next,      \* L1Retrieval.next, 0 when None
    src,       \* the data source: [open, block, items], block is a ghost
    queue,     \* FrameQueue.queue; a frame carries the block it came from
    mux,       \* the active stage of ChannelProvider
    bank,      \* ChannelBank.channels in the order of channel_queue
    chan,      \* ChannelAssembler.channel, a sequence of at most one
    emitted,   \* ghost: the channels handed to ChannelReader since start
    start,     \* ghost: the origin of the last reset or activation
    restarts,  \* the number of resets so far
    eof        \* did the last call return Eof?

channelVars == <<l1Data, l1Origin, done, next, src, queue, mux, bank, chan,
                 emitted, start, restarts, eof>>

HoloceneStage(n) == n >= HoloceneBlock
Canyon(n) == n >= CanyonAt

-----------------------------------------------------------------------------
(* Channel: add_frame, is_ready, frame_data.  A channel is the record of its *)
(* id, open block, estimated size, closed flag, highest and last frame       *)
(* number, and the set of its frames.                                        *)

NewChannel(id, block) ==
    [id |-> id, open |-> block, size |-> 0, closed |-> FALSE,
     high |-> 0, last |-> 0, inputs |-> {}]

CanAdd(c, f) ==
    /\ f.id = c.id
    /\ ~(f.last /\ c.closed)
    /\ \A g \in c.inputs : g.num # f.num
    /\ ~(c.closed /\ f.num >= c.last)

\* The retain closure subtracts the size of every frame it visits, the ones
\* it keeps included.
AddFrame(c, f) ==
    LET cut == f.last /\ f.num < c.high
        kept == IF cut THEN {g \in c.inputs : g.num < f.num} ELSE c.inputs
        size == IF cut THEN c.size - FrameSize * Cardinality(c.inputs) ELSE c.size
        high == IF cut THEN f.num ELSE c.high
    IN  [c EXCEPT !.closed = @ \/ f.last,
                  !.last = IF f.last THEN f.num ELSE @,
                  !.high = Max({high, f.num}),
                  !.size = size + FrameSize,
                  !.inputs = kept \cup {f}]

IsReady(c) ==
    /\ c.closed
    /\ Cardinality(c.inputs) = c.last + 1
    /\ \A i \in 0..c.last : \E f \in c.inputs : f.num = i

MutTimedOut(c) == c.open + TimeoutBlocks <= l1Origin

TimedOut(c) == c.open + TimeoutBlocks < l1Origin

-----------------------------------------------------------------------------
(* FrameQueue::prune, the Holocene rules on neighbouring frames.  Dropping   *)
(* an unfinished channel removes everything from the first frame with its    *)
(* id up to the current position.                                            *)

Frames == [id : Ids, num : Nat, last : BOOLEAN, blk : Nat]

PruneFrom[q \in Seq(Frames), i \in Nat] ==
    IF i >= Len(q) THEN q
    ELSE LET f == q[i]
             g == q[i + 1]
             same == f.id = g.id
             first == Min({j \in 1..i : q[j].id = f.id})
         IN  IF \/ same /\ (f.num + 1 # g.num \/ f.last)
                \/ ~same /\ g.num # 0
             THEN PruneFrom[RemoveAt(q, i + 1), i]
             ELSE IF ~same /\ ~f.last
             THEN PruneFrom[SubSeq(q, 1, first - 1) \o SubSeq(q, i + 1, Len(q)),
                            Max({1, first - 1})]
             ELSE PruneFrom[q, i + 1]

Prune(q) == IF HoloceneStage(l1Origin) THEN PruneFrom[q, 1] ELSE q

-----------------------------------------------------------------------------
(* FrameQueue::next_frame over L1Retrieval::next_data over the data source   *)
(* and PollingTraversal::next_l1_block, as the record of its outcome and of  *)
(* the state it leaves.                                                      *)

NoFrame == <<>>

\* The block L1Retrieval reads: the one it has, or the traversal's if that
\* has not been handed out; 0 when next_l1_block returns Eof.
Reading == IF next # 0 THEN next ELSE IF ~done THEN l1Origin ELSE 0

\* load_blobs / load_calldata: a source that is open keeps what it has.
Loaded ==
    IF src.open THEN src
    ELSE [open |-> TRUE, block |-> Reading, items |-> l1Data[Reading]]

ClosedSource == [open |-> FALSE, block |-> 0, items |-> <<>>]

Tagged(item, block) ==
    [i \in DOMAIN item |->
        [id |-> item[i].id, num |-> item[i].num, last |-> item[i].last,
         blk |-> block]]

NextFrame ==
    IF queue # <<>>
    THEN [kind |-> "frame", frame |-> Head(queue), queue |-> Tail(queue),
          src |-> src, next |-> next, done |-> done]
    ELSE IF Reading = 0
    THEN [kind |-> "eof", frame |-> NoFrame, queue |-> <<>>,
          src |-> src, next |-> 0, done |-> done]
    ELSE LET s == Loaded
             d == done \/ next = 0
         IN  IF s.items = <<>>
             THEN [kind |-> "eof", frame |-> NoFrame, queue |-> <<>>,
                   src |-> ClosedSource, next |-> 0, done |-> d]
             ELSE LET fs == Prune(Tagged(Head(s.items), s.block))
                      rest == [s EXCEPT !.items = Tail(@)]
                  IN  IF fs = <<>>
                      THEN [kind |-> "more", frame |-> NoFrame, queue |-> <<>>,
                            src |-> rest, next |-> Reading, done |-> d]
                      ELSE [kind |-> "frame", frame |-> Head(fs),
                            queue |-> Tail(fs),
                            src |-> rest, next |-> Reading, done |-> d]

-----------------------------------------------------------------------------
(* ChannelAssembler::next_data                                               *)

Emit(c) == Append(emitted, [id |-> c.id, open |-> c.open, at |-> l1Origin,
                            frames |-> c.inputs])

Polled(r) ==
    /\ queue' = r.queue
    /\ src' = r.src
    /\ next' = r.next
    /\ done' = r.done
    /\ eof' = (r.kind = "eof")

\* The channel under assembly once the timed-out one is discarded and, on
\* frame 0, a new one started.
Assembling(r) ==
    LET live == SelectSeq(IF mux = "assembler" THEN chan ELSE <<>>,
                          LAMBDA c : ~TimedOut(c))
    IN  IF r.kind = "frame" /\ r.frame.num = 0
        THEN <<NewChannel(r.frame.id, l1Origin)>>
        ELSE live

AssemblerNext ==
    LET r == NextFrame
        cs == Assembling(r)
        adds == r.kind = "frame" /\ cs # <<>> /\ CanAdd(Head(cs), r.frame)
        c == AddFrame(Head(cs), r.frame)
        ready == adds /\ c.size <= MaxChannelSize /\ IsReady(c)
    IN  /\ Polled(r)
        /\ chan' = IF ~adds THEN cs
                   ELSE IF c.size > MaxChannelSize \/ ready THEN <<>>
                   ELSE <<c>>
        /\ emitted' = IF ready THEN Emit(c) ELSE emitted
        /\ bank' = <<>>

-----------------------------------------------------------------------------
(* ChannelBank: read, ingest_frame, prune, next_data                         *)

BankSize(b) == MapThenSumSet(LAMBDA i : b[i].size, DOMAIN b)

\* Drops channels from the front until the rest fits.
PruneBank(b) ==
    LET fits == {k \in 0..Len(b) :
                    BankSize(SubSeq(b, k + 1, Len(b))) <= MaxBankSize}
    IN  SubSeq(b, Min(fits) + 1, Len(b))

Ingest(b, f) ==
    LET known == {i \in DOMAIN b : b[i].id = f.id}
        b1 == IF known = {} THEN Append(b, NewChannel(f.id, l1Origin)) ELSE b
        i == IF known = {} THEN Len(b1) ELSE CHOOSE k \in known : TRUE
    IN  IF TimedOut(b1[i]) \/ ~CanAdd(b1[i], f) THEN b1
        ELSE PruneBank([b1 EXCEPT ![i] = AddFrame(@, f)])

\* try_read_channel_at_index succeeds on these; before Canyon only the first
\* channel of the queue is looked at.
Readable(b) ==
    {i \in DOMAIN b : /\ ~TimedOut(b[i]) /\ IsReady(b[i])
                      /\ i = 1 \/ Canyon(l1Origin)}

BankNext ==
    LET b == IF mux = "bank" THEN bank ELSE <<>>
        i == Min(Readable(b))
    IN  /\ chan' = <<>>
        /\ \/ /\ b # <<>> /\ TimedOut(b[1])
              /\ bank' = Tail(b)
              /\ eof' = FALSE
              /\ UNCHANGED <<queue, src, next, done, emitted>>
           \/ /\ b # <<>> /\ ~TimedOut(b[1]) /\ Readable(b) # {}
              /\ bank' = RemoveAt(b, i)
              /\ emitted' = Emit(b[i])
              /\ eof' = FALSE
              /\ UNCHANGED <<queue, src, next, done>>
           \/ /\ b # <<>> => ~TimedOut(b[1]) /\ Readable(b) = {}
              /\ Polled(NextFrame)
              /\ bank' = IF NextFrame.kind = "frame"
                         THEN Ingest(b, NextFrame.frame) ELSE b
              /\ UNCHANGED emitted

-----------------------------------------------------------------------------
(* ChannelProvider and the pipeline around it                                *)

Stage(n) == IF HoloceneStage(n) THEN "assembler" ELSE "bank"

\* ChannelProvider::next_data, called when ChannelReader has no channel open.
NextData ==
    /\ mux' = Stage(l1Origin)
    /\ IF HoloceneStage(l1Origin) THEN AssemblerNext ELSE BankNext
    /\ UNCHANGED <<l1Data, l1Origin, start, restarts>>

\* The fetch of a block's transactions or blobs fails: the block is noted in
\* L1Retrieval but nothing was read.
L1ReadFails ==
    /\ queue = <<>> /\ Reading # 0 /\ ~src.open
    /\ mux = Stage(l1Origin) /\ (mux = "bank" => Readable(bank) = {})
    /\ next' = Reading
    /\ done' = (done \/ next = 0)
    /\ eof' = FALSE
    /\ UNCHANGED <<l1Data, l1Origin, src, queue, mux, bank, chan, emitted, start, restarts>>

ItemsPosted == MapThenSumSet(LAMBDA n : Len(l1Data[n]), DOMAIN l1Data)

\* Signal::Reset and Signal::Activation in L1Retrieval, FrameQueue and
\* ChannelAssembler.
RetrievalSignal(o) == next' = o
QueueSignal == queue' = <<>>
AssemblerSignal == chan' = <<>>

\* DerivationPipeline::step after Eof: PollingTraversal::advance_origin moves
\* to the next L1 block, whose content is chosen when it is first reached.
\* On the first Holocene block it asks for a reset and the driver answers with
\* the activation signal.
AdvanceTraversal ==
    /\ eof /\ l1Origin < LastL1
    /\ \/ l1Origin < Len(l1Data) /\ UNCHANGED l1Data
       \/ /\ l1Origin = Len(l1Data)
          /\ \E block \in {<<>>} \cup {<<i>> : i \in Items}
                          \cup {<<i, j>> : i, j \in Items} :
                /\ ItemsPosted + Len(block) <= MaxItems
                /\ l1Data' = Append(l1Data, block)
    /\ l1Origin' = l1Origin + 1
    /\ done' = FALSE
    /\ eof' = FALSE
    /\ IF ~HoloceneStage(l1Origin) /\ HoloceneStage(l1Origin + 1)
       THEN /\ RetrievalSignal(l1Origin + 1) /\ start' = l1Origin + 1
            /\ QueueSignal /\ mux' = "assembler"
            /\ bank' = <<>> /\ AssemblerSignal /\ emitted' = <<>>
       ELSE UNCHANGED <<next, queue, mux, bank, chan, emitted, start>>
    /\ UNCHANGED <<src, restarts>>

\* Signal::Reset to an earlier origin.  The mux is updated for the origin the
\* pipeline leaves, the stages are cleared, and the data source is not.
ResetChannels ==
    /\ restarts < MaxRestarts
    /\ ResetMidBlock \/ ~src.open
    /\ \E o \in 1..l1Origin :
          /\ l1Origin' = o /\ RetrievalSignal(o) /\ start' = o
    /\ done' = FALSE
    /\ QueueSignal /\ bank' = <<>> /\ AssemblerSignal /\ emitted' = <<>>
    /\ mux' = Stage(l1Origin)
    /\ eof' = FALSE
    /\ restarts' = restarts + 1
    /\ UNCHANGED <<l1Data, src>>

\* The pipeline after the reset that starts it, at L1 block 1.
ChannelInit ==
    /\ l1Data \in {<<b>> : b \in {<<>>} \cup {<<i>> : i \in Items}}
    /\ ItemsPosted <= MaxItems
    /\ l1Origin = 1 /\ done = FALSE /\ next = 1 /\ start = 1
    /\ src = ClosedSource
    /\ queue = <<>> /\ bank = <<>> /\ chan = <<>> /\ emitted = <<>>
    /\ mux = "bank"
    /\ restarts = 0 /\ eof = FALSE

ChannelNext == NextData \/ L1ReadFails \/ AdvanceTraversal \/ ResetChannels

-----------------------------------------------------------------------------
(* Properties                                                                *)

\* Every channel handed to ChannelReader is whole: the frames of one channel
\* numbered without gap from 0, of which the last and only the last closes
\* it, all read from L1 blocks within the channel timeout of the block that
\* opened it, and read no earlier than they were posted.
\* (Channel::is_ready, ChannelBank::read, ChannelAssembler::is_timed_out)
EmittedWhole ==
    \A k \in DOMAIN emitted :
        LET e == emitted[k]
            n == Cardinality(e.frames)
        IN  /\ n > 0
            /\ {f.num : f \in e.frames} = 0..(n - 1)
            /\ \A f \in e.frames :
                  /\ f.id = e.id
                  /\ f.last <=> f.num = n - 1
                  /\ f.blk \in e.open..e.at
            /\ e.at <= e.open + TimeoutBlocks

\* The frames of the L1 blocks the pipeline has read since it last started.
ReadFrames ==
    FlattenSeq([n \in 1..(l1Origin - start + 1) |->
        FlattenSeq([i \in DOMAIN l1Data[start + n - 1] |->
            Tagged(l1Data[start + n - 1][i], start + n - 1)])])

\* The frames of channel id at F make a channel that was posted properly: all
\* the frames 0..k once, the last closing it, within the timeout, and, since
\* Holocene, in order and without frames of other channels between them.
PostedWhole(F, id) ==
    LET at == {i \in DOMAIN F : F[i].id = id}
        k == Cardinality(at) - 1
    IN  /\ at # {}
        /\ {F[i].num : i \in at} = 0..k
        /\ \A i \in at : F[i].last <=> F[i].num = k
        /\ \A i, j \in at : F[i].blk <= F[j].blk + TimeoutBlocks
        /\ HoloceneStage(start) =>
              /\ at = Min(at)..Max(at)
              /\ \A i, j \in at : i < j => F[i].num < F[j].num

\* No channel is lost and none is made up: what is handed on is whole, and
\* once an L1 block is consumed, every channel posted
\* properly in the blocks read since the last start has been handed on,
\* whatever else was posted around it, as long as the bank never had to drop
\* channels for space.  (FrameQueue::prune, ChannelBank::read and ingest_frame,
\* ChannelAssembler::next_data)
NoChannelLost ==
    /\ EmittedWhole
    /\ eof /\ (HoloceneStage(start) \/ Canyon(start)) =>
        LET F == ReadFrames
        IN  FrameSize * Len(F) <= Min({MaxBankSize, MaxChannelSize}) =>
            \A id \in Ids : PostedWhole(F, id) =>
                \E e \in Range(emitted) :
                    e.frames = {F[i] : i \in {j \in DOMAIN F : F[j].id = id}}

\* What the data source serves are the transactions of the block that
\* L1Retrieval is reading.  (L1Retrieval::signal, DataAvailabilityProvider)
ReadsItsOrigin == src.open => src.block = next
=============================================================================
