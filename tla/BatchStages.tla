----------------------------- MODULE BatchStages -----------------------------
(***************************************************************************)
(* The upper half of the derivation pipeline: ChannelReader, BatchStream,  *)
(* the BatchProvider that muxes between BatchQueue (before Holocene) and   *)
(* BatchValidator (after it), AttributesQueue and DerivationPipeline::step,*)
(* with the validity rules of single and span batches.                     *)
(*                                                                         *)
(* The L2 chain is the sequence of its blocks after genesis, each the L1   *)
(* origin (epoch) and the user transactions it carries; the hash of a      *)
(* block is the chain that ends in it, and its timestamp follows from its  *)
(* number.  L1 does not reorg here: an epoch hash is right or wrong.       *)
(* The transactions of a block are one of "none" (no user transactions),   *)
(* valid payloads, "invalid" (a type no batch may carry) and "bad" (the    *)
(* engine rejects them).  Every L1 block carries at most one channel.      *)
(***************************************************************************)
EXTENDS Integers, Sequences, FiniteSets, SequencesExt, FiniteSetsExt

CONSTANTS
    Batches,         \* Batches[honest]: the batches a batcher may post
    Honest,          \* the chain an honest batcher posts, in order and in time
    MaxBatches,      \* bound: how many batches are posted
    MaxPerChannel,   \* bound: batches in a channel
    MaxL1,           \* bound: the last L1 block
    MaxL2,           \* bound: the length of the L2 chain
    MaxResets,       \* bound: resets the driver sends
    L2FetchFails,    \* may a request to the L2 chain provider fail?
    GenesisOrigin,   \* number of the L1 block the rollup starts from
    L1Start, L1Period,   \* the timestamp of L1 block n is L1Start + n * L1Period
    BlockTime,       \* RollupConfig::block_time
    MaxDrift,        \* RollupConfig::max_sequencer_drift
    SeqWindow,       \* RollupConfig::seq_window_size
    ChannelTimeout,  \* RollupConfig::channel_timeout
    DeltaTime, JovianTime,   \* hardfork activation timestamps
    HoloceneTimes    \* the activation timestamps of Holocene to check

ASSUME BatchBounds ==
    /\ {MaxBatches, MaxPerChannel, MaxL1, MaxL2, MaxResets, GenesisOrigin,
        L1Start, MaxDrift, ChannelTimeout} \subseteq Nat
    /\ {L1Period, BlockTime, SeqWindow} \subseteq Nat \ {0}
    /\ L2FetchFails \in BOOLEAN

VARIABLES
    l1,       \* l1[n + 1]: the channel (a sequence of batches) in L1 block n
    origin,   \* the origin of the pipeline
    passes,   \* how often L1Retrieval will still serve the origin's data
    taken,    \* is the data source open, its data taken?
    reader,   \* ChannelReader.next_batch: <<>> or the batches left, wrapped
    buffer,   \* BatchStream.buffer
    stage,    \* BatchQueue or BatchValidator
    attr,     \* AttributesQueue.batch, a sequence of at most one
    safe,     \* the L2 safe chain, the cursor of the pipeline
    why,      \* ghost: what each safe block was derived from
    res,      \* the result of the last step
    resets,   \* resets so far
    honest,   \* is the batcher honest?
    holocene, \* the activation timestamp of Holocene
    failed    \* ghost: has a request to the L2 chain provider failed?

batchVars == <<l1, origin, passes, taken, reader, buffer, stage, attr, safe,
               why, res, resets, honest, holocene, failed>>

L1Time(n) == L1Start + n * L1Period
L2Time(chain) == L1Time(GenesisOrigin) + BlockTime * Len(chain)
NextTime(chain) == L2Time(chain) + BlockTime
Epoch(chain) == IF chain = <<>> THEN GenesisOrigin ELSE Last(chain).epoch

HoloceneAt(t) == t >= holocene
Holocene(n) == HoloceneAt(L1Time(n))
FirstJovian(t) == t >= JovianTime /\ t < JovianTime + BlockTime

NoOrigin == -1
Window(l1s) == {l1s[i] : i \in DOMAIN l1s}

-----------------------------------------------------------------------------
(* SingleBatch::check_batch on the window l1s, safe chain head and inclusion *)
(* block incl.                                                               *)

CheckTimestamp(b, head, incl) ==
    IF b.ts > NextTime(head) THEN IF Holocene(incl) THEN "Drop" ELSE "Future"
    ELSE IF b.ts < NextTime(head) THEN IF Holocene(incl) THEN "Past" ELSE "Drop"
    ELSE "Accept"

\* The drift rule for a batch in epoch o of the window: "late" batches may
\* only be empty, and only if the next origin could not be adopted yet.
DriftCheck(ts, txs, o, advances, l1s, i) ==
    IF ts <= L1Time(o) + MaxDrift THEN "Accept"
    ELSE IF txs # "none" THEN "Drop"
    ELSE IF advances THEN "Accept"
    ELSE IF i + 1 > Len(l1s) THEN "Undecided"
    ELSE IF ts >= L1Time(l1s[i + 1]) THEN "Drop"
    ELSE "Accept"

MutCheckSingle(b, l1s, head, incl) ==
    IF l1s = <<>> THEN "Undecided"
    ELSE IF CheckTimestamp(b, head, incl) # "Accept" THEN CheckTimestamp(b, head, incl)
    ELSE "Accept"

CheckSingle(b, l1s, head, incl) ==
    IF l1s = <<>> THEN "Undecided"
    ELSE LET time == CheckTimestamp(b, head, incl)
             i == b.epoch - l1s[1] + 1
         IN  IF time # "Accept" THEN time
             ELSE IF \/ b.parent # head
                     \/ b.epoch + SeqWindow < incl
                     \/ i \notin 1..2
             THEN "Drop"
             ELSE IF i > Len(l1s) THEN "Undecided"
             ELSE IF \/ ~(b.canon /\ b.epoch = l1s[i])
                     \/ b.ts < L1Time(l1s[i])
             THEN "Drop"
             ELSE LET drift == DriftCheck(b.ts, b.txs, l1s[i],
                                          l1s[i] # l1s[1], l1s, 1)
                  IN  IF drift # "Accept" THEN drift
                      ELSE IF \/ FirstJovian(b.ts) /\ b.txs # "none"
                              \/ b.txs = "invalid"
                      THEN "Drop" ELSE "Accept"

-----------------------------------------------------------------------------
(* SpanBatch::check_batch_prefix and check_batch.  fails: the L2 chain       *)
(* provider does not answer.                                                 *)

MutSpanParent(b, head) ==
    IF b.blocks[1].ts < NextTime(head)
    THEN Len(head) - (L2Time(head) - b.blocks[1].ts) \div BlockTime
    ELSE Len(head)

\* The number of the block the span builds on.
SpanParent(b, head) ==
    IF b.blocks[1].ts < NextTime(head)
    THEN Len(head) - (L2Time(head) - b.blocks[1].ts) \div BlockTime - 1
    ELSE Len(head)

CheckPrefix(b, l1s, head, incl, fails) ==
    IF l1s = <<>> \/ b.blocks = <<>> THEN "Undecided"
    ELSE LET first == b.blocks[1]
             end == Last(b.blocks).epoch
             eager == first.epoch = l1s[1] + 1
             overlaps == first.ts < NextTime(head)
             p == SpanParent(b, head)
             parent == SubSeq(head, 1, p)
         IN  IF eager /\ Len(l1s) < 2 THEN "Undecided"
             ELSE IF L1Time(IF eager THEN l1s[2] ELSE l1s[1]) < DeltaTime THEN "Drop"
             ELSE IF first.ts > NextTime(head)
             THEN IF Holocene(incl) THEN "Drop" ELSE "Future"
             ELSE IF Last(b.blocks).ts < NextTime(head)
             THEN IF Holocene(incl) THEN "Past" ELSE "Drop"
             ELSE IF overlaps /\ \/ first.ts > L2Time(head)
                                 \/ (L2Time(head) - first.ts) % BlockTime # 0
             THEN "Drop"
             ELSE IF overlaps /\ (fails \/ p < 0) THEN "Undecided"
             ELSE IF \/ b.parent # parent
                     \/ first.epoch + SeqWindow < incl
                     \/ first.epoch > Epoch(parent) + 1
             THEN "Drop"
             ELSE IF end \notin Window(l1s) THEN "Undecided"
             ELSE IF ~b.canon \/ first.epoch < Epoch(parent) THEN "Drop"
             ELSE "Accept"

\* The position in the window of the epoch of the i-th block of a span; an
\* epoch that is not in the window leaves the position where it was.
OriginIndex(b, l1s, head) ==
    LET at[i \in 0..Len(b.blocks)] ==
            IF i = 0 THEN 1
            ELSE LET js == {j \in at[i - 1]..Len(l1s) : l1s[j] = b.blocks[i].epoch}
                 IN  IF b.blocks[i].ts <= L2Time(head) \/ js = {}
                     THEN at[i - 1] ELSE Min(js)
    IN  at

CheckSpanBlock(b, i, l1s, head) ==
    LET x == b.blocks[i]
        j == OriginIndex(b, l1s, head)[i]
        advances == IF i = 1
                    THEN x.epoch = Epoch(SubSeq(head, 1, SpanParent(b, head))) + 1
                    ELSE x.epoch > b.blocks[i - 1].epoch
        drift == DriftCheck(x.ts, x.txs, l1s[j], advances, l1s, j)
    IN  IF x.ts <= L2Time(head) THEN "Accept"
        ELSE IF x.ts < L1Time(l1s[j]) THEN "Drop"
        ELSE IF drift # "Accept" THEN drift
        ELSE IF x.txs = "invalid" THEN "Drop" ELSE "Accept"

CheckSpan(b, l1s, head, incl, fails) ==
    LET prefix == CheckPrefix(b, l1s, head, incl, fails)
        flawed == {i \in DOMAIN b.blocks : CheckSpanBlock(b, i, l1s, head) # "Accept"}
        p == SpanParent(b, head)
    IN  IF prefix # "Accept" THEN prefix
        ELSE IF flawed # {} THEN CheckSpanBlock(b, Min(flawed), l1s, head)
        ELSE IF p < Len(head) /\ fails THEN "Undecided"
        ELSE IF \E i \in 1..(Len(head) - p) :
                   \/ head[p + i].txs # b.blocks[i].txs
                   \/ head[p + i].epoch # b.blocks[i].epoch
        THEN "Drop" ELSE "Accept"

Check(b, l1s, head, fails) ==
    IF b.kind = "single" THEN CheckSingle(b, l1s, head, b.incl)
    ELSE CheckSpan(b, l1s, head, b.incl, fails)

\* SpanBatch::get_singular_batches on the blocks above the safe head; it
\* errs when an epoch is not in the window.
Fresh(b, head) == SelectSeq(b.blocks, LAMBDA x : x.ts > L2Time(head))

SingularsErr(b, l1s, head) ==
    \E i \in DOMAIN Fresh(b, head) : Fresh(b, head)[i].epoch \notin Window(l1s)

Singulars(b, head) ==
    [i \in DOMAIN Fresh(b, head) |->
        LET x == Fresh(b, head)[i]
        IN  [kind |-> "single", parent |-> <<>>, canon |-> TRUE,
             epoch |-> x.epoch, ts |-> x.ts, txs |-> x.txs,
             incl |-> b.incl]]

-----------------------------------------------------------------------------
(* ChannelReader::next_batch.  A reader is <<>> or <<batches>>.  The record  *)
(* carries the result and the state the call leaves.                         *)

Input(kind, batch, r, p, t) ==
    [kind |-> kind, batch |-> batch, reader |-> r, passes |-> p, taken |-> t]

Posted(b) ==
    IF b.kind = "single"
    THEN [kind |-> "single", parent |-> b.parent, canon |-> b.canon,
          epoch |-> b.epoch, ts |-> b.ts, txs |-> b.txs,
          incl |-> origin]
    ELSE [kind |-> "span", parent |-> b.parent, canon |-> b.canon,
          blocks |-> b.blocks, incl |-> origin]

ReaderNext ==
    LET channel == l1[origin + 1]
        empty == reader = <<>> /\ (passes = 0 \/ taken \/ channel = <<>>)
        batches == IF reader # <<>> THEN reader[1] ELSE channel
    IN  IF empty THEN Input("eof", <<>>, <<>>, Max({0, passes - 1}), FALSE)
        ELSE IF batches = <<>> THEN Input("more", <<>>, <<>>, passes, taken)
        ELSE Input("ok", Posted(Head(batches)), <<Tail(batches)>>, passes, TRUE)

-----------------------------------------------------------------------------
(* BatchStream::next_batch, flush                                            *)

Stream(in, kind, batch, r, buf) ==
    [kind |-> kind, batch |-> batch, reader |-> r, buffer |-> buf,
     passes |-> in.passes, taken |-> in.taken]

\* The stream pulls a batch unless it is active and has some buffered.
Pulls == ~Holocene(origin) \/ buffer = <<>>

\* A span batch whose prefix has verdict v is cut into its single batches.
StreamSpan(in, v, singles, l1s, head) ==
    IF v = "Drop" THEN Stream(in, "more", <<>>, <<>>, <<>>)
    ELSE IF v # "Accept" THEN Stream(in, "more", <<>>, in.reader, buffer)
    ELSE IF SingularsErr(in.batch, l1s, head)
    THEN Stream(in, "crit", <<>>, in.reader, buffer)
    ELSE IF singles = <<>> THEN Stream(in, "more", <<>>, in.reader, <<>>)
    ELSE Stream(in, "ok", Head(singles), in.reader, Tail(singles))

StreamNext(in, l1s, head, fails) ==
    IF ~Pulls
    THEN [kind |-> "ok", batch |-> Head(buffer), reader |-> reader,
          buffer |-> Tail(buffer), passes |-> passes, taken |-> taken]
    ELSE IF in.kind # "ok" \/ ~Holocene(origin) \/ in.batch.kind = "single"
    THEN Stream(in, in.kind, in.batch, in.reader, buffer)
    ELSE StreamSpan(in, CheckPrefix(in.batch, l1s, head, origin, fails),
                    Singulars(in.batch, head), l1s, head)

\* flush, which only acts while the stream is active
Flushed(in) ==
    IF Holocene(origin) THEN [in EXCEPT !.reader = <<>>, !.buffer = <<>>] ELSE in

-----------------------------------------------------------------------------
(* What the two batch stages share: the window of L1 blocks and the empty    *)
(* batches that fill an epoch whose sequencing window expired.               *)

OriginBehind(head) == origin < Epoch(head)

\* Push the new origin on the window, or clear it while behind the safe head.
TrackOrigin(st, head) ==
    IF st.origin = origin THEN st
    ELSE [st EXCEPT !.origin = origin,
                    !.l1_blocks = IF OriginBehind(head) THEN <<>>
                                  ELSE Append(@, origin)]

\* Drop the blocks before the epoch of the safe head, if that is in the window.
AdvanceEpoch(st, head) ==
    LET w == st.l1_blocks
        at == {i \in DOMAIN w : w[i] = Epoch(head)}
    IN  IF w = <<>> THEN st
        ELSE IF Epoch(head) <= w[1] \/ at = {} THEN st
        ELSE [st EXCEPT !.l1_blocks = SubSeq(w, Min(at), Len(w))]

EpochMismatch(st, head) ==
    Epoch(head) # st.l1_blocks[1] /\ Epoch(head) # st.l1_blocks[1] - 1

Untouched == [kind |-> "ok", batch |-> <<>>, reader |-> reader, buffer |-> buffer,
              passes |-> passes, taken |-> taken]

Result(kind, batch, st, in) ==
    [kind |-> kind, batch |-> batch, stage |-> st, in |-> in]

EmptyBatch(st, head) ==
    [kind |-> "single", parent |-> head, canon |-> TRUE,
     epoch |-> st.l1_blocks[1], ts |-> NextTime(head), txs |-> "none",
     incl |-> st.origin]

MutForceEmpty(st, head, in, expired) ==
    LET w == st.l1_blocks
    IN  IF ~expired \/ Len(w) < 2 THEN Result("eof", <<>>, st, in)
        ELSE IF NextTime(head) < L1Time(w[2]) \/ w[1] = Epoch(head) + 1
        THEN Result("forced", EmptyBatch(st, head), st, in)
        ELSE Result("eof", <<>>, st, in)

\* try_derive_empty_batch and the end of derive_next_batch
ForceEmpty(st, head, in, expired) ==
    LET w == st.l1_blocks
    IN  IF ~expired \/ Len(w) < 2 THEN Result("eof", <<>>, st, in)
        ELSE IF NextTime(head) < L1Time(w[2]) \/ w[1] = Epoch(head) + 1
        THEN Result("forced", EmptyBatch(st, head), st, in)
        ELSE Result("eof", <<>>, [st EXCEPT !.l1_blocks = Tail(@)], in)

-----------------------------------------------------------------------------
(* BatchValidator::next_batch                                                *)

ValidatorStage(st, head) == AdvanceEpoch(TrackOrigin(st, head), head)

ValidatorBatch(st, in, b, v) ==
    IF v = "Accept" THEN Result("ok", b, st, in)
    ELSE IF v = "Drop" THEN Result("more", <<>>, st, Flushed(in))
    ELSE IF v = "Future" THEN Result("crit", <<>>, st, in)
    ELSE Result("more", <<>>, st, in)

\* st: the stage with its origins updated; in: what the stream yields.
ValidatorNext(st, in, head) ==
    IF OriginBehind(head) \/ Epoch(head) = origin
    THEN Result(IF in.kind = "ok" THEN "more" ELSE in.kind, <<>>, st, in)
    ELSE IF Len(st.l1_blocks) < 2 THEN Result("crit", <<>>, st, Untouched)
    ELSE IF EpochMismatch(st, head) THEN Result("reset", <<>>, st, Untouched)
    ELSE IF in.kind = "eof"
    THEN ForceEmpty(st, head, in, st.l1_blocks[1] + SeqWindow <= st.origin)
    ELSE IF in.kind # "ok" THEN Result(in.kind, <<>>, st, in)
    ELSE LET b == [in.batch EXCEPT !.parent = head]
         IN  ValidatorBatch(st, in, b, CheckSingle(b, st.l1_blocks, head, st.origin))

-----------------------------------------------------------------------------
(* BatchQueue: add_batch, derive_next_batch, next_batch.  The queue only     *)
(* runs while Holocene is inactive at the origin, where flush does nothing.  *)

AddBatch(st, b, head, fails) ==
    IF Check(b, st.l1_blocks, head, fails) \in {"Drop", "Past"} THEN st
    ELSE [st EXCEPT !.batches = Append(@, b)]

Verdicts(st, head, fails) ==
    [i \in DOMAIN st.batches |-> Check(st.batches[i], st.l1_blocks, head, fails)]

Kept(st, v, n) ==
    LET future == SelectSeq([i \in 1..n |-> i], LAMBDA i : v[i] = "Future")
    IN  [i \in DOMAIN future |-> st.batches[future[i]]]

\* v: the verdicts on the queued batches.  stops: the batches at which the
\* scan ends.
DeriveNext(st, v, stops, head, in) ==
    LET bs == st.batches
        expiry == st.l1_blocks[1] + SeqWindow
    IN  IF st.l1_blocks = <<>> THEN Result("crit", <<>>, st, in)
        ELSE IF EpochMismatch(st, head) THEN Result("reset", <<>>, st, in)
        ELSE IF stops = {}
        THEN ForceEmpty([st EXCEPT !.batches = Kept(st, v, Len(bs))], head, in,
                        expiry < st.origin \/ (expiry = st.origin /\ in.kind = "eof"))
        ELSE LET i == Min(stops)
             IN  CASE v[i] = "Accept" ->
                        Result("ok", bs[i],
                               [st EXCEPT !.batches = Kept(st, v, i - 1)
                                                      \o SubSeq(bs, i + 1, Len(bs))], in)
                   [] v[i] = "Undecided" ->
                        Result("eof", <<>>,
                               [st EXCEPT !.batches = Kept(st, v, i - 1)
                                                      \o SubSeq(bs, i, Len(bs))], in)
                   [] v[i] = "Past" -> Result("crit", <<>>, st, in)

\* The first block of an accepted span, the others are cached.
PopSpan(st, spans, head, in) ==
    Result("ok", [Head(spans) EXCEPT !.parent = head],
           [st EXCEPT !.next_spans = Tail(spans)], in)

\* The answer to the caller once derive_next_batch returned d.
QueueAnswer(d, head, in) ==
    IF d.kind = "eof" /\ in.kind # "eof" THEN [d EXCEPT !.kind = "more"]
    ELSE IF d.kind # "ok" \/ d.batch.kind = "single" THEN d
    ELSE IF SingularsErr(d.batch, d.stage.l1_blocks, head)
    THEN Result("crit", <<>>, d.stage, in)
    ELSE PopSpan(d.stage, Singulars(d.batch, head), head, in)

CachedNext(st, head) ==
    st.next_spans # <<>> /\ Head(st.next_spans).ts = NextTime(head)

QueueStage(st, head) ==
    IF CachedNext(st, head) THEN st
    ELSE TrackOrigin(AdvanceEpoch([st EXCEPT !.next_spans = <<>>], head), head)

QueueAdded(st, in, head, fails) ==
    IF in.kind = "ok" /\ ~OriginBehind(head) THEN AddBatch(st, in.batch, head, fails)
    ELSE st

\* st: the stage with its origins updated and the batch the stream yields, in,
\* added.
QueueNext(st, in, v, head) ==
    IF CachedNext(st, head) THEN PopSpan(st, st.next_spans, head, Untouched)
    ELSE IF in.kind \notin {"ok", "eof"} THEN Result(in.kind, <<>>, st, in)
    ELSE IF OriginBehind(head)
    THEN Result(IF in.kind = "eof" THEN "eof" ELSE "more", <<>>, st, in)
    ELSE QueueAnswer(
            DeriveNext(st, v, {i \in DOMAIN v : v[i] \in {"Accept", "Undecided", "Past"}},
                       head, in),
            head, in)

-----------------------------------------------------------------------------
(* BatchProvider::attempt_update, next_batch.  A new stage keeps the window  *)
(* of the one it replaces and starts without an origin.                      *)

Mode(n) == IF Holocene(n) THEN "validator" ELSE "queue"

Active(st, n) ==
    IF st.mode = Mode(n) THEN st
    ELSE [mode |-> Mode(n), origin |-> NoOrigin, l1_blocks |-> st.l1_blocks,
          batches |-> <<>>, next_spans |-> <<>>]

\* The stage once it has followed the origin, before it asks for a batch.
FollowOrigin(st, head) ==
    IF Holocene(origin) THEN ValidatorStage(st, head) ELSE QueueStage(st, head)

\* The answers next_batch may give to a caller at the safe head: exactly one,
\* computed from the reader up.
NextBatch(head, fails) ==
    UNION {UNION {UNION {UNION {
        {IF Holocene(origin) THEN ValidatorNext(st, in, head)
         ELSE QueueNext(q, in, Verdicts(q, head, fails), head) :
            q \in {IF Holocene(origin) \/ CachedNext(st, head) THEN st
                   ELSE QueueAdded(st, in, head, fails)}} :
        in \in {StreamNext(rd, st.l1_blocks, head, fails)}} :
        rd \in {IF Pulls THEN ReaderNext ELSE Untouched}} :
        st \in {FollowOrigin(Active(stage, origin), head)}}}

-----------------------------------------------------------------------------
(* AttributesQueue, DerivationPipeline::step and the driver, which executes  *)
(* the attributes of a step on the safe head: Driver::advance_to_target.     *)

Loads(r) ==
    /\ stage' = r.stage
    /\ reader' = r.in.reader
    /\ buffer' = r.in.buffer
    /\ passes' = r.in.passes
    /\ taken' = r.in.taken

\* What a signal does to ChannelReader, BatchStream and AttributesQueue, and
\* Signal::Reset to the batch stage.
ReaderSignal == reader' = <<>>
StreamSignal == buffer' = <<>>
AttributesSignal == attr' = <<>>

StageReset(o) ==
    stage' = [mode |-> Mode(origin), origin |-> o, l1_blocks |-> <<o>>,
              batches |-> <<>>, next_spans |-> <<>>]

\* Signal::FlushChannel on the stages as the step left them.
FlushChannel(st) ==
    /\ stage' = LET a == Active(st, origin)
                IN  [a EXCEPT !.batches = <<>>, !.next_spans = <<>>]
    /\ ReaderSignal
    /\ StreamSignal

\* A block whose execution fails is discarded before Holocene; afterwards the
\* channel is flushed and the block is built from its deposits alone.
Executed(b, forced, st, rd, buf) ==
    /\ res' = "attrs"
    /\ attr' = <<>>
    /\ IF b.txs = "bad" /\ ~HoloceneAt(b.ts) THEN UNCHANGED <<safe, why>>
       ELSE /\ safe' = Append(safe, [epoch |-> b.epoch,
                                     txs |-> IF b.txs = "bad" THEN "none" ELSE b.txs])
            /\ why' = Append(why, [forced |-> forced, incl |-> b.incl,
                                   ts |-> b.ts, txs |-> b.txs])
    /\ IF b.txs = "bad" /\ HoloceneAt(b.ts) THEN FlushChannel(st)
       ELSE stage' = st /\ reader' = rd /\ buffer' = buf

\* create_next_attributes refuses a batch that does not extend the cursor.
Extends(b) == b.parent = safe /\ b.ts = NextTime(safe)

\* A step that loads no batch, or one that AttributesQueue refuses.
StepWithout(r) ==
    LET loaded == r.kind \in {"ok", "forced"}
    IN  /\ loaded => ~Extends(r.batch)
        /\ Loads(r)
        /\ attr' = IF loaded THEN <<[batch |-> r.batch, forced |-> r.kind = "forced"]>>
                   ELSE <<>>
        /\ res' = IF loaded THEN "reset" ELSE r.kind
        /\ UNCHANGED <<safe, why>>

\* A step that loads a batch whose attributes cannot be built for now.
StepPrepareFails(r) ==
    /\ r.kind \in {"ok", "forced"} /\ Extends(r.batch)
    /\ Loads(r)
    /\ attr' = <<[batch |-> r.batch, forced |-> r.kind = "forced"]>>
    /\ res' = "more"
    /\ UNCHANGED <<safe, why>>

\* A step that loads a batch and yields attributes.
StepDerives(r) ==
    /\ r.kind \in {"ok", "forced"} /\ Extends(r.batch)
    /\ Len(safe) < MaxL2
    /\ Executed(r.batch, r.kind = "forced", r.stage, r.in.reader, r.in.buffer)
    /\ passes' = r.in.passes /\ taken' = r.in.taken

\* May the step ask the L2 chain provider?  Only the check of a span batch
\* that overlaps the safe chain does.
Asks ==
    \E b \in Range(stage.batches)
             \cup (IF ReaderNext.kind = "ok" THEN {ReaderNext.batch} ELSE {}) :
        b.kind = "span" /\ b.blocks[1].ts < NextTime(safe)

Step ==
    /\ res \notin {"reset", "crit"} /\ attr = <<>>
    /\ \E fails \in {FALSE, L2FetchFails /\ Asks} :
         /\ failed' = (failed \/ fails)
         /\ \E r \in NextBatch(safe, fails) :
               StepWithout(r) \/ StepPrepareFails(r) \/ StepDerives(r)
    /\ UNCHANGED <<l1, origin, resets, honest, holocene>>

\* A step on the batch AttributesQueue still holds; its attributes may still
\* be impossible to build.
StepHeld ==
    /\ res \notin {"reset", "crit"} /\ attr # <<>>
    /\ \/ /\ res' = "more"
          /\ UNCHANGED <<safe, why, attr, stage, reader, buffer>>
       \/ /\ Len(safe) < MaxL2
          /\ Executed(attr[1].batch, attr[1].forced, stage, reader, buffer)
    /\ UNCHANGED <<l1, origin, passes, taken, resets, honest, holocene, failed>>

-----------------------------------------------------------------------------
(* The batcher, the L1 chain and the driver                                  *)

BatchesPosted == MapThenSumSet(LAMBDA n : Len(l1[n]), DOMAIN l1)

Blocks(b) ==
    IF b.kind = "span" THEN b.blocks
    ELSE <<[epoch |-> b.epoch, ts |-> b.ts, txs |-> b.txs]>>

\* How much of the honest chain the channels so far cover.
NumberOf(ts) == (ts - L1Time(GenesisOrigin)) \div BlockTime
Covered(channels) ==
    LET all == FlattenSeq(channels)
    IN  Max({0} \cup {NumberOf(Last(Blocks(all[i])).ts) : i \in DOMAIN all})

\* A batch can name the L1 blocks before the one that includes it.
Postable(b, n) ==
    b.canon => \A i \in DOMAIN Blocks(b) : Blocks(b)[i].epoch < n

\* An honest batcher posts the honest chain in order, leaving no gap, and in
\* time; it may post again what it posted before.
HonestPost(channel, n) ==
    \A k \in DOMAIN channel :
        LET first == Blocks(channel[k])[1]
        IN  /\ IsPrefix(channel[k].parent, Honest) /\ channel[k].canon
            /\ \A i \in DOMAIN Blocks(channel[k]) :
                 LET x == Blocks(channel[k])[i]
                 IN  Honest[NumberOf(x.ts)] = [epoch |-> x.epoch, txs |-> x.txs]
            /\ NumberOf(first.ts) <= Covered(l1 \o <<SubSeq(channel, 1, k - 1)>>) + 1
            /\ first.epoch + SeqWindow >= n

NewBlock ==
    \E len \in 0..MaxPerChannel : \E channel \in [1..len -> Batches[honest]] :
        /\ BatchesPosted + len <= MaxBatches
        /\ \A k \in DOMAIN channel : Postable(channel[k], Len(l1))
        /\ honest => HonestPost(channel, Len(l1))
        /\ l1' = Append(l1, channel)

\* After Eof the step advances the origin.  On the first Holocene block the
\* driver sends the activation signal.
AdvanceOrigin ==
    /\ res = "eof" /\ origin < MaxL1
    /\ IF origin + 1 < Len(l1) THEN UNCHANGED l1 ELSE NewBlock
    /\ origin' = origin + 1
    /\ res' = "advanced"
    /\ taken' = FALSE
    /\ IF ~Holocene(origin) /\ Holocene(origin + 1)
       THEN /\ passes' = 2
            /\ stage' = Active(stage, origin + 1)
            /\ ReaderSignal /\ StreamSignal /\ AttributesSignal
       ELSE /\ passes' = 1
            /\ stage' = Active(stage, origin)
            /\ UNCHANGED <<reader, buffer, attr>>
    /\ UNCHANGED <<safe, why, resets, honest, holocene, failed>>

ResetOrigin(head) == Max({0, Epoch(head) - ChannelTimeout})

\* Signal::Reset with the safe head the engine reset found.  The provider
\* picks its stage for the origin it leaves; the data source is not cleared.
Reset ==
    /\ resets < MaxResets \/ res = "reset"
    /\ resets' = Min({resets + 1, MaxResets})
    /\ \E k \in 0..Len(safe) :
         LET o == ResetOrigin(SubSeq(safe, 1, k))
         IN  /\ safe' = SubSeq(safe, 1, k)
             /\ why' = SubSeq(why, 1, k)
             /\ origin' = o
             /\ StageReset(o)
    /\ passes' = 2
    /\ ReaderSignal /\ StreamSignal /\ AttributesSignal
    /\ res' = "signal"
    /\ UNCHANGED <<l1, taken, honest, holocene, failed>>

\* The pipeline after its first reset.  Its origin was the default block,
\* with timestamp 0, when that reset chose the active stage.
BatchInit ==
    /\ honest \in BOOLEAN /\ holocene \in HoloceneTimes /\ failed = FALSE
    /\ origin = ResetOrigin(<<>>)
    /\ l1 = [n \in 1..(GenesisOrigin + 1) |-> <<>>]
    /\ passes = 2 /\ taken = FALSE
    /\ reader = <<>> /\ buffer = <<>> /\ attr = <<>>
    /\ safe = <<>> /\ why = <<>>
    /\ stage = [mode |-> IF holocene = 0 THEN "validator" ELSE "queue",
                origin |-> origin, l1_blocks |-> <<origin>>,
                batches |-> <<>>, next_spans |-> <<>>]
    /\ res = "signal" /\ resets = 0

BatchNext ==
    Step \/ StepHeld \/ AdvanceOrigin \/ Reset


-----------------------------------------------------------------------------
(* Properties                                                                *)

\* Every derived block is justified.  Either it comes from a batch of the L1
\* block it was derived at, included after its epoch and before the
\* sequencing window of the epoch closed, or it is empty and the window of
\* its epoch had expired.  The chain moves through the epochs without skipping
\* one, is never older than its L1 origin, and carries user transactions only
\* within the sequencer drift.  (SingleBatch and SpanBatch::check_batch,
\* BatchQueue::derive_next_batch, BatchValidator::try_derive_empty_batch)
SafeJustified ==
    \A k \in DOMAIN safe :
        LET head == SubSeq(safe, 1, k - 1)
            x == safe[k]
            w == why[k]
        IN  /\ x.epoch \in {Epoch(head), Epoch(head) + 1}
            /\ NextTime(head) >= L1Time(x.epoch)
            /\ x.txs # "none" => NextTime(head) <= L1Time(x.epoch) + MaxDrift
            /\ IF w.forced
               THEN x.txs = "none" /\ x.epoch + SeqWindow <= w.incl
               ELSE /\ x.epoch < w.incl /\ w.incl <= x.epoch + SeqWindow
                    /\ \E c \in DOMAIN l1[w.incl + 1] :
                         \E i \in DOMAIN Blocks(l1[w.incl + 1][c]) :
                            LET y == Blocks(l1[w.incl + 1][c])[i]
                            IN  y.epoch = x.epoch /\ y.ts = w.ts /\ y.txs = w.txs

\* The safe chain keeps up with L1 whatever is posted.  No legal sequence of
\* steps, signals and L1 data brings the stages to a state they report as
\* critical or inconsistent: the window of L1 blocks always reaches from the
\* epoch of the safe head to the origin, and a loaded batch always extends
\* the cursor.  And when an L1 block is consumed, the epoch of the safe head
\* is at most a sequencing window behind it, as long as the L2 chain provider
\* answers.  (BatchQueue::add_batch, BatchValidator::next_batch and the forced
\* empty batches)
KeepsUp ==
    /\ res \notin {"crit", "reset"}
    /\ ~failed /\ res = "eof" => origin <= Epoch(safe) + SeqWindow

\* Up to the first forced empty block the safe chain is a prefix of the honest
\* chain; that empty block replaces nothing posted by then; and without one,
\* the chain contains everything posted in the blocks consumed.
DerivesHonest ==
    LET forced == {k \in DOMAIN why : why[k].forced}
        n == IF forced = {} THEN Len(safe) ELSE Min(forced) - 1
        upTo(o) == Covered(SubSeq(l1, 1, o + 1))
    IN  /\ IsPrefix(SubSeq(safe, 1, n), Honest)
        /\ IF forced # {} THEN upTo(why[n + 1].incl) <= n
           ELSE res = "eof" => n >= Min({MaxL2, upTo(origin)})

\* What an honest batcher posts is what is derived, across resets, spans posted
\* again and the Holocene activation, as long as the L2 chain provider answers.
\* (next_batch, from ChannelReader to BatchProvider)
HonestChainDerived == honest /\ ~failed => DerivesHonest
=============================================================================
