------------------------------ MODULE SpanCodec ------------------------------
(***************************************************************************)
(* The format of batches: SpanBatch as a batcher builds it block by block, *)
(* its raw form, the encoding of both batch types, and the BatchReader     *)
(* that reads them back from a channel.                                    *)
(*                                                                         *)
(* An encoding is a sequence of tokens: a varint, a hash prefix, the r and *)
(* s of a signature, an address and the RLP of a transaction's data are    *)
(* one token each, a bitlist is a sequence of bytes.  How the batcher      *)
(* (external) cuts its blocks into batches and compresses the channel is   *)
(* left open.                                                              *)
(***************************************************************************)
EXTENDS Integers, SequencesExt, FiniteSetsExt

CONSTANTS ChainId, BlockTime, GenesisTime, FjordTime,
          MaxElements,   \* MAX_SPAN_BATCH_ELEMENTS
          MaxRlp,        \* max_rlp_bytes_per_channel
          NoAddress,     \* the recipient of a contract creation
          Chains,        \* the chains to post: sequences of [epoch, txs]
          MaxBatches     \* bound: batches in a channel

(***************************************************************************)
(* SpanBatchBits: a big-endian integer in as many bytes as the highest bit *)
(* set so far needed.                                                      *)
(***************************************************************************)
Bytes(n) == n \div 8 + (IF n % 8 # 0 THEN 1 ELSE 0)
Zeroes(n) == [i \in 1..n |-> 0]
Covers(bits, i) == i \div 8 < Len(bits)
GetBit(bits, i) == (bits[Len(bits) - i \div 8] \div 2^(i % 8)) % 2

SetBit(bits, i, value) ==
    LET wide == IF Covers(bits, i) THEN bits ELSE Zeroes(i \div 8 + 1 - Len(bits)) \o bits
    IN  [wide EXCEPT ![Len(wide) - i \div 8] =
            @ + ((IF value THEN 1 ELSE 0) - GetBit(wide, i)) * 2^(i % 8)]

Ones(bits) == {i \in 0..(8 * Len(bits) - 1) : GetBit(bits, i) = 1}
BitLen(bits) == Max({0} \cup {i + 1 : i \in Ones(bits)})
EncodeBits(bits, n) == Zeroes(Bytes(n) - Len(bits)) \o bits

(***************************************************************************)
(* SpanBatchTransactions: the transactions of all blocks, column by        *)
(* column.  A transaction is [type, protected, chain, to, nonce, gas,      *)
(* parity, rs, body]; legacy ones need not be protected, and only those    *)
(* have a protected bit.                                                   *)
(***************************************************************************)
NoTxs == [total |-> 0, legacy |-> 0, creation |-> <<>>, protected |-> <<>>,
          sigs |-> <<>>, tos |-> <<>>, data |-> <<>>, nonces |-> <<>>, gases |-> <<>>]

Types == {"legacy", "eip2930", "eip1559", "eip7702"}

\* add_txs: stops at the first transaction it cannot represent, with the
\* columns half filled.
AddTxs(txs, new) ==
    LET Protect(t, tx) ==
            IF tx.type # "legacy" THEN t
            ELSE [t EXCEPT !.protected = SetBit(@, t.legacy, tx.protected), !.legacy = @ + 1]
        Push(t, tx, i) ==
            [t EXCEPT !.creation = SetBit(@, txs.total + i - 1, tx.to = NoAddress),
                      !.tos = IF tx.to = NoAddress THEN @ ELSE Append(@, tx.to),
                      !.sigs = Append(@, [parity |-> tx.parity, rs |-> tx.rs]),
                      !.data = Append(@, [type |-> tx.type, body |-> tx.body]),
                      !.nonces = Append(@, tx.nonce), !.gases = Append(@, tx.gas)]
        Add(acc, i) ==
            LET tx == new[i] IN
            IF ~acc.ok \/ tx.type \notin Types THEN [acc EXCEPT !.ok = FALSE]
            ELSE IF tx.protected /\ tx.chain # ChainId
            THEN [ok |-> FALSE, txs |-> Protect(acc.txs, tx)]
            ELSE [ok |-> TRUE, txs |-> Push(Protect(acc.txs, tx), tx, i)]
        end == FoldLeftDomain(Add, [ok |-> TRUE, txs |-> txs], new)
    IN  IF end.ok THEN [end EXCEPT !.txs.total = @ + Len(new)] ELSE end

Creates(t, i) == GetBit(t.creation, i - 1) = 1

\* The i-th transaction takes the next recipient if it is not a creation, and
\* the next protected bit if it is a legacy one.
Recipient(t, i) == t.tos[Cardinality({j \in 1..i : ~Creates(t, j)})]

MutProtectedIndex(t, i) == i - 1
ProtectedIndex(t, i) == Cardinality({j \in 1..(i - 1) : t.data[j].type = "legacy"})

IsProtected(t, i) ==
    t.data[i].type = "legacy" =>
        LET bit == ProtectedIndex(t, i) IN Covers(t.protected, bit) /\ GetBit(t.protected, bit) = 1

\* to_signed_tx: a set-code transaction cannot create a contract.
Signable(t, i) == t.data[i].type = "eip7702" => ~Creates(t, i)

ToSignedTx(t, i) ==
    [type |-> t.data[i].type, body |-> t.data[i].body,
     protected |-> IsProtected(t, i), chain |-> IF IsProtected(t, i) THEN ChainId ELSE 0,
     to |-> IF Creates(t, i) THEN NoAddress ELSE Recipient(t, i),
     nonce |-> t.nonces[i], gas |-> t.gases[i], parity |-> t.sigs[i].parity, rs |-> t.sigs[i].rs]

\* full_txs
FullTxs(t) ==
    IF \E i \in 1..t.total : ~Signable(t, i) THEN [error |-> "InvalidTransactionData"]
    ELSE [txs |-> [i \in 1..t.total |-> ToSignedTx(t, i)]]

Parities(t) == FoldLeftDomain(LAMBDA bits, i : SetBit(bits, i - 1, t.sigs[i].parity), <<>>, t.sigs)

EncodeTxs(t) ==
    EncodeBits(t.creation, t.total) \o EncodeBits(Parities(t), t.total)
    \o [i \in DOMAIN t.sigs |-> t.sigs[i].rs]
    \o t.tos \o t.data \o t.nonces \o t.gases \o EncodeBits(t.protected, t.legacy)

\* Reads total transactions from s.
DecodeTxs(s, total) ==
    LET Part(at, n) == SubSeq(s, at + 1, at + n)
        creation == Part(0, Bytes(total))
        parities == Part(Bytes(total), Bytes(total))
        sigsAt == 2 * Bytes(total)
        tosAt == sigsAt + total
        dataAt == tosAt + total - Cardinality(Ones(creation))
        data == Part(dataAt, total)
        legacy == Len(SelectSeq(data, LAMBDA d : d.type = "legacy"))
        protected == Part(dataAt + 3 * total, Bytes(legacy))
    IN  IF BitLen(creation) > total \/ BitLen(parities) > total \/ BitLen(protected) > legacy
        THEN [error |-> "BitfieldTooLong"]
        ELSE [txs |-> [total |-> total, legacy |-> legacy, creation |-> creation, protected |-> protected,
                       sigs |-> [i \in 1..total |-> [parity |-> GetBit(parities, i - 1) = 1, rs |-> s[sigsAt + i]]],
                       tos |-> Part(tosAt, dataAt - tosAt), data |-> data,
                       nonces |-> Part(dataAt + total, total), gases |-> Part(dataAt + 2 * total, total)]]

(***************************************************************************)
(* SpanBatch: a batcher appends its blocks one by one.                     *)
(***************************************************************************)
NoSpan == [parentCheck |-> 0, originCheck |-> 0, batches |-> <<>>, originBits |-> <<>>,
           counts |-> <<>>, txs |-> NoTxs]

\* append_singular_batch
AppendSingularBatch(span, batch, seqNum) ==
    LET n == Len(span.batches)
        advances == IF n = 0 THEN seqNum = 0 ELSE span.batches[n].epoch < batch.epoch
        added == AddTxs(span.txs, batch.txs)
    IN  [ok |-> added.ok,
         span |-> [parentCheck |-> IF n = 0 THEN batch.parent ELSE span.parentCheck,
                   originCheck |-> batch.epochHash,
                   batches |-> Append(span.batches, [epoch |-> batch.epoch, time |-> batch.time, txs |-> batch.txs]),
                   originBits |-> SetBit(span.originBits, n, advances),
                   counts |-> Append(span.counts, Len(batch.txs)),
                   txs |-> added.txs]]

\* to_raw_span_batch, and the encodings of the prefix and the payload.
EncodeSpan(span) ==
    <<Head(span.batches).time - GenesisTime, Last(span.batches).epoch, span.parentCheck, span.originCheck,
      Len(span.batches)>>
    \o EncodeBits(span.originBits, Len(span.batches)) \o span.counts \o EncodeTxs(span.txs)

\* RawSpanBatch::decode and derive: the origin of the last block is in the
\* prefix, those before it are found going back.
Derive(s) ==
    LET n == s[5]
        origins == SubSeq(s, 6, 5 + Bytes(n))
        countsAt == 5 + Bytes(n)
        counts == SubSeq(s, countsAt + 1, countsAt + n)
        Before(i) == FoldFunctionOnSet(+, 0, counts, 1..i)
        txs == DecodeTxs(SubSeq(s, countsAt + n + 1, Len(s)), Before(n))
        Epoch(i) == s[2] - Cardinality({j \in (i + 1)..n : GetBit(origins, j - 1) = 1})
        TxsOf(all, i) == SubSeq(all, Before(i - 1) + 1, Before(i))
    IN  IF n = 0 \/ n > MaxElements \/ BitLen(origins) > n \/ Before(n) > MaxElements
        THEN [error |-> "TooBigSpanBatchSize"]
        ELSE IF "error" \in DOMAIN txs THEN txs
        ELSE LET full == FullTxs(txs.txs)
             IN  IF "error" \in DOMAIN full THEN full
                 ELSE [parentCheck |-> s[3], originCheck |-> s[4],
                       batches |-> [i \in 1..n |-> [epoch |-> Epoch(i),
                                                    time |-> GenesisTime + s[1] + BlockTime * (i - 1),
                                                    txs |-> TxsOf(full.txs, i)]]]

(***************************************************************************)
(* Batch: the type, then the batch; a single batch is the RLP of its       *)
(* fields.                                                                 *)
(***************************************************************************)
EncodeBatch(batch) ==
    IF batch.type = "single" THEN <<0, batch.block>> ELSE <<1>> \o EncodeSpan(batch.span)

DecodeBatch(s) == IF Head(s) = 0 THEN [block |-> s[2]] ELSE Derive(Tail(s))

TimeOf(decoded) == IF "block" \in DOMAIN decoded THEN decoded.block.time ELSE decoded.batches[1].time

-----------------------------------------------------------------------------
VARIABLES chain,     \* the blocks to post
          posted,    \* how many of them are in a batch of this or an earlier channel
          span,      \* the span batch being built
          channel,   \* the batches of the channel: [blocks, bytes]
          reader,    \* BatchReader, and whether it has returned None
          read       \* the batches read from it

codecVars == <<chain, posted, span, channel, reader, read>>

NoReader == [data |-> "none", length |-> 0, decompressed |-> <<>>, cursor |-> 0, brotli |-> FALSE, ended |-> FALSE]

\* The i-th block as a SingleBatch, and its sequence number in its epoch.
Block(i) == [parent |-> i - 1, epoch |-> chain[i].epoch, epochHash |-> chain[i].epoch,
             time |-> GenesisTime + BlockTime * i, txs |-> chain[i].txs]
SeqNum(i) == Cardinality({j \in 2..i : chain[j].epoch = chain[i].epoch /\ chain[j - 1].epoch = chain[i].epoch})

\* A span batch that fails to take a block is half changed and given up.
AppendBlock ==
    /\ reader = NoReader /\ posted < Len(chain) /\ Len(channel) < MaxBatches
    /\ LET new == AppendSingularBatch(span, Block(posted + 1), SeqNum(posted + 1))
       IN  span' = IF new.ok THEN new.span ELSE NoSpan
    /\ posted' = posted + 1
    /\ UNCHANGED <<chain, channel, reader, read>>

AddBatch(batch, blocks) ==
    channel' = Append(channel, [blocks |-> blocks, bytes |-> EncodeBatch(batch)])

FinishSpan ==
    /\ reader = NoReader /\ span # NoSpan
    /\ AddBatch([type |-> "span", span |-> span], span.batches)
    /\ span' = NoSpan
    /\ UNCHANGED <<chain, posted, reader, read>>

PostSingle ==
    /\ reader = NoReader /\ span = NoSpan /\ posted < Len(chain) /\ Len(channel) < MaxBatches
    /\ AddBatch([type |-> "single", block |-> Block(posted + 1)], <<Block(posted + 1)>>)
    /\ posted' = posted + 1
    /\ UNCHANGED <<chain, span, reader, read>>

Size == FoldLeft(LAMBDA sum, b : sum + Len(b.bytes), 0, channel)

\* BatchReader::new, on the channel compressed to a number of bytes.
Open ==
    /\ reader = NoReader /\ span = NoSpan /\ channel # <<>>
    /\ \E compression \in {"zlib", "brotli", "unknown"}, length \in {1, Size \div 2, Size} :
          reader' = [NoReader EXCEPT !.data = compression, !.length = length]
    /\ UNCHANGED <<chain, posted, span, channel, read>>

\* decompress.  The output of brotli starts as long as the input and doubles
\* until the data fits.
Doubled(length) == CHOOSE n \in {length * 2^k : k \in 0..10} : n >= Size /\ (n = length \/ n < 2 * Size)

Fits(compression, length) ==
    \/ compression = "zlib" /\ Size <= MaxRlp
    \/ compression = "brotli" /\ (Doubled(length) = length \/ Doubled(length) <= MaxRlp)

Decompressed ==
    IF reader.data = "taken" THEN reader
    ELSE [reader EXCEPT !.data = "taken", !.brotli = reader.data = "brotli",
                        !.decompressed = IF Fits(reader.data, reader.length) THEN channel ELSE <<>>]

\* next_batch: an error leaves the cursor where it is and ends the reading.
NextBatch ==
    /\ reader # NoReader /\ ~reader.ended
    /\ LET r == Decompressed
           batch == DecodeBatch(r.decompressed[r.cursor + 1].bytes)
       IN  IF \/ r.cursor >= Len(r.decompressed)
              \/ "error" \in DOMAIN batch
              \/ r.brotli /\ TimeOf(batch) < FjordTime
           THEN reader' = [r EXCEPT !.ended = TRUE] /\ UNCHANGED read
           ELSE reader' = [r EXCEPT !.cursor = @ + 1] /\ read' = Append(read, batch)
    /\ UNCHANGED <<chain, posted, span, channel>>

CodecInit ==
    /\ chain \in Chains /\ posted \in {0, 1, 2} /\ span = NoSpan /\ channel = <<>>
    /\ reader = NoReader /\ read = <<>>

CodecNext == AppendBlock \/ FinishSpan \/ PostSingle \/ Open \/ NextBatch

-----------------------------------------------------------------------------
\* What was read of the i-th batch are the blocks it was made of.
SameBlocks(i) ==
    LET blocks == channel[i].blocks
        got == read[i]
    IN  IF "block" \in DOMAIN got THEN <<got.block>> = blocks ELSE got.batches = blocks

Readable(i) ==
    LET blocks == channel[i].blocks
    IN  /\ Len(blocks) <= MaxElements
        /\ FoldLeft(LAMBDA sum, b : sum + Len(b.txs), 0, blocks) <= MaxElements
        /\ reader.brotli => blocks[1].time >= FjordTime

\* The batches read from a channel are those written to it, in order, with the
\* epochs, the times and the transactions of their blocks, and the reading
\* ends only at the end of the channel, at a batch that is over the limits or
\* older than the compression, or at once when the channel cannot be
\* decompressed.  A brotli channel of at most half the limit always can; a
\* larger one may be refused although it is within the limit, because the
\* buffer is doubled first.
\* (SpanBatch::append_singular_batch, SpanBatchTransactions::add_txs and
\* full_txs, RawSpanBatch::derive, BatchReader::next_batch)
ReadsBack ==
    LET n == Len(read)
        opened == reader.decompressed # <<>> \/ (reader.brotli /\ 2 * Size <= MaxRlp)
    IN  /\ \A i \in 1..n : SameBlocks(i)
        /\ reader.ended /\ opened => n = Len(channel) \/ ~Readable(n + 1)
=============================================================================
