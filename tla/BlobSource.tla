------------------------------ MODULE BlobSource ------------------------------
(***************************************************************************)
(* The data source of the derivation pipeline for one L1 block:            *)
(* EthereumDataSource with its CalldataSource and its BlobSource, the      *)
(* OnlineBlobProvider and the beacon client that fetch blobs, and the      *)
(* decoding of a blob.                                                     *)
(*                                                                         *)
(* A blob is a function from 0..BlobBytes-1 to bytes and is its own        *)
(* versioned hash.  The beacon node (external) may fail, support only one  *)
(* of its two endpoints, have lost a blob, or list them in another order.  *)
(***************************************************************************)
EXTENDS Integers, SequencesExt, FiniteSetsExt

CONSTANTS FieldBytes,   \* bytes of a field element, 32
          Rounds,       \* BLOB_ENCODING_ROUNDS, 1024
          Blocks        \* the L1 blocks: [ecotone, slotted, txs]

(***************************************************************************)
(* BlobData::decode.  Four field elements, a round, carry 4 * FieldBytes   *)
(* - 1 bytes: all but the first byte of each element, and three more made  *)
(* of the low six bits of those first bytes.  The version and the length   *)
(* come first.                                                             *)
(***************************************************************************)
BlobBytes == 4 * FieldBytes * Rounds
RoundBytes == 4 * FieldBytes - 1
MaxData == Rounds * RoundBytes - 4   \* BLOB_MAX_DATA_SIZE

Zero == [i \in 0..(BlobBytes - 1) |-> 0]

\* The first byte of element e of round r.
Chunk(blob, r, e) == blob[(4 * r + e) * FieldBytes]

\* reassemble_bytes: the three bytes the first bytes of a round stand for.
Reassembled(blob, r) ==
    LET c(e) == Chunk(blob, r, e)
        High(b) == ((b \div 16) % 4) * 64
    IN  <<(c(0) % 64) + High(c(1)), (c(1) % 16) + (c(3) % 16) * 16, (c(2) % 64) + High(c(3))>>

\* Byte p of what the blob carries, the header included.
Carried(blob, p) ==
    LET r == p \div RoundBytes
        e == (p % RoundBytes) \div FieldBytes
        k == (p % RoundBytes) % FieldBytes
    IN  IF k = FieldBytes - 1 THEN Reassembled(blob, r)[e + 1]
        ELSE blob[(4 * r + e) * FieldBytes + 1 + k]

Undecodable == <<-1>>

Decode(blob) ==
    LET length == (blob[2] * 256 + blob[3]) * 256 + blob[4]
        read == {r \in 0..(Rounds - 1) : r = 0 \/ r * RoundBytes - 4 < length}
        end == Cardinality(read) * RoundBytes - 4
    IN  IF \/ blob[1] # 0 \/ length > MaxData
           \/ \E r \in read, e \in 0..3 : (r # 0 \/ e # 0) /\ Chunk(blob, r, e) >= 64
           \/ \E p \in length..(end - 1) : Carried(blob, p + 4) # 0
           \/ \E i \in (4 * FieldBytes * Cardinality(read))..(BlobBytes - 1) : blob[i] # 0
        THEN Undecodable
        ELSE [p \in 1..length |-> Carried(blob, p + 3)]

\* The reference: how the batcher (external) packs data into a blob.
Encode(data) ==
    LET stream == <<0, Len(data) \div 65536, (Len(data) \div 256) % 256, Len(data) % 256>> \o data
        B(p) == IF p < Len(stream) THEN stream[p + 1] ELSE 0
        C(r, e) == B(r * RoundBytes + FieldBytes * (e + 1) - 1)
        First(r, e) ==
            CASE e = 0 -> C(r, 0) % 64
              [] e = 1 -> (C(r, 1) % 16) + (C(r, 0) \div 64) * 16
              [] e = 2 -> C(r, 2) % 64
              [] e = 3 -> C(r, 1) \div 16 + (C(r, 2) \div 64) * 16
    IN  [i \in 0..(BlobBytes - 1) |->
            LET r == i \div (4 * FieldBytes)
                e == (i \div FieldBytes) % 4
                k == i % FieldBytes
            IN  IF k = 0 THEN First(r, e) ELSE B(r * RoundBytes + e * FieldBytes + k - 1)]

-----------------------------------------------------------------------------
(* BlobSource and CalldataSource: what they make of a block's transactions.  *)
(* A transaction is [kind, inbox, batcher, data, parts]: "plain", "blob" or  *)
(* "setcode", whether it goes to the inbox and is signed by the batcher, its *)
(* calldata, and what its blobs were made from.                              *)

Garbage == {<<-1>>, <<-2>>}

Blob(part) ==
    CASE part = <<-1>> -> [Zero EXCEPT ![1] = 1]               \* another version
      [] part = <<-2>> -> [Zero EXCEPT ![BlobBytes - 1] = 1]   \* bytes past the length
      [] OTHER -> Encode(part)

BlobsOf(t) == [i \in DOMAIN t.parts |-> Blob(t.parts[i])]

\* extract_blob_data: the placeholders in order, and the blobs to fetch with
\* their index among all the blobs of the block.
Extract(txs) ==
    LET Ours(t) == t.inbox /\ t.batcher
        Add(acc, t) ==
            IF t.kind = "setcode" THEN acc
            ELSE IF ~Ours(t) THEN [acc EXCEPT !.index = @ + Len(t.parts)]
            ELSE IF t.kind # "blob"
            THEN [acc EXCEPT !.data = Append(@, [calldata |-> t.data])]
            ELSE [index |-> acc.index + Len(t.parts),
                  data |-> acc.data \o [i \in DOMAIN t.parts |-> [calldata |-> Undecodable]],
                  hashes |-> acc.hashes
                             \o [i \in DOMAIN t.parts |-> [index |-> acc.index + i - 1, hash |-> BlobsOf(t)[i]]]]
    IN  FoldLeft(Add, [index |-> 0, data |-> <<>>, hashes |-> <<>>], txs)

IsPlaceholder(d) == "calldata" \in DOMAIN d /\ d.calldata = Undecodable

\* load_calldata
Calldata(txs) ==
    LET ours == SelectSeq(txs, LAMBDA t : t.kind = "plain" /\ t.inbox /\ t.batcher)
    IN  [i \in DOMAIN ours |-> [calldata |-> ours[i].data]]

\* fill: every placeholder takes the next blob; one that is missing or all
\* zero makes the whole load fail.
Fillable(data, blobs) ==
    /\ Len(SelectSeq(data, IsPlaceholder)) <= Len(blobs)
    /\ \A i \in 1..Len(SelectSeq(data, IsPlaceholder)) : blobs[i] # Zero

Fill(data, blobs) ==
    [i \in DOMAIN data |->
        IF IsPlaceholder(data[i])
        THEN [blob |-> blobs[Len(SelectSeq(SubSeq(data, 1, i), IsPlaceholder))]] ELSE data[i]]

-----------------------------------------------------------------------------
(* The beacon node and its client.                                           *)

AllBlobs(txs) == FlattenSeq([i \in DOMAIN txs |-> BlobsOf(txs[i])])

\* What the node answers of the blobs of a slot: all, all but one it has lost,
\* or all in another order.
Kept(blobs) ==
    LET Indexed == [i \in DOMAIN blobs |-> [index |-> i - 1, blob |-> blobs[i]]]
    IN  {Indexed, Reverse(Indexed)} \cup {RemoveAt(Indexed, i) : i \in DOMAIN blobs}

\* filtered_beacon_blobs: the blobs endpoint names no index, so the position
\* in the answer is taken for it; the sidecars endpoint, asked when the first
\* one fails, has the index.
Filtered(endpoint, kept, hashes) ==
    LET wanted == {hashes[i].index : i \in DOMAIN hashes}
        bundle == IF endpoint = "sidecars" THEN kept
                  ELSE [i \in DOMAIN kept |-> [index |-> i - 1, blob |-> kept[i].blob]]
        chosen == SelectSeq(bundle, LAMBDA s : s.index \in wanted)
    IN  [i \in DOMAIN chosen |-> chosen[i].blob]

\* get_and_validate_blobs: the i-th blob must have the i-th hash.
MutValidated(blobs, hashes) ==
    \A i \in DOMAIN blobs : \E j \in DOMAIN hashes : blobs[i] = hashes[j].hash

Validated(blobs, hashes) ==
    \A i \in DOMAIN blobs : i <= Len(hashes) /\ blobs[i] = hashes[i].hash

-----------------------------------------------------------------------------
VARIABLES block,    \* the L1 block the pipeline reads
          source,   \* [open, data] of the blob or of the calldata source
          items,    \* what the source has handed on
          result    \* how the last call of next ended

sourceVars == <<block, source, items, result>>

Closed == [open |-> FALSE, data |-> <<>>]

\* next_data and decode: undecodable blobs are skipped.
Hand(data) ==
    LET Item(d) == IF "blob" \in DOMAIN d THEN Decode(d.blob) ELSE d.calldata
        i == SelectInSeq(data, LAMBDA d : Item(d) # Undecodable)
    IN  IF i = 0
        THEN /\ source' = [open |-> TRUE, data |-> <<>>] /\ result' = "Eof" /\ UNCHANGED items
        ELSE /\ source' = [open |-> TRUE, data |-> SubSeq(data, i + 1, Len(data))]
             /\ items' = Append(items, Item(data[i])) /\ result' = "item"

Fails(kind) == result' = kind /\ UNCHANGED <<source, items>>

\* A call of next on an open source.
NextOpen == source.open /\ Hand(source.data) /\ UNCHANGED block

\* A call that has to load the block first: the L1 node or both endpoints of
\* the beacon node fail, or the source is filled and the first item handed on.
NextClosed ==
    /\ ~source.open /\ result # "Critical"
    /\ LET found == Extract(block.txs)
       IN  \/ Fails("Temporary")
           \/ /\ ~block.ecotone
              /\ Hand(Calldata(block.txs))
           \/ /\ block.ecotone /\ found.hashes = <<>>
              /\ Hand(found.data)
           \/ /\ block.ecotone /\ found.hashes # <<>> /\ ~block.slotted
              /\ Fails("Critical")   \* the block is older than the beacon chain
           \/ /\ block.ecotone /\ found.hashes # <<>> /\ block.slotted
              /\ \E endpoint \in {"blobs", "sidecars"}, kept \in Kept(AllBlobs(block.txs)) :
                    LET blobs == Filtered(endpoint, kept, found.hashes)
                    IN  IF ~Validated(blobs, found.hashes) THEN Fails("Temporary")
                        ELSE IF ~Fillable(found.data, blobs) THEN Fails("Critical")
                        ELSE Hand(Fill(found.data, blobs))
    /\ UNCHANGED block

\* EthereumDataSource::clear, at the end of the block or when the pipeline
\* leaves it; reading starts over with the next block.
Clear ==
    /\ result # "Critical"
    /\ block' \in Blocks
    /\ source' = Closed /\ items' = <<>> /\ result' = "none"

SourceInit == block \in Blocks /\ source = Closed /\ items = <<>> /\ result = "none"

SourceNext == NextOpen \/ NextClosed \/ Clear

-----------------------------------------------------------------------------
\* The data the batcher posted in a block, in order.
Posted(b) ==
    LET ours == SelectSeq(b.txs, LAMBDA t :
                    t.inbox /\ t.batcher /\ t.kind \in {"plain"} \cup (IF b.ecotone THEN {"blob"} ELSE {}))
        Parts(t) == IF t.kind = "plain" THEN <<t.data>> ELSE t.parts
    IN  SelectSeq(FlattenSeq([i \in DOMAIN ours |-> Parts(ours[i])]),
                  LAMBDA d : d \notin Garbage)

\* The pipeline reads from a block what the batcher posted there, in order and
\* to the end, or meets an error: blobs lost or reordered by the beacon node, blobs of
\* other senders between the batcher's, or the endpoint that names no index
\* never put one blob in the place of another or leave one out, and what is
\* decoded from a blob is what the batcher packed into it.
\* (BlobSource::extract_blob_data, load_blobs, BlobData::fill and decode,
\* OnlineBlobProvider::get_and_validate_blobs)
ReadsWhatWasPosted ==
    /\ IsPrefix(items, Posted(block))
    /\ result = "Eof" => items = Posted(block)
=============================================================================
