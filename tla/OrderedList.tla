---------------------------- MODULE OrderedList ----------------------------
(***************************************************************************)
(* Ordered lists in tries: the host stores the transactions or receipts of *)
(* a block as a trie keyed by the RLP encoding of their indices, and the   *)
(* program walks the leaves of that trie to get the list back.  The walk   *)
(* meets the leaves in the order of their keys, in which index 0, encoded  *)
(* as the byte 0x80, comes after 1 to 0x7f and before 0x80.                *)
(***************************************************************************)
EXTENDS Integers, Sequences, SequencesExt

CONSTANT Lengths            \* the lengths of the lists walked

VARIABLES items,            \* number of items of the list; item i is the number i
          inner,            \* the walker's leaves, <<>> when it has none
          yielded           \* what the walker returned so far

listVars == <<items, inner, yielded>>

EmptyStringCode == 128

ItemLength(v) == 40

Trie == INSTANCE TrieNode WITH Nibbles <- 0..15, ValueLength <- ItemLength

(***************************************************************************)
(* The nibbles of the RLP encoding of an index below 256.                  *)
(***************************************************************************)
Unpack(byte) == <<byte \div 16, byte % 16>>

IndexPath(i) ==
  IF i = 0 THEN Unpack(EmptyStringCode)
  ELSE IF i < EmptyStringCode THEN Unpack(i)
  ELSE Unpack(129) \o Unpack(i)

(***************************************************************************)
(* The order in which the host adds the items, ascending in their keys.    *)
(***************************************************************************)
AdjustIndexForRlp(i, len) ==
  IF i > 127 THEN i
  ELSE IF i = 127 \/ i + 1 = len THEN 0
  ELSE i + 1

OrderedTrie(len) ==
  LET added == {AdjustIndexForRlp(i, len) : i \in 0..(len - 1)}
  IN Trie!TrieOf([p \in {IndexPath(i) : i \in added} |->
                    [item |-> CHOOSE i \in added : IndexPath(i) = p]])

(***************************************************************************)
(* fetch_leaves: the leaves below a node, left to right.                   *)
(***************************************************************************)
RECURSIVE FetchLeaves(_)

FetchLeaves(n) ==
  CASE n.kind = "empty" -> <<>>
    [] n.kind = "leaf" -> <<n.value.item>>
    [] n.kind = "extension" -> FetchLeaves(Trie!Unblind(n.node).node)
    [] n.kind = "branch" ->
         FoldLeft(LAMBDA leaves, i : leaves \o FetchLeaves(Trie!Unblind(n.stack[i - 1]).node),
                  <<>>, [i \in 1..16 |-> i])

MoveToFront(list, i) == <<list[i]>> \o RemoveAt(list, i)

MutReorder(list) ==
  IF list = <<>> THEN list
  ELSE IF Len(list) < EmptyStringCode THEN MoveToFront(list, Len(list))
  ELSE MoveToFront(list, EmptyStringCode - 1)

Reorder(list) ==
  IF list = <<>> THEN list
  ELSE IF Len(list) <= EmptyStringCode THEN MoveToFront(list, Len(list))
  ELSE MoveToFront(list, EmptyStringCode)

Hydrate ==
  /\ inner = <<>> /\ yielded = <<>>
  /\ inner' = Reorder(FetchLeaves(Trie!Encode(OrderedTrie(items))))
  /\ inner' # <<>>
  /\ UNCHANGED <<items, yielded>>

NextItem ==
  /\ inner # <<>>
  /\ yielded' = Append(yielded, Head(inner))
  /\ inner' = Tail(inner)
  /\ UNCHANGED items

ListInit == items \in Lengths /\ inner = <<>> /\ yielded = <<>>

ListNext == Hydrate \/ NextItem

(***************************************************************************)
(* A walker returns the items of the list in the order of the list, and    *)
(* all of them: index 0 is put back where it belongs whatever the length   *)
(* of the list (ordered_trie_with_encoder, OrderedListWalker).             *)
(***************************************************************************)
ListRestored ==
  yielded # <<>> =>
    /\ \A i \in DOMAIN yielded : yielded[i] = i - 1
    /\ inner = <<>> => Len(yielded) = items
=============================================================================
