------------------------------ MODULE TrieNode ------------------------------
(***************************************************************************)
(* The Merkle-Patricia trie node of the fault proof program, as operators. *)
(* A trie may hold blinded nodes: a blinded node stands for a commitment   *)
(* to a node the program has not seen yet, and is replaced by that node    *)
(* when a walk reaches it.                                                 *)
(*                                                                         *)
(* A commitment is the encoding of the node it commits to, so that two     *)
(* nodes have the same commitment exactly when they have the same          *)
(* encoding.  The commitment of the empty node is the empty root hash.     *)
(* Each operation returns the new node together with the commitments it    *)
(* fetched, the ones it hinted, the value it found and its error.          *)
(***************************************************************************)
EXTENDS Integers, FiniteSets, SequencesExt

CONSTANTS Nibbles,          \* the nibbles keys are made of
          ValueLength(_)    \* the length of the RLP encoding of a value

Empty == [kind |-> "empty"]
Blinded(commitment) == [kind |-> "blinded", commitment |-> commitment]
Leaf(prefix, value) == [kind |-> "leaf", prefix |-> prefix, value |-> value]
Extension(prefix, node) == [kind |-> "extension", prefix |-> prefix, node |-> node]
Branch(stack) == [kind |-> "branch", stack |-> stack]
NoValue == [kind |-> "none"]

(***************************************************************************)
(* Lengths of the RLP encoding.  A child whose encoding has 32 bytes or    *)
(* more is replaced by its hash, a shorter one is part of its parent.  A   *)
(* branch has seventeen items; those outside Nibbles are empty strings.    *)
(***************************************************************************)
HashLength == 32
HeaderLength(payload) == IF payload < 56 THEN 1 ELSE 2

KeyLength(prefix) ==
  LET bytes == Len(prefix) \div 2 + 1
  IN IF bytes = 1 THEN 1 ELSE bytes + 1

RECURSIVE Length(_)

BlindedLength(n) == IF Length(n) >= HashLength THEN HashLength + 1 ELSE Length(n)

PayloadLength(n) ==
  CASE n.kind = "leaf" -> KeyLength(n.prefix) + ValueLength(n.value)
    [] n.kind = "extension" -> KeyLength(n.prefix) + BlindedLength(n.node)
    [] n.kind = "branch" ->
         17 - Cardinality(Nibbles)
           + FoldFunction(+, 0, [i \in Nibbles |-> BlindedLength(n.stack[i])])

Length(n) ==
  CASE n.kind = "empty" -> 1
    [] n.kind = "blinded" -> HashLength + 1
    [] OTHER -> HeaderLength(PayloadLength(n)) + PayloadLength(n)

(***************************************************************************)
(* What is hashed and stored for a node: long children by commitment.      *)
(***************************************************************************)
RECURSIVE Encode(_)

Blind(n) == IF n.kind = "blinded" THEN n.commitment ELSE Encode(n)

Reference(n) == IF Length(n) >= HashLength THEN Blinded(Blind(n)) ELSE Encode(n)

Encode(n) ==
  CASE n.kind = "extension" -> [n EXCEPT !.node = Reference(@)]
    [] n.kind = "branch" -> Branch([i \in Nibbles |-> Reference(n.stack[i])])
    [] OTHER -> n

(***************************************************************************)
(* Results, and the fetch of a blinded node.  Decoding an encoding yields  *)
(* the node with its long children blinded.                                *)
(***************************************************************************)
Result(n) == [node |-> n, fetched |-> {}, hinted |-> {}, value |-> NoValue, error |-> "none"]

Failed(n, error) == [Result(n) EXCEPT !.error = error]

Unblind(n) ==
  IF n.kind # "blinded" THEN Result(n)
  ELSE IF n.commitment = Empty THEN Result(Empty)
  ELSE [Result(n.commitment) EXCEPT !.fetched = {n.commitment}]

\* What r says, after what q fetched and hinted.
After(q, r) == [r EXCEPT !.fetched = @ \cup q.fetched, !.hinted = @ \cup q.hinted]

SharedNibbles(p, q) == Len(LongestCommonPrefix({p, q}))
Drop(p, k) == SubSeq(p, k + 1, Len(p))

(***************************************************************************)
(* open: walks down to the value at path, revealing the nodes it meets.    *)
(***************************************************************************)
RECURSIVE Open(_, _)

Open(n, path) ==
  CASE n.kind = "empty" -> Result(n)
    [] n.kind = "leaf" -> [Result(n) EXCEPT !.value = IF path = n.prefix THEN n.value ELSE NoValue]
    [] n.kind = "blinded" -> LET u == Unblind(n) IN After(u, Open(u.node, path))
    [] n.kind = "extension" ->
         IF ~IsPrefix(n.prefix, path) THEN Result(n)
         ELSE LET u == Unblind(n.node)
                  r == After(u, Open(u.node, Drop(path, Len(n.prefix))))
              IN [r EXCEPT !.node = Extension(n.prefix, r.node)]
    [] n.kind = "branch" ->
         IF path = <<>> THEN Failed(n, "PathTooShort")
         ELSE LET r == Open(n.stack[Head(path)], Tail(path))
              IN [r EXCEPT !.node = Branch([n.stack EXCEPT ![Head(path)] = r.node])]

(***************************************************************************)
(* insert: sets the value at path.  A leaf or an extension whose prefix    *)
(* diverges from path becomes a branch, below an extension for the nibbles *)
(* the two share.                                                          *)
(***************************************************************************)
Fork(shared, prefix, rest, path, value) ==
  LET stack == [i \in Nibbles |->
                  IF i = path[shared + 1] THEN Leaf(Drop(path, shared + 1), value)
                  ELSE IF i = prefix[shared + 1] THEN rest ELSE Empty]
  IN IF shared = 0 THEN Branch(stack)
     ELSE Extension(SubSeq(path, 1, shared), Branch(stack))

RECURSIVE Insert(_, _, _)

Insert(n, path, value) ==
  CASE n.kind = "empty" -> Result(Leaf(path, value))
    [] n.kind = "leaf" ->
         LET shared == SharedNibbles(path, n.prefix)
         IN IF path = n.prefix THEN Result(Leaf(n.prefix, value))
            ELSE IF shared \in {Len(path), Len(n.prefix)} THEN Failed(n, "PathTooShort")
            ELSE Result(Fork(shared, n.prefix, Leaf(Drop(n.prefix, shared + 1), n.value), path, value))
    [] n.kind = "extension" ->
         LET shared == SharedNibbles(path, n.prefix)
             r == Insert(n.node, Drop(path, shared), value)
             left == Drop(n.prefix, shared + 1)
         IN IF shared = Len(n.prefix) THEN [r EXCEPT !.node = Extension(n.prefix, r.node)]
            ELSE IF shared = Len(path) THEN Failed(n, "PathTooShort")
            ELSE Result(Fork(shared, n.prefix,
                             IF left = <<>> THEN n.node ELSE Extension(left, n.node), path, value))
    [] n.kind = "branch" ->
         IF path = <<>> THEN Failed(n, "PathTooShort")
         ELSE LET r == Insert(n.stack[Head(path)], Tail(path), value)
              IN [r EXCEPT !.node = Branch([n.stack EXCEPT ![Head(path)] = r.node])]
    [] n.kind = "blinded" -> LET u == Unblind(n) IN After(u, Insert(u.node, path, value))

(***************************************************************************)
(* collapse_if_possible: an extension absorbs an extension or a leaf below *)
(* it, a branch with one child left becomes that child with a longer       *)
(* prefix.  The last child of a branch may be blinded, outside of every    *)
(* path walked so far: it is hinted by its own hash, fetched, and the      *)
(* branch collapsed again.                                                 *)
(***************************************************************************)
Prepend(prefix, n) ==
  CASE n.kind = "leaf" -> Leaf(prefix \o n.prefix, n.value)
    [] n.kind = "extension" -> Extension(prefix \o n.prefix, n.node)
    [] n.kind = "branch" -> Extension(prefix, n)
    [] OTHER -> n

Children(stack) == {i \in Nibbles : stack[i] # Empty}

CollapseBranch(n) ==
  LET i == CHOOSE j \in Children(n.stack) : TRUE
      child == n.stack[i]
      u == Unblind(child)
  IN IF Cardinality(Children(n.stack)) # 1 THEN Result(n)
     ELSE IF child.kind # "blinded" THEN Result(Prepend(<<i>>, child))
     ELSE [u EXCEPT !.node = Prepend(<<i>>, u.node), !.hinted = {child.commitment}]

MutCollapseIfPossible(n) ==
  IF n.kind = "branch" THEN CollapseBranch(n) ELSE Result(n)

CollapseIfPossible(n) ==
  CASE n.kind = "extension" ->
         Result(IF n.node.kind \in {"extension", "leaf", "empty"} THEN Prepend(n.prefix, n.node) ELSE n)
    [] n.kind = "branch" -> CollapseBranch(n)
    [] OTHER -> Result(n)

(***************************************************************************)
(* delete: removes the value at path and collapses on the way back.        *)
(***************************************************************************)
RECURSIVE Delete(_, _)

Delete(n, path) ==
  CASE n.kind = "empty" -> Failed(n, "KeyNotFound")
    [] n.kind = "leaf" -> IF path = n.prefix THEN Result(Empty) ELSE Failed(n, "KeyNotFound")
    [] n.kind = "extension" ->
         LET shared == SharedNibbles(path, n.prefix)
             r == Delete(n.node, Drop(path, Len(n.prefix)))
         IN IF shared < Len(n.prefix) THEN Failed(n, "KeyNotFound")
            ELSE IF shared = Len(path) THEN Result(Empty)
            ELSE IF r.error # "none" THEN [r EXCEPT !.node = Extension(n.prefix, r.node)]
            ELSE After(r, CollapseIfPossible(Extension(n.prefix, r.node)))
    [] n.kind = "branch" ->
         IF path = <<>> THEN Failed(n, "PathTooShort")
         ELSE LET r == Delete(n.stack[Head(path)], Tail(path))
                  new == Branch([n.stack EXCEPT ![Head(path)] = r.node])
              IN IF r.error # "none" THEN [r EXCEPT !.node = new]
                 ELSE After(r, CollapseIfPossible(new))
    [] n.kind = "blinded" -> LET u == Unblind(n) IN After(u, Delete(u.node, path))

(***************************************************************************)
(* The reference: the one trie a finite map from paths to values has, and  *)
(* the commitments of the nodes on a path of it, which is what a proof of  *)
(* that path contains.                                                     *)
(***************************************************************************)
RECURSIVE TrieOf(_)

TrieOf(map) ==
  LET keys == DOMAIN map
      shared == LongestCommonPrefix(keys)
      Below(p) == {k \in keys : IsPrefix(p, k)}
      Under(p) == [k \in {Drop(q, Len(p)) : q \in Below(p)} |-> map[p \o k]]
  IN IF keys = {} THEN Empty
     ELSE IF Cardinality(keys) = 1 THEN Leaf(shared, map[shared])
     ELSE IF shared # <<>> THEN Extension(shared, TrieOf(Under(shared)))
     ELSE Branch([i \in Nibbles |-> TrieOf(Under(<<i>>))])

RECURSIVE Proof(_, _)

Proof(n, path) ==
  {Encode(n)} \cup
  CASE n.kind = "branch" -> Proof(n.stack[Head(path)], Tail(path))
    [] n.kind = "extension" /\ IsPrefix(n.prefix, path) ->
         Proof(n.node, Drop(path, Len(n.prefix)))
    [] OTHER -> {}
=============================================================================
