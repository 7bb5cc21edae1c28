------------------------------- MODULE TrieDB -------------------------------
(***************************************************************************)
(* The state database of the fault proof program and the sealing of blocks *)
(* on it.  The program starts from a state root it trusts.  It reveals     *)
(* accounts and slots by hinting to the host, which then has the preimages *)
(* of a proof, and walking down the trie.  When a block has been executed  *)
(* its changes are written to the open trie and the roots of the block's   *)
(* header are computed from it; the trie stays open for the next block.    *)
(***************************************************************************)
EXTENDS TrieNode

CONSTANTS Accounts,        \* the accounts that may exist
          MessagePasser,   \* the L2 to L1 message passer
          AccountPath,     \* account -> the nibbles of its hashed address
          Slots,           \* account -> its storage slots
          SlotPath,        \* slot -> the nibbles of its hashed index
          Balances,        \* account -> the balances it may have
          Values,          \* slot -> the values it may have besides zero
          StartStates,     \* the states execution may start from
          MaxBlocks        \* bound: blocks built

VARIABLES state,     \* reference: the state after the last sealed block
          root,      \* the open account trie
          roots,     \* storage_roots: the open storage tries
          kv,        \* commitments whose preimages the host holds
          missing,   \* commitments fetched the host neither held nor was hinted
          loaded,    \* accounts read since the last block
          read,      \* slots read since the last block
          header,    \* the roots of the last sealed block
          failed,    \* an operation returned an error
          blocks     \* blocks sealed

dbVars == <<state, root, roots, kv, missing, loaded, read, header, failed, blocks>>

Absent == [exists |-> FALSE]

Storages(a) ==
  {f \in [Slots[a] -> UNION {{0} \cup Values[s] : s \in Slots[a]}] :
     \A s \in Slots[a] : f[s] \in {0} \cup Values[s]}
Existing(a) == [exists : {TRUE}, balance : Balances[a], storage : Storages(a)]

(***************************************************************************)
(* The tries a state has, and the commitments of the host's proofs in it.  *)
(***************************************************************************)
SlotValue(x) == [slot |-> x]

StorageTrie(account) ==
  LET used == {s \in DOMAIN account.storage : account.storage[s] # 0}
  IN TrieOf([p \in {SlotPath[s] : s \in used} |->
               SlotValue(account.storage[CHOOSE s \in used : SlotPath[s] = p])])

TrieAccount(balance, storageRoot) == [balance |-> balance, storageRoot |-> storageRoot]

StateTrie(st) ==
  LET used == {a \in Accounts : st[a].exists}
      TheAccount(p) == st[CHOOSE a \in used : AccountPath[a] = p]
  IN TrieOf([p \in {AccountPath[a] : a \in used} |->
               TrieAccount(TheAccount(p).balance, Blind(StorageTrie(TheAccount(p))))])

AccountProof(st, a) == Proof(StateTrie(st), AccountPath[a])

StorageProof(st, a, s) ==
  AccountProof(st, a) \cup IF st[a].exists THEN Proof(StorageTrie(st[a]), SlotPath[s]) ELSE {}

(***************************************************************************)
(* The host keeps the last hint and acts on it only when it is asked for a *)
(* preimage it does not hold, which then brings in all that the hint is    *)
(* about.  What is fetched after a hint must be held or part of it.        *)
(***************************************************************************)
Fetch(hint, fetched) ==
  /\ missing' = missing \cup (fetched \ (kv \cup hint))
  /\ kv' = IF fetched \subseteq kv THEN kv ELSE kv \cup hint

(***************************************************************************)
(* basic: the account is hinted for, opened, and its storage trie forgotten*)
(* but for the root the account names.  The EVM's own cache asks for an    *)
(* account, and for a slot, once in a block.                               *)
(***************************************************************************)
Set(f, k, v) == [x \in DOMAIN f \cup {k} |-> IF x = k THEN v ELSE f[x]]
Forget(f, k) == [x \in DOMAIN f \ {k} |-> f[x]]

Basic(a) ==
  LET r == Open(root, AccountPath[a])
  IN /\ blocks < MaxBlocks
     /\ ~failed
     /\ a \notin loaded
     /\ Fetch(AccountProof(state, a), r.fetched)
     /\ root' = r.node
     /\ roots' = IF r.value = NoValue THEN roots ELSE Set(roots, a, Blinded(r.value.storageRoot))
     /\ failed' = (r.error # "none")
     /\ loaded' = loaded \cup {a}
     /\ UNCHANGED <<state, read, header, blocks>>

(***************************************************************************)
(* storage: a slot of an account whose storage trie is known.  The caller  *)
(* loads the account first.                                                *)
(***************************************************************************)
Storage(a, s) ==
  LET r == IF a \in DOMAIN roots THEN Open(roots[a], SlotPath[s]) ELSE Result(Empty)
  IN /\ blocks < MaxBlocks
     /\ ~failed
     /\ a \in loaded /\ <<a, s>> \notin read
     /\ Fetch(StorageProof(state, a, s), r.fetched)
     /\ roots' = IF a \in DOMAIN roots THEN Set(roots, a, r.node) ELSE roots
     /\ failed' = (r.error # "none")
     /\ read' = read \cup {<<a, s>>}
     /\ UNCHANGED <<state, root, header, loaded, blocks>>

(***************************************************************************)
(* update_accounts: the changed accounts in the order of their hashed      *)
(* addresses, the changed slots of each in the order of their hashes.  A   *)
(* database being written is a record of its tries and of what was fetched *)
(* and hinted on the way.                                                  *)
(***************************************************************************)
PathLess(p, q) ==
  \E i \in DOMAIN p : p[i] < q[i] /\ \A j \in 1..(i - 1) : p[j] = q[j]

ChangeStorage(r, s, value) ==
  LET next == IF value = 0 THEN Delete(r.node, SlotPath[s])
              ELSE Insert(r.node, SlotPath[s], SlotValue(value))
  IN IF r.error # "none" THEN r ELSE After(r, next)

UpdateStorage(node, old, new) ==
  LET changed == {s \in DOMAIN new.storage : new.storage[s] # IF old.exists THEN old.storage[s] ELSE 0}
      order == SetToSortSeq(changed, LAMBDA s, t : PathLess(SlotPath[s], SlotPath[t]))
  IN FoldLeft(LAMBDA r, s : ChangeStorage(r, s, new.storage[s]), Result(node), order)

DestroyAccount(db, a) ==
  LET r == Delete(db.root, AccountPath[a])
  IN [root |-> r.node, roots |-> Forget(db.roots, a), result |-> After(db.result, r)]

WriteAccount(db, a, old, new) ==
  LET start == IF a \in DOMAIN db.roots THEN db.roots[a] ELSE Blinded(Empty)
      s == UpdateStorage(start, old, new)
      r == Insert(db.root, AccountPath[a], TrieAccount(new.balance, Blind(s.node)))
  IN [root |-> r.node, roots |-> Set(db.roots, a, s.node),
      result |-> After(db.result, IF s.error # "none" THEN s ELSE After(s, r))]

UpdateAccounts(db, old, new, changed) ==
  LET order == SetToSortSeq(changed, LAMBDA a, b : PathLess(AccountPath[a], AccountPath[b]))
  IN FoldLeft(LAMBDA d, a :
                IF d.result.error # "none" THEN d
                ELSE IF new[a].exists THEN WriteAccount(d, a, old[a], new[a])
                ELSE DestroyAccount(d, a),
              db, order)

(***************************************************************************)
(* message_passer_account: the storage root of the message passer, from    *)
(* its open storage trie, or else from its account, which is hinted for as *)
(* it is in the block just built.                                          *)
(***************************************************************************)
MessagePasserAccount(db, st) ==
  LET r == Open(db.root, AccountPath[MessagePasser])
  IN IF MessagePasser \in DOMAIN db.roots
     THEN [Result(db.root) EXCEPT !.value = [storageRoot |-> Blind(db.roots[MessagePasser])]]
     ELSE [r EXCEPT !.hinted = AccountProof(st, MessagePasser),
                    !.error = IF @ # "none" THEN @
                              ELSE IF r.value = NoValue THEN "MissingAccountInfo" ELSE "none"]

(***************************************************************************)
(* seal_block, after a block that changed the accounts in changed.  A      *)
(* block changes accounts it loaded, and slots it read unless the account  *)
(* did not exist.                                                          *)
(***************************************************************************)
Outcomes(a) ==
  LET old == state[a]
      fixed == {s \in Slots[a] : old.exists /\ <<a, s>> \notin read}
  IN ({new \in Existing(a) : \A s \in fixed : new.storage[s] = old.storage[s]}
        \cup (IF a = MessagePasser THEN {} ELSE {Absent})) \ {old}

Seal(db, mp, new) ==
  LET known == kv \cup db.result.hinted
      ok == db.result.error = "none" /\ mp.error = "none"
  IN /\ failed' = ~ok
     /\ missing' = missing \cup (db.result.fetched \ known) \cup (mp.fetched \ (known \cup mp.hinted))
     /\ kv' = IF mp.fetched \subseteq known THEN known ELSE known \cup mp.hinted
     /\ root' = mp.node
     /\ roots' = db.roots
     /\ header' = IF ok THEN [stateRoot |-> Blind(db.root),
                              withdrawalsRoot |-> mp.value.storageRoot] ELSE header

SealBlock(changed, new) ==
  LET db == UpdateAccounts([root |-> root, roots |-> roots, result |-> Result(Empty)],
                           state, new, changed)
  IN /\ blocks < MaxBlocks
     /\ ~failed
     /\ Seal(db, MessagePasserAccount(db, new), new)
     /\ state' = new
     /\ blocks' = blocks + 1
     /\ loaded' = {}
     /\ read' = {}

Start(st) ==
  /\ state = st
  /\ root = Blinded(Blind(StateTrie(st)))
  /\ roots = <<>>
  /\ kv = {} /\ missing = {}
  /\ loaded = {} /\ read = {}
  /\ header = [stateRoot |-> Blind(StateTrie(st)),
               withdrawalsRoot |-> Blind(StorageTrie(st[MessagePasser]))]
  /\ failed = FALSE
  /\ blocks = 0

DBInit == \E st \in StartStates : Start(st)

DBNext ==
  \/ \E a \in Accounts : Basic(a)
  \/ \E a \in Accounts : \E s \in Slots[a] : Storage(a, s)
  \/ \E changed \in SUBSET loaded :
       \E new \in [changed -> UNION {Outcomes(a) : a \in changed}] :
         /\ \A a \in changed : new[a] \in Outcomes(a)
         /\ SealBlock(changed, [a \in Accounts |-> IF a \in changed THEN new[a] ELSE state[a]])

(***************************************************************************)
(* The roots of a sealed header are those of the state the block led to:   *)
(* what the trie commits to depends on the contents of the state and not   *)
(* on which nodes were revealed, inserted, deleted and collapsed on the    *)
(* way (state_root and message_passer_account).  And the program gets      *)
(* there: it never asks for a trie node that the host neither holds nor    *)
(* was last hinted about, and no operation on the tries fails.  On the     *)
(* first the preimage server would time out, and either ends the proof     *)
(* (basic, storage, delete's hint for the last child of a branch).         *)
(***************************************************************************)
HeaderCommitsToState ==
  /\ missing = {} /\ ~failed
  /\ header.stateRoot = Blind(StateTrie(state))
  /\ header.withdrawalsRoot = Blind(StorageTrie(state[MessagePasser]))
=============================================================================
