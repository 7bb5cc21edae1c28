----------------------------- MODULE ProofClient -----------------------------
(***************************************************************************)
(* What the fault proof programs read and what the host can bring in.  The *)
(* providers of the programs are given by the steps of their calls: hints  *)
(* sent and preimages requested, in order.  The hint handlers of the two   *)
(* hosts are given by the preimages they store.                            *)
(*                                                                         *)
(* There are the L1 chain and two L2 chains.  A preimage is named by its   *)
(* key type, what it is, its chain and the block it belongs to.            *)
(***************************************************************************)
EXTENDS Integers, Sequences, SequencesExt

CONSTANTS L1Head,       \* number of the L1 head
          SafeHead,     \* number of the agreed L2 head
          SafeOrigin,   \* number of its L1 origin
          Timeout,      \* the channel timeout
          Elements,     \* field elements of a blob
          Collapses,    \* modes whose blocks delete a slot beside an unrevealed node
          Lookups       \* chains whose past blocks hold messages to look up

L1 == 0
Chains == {1, 2}

Keccak(kind, chain, n) == <<"Keccak256", kind, chain, n>>
Local(name) == <<"Local", name, 0, 0>>

\* The block that follows the agreed one: chain 1's optimistic block is the
\* canonical one, chain 2's was replaced after its messages proved invalid.
Canonical == SafeHead + 1
Forked == SafeHead + 2
OptimisticBlock(c) == IF c = 1 THEN Canonical ELSE Forked
OnHost(n) == n <= Canonical
Number(n) == IF OnHost(n) THEN n ELSE Canonical

Header(c, n) == Keccak("header", c, n)
TransactionsTrie(c, n) == Keccak("transactions", c, n)
ReceiptsTrie(c, n) == Keccak("receipts", c, n)

(***************************************************************************)
(* The state after L2 block n: two accounts below the root, one of them    *)
(* the history contract, and a node no proof of theirs reveals.            *)
(***************************************************************************)
AccountPath(c, n, a) == <<Keccak("state", c, n), Keccak(a, c, n)>>
StoragePath(c, n, a) ==
  Append(AccountPath(c, n, a), IF a = "history" THEN Keccak("ring", c, n) ELSE Keccak("slot", c, n))
Sibling(c, n) == Keccak("sibling", c, n)
Code(c) == Keccak("code", c, 0)

-----------------------------------------------------------------------------
(***************************************************************************)
(* Steps.  An L2 provider of an interop program adds its chain to a hint.  *)
(***************************************************************************)
Hint(ty, chain, n) == [do |-> "hint", ty |-> ty, chain |-> chain, n |-> n, id |-> 0, account |-> ""]
Get(k) == [do |-> "get", key |-> k]
Gets(ks) == [i \in DOMAIN ks |-> Get(ks[i])]

ChainHint(mode, ty, c, n) == [Hint(ty, c, n) EXCEPT !.id = IF mode = "single" THEN 0 ELSE c]
\* Proofs are asked for by block number.
ProofHint(mode, ty, c, n, a) == [ChainHint(mode, ty, c, Number(n)) EXCEPT !.account = a]

\* OracleL1ChainProvider
L1HeaderByHash(n) == <<Hint("L1BlockHeader", L1, n), Get(Header(L1, n))>>

BlockInfoByNumber(n) ==
  FlattenSeq([i \in 1 .. (IF n > L1Head THEN 1 ELSE L1Head - n + 1) |-> L1HeaderByHash(L1Head + 1 - i)])

ReceiptsByHash(n) ==
  L1HeaderByHash(n) \o <<Hint("L1Receipts", L1, n), Get(ReceiptsTrie(L1, n))>>

BlockInfoAndTransactionsByHash(n) ==
  L1HeaderByHash(n) \o <<Hint("L1Transactions", L1, n), Get(TransactionsTrie(L1, n))>>

\* OracleBlobProvider: a blob of block n, its commitment and its elements.
GetBlob(n) ==
  <<Hint("L1Blob", L1, n), Get(<<"Sha256", "blob", L1, n>>)>>
    \o [i \in 1 .. Elements |-> Get(<<"Blob", "element", i - 1, n>>)]

\* OracleL2ChainProvider
HeaderByHash(mode, c, n) == <<ChainHint(mode, "L2BlockHeader", c, n), Get(Header(c, n))>>

BytecodeByHash(mode, c) == <<ChainHint(mode, "L2Code", c, 0), Get(Code(c))>>

\* eip_2935_history_lookup, in a state with or without the history contract.
HistoryLookup(mode, c, n, found) ==
  <<ProofHint(mode, "L2AccountStorageProof", c, n, "history")>>
    \o Gets(IF found THEN StoragePath(c, n, "history") ELSE AccountPath(c, n, "history"))

WalkBack(mode, c, from, to) ==
  FlattenSeq([i \in 1 .. (from - to) |-> HeaderByHash(mode, c, from - i)])

\* Isthmus is active and the contract knows the block, or it is not there
\* yet and the walk is linear, or Isthmus is not active.
Lookbacks == {"leap", "fallback", "linear"}

LookBack(mode, c, from, to, target, how) ==
  CASE how = "leap" -> HistoryLookup(mode, c, from, TRUE) \o HeaderByHash(mode, c, target)
    [] how = "fallback" -> HistoryLookup(mode, c, from, FALSE) \o WalkBack(mode, c, Number(from), to)
    [] how = "linear" -> WalkBack(mode, c, Number(from), to)

HeaderByNumber(mode, c, n, how) ==
  HeaderByHash(mode, c, SafeHead)
    \o IF n >= SafeHead THEN <<>> ELSE LookBack(mode, c, SafeHead, n, n, how)

BlockByNumber(mode, c, n, how) ==
  HeaderByNumber(mode, c, n, how)
    \o <<ChainHint(mode, "L2Transactions", c, n), Get(TransactionsTrie(c, n))>>

\* new_oracle_pipeline_cursor
NewPipelineCursor(mode, c) ==
  BlockByNumber(mode, c, SafeHead, "linear") \o BlockInfoByNumber(SafeOrigin)
    \o BlockInfoByNumber(IF SafeOrigin > Timeout THEN SafeOrigin - Timeout ELSE 0)

(***************************************************************************)
(* StatelessL2Builder and TrieDB on the state of the agreed block: each    *)
(* call is one use of the database while a block is executed and sealed.   *)
(***************************************************************************)
Basic(mode, c, a) ==
  <<ProofHint(mode, "L2AccountProof", c, SafeHead, a)>> \o Gets(AccountPath(c, SafeHead, a))

Storage(mode, c, a) ==
  Basic(mode, c, a)
    \o <<ProofHint(mode, "L2AccountStorageProof", c, SafeHead, a), Get(Last(StoragePath(c, SafeHead, a)))>>

DeleteSlot(mode, c, a) ==
  Storage(mode, c, a) \o <<ChainHint(mode, "L2StateNode", c, SafeHead), Get(Sibling(c, SafeHead))>>

Precompile == <<Hint("L1Precompile", L1, 0), Get(<<"Precompile", "call", L1, 0>>)>>

BuildBlock(mode, c) ==
  LET uses == {Basic(mode, c, "account"), Storage(mode, c, "account"), BytecodeByHash(mode, c),
               HeaderByHash(mode, c, SafeHead - 1), Precompile}
                \cup (IF mode \in Collapses THEN {DeleteSlot(mode, c, "account")} ELSE {})
  IN {<<ChainHint(mode, "L2PayloadWitness", c, SafeHead)>> \o u : u \in uses}

-----------------------------------------------------------------------------
(***************************************************************************)
(* The programs: a prologue that always runs, and the calls derivation and *)
(* execution may make afterwards.                                          *)
(***************************************************************************)
Derivation(mode, c) ==
  {ReceiptsByHash(SafeOrigin), BlockInfoAndTransactionsByHash(L1Head), GetBlob(L1Head),
   BlockInfoByNumber(L1Head + 1)}
    \cup {BlockByNumber(mode, c, SafeHead - 2, how) : how \in Lookbacks}

\* BootInfo::load of a chain the registry does not know.
BootKeys(names) == [i \in DOMAIN names |-> Get(Local(names[i]))]

SingleLoad == BootKeys(<<"l1_head", "output_root", "claim", "block_number", "chain_id",
                         "rollup_config", "l1_config">>)

FetchSafeHeadHash == <<Hint("StartingL2Output", 1, SafeHead), Get(Keccak("output", 1, SafeHead))>>

Single ==
  [mode |-> "single",
   prologue |-> SingleLoad \o FetchSafeHeadHash \o HeaderByHash("single", 1, SafeHead)
                  \o NewPipelineCursor("single", 1),
   calls |-> Derivation("single", 1) \cup BuildBlock("single", 1)]

InteropLoad ==
  BootKeys(<<"l1_head", "pre_state", "post_state", "timestamp">>)
    \o <<Hint("AgreedPreState", L1, 0), Get(Keccak("pre_state", L1, 0))>>
    \o BootKeys(<<"rollup_config", "l1_config">>)

FetchOutputBlockHash(c) ==
  <<ChainHint("interop", "L2OutputRoot", c, SafeHead), Get(Keccak("output", c, SafeHead))>>

SubTransition(c) ==
  [mode |-> "interop",
   prologue |-> InteropLoad \o FetchOutputBlockHash(c) \o HeaderByHash("interop", c, SafeHead)
                  \o NewPipelineCursor("interop", c),
   calls |-> Derivation("interop", c) \cup BuildBlock("interop", c)]

(***************************************************************************)
(* consolidate_dependencies and SuperchainConsolidator.  The blocks whose  *)
(* messages are invalid are re-executed with their deposits only: their    *)
(* transactions are requested without a hint of their own.                 *)
(***************************************************************************)
LocalSafeHead(c) ==
  FetchOutputBlockHash(c)
    \o <<ChainHint("interop", "L2BlockData", c, OptimisticBlock(c))>>
    \o HeaderByHash("interop", c, OptimisticBlock(c))

DeriveReceipts(c, n) ==
  <<ChainHint("interop", "L2Receipts", c, n), Get(ReceiptsTrie(c, n))>>

\* OracleInteropProvider::receipts_by_number for the block before the agreed
\* one.  Its history lookup is for block zero.
ReceiptsByNumber(c, how) ==
  LET found == IF how = "leap" THEN 0 ELSE SafeHead - 1
  IN LookBack("interop", c, OptimisticBlock(c), SafeHead - 1, 0, how) \o DeriveReceipts(c, found)

ReExecuteDepositOnly(c) ==
  {HeaderByHash("interop", c, SafeHead) \o <<Get(TransactionsTrie(c, OptimisticBlock(c)))>> \o b :
     b \in BuildBlock("interop", c)}

Consolidation(first, second) ==
  [mode |-> "interop",
   prologue |-> InteropLoad \o LocalSafeHead(first) \o LocalSafeHead(second),
   calls |-> UNION {{DeriveReceipts(c, OptimisticBlock(c)),
                     HeaderByHash("interop", c, SafeHead) \o DeriveReceipts(c, SafeHead)} : c \in Chains}
               \cup {ReceiptsByNumber(c, how) : c \in Lookups, how \in Lookbacks}
               \cup ReExecuteDepositOnly(2)]

Programs ==
  [name \in {"single", "sub_transition_1", "sub_transition_2", "consolidate_12", "consolidate_21"} |->
     CASE name = "single" -> Single
       [] name = "sub_transition_1" -> SubTransition(1)
       [] name = "sub_transition_2" -> SubTransition(2)
       [] name = "consolidate_12" -> Consolidation(1, 2)
       [] name = "consolidate_21" -> Consolidation(2, 1)]

-----------------------------------------------------------------------------
(***************************************************************************)
(* fetch_hint: what a host stores for a hint.  A single-chain host has one *)
(* L2 chain and takes hints without a chain; an interop host takes the     *)
(* chain from the hint.  A hint of the wrong length, or about a block the  *)
(* chain does not have, is an error: nothing is stored.                    *)
(***************************************************************************)
FetchL1(h) ==
  CASE h.ty = "L1BlockHeader" -> {Header(L1, h.n)}
    [] h.ty = "L1Transactions" -> {TransactionsTrie(L1, h.n)}
    [] h.ty = "L1Receipts" -> {ReceiptsTrie(L1, h.n)}
    [] h.ty = "L1Blob" -> {<<"Sha256", "blob", L1, h.n>>}
                            \cup {<<t, "element", i, h.n>> : t \in {"Keccak256", "Blob"}, i \in 0 .. Elements}
    [] h.ty = "L1Precompile" -> {<<t, "call", L1, 0>> : t \in {"Keccak256", "Precompile"}}

\* The agreed outputs, recomputed and compared with the claimed roots.
FetchAgreed(h) ==
  IF h.ty = "AgreedPreState" THEN {Keccak("pre_state", L1, 0)} ELSE {Keccak("output", 1, SafeHead)}

FetchOutputRoot(h) == {Keccak("output", h.chain, SafeHead)}

FetchBlock(h) ==
  CASE h.ty = "L2BlockHeader" -> {Header(h.chain, h.n)}
    [] h.ty = "L2Transactions" -> {TransactionsTrie(h.chain, h.n)}
    [] h.ty = "L2Receipts" -> {ReceiptsTrie(h.chain, h.n)}

FetchCode(h) == {Code(h.chain)}

FetchProof(h) ==
  ToSet(IF h.ty = "L2AccountProof" THEN AccountPath(h.chain, h.n, h.account)
        ELSE StoragePath(h.chain, h.n, h.account))

FetchL2(h) ==
  CASE h.ty = "L2OutputRoot" -> FetchOutputRoot(h)
    [] h.ty = "L2Code" -> FetchCode(h)
    [] h.ty \in {"L2AccountProof", "L2AccountStorageProof"} -> FetchProof(h)
    [] OTHER -> FetchBlock(h)

\* The interop host converts all forty bytes of the hint to a hash, which
\* is an error.
FetchStateNode(mode, h) == IF mode = "interop" THEN {} ELSE {Sibling(h.chain, h.n)}

\* debug_executePayload: the witness of the block built on block n.
FetchPayloadWitness(mode, h) ==
  IF mode = "interop" THEN {}
  ELSE ToSet(StoragePath(h.chain, h.n, "account")) \cup {Sibling(h.chain, h.n), Code(h.chain)}

\* A block that is not canonical is derived and executed again, and what
\* the host's node cannot answer for is stored.
FetchBlockData(h) ==
  IF OnHost(h.n) THEN {}
  ELSE {Header(h.chain, h.n), ReceiptsTrie(h.chain, h.n), TransactionsTrie(h.chain, h.n)}

L1Hints == {"L1BlockHeader", "L1Transactions", "L1Receipts", "L1Blob", "L1Precompile"}

FetchHint(mode, h) ==
  IF h.ty \in L1Hints THEN FetchL1(h)
  ELSE IF h.ty \in {"AgreedPreState", "StartingL2Output"} THEN FetchAgreed(h)
  ELSE IF h.id # (IF mode = "single" THEN 0 ELSE h.chain) THEN {}
  ELSE IF h.ty = "L2BlockData" THEN FetchBlockData(h)
  ELSE IF h.ty = "L2PayloadWitness" THEN FetchPayloadWitness(mode, h)
  ELSE IF ~OnHost(h.n) THEN {}
  ELSE IF h.ty = "L2StateNode" THEN FetchStateNode(mode, h)
  ELSE FetchL2(h)

\* The local inputs of the hosts, answered from their configuration.
LocalInputs(mode) ==
  {Local(x) : x \in {"l1_head", "rollup_config", "l1_config"}
                \cup (IF mode = "single" THEN {"output_root", "claim", "block_number", "chain_id"}
                      ELSE {"pre_state", "post_state", "timestamp"})}

\* Hints the host of a program acts on as they arrive.
ProactiveHint(mode) == IF mode = "single" THEN "L2PayloadWitness" ELSE "L2BlockData"
=============================================================================
