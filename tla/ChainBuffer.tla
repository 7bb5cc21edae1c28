----------------------------- MODULE ChainBuffer -----------------------------
(***************************************************************************)
(* The in-memory L2 provider of an execution extension: ChainStateBuffer,  *)
(* two LRU caches that index blocks by hash and by number, and the         *)
(* BufferedL2Provider that answers the pipeline from them.  The extension  *)
(* (external) adds the blocks of a change of its chain one by one and then *)
(* sends the event that describes the change, as the crate's tests do.     *)
(*                                                                         *)
(* A block is the record of its number and of the branch it belongs to,    *)
(* which together stand for its hash.  A cache is the sequence of its      *)
(* entries, the most recently used first.                                  *)
(***************************************************************************)
EXTENDS Integers, SequencesExt, FiniteSetsExt

CONSTANTS Capacity,        \* capacity of both caches
          MaxReorgDepth,   \* ChainStateBuffer.max_reorg_depth
          ClearDepth,      \* reorgs deeper than this clear the caches
          HasConfig,       \* has the genesis a system config?
          MaxNumber,       \* bound: the highest block number
          Branches         \* bound: the branches blocks are built on

VARIABLES chain,     \* the extension's chain, from block 1 on
          todo,      \* the blocks it has yet to add, then the event
          event,
          byHash,    \* blocks_by_hash
          byNumber,  \* blocks_by_number
          heads      \* [canonical, current]: canonical_head and current_head

bufferVars == <<chain, todo, event, byHash, byNumber, heads>>

NoInfo == [number |-> 0, branch |-> 0]
NoEvent == [kind |-> "none"]
Top(blocks) == IF blocks = <<>> THEN NoInfo ELSE Last(blocks)

\* LruCache: put and get_mut move an entry to the front, put evicts the last
\* one of a full cache, peek and pop leave the order alone.
Without(cache, key) == SelectSeq(cache, LAMBDA e : e.key # key)
Put(cache, key, value) ==
    LET new == <<[key |-> key, value |-> value]>> \o Without(cache, key)
    IN  SubSeq(new, 1, Min({Len(new), Capacity}))
Has(cache, key) == \E i \in DOMAIN cache : cache[i].key = key
Peek(cache, key) == cache[SelectInSeq(cache, LAMBDA e : e.key = key)].value

GetBlockByNumber(number) ==
    IF Has(byNumber, number) /\ Has(byHash, Peek(byNumber, number))
    THEN Peek(byNumber, number) ELSE NoInfo

-----------------------------------------------------------------------------
(* The provider's three queries.  The genesis block is not taken from the    *)
(* cache, and its block info is built from an empty block, which fails.      *)

Methods == {"system_config_by_number", "l2_block_info_by_number", "block_by_number"}

Query(method, number) ==
    LET block == GetBlockByNumber(number)
    IN  IF number = 0 /\ method = "system_config_by_number"
        THEN IF HasConfig THEN [answer |-> NoInfo] ELSE [error |-> "SystemConfigMissing"]
        ELSE IF number = 0 /\ method = "l2_block_info_by_number"
        THEN [error |-> "L2BlockInfoConstruction"]
        ELSE IF block = NoInfo THEN [error |-> "BlockNotFound"] ELSE [answer |-> block]

ErrorKind(error) ==
    IF error \in {"ReorgTooDeep", "SystemConfigMissing"} THEN "Critical" ELSE "Temporary"

-----------------------------------------------------------------------------
(* The extension.                                                            *)

Idle == todo = <<>> /\ event = NoEvent

\* The blocks of branch b with the numbers from..to.
Blocks(b, from, to) == [i \in 1..(to - from + 1) |-> [number |-> from + i - 1, branch |-> b]]

\* A change of the chain: it keeps the first k blocks and goes on to block n
\* of branch b.
Change ==
    /\ Idle
    /\ \E k \in 0..Len(chain), n \in 0..MaxNumber, b \in Branches :
          LET dropped == SubSeq(chain, k + 1, Len(chain))
              added == Blocks(b, k + 1, n)
              new == SubSeq(chain, 1, k) \o added
          IN  /\ n >= k /\ new # chain
              /\ ToSet(added) \cap ToSet(dropped) = {}
              /\ chain' = new /\ todo' = added
              /\ event' = IF dropped = <<>> THEN [kind |-> "committed", blocks |-> added]
                          ELSE IF added = <<>> THEN [kind |-> "reverted", blocks |-> dropped]
                          ELSE [kind |-> "reorged", depth |-> Len(dropped)]
    /\ UNCHANGED <<byHash, byNumber, heads>>

-----------------------------------------------------------------------------
(* add_block, handle_chain_event and clear_cache.                            *)

MutInsertBlock(block) ==
    /\ byHash' = Put(byHash, block, TRUE)
    /\ byNumber' = IF Has(byNumber, block.number) THEN byNumber
                   ELSE Put(byNumber, block.number, block)

InsertBlock(block) ==
    /\ byHash' = Put(byHash, block, TRUE)
    /\ byNumber' = Put(byNumber, block.number, block)

AddBlock ==
    /\ todo # <<>>
    /\ InsertBlock(Head(todo))
    /\ todo' = Tail(todo)
    /\ UNCHANGED <<chain, event, heads>>

\* Marks the committed blocks that are cached as canonical, which also makes
\* them the most recently used.
Committed(blocks) ==
    /\ heads' = [canonical |-> Top(chain), current |-> Top(chain)]
    /\ byHash' = FoldLeft(LAMBDA cache, b : IF Has(cache, b) THEN Put(cache, b, TRUE) ELSE cache,
                          byHash, blocks)
    /\ UNCHANGED byNumber

\* The provider's head moves even if the buffer refuses the event.
Reorged(depth) ==
    IF depth > MaxReorgDepth
    THEN heads' = [heads EXCEPT !.current = Top(chain)] /\ UNCHANGED <<byHash, byNumber>>
    ELSE /\ heads' = [canonical |-> Top(chain), current |-> Top(chain)]
         /\ IF depth > ClearDepth THEN byHash' = <<>> /\ byNumber' = <<>>
            ELSE UNCHANGED <<byHash, byNumber>>

Reverted(blocks) ==
    /\ heads' = [canonical |-> Top(chain), current |-> Top(chain)]
    /\ byHash' = FoldLeft(Without, byHash, blocks)
    /\ UNCHANGED byNumber

HandleChainEvent ==
    /\ todo = <<>> /\ event # NoEvent
    /\ \/ event.kind = "committed" /\ Committed(event.blocks)
       \/ event.kind = "reorged" /\ Reorged(event.depth)
       \/ event.kind = "reverted" /\ Reverted(event.blocks)
    /\ event' = NoEvent
    /\ UNCHANGED <<chain, todo>>

ClearCache ==
    /\ byHash' = <<>> /\ byNumber' = <<>>
    /\ heads' = [heads EXCEPT !.canonical = NoInfo]
    /\ UNCHANGED <<chain, todo, event>>

BufferInit ==
    /\ chain = <<>> /\ todo = <<>> /\ event = NoEvent
    /\ byHash = <<>> /\ byNumber = <<>>
    /\ heads = [canonical |-> NoInfo, current |-> NoInfo]

BufferNext == Change \/ AddBlock \/ HandleChainEvent \/ ClearCache

-----------------------------------------------------------------------------
\* Once the extension has reported a change, every query for a number of its
\* chain is answered from the block the chain has there or ends in an error
\* the pipeline retries, whatever was evicted, reverted, cleared or refused as
\* too deep before.  Numbers above the chain may still be served with orphans
\* after a reorganisation that shortened it.
\* (ChainStateBuffer::insert_block, handle_event, get_block_by_number)
ServesTheChain ==
    Idle => \A n \in DOMAIN chain, m \in Methods :
        LET r == Query(m, n)
        IN  IF "error" \in DOMAIN r THEN ErrorKind(r.error) = "Temporary"
            ELSE r.answer = chain[n]
=============================================================================
