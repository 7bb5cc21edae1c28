------------------------------- MODULE MCHost -------------------------------
(***************************************************************************)
(* The fault proof program's side of the preimage oracle, and the host's.  *)
(* Four independent parts, one chosen for each behaviour: the programs and *)
(* the preimage server, the precompiles, the state database, and the walk  *)
(* of an ordered list.                                                     *)
(***************************************************************************)
EXTENDS Integers, Sequences

CONSTANTS Collapses,    \* modes whose blocks delete a slot beside an unrevealed node
          Lookups       \* chains whose past blocks hold messages to look up

VARIABLES part,
          program, client, cache, hintCh, ackCh, keyCh, replyCh, router, server, backend,
          state, root, roots, kv, missing, loaded, read, header, failed, blocks,
          items, inner, yielded,
          fork, evm, call, store

oracle == <<program, client, cache, hintCh, ackCh, keyCh, replyCh, router, server, backend>>
database == <<state, root, roots, kv, missing, loaded, read, header, failed, blocks>>
list == <<items, inner, yielded>>
precompiles == <<fork, evm, call, store>>
vars == <<part, oracle, database, list, precompiles>>

-----------------------------------------------------------------------------
\* Three L1 blocks, the agreed L2 block is the third.
Oracle == INSTANCE PreimageOracle
            WITH L1Head <- 3, SafeHead <- 3, SafeOrigin <- 2, Timeout <- 1, Elements <- 2,
                 Losses <- {"slot", "transactions"}, Empties <- {}, CacheSize <- 3, MaxCalls <- 2

-----------------------------------------------------------------------------
\* A contract with three slots, whose paths diverge at the first and at the
\* second nibble, an account beside it and the message passer.  The leaf of
\* slot y is short enough to be part of its parent.
AccountPath == [contract |-> <<0, 1>>, account |-> <<0, 0>>, passer |-> <<1, 1>>]
Slots == [contract |-> {"x", "y", "z"}, account |-> {}, passer |-> {}]
SlotPath == [x |-> <<0, 0>>, y |-> <<0, 1>>, z |-> <<1, 0>>]
Values == [x |-> {2}, y |-> {1}, z |-> {2}]
ValueLength(v) == IF "balance" \in DOMAIN v THEN 72 ELSE IF v.slot = 1 THEN 1 ELSE 34

Account(storage) == [exists |-> TRUE, balance |-> 1, storage |-> storage]

StartStates ==
  {[contract |-> Account([x |-> 2, y |-> 1, z |-> 2]), account |-> Account(<<>>), passer |-> Account(<<>>)],
   [contract |-> [exists |-> FALSE], account |-> Account(<<>>), passer |-> Account(<<>>)]}

DB == INSTANCE TrieDB
        WITH Nibbles <- {0, 1}, Accounts <- DOMAIN AccountPath, MessagePasser <- "passer",
             Balances <- [a \in DOMAIN AccountPath |-> {1}], MaxBlocks <- 2

-----------------------------------------------------------------------------
\* Lists on both sides of the index whose key is longer than one byte.
List == INSTANCE OrderedList WITH Lengths <- {0, 1, 2, 16, 127, 128, 129, 130}

-----------------------------------------------------------------------------
\* Lengths on both sides of every limit, and of the form a precompile takes.
CallLengths ==
  [ecrecover |-> {0, 128}, kzg |-> {191, 192}, p256 |-> {160},
   bn128 |-> {0, 191, 192, 81984, 82176, 112512, 112687, 112704},
   g1_add |-> {255, 256}, g2_add |-> {512, 513}, map_fp |-> {64, 128}, map_fp2 |-> {64, 128},
   g1_msm |-> {0, 160, 161, 288960, 289120, 513760, 513920},
   g2_msm |-> {0, 288, 278784, 279072, 488448, 488736},
   pairing |-> {0, 384, 385, 156672, 157056, 235008, 235392}]

EVM == INSTANCE Precompiles WITH Lengths <- CallLengths, MaxFork <- 10

-----------------------------------------------------------------------------
IdleOracle ==
  /\ program = "" /\ client = "" /\ cache = "" /\ hintCh = "" /\ ackCh = "" /\ keyCh = ""
  /\ replyCh = "" /\ router = "" /\ server = "" /\ backend = ""

IdleDatabase ==
  /\ state = "" /\ root = "" /\ roots = "" /\ kv = "" /\ missing = "" /\ loaded = ""
  /\ read = "" /\ header = "" /\ failed = "" /\ blocks = ""

IdleList == items = "" /\ inner = "" /\ yielded = ""

IdlePrecompiles == fork = "" /\ evm = "" /\ call = "" /\ store = ""

Init ==
  \/ part = "oracle" /\ Oracle!OracleInit /\ IdleDatabase /\ IdleList /\ IdlePrecompiles
  \/ part = "database" /\ IdleOracle /\ DB!DBInit /\ IdleList /\ IdlePrecompiles
  \/ part = "list" /\ IdleOracle /\ IdleDatabase /\ List!ListInit /\ IdlePrecompiles
  \/ part = "precompiles" /\ IdleOracle /\ IdleDatabase /\ IdleList /\ EVM!PrecompileInit

Next ==
  \/ part = "oracle" /\ Oracle!OracleNext /\ UNCHANGED <<part, database, list, precompiles>>
  \/ part = "database" /\ DB!DBNext /\ UNCHANGED <<part, oracle, list, precompiles>>
  \/ part = "list" /\ List!ListNext /\ UNCHANGED <<part, oracle, database, precompiles>>
  \/ part = "precompiles" /\ EVM!PrecompileNext /\ UNCHANGED <<part, oracle, database, list>>

Spec ==
  /\ Init /\ [][Next]_vars
  /\ WF_vars(part = "oracle" /\ Oracle!ClientReads /\ UNCHANGED <<part, database, list, precompiles>>)
  /\ WF_vars(part = "oracle" /\ Oracle!RouterNext /\ UNCHANGED <<part, database, list, precompiles>>)
  /\ WF_vars(part = "oracle" /\ Oracle!ServerNext /\ UNCHANGED <<part, database, list, precompiles>>)

-----------------------------------------------------------------------------
(***************************************************************************)
(* What the client gets for a key is the preimage of that key, and the     *)
(* host can get what it waits for (get, next_preimage_request,             *)
(* CachingOracle, route_hint, get_preimage).  What a contract gets from a  *)
(* precompile run by the host is what the precompile answers               *)
(* (OpFpvmPrecompiles::run, eth::execute).                                 *)
(***************************************************************************)
AnswersMatch ==
  /\ part = "oracle" => Oracle!AnswersMatch
  /\ part = "precompiles" => EVM!ResultsMatch

(***************************************************************************)
(* Each hint and each request of the client returns (next_hint,            *)
(* next_preimage_request).                                                 *)
(***************************************************************************)
ClientUnblocked ==
  (part = "oracle" /\ client.pc \in {"hint", "length", "data"}) ~> (part = "oracle" => client.pc = "run" \/ Oracle!Over)

(***************************************************************************)
(* The roots of a sealed header are those of the state the block led to,   *)
(* and every trie node on the way is held by the host or covered by the    *)
(* last hint (state_root, message_passer_account, basic, storage, delete). *)
(***************************************************************************)
HeaderCommitsToState == part = "database" => DB!HeaderCommitsToState

(***************************************************************************)
(* Walking the trie of an ordered list gives the list back (Reorder of     *)
(* OrderedListWalker against adjust_index_for_rlp of the host).            *)
(***************************************************************************)
ListRestored == part = "list" => List!ListRestored
=============================================================================
