----------------------------- MODULE InteropProof -----------------------------
(***************************************************************************)
(* The interop fault proof program (bin/client/src/interop with            *)
(* kona-proof-interop, kona-driver and the message graph of kona-interop). *)
(*                                                                         *)
(* One run of the program takes an agreed pre-state and accepts exactly    *)
(* one claim about the state that follows it.  A behaviour is the trace of *)
(* a game: the claim a run accepts is the pre-state the next one starts    *)
(* from.  A run ends in one step, except the run that consolidates, whose  *)
(* loop is taken apart: it derives and resolves the message graph, and     *)
(* rebuilds the chains with invalid messages one at a time, in the order   *)
(* of a hash map.                                                          *)
(***************************************************************************)
EXTENDS Superchain, FiniteSetsExt

CONSTANTS
  MaxSteps,        \* TRANSITION_STATE_MAX_STEPS
  Window,          \* HISTORY_SERVE_WINDOW
  FirstRecorded    \* [Chains -> the first block the EIP-2935 contract recorded]

ASSUME ProofAssumption ==
  /\ MaxSteps \in Nat /\ MaxSteps >= NumChains
  /\ Window \in Nat \ {0}
  /\ FirstRecorded \in [Chains -> Nat]

VARIABLES
  feed,       \* what L1 holds, up to the agreed head
  agreed,     \* boot.agreed_pre_state
  phase,      \* "run", or where the consolidating run is in its loop
  heads,      \* OracleInteropProvider::local_safe_heads
  bad         \* chains still to be rebuilt in this round

proofVars == <<feed, agreed, phase, heads, bad>>

-----------------------------------------------------------------------------
(***************************************************************************)
(* The pre-state.                                                          *)
(***************************************************************************)
SuperRoot(ts, outputs) ==
  [kind |-> "super", timestamp |-> ts, outputs |-> outputs, pending |-> <<>>, step |-> 0]

(***************************************************************************)
(* PreState::transition.  It is None when a block is missing; the callers  *)
(* below pass one whenever the progress is not saturated.                  *)
(***************************************************************************)
Transition(pre, block) ==
  CASE pre.kind = "super" ->
         [pre EXCEPT !.kind = "transition", !.pending = <<block>>, !.step = 1]
    [] pre.kind = "transition" /\ Len(pre.pending) = NumChains /\ pre.step = MaxSteps ->
         SuperRoot(pre.timestamp + 1, [c \in Chains |-> pre.pending[c]])
    [] pre.kind = "transition" /\ Len(pre.pending) = NumChains /\ pre.step # MaxSteps ->
         [pre EXCEPT !.step = @ + 1]
    [] OTHER ->
         [pre EXCEPT !.pending = Append(@, block), !.step = @ + 1]

Saturated == agreed.kind = "transition" /\ agreed.step >= NumChains

ActiveChain == agreed.step + 1

SafeHead == agreed.outputs[ActiveChain]

-----------------------------------------------------------------------------
(***************************************************************************)
(* Driver::advance_to_target for the block after the safe head.            *)
(***************************************************************************)
Offer == feed[ActiveChain][Len(SafeHead) + 1]

MutInteropActive(n) == FALSE

(***************************************************************************)
(* RollupConfig::is_interop_active, as the driver calls it: with the       *)
(* number of the safe head.                                                *)
(***************************************************************************)
InteropActive(n) == n >= InteropTime

ExecutePayload(offer) ==
  Append(SafeHead, IF offer.kind = "full" THEN [kind |-> "full", msgs |-> offer.msgs] ELSE Bare)

-----------------------------------------------------------------------------
(***************************************************************************)
(* The blocks eip_2935_history_lookup can find from block k when it is     *)
(* asked for block n: every block records its parent in the ring buffer,   *)
(* from the time the contract is deployed.                                 *)
(***************************************************************************)
Slot(k, n) == (IF k - n <= Window THEN n ELSE k) % Window

InRing(c, k, n) == {j \in FirstRecorded[c]..(k - 1) : j % Window = Slot(k, n)}

(***************************************************************************)
(* OracleInteropProvider::header_by_number: the number of the header it    *)
(* returns, walking back from the local safe head.  A failed lookup makes  *)
(* the rest of the walk linear, and a linear walk ends at the number asked.*)
(***************************************************************************)
HeaderByNumber(c, h, number) ==
  LET Walk[k \in 0..Len(h)] ==
        IF k <= number THEN k
        ELSE IF InRing(c, k, 0) # {} THEN Walk[Max(InRing(c, k, 0))] ELSE number
  IN Walk[Len(h)]

(***************************************************************************)
(* MessageGraph::check_single_dependency for a message executed in the     *)
(* local safe head of chain c.                                             *)
(***************************************************************************)
CheckSingleDependency(m, c) ==
  /\ m.chain \in Chains
  /\ InTime(m, Timestamp(c, Len(heads[c])))
  /\ m.number <= Len(heads[m.chain])
  /\ LET k == HeaderByNumber(m.chain, heads[m.chain], m.number)
     IN /\ k # 0
        /\ HasLog(heads[m.chain][k], m)
        /\ Timestamp(m.chain, k) = m.timestamp

(***************************************************************************)
(* MessageGraph::derive and resolve: the chains with an invalid message.   *)
(***************************************************************************)
ExecutingMessages(h) == IF h = <<>> THEN {} ELSE h[Len(h)].msgs

InvalidChains == {c \in Chains : \E m \in ExecutingMessages(heads[c]) :
                        ~CheckSingleDependency(m, c)}

-----------------------------------------------------------------------------
(***************************************************************************)
(* The program.  interop::run selects the sub-problem; each action is the  *)
(* run that accepts a claim, and `agreed' becomes that claim.              *)
(***************************************************************************)
Ready == phase = "run" /\ agreed.kind # "invalid"

(***************************************************************************)
(* The claim is at or past its timestamp, or the pre-state is invalid: the *)
(* only claim accepted is the pre-state itself.                            *)
(***************************************************************************)
ExtendTrace ==
  /\ phase = "run"
  /\ \/ agreed.kind = "invalid"
     \/ agreed.kind = "super" /\ agreed.timestamp >= Claimed
  /\ UNCHANGED proofVars

SubTransition ==
  /\ Ready
  /\ agreed.timestamp < Claimed
  /\ agreed.kind = "transition" => agreed.step < MaxSteps

Pad ==
  /\ SubTransition
  /\ Saturated
  /\ agreed' = Transition(agreed, <<>>)
  /\ UNCHANGED <<feed, phase, heads, bad>>

NoBlockDue ==
  /\ SubTransition
  /\ ~Saturated
  /\ ~IsDue(ActiveChain, SafeHead, agreed.timestamp)
  /\ agreed' = Transition(agreed, SafeHead)
  /\ UNCHANGED <<feed, phase, heads, bad>>

DeriveBlock ==
  /\ SubTransition
  /\ ~Saturated
  /\ IsDue(ActiveChain, SafeHead, agreed.timestamp)
  /\ Offer.kind # "missing"
  /\ agreed' = Transition(agreed, ExecutePayload(Offer))
  /\ UNCHANGED <<feed, phase, heads, bad>>

(***************************************************************************)
(* EndOfSource: outside interop the driver stops at the safe head.         *)
(***************************************************************************)
EndOfSource ==
  /\ SubTransition
  /\ ~Saturated
  /\ IsDue(ActiveChain, SafeHead, agreed.timestamp)
  /\ Offer.kind = "missing"
  /\ agreed' = IF InteropActive(Len(SafeHead))
               THEN [agreed EXCEPT !.kind = "invalid"]
               ELSE Transition(agreed, SafeHead)
  /\ UNCHANGED <<feed, phase, heads, bad>>

(***************************************************************************)
(* consolidate_dependencies: load the local safe heads.                    *)
(***************************************************************************)
LoadHeads ==
  /\ Ready
  /\ agreed.kind = "transition" /\ agreed.timestamp < Claimed
  /\ agreed.step = MaxSteps
  /\ heads' = [c \in Chains |-> agreed.pending[c]]
  /\ phase' = "resolve"
  /\ UNCHANGED <<feed, agreed, bad>>

(***************************************************************************)
(* consolidate_once: when no message is invalid the loop ends.             *)
(***************************************************************************)
ConsolidateOnce ==
  /\ phase = "resolve"
  /\ bad' = InvalidChains
  /\ phase' = IF InvalidChains = {} THEN "done" ELSE "rebuild"
  /\ UNCHANGED <<feed, agreed, heads>>

MutSinglePass(c) ==
  /\ phase = "rebuild" /\ c \in bad
  /\ LET rebuilt == Append(SubSeq(heads[c], 1, Len(heads[c]) - 1), Replaced)
     IN /\ agreed' = [agreed EXCEPT !.pending[c] = rebuilt]
        /\ heads' = [heads EXCEPT ![c] = rebuilt]
  /\ bad' = bad \ {c}
  /\ phase' = IF bad' = {} THEN "done" ELSE "rebuild"
  /\ UNCHANGED feed

MutReExecute(c) ==
  /\ phase = "rebuild" /\ c \in bad
  /\ agreed' = [agreed EXCEPT !.pending[c] = Append(SubSeq(heads[c], 1, Len(heads[c]) - 1), Replaced)]
  /\ bad' = bad \ {c}
  /\ phase' = IF bad' = {} THEN "resolve" ELSE "rebuild"
  /\ UNCHANGED <<feed, heads>>

(***************************************************************************)
(* re_execute_deposit_only for one chain: the pending block and the local  *)
(* safe head are both replaced by the block rebuilt on the same parent.    *)
(* The last chain of the round closes it, and the loop resolves again.     *)
(***************************************************************************)
ReExecute(c) ==
  /\ phase = "rebuild" /\ c \in bad
  /\ heads[c][Len(heads[c])].kind = "full"
  /\ LET rebuilt == Append(SubSeq(heads[c], 1, Len(heads[c]) - 1), Replaced)
     IN /\ agreed' = [agreed EXCEPT !.pending[c] = rebuilt]
        /\ heads' = [heads EXCEPT ![c] = rebuilt]
  /\ bad' = bad \ {c}
  /\ phase' = IF bad' = {} THEN "resolve" ELSE "rebuild"
  /\ UNCHANGED feed

Finish ==
  /\ phase = "done"
  /\ agreed' = Transition(agreed, <<>>)
  /\ phase' = "run"
  /\ heads' = [c \in Chains |-> <<>>]
  /\ UNCHANGED <<feed, bad>>

ProofInit ==
  /\ agreed = SuperRoot(AnchorTime, Anchor)
  /\ phase = "run"
  /\ heads = [c \in Chains |-> <<>>]
  /\ bad = {}

ProofNext ==
  \/ ExtendTrace \/ Pad \/ NoBlockDue \/ DeriveBlock \/ EndOfSource
  \/ LoadHeads \/ ConsolidateOnce \/ (\E c \in Chains : ReExecute(c)) \/ Finish

-----------------------------------------------------------------------------
(***************************************************************************)
(* The super root of the specification is the one the pre-state carries    *)
(* along: a transition state moves it only when it is consolidated.        *)
(***************************************************************************)
STF == INSTANCE SuperRootSpec
         WITH valid <- agreed.kind # "invalid",
              root <- [timestamp |-> agreed.timestamp, outputs |-> agreed.outputs]

(***************************************************************************)
(* The trace of accepted claims is one the specification allows: each      *)
(* super root follows from the one before by keeping the largest set of    *)
(* blocks whose messages all hold, whatever order the consolidator meets   *)
(* the chains in; a transition without data ends as invalid.               *)
(***************************************************************************)
ImplementsSTF == STF!Spec

(***************************************************************************)
(* The step counter selects the chain the next run works on, while         *)
(* PreState::transition goes by the length of the pending progress: the    *)
(* two agree until the progress is saturated, so transition never finds a  *)
(* block missing and no chain is skipped or done twice.                    *)
(***************************************************************************)
StepMatchesProgress ==
  agreed.kind = "transition" =>
    /\ agreed.step \in 1..MaxSteps
    /\ Len(agreed.pending) = (IF agreed.step <= NumChains THEN agreed.step ELSE NumChains)

(***************************************************************************)
(* A chain that owes a block in the next second enters the transition with *)
(* that block: when the data source ends before it, the driver hands the   *)
(* error to its caller and the transition is invalid.                      *)
(***************************************************************************)
DueChainsAdvance ==
  agreed.kind = "transition" =>
    \A c \in DOMAIN agreed.pending :
      IsDue(c, agreed.outputs[c], agreed.timestamp) =>
        Len(agreed.pending[c]) = Len(agreed.outputs[c]) + 1

(***************************************************************************)
(* A message is checked against the block it names: the header that        *)
(* header_by_number returns has the number it was asked for.               *)
(***************************************************************************)
HeaderHasNumber ==
  phase = "resolve" =>
    \A c \in Chains : \A m \in ExecutingMessages(heads[c]) :
      m.number <= Len(heads[m.chain]) =>
        HeaderByNumber(m.chain, heads[m.chain], m.number) = m.number

\* The game is over: the claimed timestamp is reached, or found unreachable.
Completed ==
  /\ phase = "run"
  /\ \/ agreed.kind = "invalid"
     \/ agreed.kind = "super" /\ agreed.timestamp = Claimed

(***************************************************************************)
(* Every game trace completes: the consolidation loop, which replaces      *)
(* blocks until no message is invalid, comes to an end, and the claimed    *)
(* timestamp is reached unless the transition is invalid.                  *)
(***************************************************************************)
Completes == <>Completed
=============================================================================
