---------------------------- MODULE EngineProofs ----------------------------
(***************************************************************************)
(* What the engine tasks preserve, for every chain, every input and every  *)
(* answer of the execution layer, and what one step of the engine actor    *)
(* does, whatever the other actors put into its channels.  The lemmas      *)
(* follow the call structure of the tasks: the two Engine API calls,       *)
(* Synchronize, Insert, Build, Consolidate, Finalize.                      *)
(***************************************************************************)
EXTENDS EngineActor, TLAPS

-----------------------------------------------------------------------------
(* Sequences.  The few facts needed of SequenceTheorems are proved here: every *)
(* theorem in scope makes every step of the proofs below dearer.             *)

\* The empty sequence is the one of length zero.
LEMMA EmptySeq ==
  ASSUME NEW S
  PROVE  /\ << >> \in Seq(S) /\ Len(<< >>) = 0
         /\ \A s \in Seq(S) : s # << >> => Len(s) \in Nat \ {0}
OBVIOUS

\* A sequence is a function on 1 .. Len.
LEMMA LenProperties ==
  ASSUME NEW S, NEW s \in Seq(S)
  PROVE  /\ Len(s) \in Nat /\ DOMAIN s = 1 .. Len(s)
         /\ \A i \in 1 .. Len(s) : s[i] \in S
OBVIOUS

\* Sequences are equal if they agree at every position.
LEMMA SeqEqual ==
  ASSUME NEW S, NEW s \in Seq(S), NEW t \in Seq(S),
         Len(s) = Len(t), \A i \in 1 .. Len(s) : s[i] = t[i]
  PROVE  s = t
OBVIOUS

\* The first n elements of a sequence.
LEMMA SubSeqProperties ==
  ASSUME NEW S, NEW s \in Seq(S), NEW n \in 0 .. Len(s)
  PROVE  /\ SubSeq(s, 1, n) \in Seq(S) /\ Len(SubSeq(s, 1, n)) = n
         /\ \A i \in 1 .. n : SubSeq(s, 1, n)[i] = s[i]
OBVIOUS

\* Its first 0 elements are none,
LEMMA SubSeqEmpty ==
  ASSUME NEW S, NEW s \in Seq(S) PROVE SubSeq(s, 1, 0) = << >>
OBVIOUS

\* and its first Len elements are all.
LEMMA SubSeqFull ==
  ASSUME NEW S, NEW s \in Seq(S)
  PROVE  SubSeq(s, 1, Len(s)) = s
OBVIOUS

\* What is appended to a queue is its only new element.
LEMMA Appended ==
  ASSUME NEW S, NEW q \in Seq(S), NEW x
  PROVE  \A i \in DOMAIN Append(q, x) :
           \/ i \in DOMAIN q /\ Append(q, x)[i] = q[i]
           \/ Append(q, x)[i] = x
OBVIOUS

\* The head of a queue and what follows it were in it.
LEMMA Received ==
  ASSUME NEW S, NEW q \in Seq(S), q # << >>
  PROVE  /\ 1 \in DOMAIN q /\ Head(q) = q[1] /\ q[1] \in S
         /\ Tail(q) \in Seq(S)
         /\ \A i \in DOMAIN Tail(q) : i + 1 \in DOMAIN q /\ Tail(q)[i] = q[i + 1]
OBVIOUS

\* An empty queue holds nothing.
LEMMA NothingQueued == DOMAIN << >> = {}
OBVIOUS

-----------------------------------------------------------------------------
Errs == {"Ok", "Temporary", "Critical", "Reset", "Flush", "Status"}

OutcomeSet == [st : EngineState, el : ELState, err : Errs,
               payload : MaybeBlock]

\* The execution layer knows the ancestors of every block it knows.
Closed(e) ==
  /\ e.head \in e.known
  /\ e.finalized \in e.known \cup {NoBlock}
  /\ \A b \in e.known : Ancestors(b) \subseteq e.known

ELOk(e) == e \in ELState /\ Closed(e)

\* A safe and a finalized head the execution layer has, and a finalized head
\* that is not ahead of the unsafe head.
Held(n, e) == /\ n.safe \in e.known \cup {NoBlock}
              /\ n.finalized \in e.known \cup {NoBlock}

Ordered(n) == Number(n.finalized) <= Number(n.unsafe)

Good(s, e) == /\ s \in EngineState /\ ELOk(e)
              /\ Held(s.sync, e) /\ Ordered(s.sync)

GoodOutcome(e, o) == /\ o \in OutcomeSet /\ Good(o.st, o.el)
                     /\ e.known \subseteq o.el.known

\* An outcome that leaves the finalized head alone.
KeepsFinalized(s, o) == o.st.sync.finalized = s.sync.finalized

-----------------------------------------------------------------------------
\* The ancestors of a block are blocks.
LEMMA AncestorsAreBlocks ==
  ASSUME NEW b \in Block
  PROVE  Ancestors(b) \subseteq Block
BY SubSeqProperties DEF Ancestors, Block

\* Genesis is a block, and any other block has a positive number.
LEMMA EmptyBlock ==
  /\ Genesis \in Block
  /\ \A b \in Block : Len(b) \in Nat /\ (b # Genesis => Len(b) # 0)
<1>1. << >> \in Seq(Content)
  BY EmptySeq
<1>2. \A b \in Seq(Content) : b # << >> => Len(b) \in Nat \ {0}
  BY EmptySeq
<1>3. QED BY <1>1, <1>2 DEF Genesis, Block

\* The ancestors of a block are itself and those of its parent.
LEMMA AncestorsOfChild ==
  ASSUME NEW b \in Block, b # Genesis
  PROVE  /\ Front(b) \in Block
         /\ Ancestors(b) \subseteq Ancestors(Front(b)) \cup {b}
<1>0. Len(b) \in Nat /\ Len(b) # 0
  BY EmptyBlock
<1>1. Front(b) \in Block /\ Len(Front(b)) = Len(b) - 1
  <2>1. \A i \in 1 .. Len(b) - 1 : b[i] \in Content
    BY <1>0 DEF Block
  <2>2. SubSeq(b, 1, Len(b) - 1) \in Seq(Content)
    BY <1>0, <2>1
  <2>3. Len(SubSeq(b, 1, Len(b) - 1)) = Len(b) - 1
    <3> DEFINE n == Len(b) - 1
    <3>1. n \in Nat /\ \A i \in 1 .. n : b[i] \in Content
      BY <1>0, <2>1
    <3> HIDE DEF n
    <3>2. Len(SubSeq(b, 1, n)) = IF 1 <= n THEN n - 1 + 1 ELSE 0
      BY <3>1, SubSeqProperties
    <3>3. Len(SubSeq(b, 1, n)) = n
      BY <3>1, <3>2
    <3>4. QED BY <3>3 DEF n
  <2>4. QED BY <2>2, <2>3 DEF Front, Block
<1>2. ASSUME NEW n \in 0 .. Len(b)
      PROVE  SubSeq(b, 1, n) \in Ancestors(Front(b)) \cup {b}
  <2>1. CASE n = Len(b)
    BY <2>1, SubSeqFull DEF Block
  <2>2. CASE n < Len(b)
    <3>1. SubSeq(Front(b), 1, n) = SubSeq(b, 1, n)
      BY <1>1, <2>2 DEF Front, Block
    <3>2. QED BY <1>1, <2>2, <3>1 DEF Ancestors
  <2>3. QED BY <2>1, <2>2, LenProperties DEF Block
<1>3. QED BY <1>1, <1>2, SMTT(40) DEF Ancestors

\* Ancestors of ancestors are ancestors.
LEMMA AncestorsOfAncestor ==
  ASSUME NEW b \in Block, NEW a \in Ancestors(b)
  PROVE  Ancestors(a) \subseteq Ancestors(b)
<1>1. PICK n \in 0 .. Len(b) : a = SubSeq(b, 1, n)
  BY DEF Ancestors
<1>2. Len(a) = n
  BY <1>1, SubSeqProperties DEF Block
<1>3. ASSUME NEW m \in 0 .. n
      PROVE  SubSeq(a, 1, m) = SubSeq(b, 1, m)
  BY <1>1, <1>2 DEF Block
<1>4. QED BY <1>2, <1>3 DEF Ancestors, Block

\* A prefix of a block is one of its ancestors.
LEMMA PrefixIsAncestor ==
  ASSUME NEW a \in Block, NEW b \in Block, IsPrefix(a, b)
  PROVE  a \in Ancestors(b)
<1>1. SubSeq(a, 1, Len(a)) = a
  BY SubSeqFull DEF Block
<1>2. Len(a) \in 0 .. Len(b)
  BY DEF IsPrefix, Block
<1>3. QED BY <1>1, <1>2, ZenonT(30) DEF IsPrefix, Ancestors

\* A block and genesis are among the ancestors of a block.
LEMMA SelfAndGenesis ==
  ASSUME NEW b \in Block
  PROVE  b \in Ancestors(b) /\ Genesis \in Ancestors(b) /\ Genesis \in Block
<1>1. SubSeq(b, 1, Len(b)) = b /\ SubSeq(b, 1, 0) = << >>
  BY SubSeqFull, SubSeqEmpty DEF Block
<1>2. 0 \in 0 .. Len(b) /\ Len(b) \in 0 .. Len(b)
  BY DEF Block
<1>3. QED BY <1>1, <1>2, EmptyBlock, ZenonT(30) DEF Ancestors, Genesis

-----------------------------------------------------------------------------
\* An answer is the expected one, or lost before or after its effect.
LEMMA AnswerOrLost ==
  ASSUME NEW e, NEW answer, NEW r \in WithRpcFailure(e, answer)
  PROVE  \/ r = answer
         \/ r = Answer(e, "RpcError")
         \/ r = Answer(answer.el, "RpcError")
BY DEF WithRpcFailure

\* The fields of an answer are what it was built from.
LEMMA AnswerFields ==
  ASSUME NEW e, NEW status
  PROVE  Answer(e, status).el = e /\ Answer(e, status).status = status
BY DEF Answer

\* engine_forkchoiceUpdated keeps the execution layer closed and forgets no
\* block; an accepted head is a block it knows.
LEMMA ForkchoiceUpdatedOk ==
  ASSUME NEW e, ELOk(e), NEW h \in MaybeBlock, NEW s \in MaybeBlock,
         NEW f \in MaybeBlock, NEW r \in ForkchoiceUpdated(e, h, s, f)
  PROVE  /\ ELOk(r.el) /\ e.known \subseteq r.el.known
         /\ r.status \in {"Valid", "Syncing", "InvalidForkchoiceState",
                          "RpcError"}
         /\ r.status = "Valid" => h \in r.el.known
<1> DEFINE synced == [e EXCEPT !.target = h]
           moved  == [e EXCEPT !.head = h, !.target = NoBlock,
                               !.safe = IF s = NoBlock THEN @ ELSE s,
                               !.finalized = IF f = NoBlock THEN @ ELSE f]
<1>1. ELOk(synced) /\ synced.known = e.known
  BY DEF ELOk, Closed, ELState
<1>2. ASSUME h \in e.known, IsAncestor(f, h)
      PROVE  ELOk(moved) /\ moved.known = e.known
  <2>1. h \in Block /\ Ancestors(h) \subseteq e.known
    BY <1>2 DEF ELOk, Closed, ELState
  <2>2. f \in e.known \cup {NoBlock}
    BY <1>2, <2>1, PrefixIsAncestor DEF IsAncestor, MaybeBlock
  <2>3. moved \in ELState
    BY <2>1, ZenonT(30) DEF ELOk, ELState, MaybeBlock
  <2>4. /\ moved.known = e.known /\ moved.head = h
        /\ moved.finalized = IF f = NoBlock THEN e.finalized ELSE f
    BY DEF ELOk, ELState
  <2>5. QED BY <1>2, <2>1, <2>2, <2>3, <2>4 DEF ELOk, Closed
<1> HIDE DEF synced, moved
<1>3. CASE h \notin e.known
  <2>1. r \in WithRpcFailure(e, Answer(synced, "Syncing"))
    BY <1>3 DEF ForkchoiceUpdated, synced
  <2>2. QED BY <1>1, <2>1, AnswerOrLost, AnswerFields
<1>4. CASE h \in e.known /\ IsAncestor(s, h) /\ IsAncestor(f, h)
  <2>1. r \in WithRpcFailure(e, Answer(moved, "Valid"))
    BY <1>4 DEF ForkchoiceUpdated, moved
  <2>2. QED BY <1>2, <1>4, <2>1, AnswerOrLost, AnswerFields
<1>5. CASE h \in e.known /\ ~(IsAncestor(s, h) /\ IsAncestor(f, h))
  <2>1. r \in WithRpcFailure(e, Answer(e, "InvalidForkchoiceState"))
    BY <1>5 DEF ForkchoiceUpdated
  <2>2. QED BY <2>1, AnswerOrLost, AnswerFields
<1>6. QED BY <1>3, <1>4, <1>5

\* engine_newPayload keeps the execution layer closed and forgets no block; a
\* payload on a known parent is imported or refused.
LEMMA NewPayloadOk ==
  ASSUME NEW e, ELOk(e), NEW b \in Block, NEW r \in NewPayload(e, b)
  PROVE  /\ ELOk(r.el) /\ e.known \subseteq r.el.known
         /\ r.status \in {"Valid", "Syncing", "Invalid", "RpcError"}
         /\ r.status = "Valid" => b \in r.el.known
         /\ r.status = "Syncing" => b # Genesis /\ Front(b) \notin e.known
<1> DEFINE imported == [e EXCEPT !.known = @ \cup {b}]
<1>1. ASSUME b = Genesis \/ Front(b) \in e.known
      PROVE  ELOk(imported) /\ imported.known = e.known \cup {b}
  <2>1. imported \in ELState /\ imported.known = e.known \cup {b}
    BY DEF ELOk, ELState
  <2>2. Ancestors(b) \subseteq e.known \cup {b}
    <3>1. CASE b = Genesis
      <4>1. \A n \in 0 .. Len(b) : SubSeq(b, 1, n) = << >>
        BY <3>1, SubSeqEmpty DEF Genesis
      <4>2. QED BY <3>1, <4>1 DEF Ancestors, Genesis
    <3>2. CASE b # Genesis
      <4>1. Front(b) \in e.known /\ Ancestors(Front(b)) \subseteq e.known
        BY <1>1, <3>2 DEF ELOk, Closed
      <4>2. QED BY <3>2, <4>1, AncestorsOfChild
    <3>3. QED BY <3>1, <3>2
  <2>3. QED BY <2>1, <2>2 DEF ELOk, Closed
<1> HIDE DEF imported
<1>2. CASE b # Genesis /\ Last(b) \in Invalid
  <2>1. r \in WithRpcFailure(e, Answer(e, "Invalid"))
    BY <1>2 DEF NewPayload
  <2>2. QED BY <2>1, AnswerOrLost, AnswerFields
<1>3. CASE /\ ~(b # Genesis /\ Last(b) \in Invalid)
           /\ b = Genesis \/ Front(b) \in e.known
  <2>1. r \in WithRpcFailure(e, Answer(imported, "Valid"))
    BY <1>3 DEF NewPayload, imported
  <2>2. QED BY <1>1, <1>3, <2>1, AnswerOrLost, AnswerFields
<1>4. CASE /\ ~(b # Genesis /\ Last(b) \in Invalid)
           /\ b # Genesis /\ Front(b) \notin e.known
  <2>1. r \in WithRpcFailure(e, Answer(e, "Syncing"))
    BY <1>4 DEF NewPayload
  <2>2. QED BY <1>4, <2>1, AnswerOrLost, AnswerFields
<1>5. QED BY <1>2, <1>3, <1>4

-----------------------------------------------------------------------------
\* The fields of an outcome are what it was built from.
LEMMA OutcomeFields ==
  ASSUME NEW s, NEW e, NEW err
  PROVE  /\ Outcome(s, e, err).st = s /\ Outcome(s, e, err).el = e
         /\ Outcome(s, e, err).err = err
         /\ Outcome(s, e, err).payload = NoBlock
BY DEF Outcome

\* The ways SynchronizeTask ends.
LEMMA SynchronizeCases ==
  ASSUME NEW s, NEW e, NEW n, NEW o \in Synchronize(s, e, n)
  PROVE  \/ ~ForkchoiceNeeded(s, n) /\ o = Outcome(s, e, "Ok")
         \/ ForkchoiceNeeded(s, n) /\ o = Outcome(s, e, "Critical")
         \/ /\ ForkchoiceNeeded(s, n)
            /\ \E r \in ForkchoiceUpdated(e, n.unsafe, n.safe, n.finalized) :
                 o = Synchronized(s, n, r)
BY DEF Synchronize

\* An answer that cannot be lost is the answer.
LEMMA Answered ==
  ASSUME ~RpcFails, NEW e, NEW a, NEW r \in WithRpcFailure(e, a)
  PROVE  r = a
BY DEF WithRpcFailure

\* An outcome that leaves the state alone, or changes it to a good one, is
\* good.
LEMMA OutcomeOk ==
  ASSUME NEW e, NEW s, NEW f, Good(s, f), e.known \subseteq f.known,
         NEW err \in Errs
  PROVE  GoodOutcome(e, Outcome(s, f, err))
<1>1. Outcome(s, f, err) \in OutcomeSet
  BY DEF Outcome, OutcomeSet, Good, ELOk, MaybeBlock
<1>2. QED BY <1>1, OutcomeFields DEF GoodOutcome

\* The heads of a good state that are held stay held as the execution layer
\* learns more blocks.
LEMMA GoodGrows ==
  ASSUME NEW s, NEW e, NEW f, Good(s, e), ELOk(f), e.known \subseteq f.known
  PROVE  Good(s, f)
BY DEF Good, Held

\* SynchronizeTask keeps the state good if the heads it is to adopt are held.
LEMMA SynchronizeOk ==
  ASSUME NEW s, NEW e, Good(s, e), NEW n \in EngineSyncState, Held(n, e),
         NEW o \in Synchronize(s, e, n)
  PROVE  /\ GoodOutcome(e, o)
         /\ o.err \in {"Ok", "Temporary", "Critical", "Reset"}
         /\ o.st.sync \in {s.sync, n}
<1>1. CASE ~ForkchoiceNeeded(s, n)
  <2>1. o = Outcome(s, e, "Ok")
    BY <1>1 DEF Synchronize
  <2>2. QED BY <2>1, OutcomeOk, OutcomeFields DEF Errs
<1>2. CASE ForkchoiceNeeded(s, n) /\ Number(n.unsafe) < Number(n.finalized)
  <2>1. o = Outcome(s, e, "Critical")
    BY <1>2, ZenonT(30) DEF Synchronize
  <2>2. QED BY <2>1, OutcomeOk, OutcomeFields DEF Errs
<1>3. CASE ForkchoiceNeeded(s, n) /\ ~(Number(n.unsafe) < Number(n.finalized))
  <2>1. PICK r \in ForkchoiceUpdated(e, n.unsafe, n.safe, n.finalized) :
             o = Synchronized(s, n, r)
    BY <1>3 DEF Synchronize
  <2>2. ELOk(e) /\ n.unsafe \in MaybeBlock /\ n.safe \in MaybeBlock
        /\ n.finalized \in MaybeBlock
    BY DEF Good, EngineSyncState
  <2>3. /\ ELOk(r.el) /\ e.known \subseteq r.el.known
        /\ r.status \in {"Valid", "Syncing", "InvalidForkchoiceState",
                         "RpcError"}
    BY <2>1, <2>2, ForkchoiceUpdatedOk
  <2>4. Number(n.finalized) \in Nat /\ Number(n.unsafe) \in Nat
    BY <2>2, EmptyBlock DEF Number, MaybeBlock
  <2>5. Ordered(n)
    BY <1>3, <2>4 DEF Ordered
  <2>6. Held(n, r.el)
    BY <2>3 DEF Held
  <2>7. Good(s, r.el)
    BY <2>3, GoodGrows, ZenonT(30)
  <2>8. CASE r.status = "Valid"
    <3> DEFINE t == [sync |-> n, el_sync_finished |-> TRUE]
    <3>1. t \in EngineState /\ t.sync = n
      BY DEF EngineState
    <3>2. Good(t, r.el)
      BY <3>1, <2>3, <2>5, <2>6 DEF Good
    <3>3. o = Outcome(t, r.el, "Ok")
      BY <2>1, <2>8 DEF Synchronized
    <3> HIDE DEF t
    <3>4. QED BY <2>3, <3>1, <3>2, <3>3, OutcomeOk, OutcomeFields DEF Errs
  <2>9. CASE r.status = "Syncing"
    <3> DEFINE t == [s EXCEPT !.sync = n]
    <3>1. t \in EngineState /\ t.sync = n
      BY DEF EngineState, Good
    <3>2. Good(t, r.el)
      BY <3>1, <2>3, <2>5, <2>6 DEF Good
    <3>3. o = Outcome(t, r.el, "Ok")
      BY <2>1, <2>9 DEF Synchronized
    <3> HIDE DEF t
    <3>4. QED BY <2>3, <3>1, <3>2, <3>3, OutcomeOk, OutcomeFields DEF Errs
  <2>10. CASE r.status \in {"InvalidForkchoiceState", "RpcError"}
    <3>1. o \in {Outcome(s, r.el, "Reset"), Outcome(s, r.el, "Temporary")}
      BY <2>1, <2>10 DEF Synchronized
    <3>2. QED BY <2>3, <2>7, <3>1, OutcomeOk, OutcomeFields DEF Errs
  <2>11. QED BY <2>3, <2>8, <2>9, <2>10
<1>4. QED BY <1>1, <1>2, <1>3

\* What follows a good outcome is good for the state before it.
LEMMA OutcomesCompose ==
  ASSUME NEW e, NEW f, e.known \subseteq f.known, NEW o, GoodOutcome(f, o)
  PROVE  GoodOutcome(e, o)
BY ZenonT(30) DEF GoodOutcome

\* InsertTask keeps the state good; a derived block must have a known parent.
LEMMA InsertOk ==
  ASSUME NEW s, NEW e, Good(s, e), NEW b \in Block, NEW derived \in BOOLEAN,
         derived => b # Genesis /\ Front(b) \in e.known,
         NEW o \in Insert(s, e, b, derived)
  PROVE  GoodOutcome(e, o) /\ o.err # "Flush" /\ KeepsFinalized(s, o)
<1> DEFINE n == IF derived THEN SafeUpdate(UnsafeUpdate(s.sync, b), b)
                           ELSE UnsafeUpdate(s.sync, b)
<1>1. PICK r \in NewPayload(e, b) :
        o \in (CASE r.status = "RpcError" -> {Outcome(s, r.el, "Temporary")}
                 [] r.status = "Invalid"  -> {Outcome(s, r.el, "Status")}
                 [] OTHER -> IF HasBlockInfo(b) THEN Synchronize(s, r.el, n)
                             ELSE {Outcome(s, r.el, "Critical")})
  BY DEF Insert
<1>2. /\ ELOk(r.el) /\ e.known \subseteq r.el.known
      /\ r.status \in {"Valid", "Syncing", "Invalid", "RpcError"}
      /\ r.status = "Valid" => b \in r.el.known
      /\ r.status = "Syncing" => b # Genesis /\ Front(b) \notin e.known
  BY <1>1, NewPayloadOk DEF Good
<1>3. Good(s, r.el)
  BY <1>2, GoodGrows
<1>4. CASE r.status \in {"RpcError", "Invalid"}
  <2>1. o \in {Outcome(s, r.el, "Temporary"), Outcome(s, r.el, "Status")}
    BY <1>1, <1>4
  <2>2. QED BY <1>2, <1>3, <2>1, OutcomeOk, OutcomeFields DEF Errs, KeepsFinalized
<1>5. CASE r.status \in {"Valid", "Syncing"} /\ ~HasBlockInfo(b)
  <2>1. o = Outcome(s, r.el, "Critical")
    BY <1>1, <1>5
  <2>2. QED BY <1>2, <1>3, <2>1, OutcomeOk, OutcomeFields DEF Errs, KeepsFinalized
<1>6. CASE r.status \in {"Valid", "Syncing"} /\ HasBlockInfo(b)
  <2>1. o \in Synchronize(s, r.el, n)
    BY <1>1, <1>6
  <2>2. s.sync \in EngineSyncState /\ b \in MaybeBlock
    BY DEF Good, EngineState, MaybeBlock
  <2>3. /\ n \in EngineSyncState /\ n.finalized = s.sync.finalized
        /\ n.safe = IF derived THEN b ELSE s.sync.safe
    BY <2>2, ZenonT(30) DEF EngineSyncState, SafeUpdate, UnsafeUpdate
  <2>4. derived => b \in r.el.known
    BY <1>2, <1>6, ZenonT(30)
  <2>5. Held(n, r.el)
    BY <1>3, <2>3, <2>4, ZenonT(30) DEF Good, Held
  <2> HIDE DEF n
  <2>6. /\ GoodOutcome(r.el, o) /\ o.err # "Flush"
        /\ o.st.sync \in {s.sync, n}
    BY <1>3, <2>1, <2>3, <2>5, SynchronizeOk, ZenonT(30)
  <2>7. QED BY <1>2, <2>3, <2>6, OutcomesCompose DEF KeepsFinalized
<1>7. QED BY <1>2, <1>4, <1>5, <1>6

-----------------------------------------------------------------------------
\* What a BuildTask may hold: attributes, or what as_deposits_only makes of
\* them.
Buildable == [parent : Block, content : Content \cup {Undecodable},
              derived_from : Nat, last : BOOLEAN]

\* BuildTask::start_build leaves EngineState alone and succeeds only on a
\* parent the execution layer knows, with transactions it can decode.
LEMMA StartBuildOk ==
  ASSUME NEW s, NEW e, Good(s, e), NEW a \in Buildable,
         NEW o \in StartBuild(s, e, a)
  PROVE  /\ GoodOutcome(e, o) /\ o.st = s /\ o.payload = NoBlock
         /\ o.err \in {"Ok", "Temporary", "Critical"}
         /\ o.err = "Ok" => a.parent \in o.el.known /\ a \in Attributes
<1>1. CASE Number(s.sync.unsafe) < Number(s.sync.finalized)
  <2>1. o = Outcome(s, e, "Critical")
    BY <1>1, ZenonT(30) DEF StartBuild
  <2>2. QED BY <2>1, OutcomeOk, OutcomeFields DEF Errs
<1>2. CASE ~(Number(s.sync.unsafe) < Number(s.sync.finalized))
  <2>1. PICK r \in ForkchoiceUpdated(e, a.parent, s.sync.safe,
                                     s.sync.finalized) :
          o = Outcome(s, r.el,
                      IF r.status = "Valid" /\ a.content # Undecodable
                      THEN "Ok" ELSE "Temporary")
    BY <1>2 DEF StartBuild
  <2>2. /\ ELOk(e) /\ a.parent \in MaybeBlock
        /\ s.sync.safe \in MaybeBlock /\ s.sync.finalized \in MaybeBlock
    BY ZenonT(30) DEF Good, EngineState, EngineSyncState, Buildable, MaybeBlock
  <2>3. /\ ELOk(r.el) /\ e.known \subseteq r.el.known
        /\ r.status = "Valid" => a.parent \in r.el.known
    BY <2>1, <2>2, ForkchoiceUpdatedOk
  <2>4. Good(s, r.el)
    BY <2>3, GoodGrows
  <2>5. a.content # Undecodable => a \in Attributes
    BY DEF Buildable, Attributes
  <2>6. QED BY <2>1, <2>3, <2>4, <2>5, OutcomeOk, OutcomeFields DEF Errs
<1>3. QED BY <1>1, <1>2

\* A change of the error keeps a good outcome good.
LEMMA ErrorRelabelled ==
  ASSUME NEW e, NEW o, GoodOutcome(e, o), NEW err \in Errs,
         NEW p, p = [o EXCEPT !.err = err]
  PROVE  GoodOutcome(e, p) /\ p.err = err /\ p.st = o.st
<1>1. p \in OutcomeSet /\ p.st = o.st /\ p.el = o.el /\ p.err = err
  BY DEF GoodOutcome, OutcomeSet
<1>2. QED BY <1>1 DEF GoodOutcome

\* The same for the payload.
LEMMA PayloadRelabelled ==
  ASSUME NEW e, NEW o, GoodOutcome(e, o), NEW b \in MaybeBlock,
         NEW p, p = [o EXCEPT !.payload = b]
  PROVE  GoodOutcome(e, p) /\ p.err = o.err /\ p.st = o.st
<1>1. p \in OutcomeSet /\ p.st = o.st /\ p.el = o.el /\ p.err = o.err
  BY DEF GoodOutcome, OutcomeSet
<1>2. QED BY <1>1 DEF GoodOutcome

\* A block built on a known parent is a block, with known ancestors.
LEMMA ChildBlock ==
  ASSUME NEW b \in Block, NEW c \in Content
  PROVE  /\ Append(b, c) \in Block /\ Append(b, c) # Genesis
         /\ Front(Append(b, c)) = b
<1>1. /\ Append(b, c) \in Block /\ Len(b) \in Nat
      /\ Len(Append(b, c)) = Len(b) + 1
  BY DEF Block
<1>2. Append(b, c) # Genesis
  BY <1>1 DEF Genesis
<1>3. SubSeq(Append(b, c), 1, Len(b)) = b
  BY <1>1 DEF Block
<1>4. QED BY <1>1, <1>2, <1>3 DEF Front

\* Sealing and importing keeps the state good if the parent is known.
LEMMA SealAndImportOk ==
  ASSUME NEW s, NEW e, Good(s, e), NEW a \in Attributes,
         NEW derived \in BOOLEAN, a.parent \in e.known,
         NEW o \in SealAndImport(s, e, a, derived)
  PROVE  GoodOutcome(e, o) /\ o.err # "Flush" /\ KeepsFinalized(s, o)
<1> DEFINE b == Append(a.parent, a.content)
<1>1. a.parent \in Block /\ a.content \in Content
  BY DEF Attributes
<1>2. b \in Block /\ b # Genesis /\ Front(b) = a.parent /\ b \in MaybeBlock
  BY <1>1, ChildBlock DEF MaybeBlock
<1> HIDE DEF b
<1>3. CASE o \in RpcFailure(s, e)
  <2>1. o = Outcome(s, e, "Temporary")
    BY <1>3 DEF RpcFailure
  <2>2. QED BY <2>1, OutcomeOk, OutcomeFields DEF Errs, KeepsFinalized
<1>4. CASE o \notin RpcFailure(s, e) /\ HasBlockInfo(b)
  <2>1. PICK i \in Insert(s, e, b, derived) :
          o = [i EXCEPT !.payload = IF i.err = "Ok" THEN b ELSE NoBlock]
    BY <1>4 DEF SealAndImport, b
  <2>2. GoodOutcome(e, i) /\ i.err # "Flush" /\ KeepsFinalized(s, i)
    BY <1>2, <2>1, InsertOk
  <2>3. (IF i.err = "Ok" THEN b ELSE NoBlock) \in MaybeBlock
    BY <1>2 DEF MaybeBlock
  <2>4. o.st = i.st /\ o.err = i.err /\ GoodOutcome(e, o)
    BY <2>1, <2>2, <2>3, PayloadRelabelled
  <2>5. QED BY <2>2, <2>4 DEF KeepsFinalized
<1>5. CASE o \notin RpcFailure(s, e) /\ ~HasBlockInfo(b)
  <2>1. o = Outcome(s, e, "Critical")
    BY <1>5 DEF SealAndImport, b
  <2>2. QED BY <2>1, OutcomeOk, OutcomeFields DEF Errs, KeepsFinalized
<1>6. QED BY <1>3, <1>4, <1>5

\* One attempt to build leads from a good state to a good outcome.
LEMMA BuildOnceOk ==
  ASSUME NEW s, NEW e, Good(s, e), NEW a \in Buildable,
         NEW derived \in BOOLEAN, NEW o \in BuildOnce(s, e, a, derived)
  PROVE  GoodOutcome(e, o) /\ o.err # "Flush" /\ KeepsFinalized(s, o)
<1>1. PICK i \in StartBuild(s, e, a) :
        o \in (IF i.err = "Ok" THEN SealAndImport(s, i.el, a, derived)
                               ELSE {i})
  BY ZenonT(30) DEF BuildOnce
<1>2. /\ GoodOutcome(e, i) /\ i.st = s
      /\ i.err \in {"Ok", "Temporary", "Critical"}
      /\ i.err = "Ok" => a.parent \in i.el.known /\ a \in Attributes
  BY <1>1, StartBuildOk
<1>3. Good(s, i.el) /\ e.known \subseteq i.el.known
  BY <1>2 DEF GoodOutcome
<1>4. CASE i.err = "Ok"
  <2>1. GoodOutcome(i.el, o) /\ o.err # "Flush" /\ KeepsFinalized(s, o)
    BY <1>1, <1>2, <1>3, <1>4, SealAndImportOk, ZenonT(30)
  <2>2. QED BY <1>3, <2>1, OutcomesCompose, ZenonT(30)
<1>5. CASE i.err # "Ok"
  BY <1>1, <1>2, <1>5 DEF KeepsFinalized
<1>6. QED BY <1>4, <1>5

\* So does the second attempt, with what as_deposits_only returns.
LEMMA ReattemptOk ==
  ASSUME NEW s, NEW e, Good(s, e), NEW a \in Attributes,
         NEW derived \in BOOLEAN, NEW o \in Reattempt(s, e, a, derived)
  PROVE  GoodOutcome(e, o) /\ KeepsFinalized(s, o)
<1>1. AsDepositsOnly(a) \in Buildable
  BY DEF AsDepositsOnly, Attributes, Buildable
<1>2. PICK i \in BuildOnce(s, e, AsDepositsOnly(a), derived) :
        o = [i EXCEPT !.err = IF i.err = "Ok" THEN "Flush" ELSE "Critical"]
  BY DEF Reattempt
<1>3. GoodOutcome(e, i) /\ KeepsFinalized(s, i)
  BY <1>1, <1>2, BuildOnceOk
<1>4. (IF i.err = "Ok" THEN "Flush" ELSE "Critical") \in Errs
  BY DEF Errs
<1>5. GoodOutcome(e, o) /\ o.st = i.st
  BY <1>2, <1>3, <1>4, ErrorRelabelled
<1>6. QED BY <1>3, <1>5 DEF KeepsFinalized

\* BuildTask, with its handling of an INVALID payload.
LEMMA BuildOk ==
  ASSUME NEW s, NEW e, Good(s, e), NEW a \in Attributes,
         NEW derived \in BOOLEAN, NEW o \in Build(s, e, a, derived)
  PROVE  GoodOutcome(e, o) /\ KeepsFinalized(s, o)
<1>1. PICK i \in BuildOnce(s, e, a, derived) :
        o \in (CASE i.err = "Status" /\ IsDepositsOnly(a) ->
                     {[i EXCEPT !.err = "Critical"]}
                 [] i.err = "Status" /\ ~IsDepositsOnly(a) /\ HoloceneActive ->
                     Reattempt(i.st, i.el, a, derived)
                 [] OTHER -> {i})
  BY DEF Build
<1>2. GoodOutcome(e, i) /\ KeepsFinalized(s, i)
  <2>1. a \in Buildable
    BY DEF Attributes, Buildable
  <2>2. QED BY <1>1, <2>1, BuildOnceOk
<1>3. Good(i.st, i.el) /\ e.known \subseteq i.el.known
  BY <1>2 DEF GoodOutcome
<1>4. CASE i.err = "Status" /\ IsDepositsOnly(a)
  <2>1. o = [i EXCEPT !.err = "Critical"]
    BY <1>1, <1>4
  <2>2. "Critical" \in Errs
    BY DEF Errs
  <2>3. GoodOutcome(e, o) /\ o.st = i.st
    BY <1>2, <2>1, <2>2, ErrorRelabelled
  <2>4. QED BY <1>2, <2>3 DEF KeepsFinalized
<1>5. CASE i.err = "Status" /\ ~IsDepositsOnly(a) /\ HoloceneActive
  <2>1. o \in Reattempt(i.st, i.el, a, derived)
    BY <1>1, <1>5, ZenonT(30)
  <2>2. GoodOutcome(i.el, o) /\ KeepsFinalized(i.st, o)
    BY <1>3, <2>1, ReattemptOk
  <2>3. QED BY <1>2, <1>3, <2>2, OutcomesCompose DEF KeepsFinalized
<1>6. CASE ~(i.err = "Status" /\ (IsDepositsOnly(a) \/ HoloceneActive))
  BY <1>1, <1>2, <1>6
<1>7. QED BY <1>4, <1>5, <1>6

-----------------------------------------------------------------------------
\* A canonical block is one the execution layer knows.
LEMMA CanonicalKnown ==
  ASSUME NEW e, ELOk(e), NEW n \in Nat
  PROVE  /\ BlockAt(e, n) \in e.known \cup {NoBlock}
         /\ BlockAt(e, n) \in MaybeBlock
<1>1. /\ e.head \in Block /\ e.known \subseteq Block
      /\ Ancestors(e.head) \subseteq e.known
  BY DEF ELOk, Closed, ELState
<1>2. Len(e.head) \in Nat
  BY <1>1, EmptyBlock
<1>3. CASE n <= Len(e.head)
  <2>1. n \in 0 .. Len(e.head)
    BY <1>2, <1>3
  <2>2. SubSeq(e.head, 1, n) \in Ancestors(e.head)
    BY <2>1 DEF Ancestors
  <2>3. QED BY <1>1, <1>3, <2>2 DEF BlockAt, MaybeBlock
<1>4. CASE ~(n <= Len(e.head))
  BY <1>4 DEF BlockAt, MaybeBlock
<1>5. QED BY <1>3, <1>4

\* ConsolidateTask promotes a canonical block, or builds one.
LEMMA ConsolidateOk ==
  ASSUME NEW s, NEW e, Good(s, e), NEW a \in Attributes,
         NEW o \in Consolidate(s, e, a)
  PROVE  GoodOutcome(e, o) /\ KeepsFinalized(s, o)
<1> DEFINE b == BlockAt(e, BlockNumber(a))
           n == SafeUpdate(s.sync, b)
           t == [s EXCEPT !.sync = n]
<1>1. b \in e.known \cup {NoBlock} /\ b \in MaybeBlock
  <2>1. BlockNumber(a) \in Nat
    BY EmptyBlock DEF BlockNumber, Attributes
  <2>2. QED BY <2>1, CanonicalKnown DEF Good
<1>2. s \in EngineState /\ s.sync \in EngineSyncState
  BY DEF Good, EngineState
<1>3. /\ n \in EngineSyncState /\ n.safe = b
      /\ n.finalized = s.sync.finalized /\ n.unsafe = s.sync.unsafe
  BY <1>1, <1>2, ZenonT(30) DEF SafeUpdate, EngineSyncState
<1>4. Held(n, e) /\ Ordered(n)
  BY <1>1, <1>3 DEF Good, Held, Ordered
<1>5. t \in EngineState /\ t.sync = n
  BY <1>2, <1>3 DEF EngineState
<1>6. Good(t, e)
  BY <1>4, <1>5 DEF Good
<1>7. CASE o \in Build(s, e, a, TRUE)
  BY <1>7, BuildOk, ZenonT(30)
<1>8. CASE o \in RpcFailure(s, e)
  <2>1. o = Outcome(s, e, "Temporary")
    BY <1>8 DEF RpcFailure
  <2>2. QED BY <2>1, OutcomeOk, OutcomeFields DEF Errs, KeepsFinalized
<1>9. CASE o = Outcome(s, e, "Reset")
  BY <1>9, OutcomeOk, OutcomeFields DEF Errs, KeepsFinalized
<1>10. CASE o \in ConsolidateMatch(s, e, a, b)
  <2>1. CASE a.last
    <3>1. o \in Synchronize(s, e, n)
      BY <1>10, <2>1, ZenonT(30) DEF ConsolidateMatch
    <3> HIDE DEF n
    <3>2. QED BY <1>3, <1>4, <3>1, SynchronizeOk DEF KeepsFinalized
  <2>2. CASE ~a.last
    <3>1. o = Outcome(t, e, "Ok")
      BY <1>10, <2>2 DEF ConsolidateMatch
    <3> HIDE DEF t, n
    <3>2. QED
      BY <1>3, <1>5, <1>6, <3>1, OutcomeOk, OutcomeFields
         DEF Errs, KeepsFinalized
  <2>3. QED BY <2>1, <2>2, ZenonT(30)
<1>11. QED BY <1>7, <1>8, <1>9, <1>10, ZenonT(30) DEF Consolidate

\* FinalizeTask finalizes a canonical block.
LEMMA FinalizeOk ==
  ASSUME NEW s, NEW e, Good(s, e), NEW k \in Nat, NEW o \in Finalize(s, e, k)
  PROVE  GoodOutcome(e, o)
<1> DEFINE b == BlockAt(e, k)
           n == FinalizedUpdate(s.sync, b)
<1>1. b \in e.known \cup {NoBlock} /\ b \in MaybeBlock
  BY CanonicalKnown DEF Good
<1>2. s.sync \in EngineSyncState
  BY DEF Good, EngineState
<1>3. n \in EngineSyncState /\ n.safe = s.sync.safe /\ n.finalized = b
  BY <1>1, <1>2, ZenonT(30) DEF FinalizedUpdate, EngineSyncState
<1>4. Held(n, e)
  BY <1>1, <1>3, ZenonT(30) DEF Good, Held
<1>5. CASE o \in Synchronize(s, e, n)
  <2> HIDE DEF n
  <2>1. QED BY <1>3, <1>4, <1>5, SynchronizeOk
<1>6. CASE o \in {Outcome(s, e, "Temporary"), Outcome(s, e, "Critical")}
  BY <1>6, OutcomeOk, ZenonT(30) DEF Errs
<1>7. QED BY <1>5, <1>6 DEF Finalize, RpcFailure

\* EngineTask::execute: every outcome of every task is good, and only a
\* FinalizeTask moves the finalized head.
LEMMA ExecuteOk ==
  ASSUME NEW s, NEW e, Good(s, e), NEW t \in Task, NEW o \in Execute(s, e, t)
  PROVE  /\ GoodOutcome(e, o)
         /\ t.kind # "Finalize" => KeepsFinalized(s, o)
<1>1. CASE t.kind = "Build"
  BY <1>1, BuildOk, ZenonT(30) DEF Execute, Task
<1>2. CASE t.kind = "Insert"
  BY <1>2, InsertOk, ZenonT(30) DEF Execute, Task
<1>3. CASE t.kind = "Consolidate"
  BY <1>3, ConsolidateOk DEF Execute, Task
<1>4. CASE t.kind = "Finalize"
  BY <1>4, FinalizeOk DEF Execute, Task
<1>5. QED BY <1>1, <1>2, <1>3, <1>4 DEF Task

-----------------------------------------------------------------------------
(* Blocks derived from an L1 chain c. *)

\* b is what derivation yields from the first Len(b) blocks of the chain c.
OnL1(b, c) == b \in Block /\ Len(b) <= Len(c) /\ b = Derived(c, Len(b))

\* The same of the part of b up to its L1 origin.
CanonicalIn(b, c) ==
  /\ b \in Block /\ OriginNumber(b) <= Len(c)
  /\ SubSeq(b, 1, OriginNumber(b)) = Derived(c, OriginNumber(b))

\* No payload of b is one the execution layer rejects.
Clean(b) == \A i \in DOMAIN b : b[i] \notin Invalid

\* The L2 block derived from the first n L1 blocks is a block.
LEMMA DerivedIsBlock ==
  ASSUME NEW chain \in Seq(Content), NEW n \in Nat, n <= Len(chain)
  PROVE  Derived(chain, n) \in Block
BY ContentAssumption DEF Derived, Block, Content

\* What is derived from n blocks has length n, and its first m blocks are what
\* is derived from m blocks.
LEMMA DerivedPrefix ==
  ASSUME NEW c \in Seq(Content), NEW n \in Nat, n <= Len(c),
         NEW m \in Nat, m <= n
  PROVE  /\ Derived(c, n) \in Block /\ Len(Derived(c, n)) = n
         /\ SubSeq(Derived(c, n), 1, m) = Derived(c, m)
<1>1. Derived(c, n) \in Block /\ Len(Derived(c, n)) = n
  BY DerivedIsBlock DEF Derived
<1>2. Derived(c, m) \in Block /\ Len(Derived(c, m)) = m
  BY DerivedIsBlock DEF Derived
<1>3. \A i \in 1 .. m : Derived(c, n)[i] = Derived(c, m)[i]
  BY DEF Derived
<1>4. /\ SubSeq(Derived(c, n), 1, m) \in Seq(Content)
      /\ Len(SubSeq(Derived(c, n), 1, m)) = m
      /\ \A i \in 1 .. m : SubSeq(Derived(c, n), 1, m)[i] = Derived(c, n)[i]
  BY <1>1 DEF Block
<1>5. QED BY <1>1, <1>2, <1>3, <1>4, SeqEqual DEF Block

\* A prefix of a derived block is derived.
LEMMA PrefixOnL1 ==
  ASSUME NEW c \in Seq(Content), NEW b, OnL1(b, c), NEW m \in Nat, m <= Len(b)
  PROVE  OnL1(SubSeq(b, 1, m), c) /\ Len(SubSeq(b, 1, m)) = m
<1>1. Len(b) \in Nat /\ Len(b) <= Len(c) /\ b = Derived(c, Len(b))
  BY EmptyBlock DEF OnL1
<1>2. m <= Len(c)
  BY <1>1
<1>3. SubSeq(b, 1, m) = Derived(c, m)
  BY <1>1, DerivedPrefix
<1>4. Derived(c, m) \in Block /\ Len(Derived(c, m)) = m
  BY <1>2, DerivedPrefix
<1>5. QED BY <1>2, <1>3, <1>4, ZenonT(30) DEF OnL1

\* A derived block has a canonical origin.
LEMMA OnL1Canonical ==
  ASSUME NEW c \in Seq(Content), NEW b, OnL1(b, c)
  PROVE  CanonicalIn(b, c)
<1>1. Len(b) \in Nat /\ Len(b) <= Len(c) /\ b = Derived(c, Len(b)) /\ b \in Block
  BY EmptyBlock DEF OnL1
<1>2. OriginNumber(b) \in Nat /\ OriginNumber(b) <= Len(b)
  BY <1>1, BoundAssumption DEF OriginNumber
<1>3. SubSeq(b, 1, OriginNumber(b)) = Derived(c, OriginNumber(b))
  <2>1. SubSeq(Derived(c, Len(b)), 1, OriginNumber(b))
          = Derived(c, OriginNumber(b))
    BY <1>1, <1>2, DerivedPrefix, ZenonT(30)
  <2>2. QED BY <1>1, <2>1, ZenonT(30)
<1>4. QED BY <1>1, <1>2, <1>3 DEF CanonicalIn

\* The part of a canonical block up to its origin is derived.
LEMMA BelowOrigin ==
  ASSUME NEW c \in Seq(Content), NEW b, CanonicalIn(b, c), NEW m \in Nat,
         m <= OriginNumber(b)
  PROVE  OnL1(SubSeq(b, 1, m), c) /\ Len(SubSeq(b, 1, m)) = m
<1> DEFINE o == OriginNumber(b)
<1>1. Len(b) \in Nat /\ b \in Block
  BY EmptyBlock DEF CanonicalIn
<1>2. o \in Nat /\ o <= Len(b) /\ o <= Len(c)
      /\ SubSeq(b, 1, o) = Derived(c, o)
  BY <1>1, BoundAssumption DEF OriginNumber, CanonicalIn
<1> HIDE DEF o
<1>3. Derived(c, o) \in Block /\ Len(Derived(c, o)) = o
  BY <1>2, DerivedPrefix
<1>4. OnL1(SubSeq(b, 1, o), c) /\ Len(SubSeq(b, 1, o)) = o
  BY <1>2, <1>3, ZenonT(30) DEF OnL1
<1>5. m <= o
  BY DEF o
<1>6. SubSeq(SubSeq(b, 1, o), 1, m) = SubSeq(b, 1, m)
  BY <1>1, <1>2, <1>5, SMTT(40) DEF Block
<1>7. QED BY <1>4, <1>5, <1>6, PrefixOnL1, ZenonT(30)

\* The ancestors of a canonical block are canonical, and clean if it is.
LEMMA AncestorCanonical ==
  ASSUME NEW c \in Seq(Content), NEW b, CanonicalIn(b, c), NEW a \in Ancestors(b)
  PROVE  CanonicalIn(a, c) /\ (Clean(b) => Clean(a))
<1>1. Len(b) \in Nat /\ b \in Block
  BY EmptyBlock DEF CanonicalIn
<1>2. PICK n \in 0 .. Len(b) : a = SubSeq(b, 1, n)
  BY DEF Ancestors
<1>3. /\ a \in Block /\ Len(a) = n /\ n \in Nat /\ n <= Len(b)
      /\ \A i \in 1 .. n : a[i] = b[i]
  BY <1>1, <1>2, SubSeqProperties DEF Block
<1>4. /\ OriginNumber(a) \in Nat /\ OriginNumber(a) <= OriginNumber(b)
      /\ OriginNumber(b) \in Nat /\ OriginNumber(a) <= n
  BY <1>1, <1>3, BoundAssumption DEF OriginNumber
<1> DEFINE m == OriginNumber(a)
<1>5. SubSeq(a, 1, m) = SubSeq(b, 1, m)
  BY <1>1, <1>2, <1>3, <1>4, SMTT(40) DEF Block
<1>6. OnL1(SubSeq(b, 1, m), c) /\ Len(SubSeq(b, 1, m)) = m
  BY <1>4, BelowOrigin
<1>7. CanonicalIn(a, c)
  BY <1>3, <1>4, <1>5, <1>6, ZenonT(30) DEF CanonicalIn, OnL1
<1>8. Clean(b) => Clean(a)
  BY <1>1, <1>3 DEF Clean, Block
<1>9. QED BY <1>7, <1>8

\* The block of the next batch is derived, unless the batch is invalid.
LEMMA ChildOnL1 ==
  ASSUME NEW c \in Seq(Content), NEW p, OnL1(p, c), Len(p) < Len(c),
         c[Len(p) + 1] \notin Invalid
  PROVE  OnL1(Append(p, c[Len(p) + 1]), c)
<1> DEFINE n == Len(p) + 1
           b == Append(p, c[n])
<1>1. Len(p) \in Nat /\ p \in Block /\ p = Derived(c, Len(p))
  BY EmptyBlock DEF OnL1
<1>2. n \in Nat /\ n <= Len(c) /\ c[n] \in Content
  BY <1>1
<1>3. b \in Block /\ Len(b) = n
  BY <1>1, <1>2 DEF Block
<1>4. Derived(c, n) \in Block /\ Len(Derived(c, n)) = n
  BY <1>2, DerivedPrefix
<1>5. \A i \in 1 .. n : b[i] = Derived(c, n)[i]
  <2>1. \A i \in 1 .. Len(p) : b[i] = p[i]
    BY <1>1, <1>2 DEF Block
  <2>2. \A i \in 1 .. Len(p) : p[i] = Derived(c, n)[i]
    <3>1. \A i \in 1 .. Len(p) : Derived(c, Len(p))[i] = Derived(c, n)[i]
      BY <1>1 DEF Derived
    <3>2. QED BY <1>1, <3>1
  <2>3. b[n] = c[n] /\ Derived(c, n)[n] = c[n]
    BY <1>1, <1>2 DEF Block, Derived
  <2>4. QED BY <1>1, <2>1, <2>2, <2>3
<1> HIDE DEF n, b
<1>6. b = Derived(c, n)
  BY <1>3, <1>4, <1>5, SeqEqual DEF Block
<1>7. OnL1(b, c)
  BY <1>2, <1>3, <1>6, ZenonT(30) DEF OnL1
<1>8. QED BY <1>7 DEF b, n

\* b is derived from the first k blocks of c only.
FinalOn(b, c, k) == OnL1(b, c) /\ Len(b) <= k

\* What the execution layer has, or is told to sync to, has an origin on c.
ELSound(e, c, k) ==
  /\ \A b \in e.known : CanonicalIn(b, c) /\ Clean(b)
  /\ e.target # NoBlock => CanonicalIn(e.target, c)
  /\ e.finalized # NoBlock => FinalOn(e.finalized, c, k)

\* The heads of an EngineSyncState come from c.
SyncSound(n, c, k) ==
  /\ n.unsafe # NoBlock => CanonicalIn(n.unsafe, c)
  /\ n.safe # NoBlock => OnL1(n.safe, c)
  /\ n.finalized # NoBlock => FinalOn(n.finalized, c, k)

\* Attributes are the batch that follows their parent on L1.
AttributesSound(a, c) ==
  /\ OnL1(a.parent, c) /\ Len(a.parent) < Len(c)
  /\ a.content = c[Len(a.parent) + 1]
  /\ a.derived_from = Len(a.parent) + 1

\* What a task of a validator brings comes from c.
TaskSound(t, c, k) ==
  /\ t.kind # "Build"
  /\ t.kind = "Insert" => CanonicalIn(t.block, c)
  /\ t.kind = "Consolidate" => AttributesSound(t.attrs, c)
  /\ t.kind = "Finalize" => t.number <= k

-----------------------------------------------------------------------------
\* engine_forkchoiceUpdated keeps it sound if what it may accept is.
LEMMA ForkchoiceSound ==
  ASSUME NEW c \in Seq(Content), NEW k \in Nat, NEW e, ELOk(e), ELSound(e, c, k),
         NEW h \in MaybeBlock, NEW s \in MaybeBlock, NEW f \in MaybeBlock,
         h # NoBlock => CanonicalIn(h, c),
         IsAncestor(s, h) /\ IsAncestor(f, h) /\ h \in e.known
           => f = NoBlock \/ FinalOn(f, c, k),
         NEW r \in ForkchoiceUpdated(e, h, s, f)
  PROVE  ELSound(r.el, c, k)
<1> DEFINE synced == [e EXCEPT !.target = h]
           moved  == [e EXCEPT !.head = h, !.target = NoBlock,
                               !.safe = IF s = NoBlock THEN @ ELSE s,
                               !.finalized = IF f = NoBlock THEN @ ELSE f]
<1>1. /\ synced.known = e.known /\ synced.target = h
      /\ synced.finalized = e.finalized
  BY DEF ELOk, ELState
<1>2. /\ moved.known = e.known /\ moved.target = NoBlock
      /\ moved.finalized = IF f = NoBlock THEN e.finalized ELSE f
  BY ZenonT(30) DEF ELOk, ELState
<1> HIDE DEF synced, moved
<1>3. CASE h \notin e.known
  <2>1. r \in WithRpcFailure(e, Answer(synced, "Syncing"))
    BY <1>3, ZenonT(30) DEF ForkchoiceUpdated, synced
  <2>2. ELSound(synced, c, k)
    BY <1>1, ZenonT(30) DEF ELSound
  <2>3. QED BY <2>1, <2>2, AnswerOrLost, AnswerFields
<1>4. CASE h \in e.known /\ IsAncestor(s, h) /\ IsAncestor(f, h)
  <2>1. r \in WithRpcFailure(e, Answer(moved, "Valid"))
    BY <1>4, ZenonT(30) DEF ForkchoiceUpdated, moved
  <2>2. ELSound(moved, c, k)
    BY <1>2, <1>4, ZenonT(30) DEF ELSound
  <2>3. QED BY <2>1, <2>2, AnswerOrLost, AnswerFields
<1>5. CASE h \in e.known /\ ~(IsAncestor(s, h) /\ IsAncestor(f, h))
  <2>1. r \in WithRpcFailure(e, Answer(e, "InvalidForkchoiceState"))
    BY <1>5 DEF ForkchoiceUpdated
  <2>2. QED BY <2>1, AnswerOrLost, AnswerFields
<1>6. QED BY <1>3, <1>4, <1>5

\* engine_newPayload imports clean blocks only.
LEMMA NewPayloadSound ==
  ASSUME NEW c \in Seq(Content), NEW k \in Nat, NEW e, ELOk(e), ELSound(e, c, k),
         NEW b \in Block, b = Genesis \/ Last(b) \notin Invalid => CanonicalIn(b, c),
         NEW r \in NewPayload(e, b)
  PROVE  /\ ELSound(r.el, c, k)
         /\ r.status \notin {"Invalid", "RpcError"} => CanonicalIn(b, c)
<1> DEFINE imported == [e EXCEPT !.known = @ \cup {b}]
<1>1. /\ imported.known = e.known \cup {b} /\ imported.target = e.target
      /\ imported.finalized = e.finalized
  BY DEF ELOk, ELState
<1> HIDE DEF imported
<1>2. CASE b # Genesis /\ Last(b) \in Invalid
  <2>1. r \in WithRpcFailure(e, Answer(e, "Invalid"))
    BY <1>2, ZenonT(30) DEF NewPayload
  <2>2. QED BY <2>1, AnswerOrLost, AnswerFields
<1>3. CASE ~(b # Genesis /\ Last(b) \in Invalid)
  <2>1. CanonicalIn(b, c)
    BY <1>3
  <2>2. CASE b = Genesis \/ Front(b) \in e.known
    <3>1. r \in WithRpcFailure(e, Answer(imported, "Valid"))
      BY <1>3, <2>2 DEF NewPayload, imported
    <3>2. Clean(b)
      <4>1. CASE b = Genesis
        BY <4>1 DEF Genesis, Clean
      <4>2. CASE b # Genesis
        <5>1. Len(b) \in Nat /\ Len(b) # 0
          BY <4>2, EmptyBlock, ZenonT(30)
        <5>2. Clean(Front(b))
          BY <2>2, <4>2, ZenonT(30) DEF ELSound
        <5>3. \A j \in 1 .. Len(b) - 1 : j \in DOMAIN Front(b) /\ Front(b)[j] = b[j]
          BY <5>1 DEF Front, Block
        <5>4. b[Len(b)] \notin Invalid
          BY <1>3, <4>2, ZenonT(30) DEF Last
        <5>5. QED BY <5>1, <5>2, <5>3, <5>4 DEF Clean, Block
      <4>3. QED BY <4>1, <4>2
    <3>3. ELSound(imported, c, k)
      BY <1>1, <2>1, <3>2 DEF ELSound
    <3>4. QED BY <2>1, <3>1, <3>3, AnswerOrLost, AnswerFields
  <2>3. CASE ~(b = Genesis \/ Front(b) \in e.known)
    <3>1. r \in WithRpcFailure(e, Answer(e, "Syncing"))
      BY <1>3, <2>3, ZenonT(30) DEF NewPayload
    <3>2. QED BY <2>1, <3>1, AnswerOrLost, AnswerFields
  <2>4. QED BY <2>2, <2>3
<1>4. QED BY <1>2, <1>3

Sound(s, e, c, k) == SyncSound(s.sync, c, k) /\ ELSound(e, c, k)

\* The execution layer does not reject the forkchoice of n.
NotRejected(n, e) ==
  n.unsafe \in e.known =>
    IsAncestor(n.safe, n.unsafe) /\ IsAncestor(n.finalized, n.unsafe)

\* SynchronizeTask adopts heads the execution layer does not reject.
LEMMA SynchronizeSound ==
  ASSUME NEW c \in Seq(Content), NEW k \in Nat, NEW s, NEW e, Good(s, e),
         Sound(s, e, c, k), NEW n \in EngineSyncState,
         n.unsafe # NoBlock => CanonicalIn(n.unsafe, c),
         NotRejected(n, e) => SyncSound(n, c, k),
         NEW o \in Synchronize(s, e, n)
  PROVE  Sound(o.st, o.el, c, k)
<1>1. CASE \E err \in {"Ok", "Critical"} : o = Outcome(s, e, err)
  BY <1>1, OutcomeFields
<1>2. CASE \E r \in ForkchoiceUpdated(e, n.unsafe, n.safe, n.finalized) :
             o = Synchronized(s, n, r)
  <2>1. PICK r \in ForkchoiceUpdated(e, n.unsafe, n.safe, n.finalized) :
             o = Synchronized(s, n, r)
    BY <1>2
  <2>2. ELOk(e) /\ n.unsafe \in MaybeBlock /\ n.safe \in MaybeBlock
        /\ n.finalized \in MaybeBlock
    BY DEF Good, EngineSyncState
  <2>3. ELSound(r.el, c, k)
    BY <2>1, <2>2, ForkchoiceSound, ZenonT(30) DEF Sound, NotRejected, SyncSound
  <2>4. r.status \in {"Valid", "Syncing"} => NotRejected(n, e)
    <3>1. CASE /\ n.unsafe \in e.known
               /\ ~(IsAncestor(n.safe, n.unsafe) /\ IsAncestor(n.finalized, n.unsafe))
      <4>1. r \in WithRpcFailure(e, Answer(e, "InvalidForkchoiceState"))
        BY <2>1, <3>1, ZenonT(30) DEF ForkchoiceUpdated
      <4>2. QED BY <4>1, AnswerOrLost, AnswerFields
    <3>2. QED BY <3>1, ZenonT(30) DEF NotRejected
  <2>5. CASE r.status = "Valid"
    <3>1. o = Outcome([sync |-> n, el_sync_finished |-> TRUE], r.el, "Ok")
      BY <2>1, <2>5, ZenonT(30) DEF Synchronized
    <3>2. QED BY <2>3, <2>4, <2>5, <3>1, OutcomeFields DEF Sound
  <2>6. CASE r.status = "Syncing"
    <3> DEFINE t == [s EXCEPT !.sync = n]
    <3>1. o = Outcome(t, r.el, "Ok")
      BY <2>1, <2>6 DEF Synchronized
    <3>2. t.sync = n
      BY ZenonT(30) DEF Good, EngineState
    <3> HIDE DEF t
    <3>3. QED BY <2>3, <2>4, <2>6, <3>1, <3>2, OutcomeFields DEF Sound
  <2>7. CASE r.status \notin {"Valid", "Syncing"}
    <3>1. o \in {Outcome(s, r.el, "Reset"), Outcome(s, r.el, "Temporary")}
      BY <2>1, <2>7, ZenonT(30) DEF Synchronized
    <3>2. QED BY <2>3, <3>1, OutcomeFields DEF Sound
  <2>8. QED BY <2>5, <2>6, <2>7
<1>3. QED BY <1>1, <1>2, SynchronizeCases

\* InsertTask takes a canonical block for the unsafe head, and a derived one for
\* the safe head.
LEMMA InsertSound ==
  ASSUME NEW c \in Seq(Content), NEW k \in Nat, NEW s, NEW e, Good(s, e),
         Sound(s, e, c, k), NEW b \in Block, NEW derived \in BOOLEAN,
         b = Genesis \/ Last(b) \notin Invalid =>
           CanonicalIn(b, c) /\ (derived => OnL1(b, c)),
         NEW o \in Insert(s, e, b, derived)
  PROVE  Sound(o.st, o.el, c, k)
<1> DEFINE n == IF derived THEN SafeUpdate(UnsafeUpdate(s.sync, b), b)
                           ELSE UnsafeUpdate(s.sync, b)
<1>1. PICK r \in NewPayload(e, b) :
        o \in (CASE r.status = "RpcError" -> {Outcome(s, r.el, "Temporary")}
                 [] r.status = "Invalid"  -> {Outcome(s, r.el, "Status")}
                 [] OTHER -> IF HasBlockInfo(b) THEN Synchronize(s, r.el, n)
                             ELSE {Outcome(s, r.el, "Critical")})
  BY DEF Insert
<1>2. /\ ELOk(r.el) /\ e.known \subseteq r.el.known
      /\ r.status \in {"Valid", "Syncing", "Invalid", "RpcError"}
  BY <1>1, NewPayloadOk DEF Good
<1>3. Good(s, r.el)
  BY <1>2, GoodGrows, ZenonT(30)
<1>4. Sound(s, r.el, c, k)
  BY <1>1, NewPayloadSound DEF Good, Sound
<1>5. /\ n \in EngineSyncState /\ n.unsafe = b
      /\ n.safe = IF derived THEN b ELSE s.sync.safe
      /\ n.finalized = s.sync.finalized
  <2>1. s.sync \in EngineSyncState /\ b \in MaybeBlock
    BY ZenonT(30) DEF Good, EngineState, MaybeBlock
  <2>2. QED BY <2>1, ZenonT(30) DEF EngineSyncState, SafeUpdate, UnsafeUpdate
<1> HIDE DEF n
<1>6. CASE r.status \in {"Invalid", "RpcError"} \/ ~HasBlockInfo(b)
  <2>1. o \in {Outcome(s, r.el, "Temporary"), Outcome(s, r.el, "Status"),
               Outcome(s, r.el, "Critical")}
    BY <1>1, <1>2, <1>6
  <2>2. QED BY <1>4, <2>1, OutcomeFields
<1>7. CASE r.status \in {"Valid", "Syncing"} /\ HasBlockInfo(b)
  <2>1. o \in Synchronize(s, r.el, n)
    BY <1>1, <1>7
  <2>2. b = Genesis \/ Last(b) \notin Invalid
    <3>1. SUFFICES ASSUME b # Genesis, Last(b) \in Invalid PROVE FALSE
      OBVIOUS
    <3>2. r \in WithRpcFailure(e, Answer(e, "Invalid"))
      BY <1>1, <3>1 DEF NewPayload
    <3>3. QED BY <1>7, <3>2, AnswerOrLost, AnswerFields
  <2>3. SyncSound(n, c, k)
    BY <1>4, <1>5, <2>2, ZenonT(30) DEF Sound, SyncSound
  <2>4. QED BY <1>3, <1>4, <1>5, <2>1, <2>3, SynchronizeSound, ZenonT(30) DEF SyncSound
<1>8. QED BY <1>2, <1>6, <1>7

\* BuildTask of derived attributes builds the next derived block.
LEMMA BuildSound ==
  ASSUME NEW c \in Seq(Content), NEW k \in Nat, NEW s, NEW e, Good(s, e),
         Sound(s, e, c, k), NEW a \in Attributes, AttributesSound(a, c),
         NEW o \in Build(s, e, a, TRUE)
  PROVE  Sound(o.st, o.el, c, k)
<1> DEFINE b == Append(a.parent, a.content)
<1>1. PICK i \in BuildOnce(s, e, a, TRUE) :
        o \in (CASE i.err = "Status" /\ IsDepositsOnly(a) ->
                     {[i EXCEPT !.err = "Critical"]}
                 [] i.err = "Status" /\ ~IsDepositsOnly(a) /\ HoloceneActive ->
                     Reattempt(i.st, i.el, a, TRUE)
                 [] OTHER -> {i})
  BY ZenonT(30) DEF Build
<1>2. IsDepositsOnly(a)
  BY DEF IsDepositsOnly, Transactions
<1>3. a \in Buildable /\ i \in OutcomeSet
  <2>1. a \in Buildable
    BY DEF Attributes, Buildable
  <2>2. QED BY <1>1, <2>1, BuildOnceOk, ZenonT(30) DEF GoodOutcome
<1>4. o.st = i.st /\ o.el = i.el
  <2>1. o = i \/ o = [i EXCEPT !.err = "Critical"]
    BY <1>1, <1>2
  <2>2. QED BY <1>3, <2>1 DEF OutcomeSet
<1>5. PICK j \in StartBuild(s, e, a) :
        i \in (IF j.err = "Ok" THEN SealAndImport(s, j.el, a, TRUE) ELSE {j})
  BY <1>1, ZenonT(30) DEF BuildOnce
<1>6. /\ Good(s, j.el) /\ j.st = s
      /\ j.err = "Ok" => a.parent \in j.el.known
  BY <1>3, <1>5, StartBuildOk DEF GoodOutcome
<1>7. /\ a.parent \in Block /\ a.parent \in MaybeBlock /\ a.content \in Content
      /\ OnL1(a.parent, c) /\ CanonicalIn(a.parent, c)
      /\ s.sync.safe \in MaybeBlock /\ s.sync.finalized \in MaybeBlock
  BY OnL1Canonical, ZenonT(30) DEF Attributes, AttributesSound, MaybeBlock, Good,
     EngineState, EngineSyncState
<1>8. Sound(s, j.el, c, k)
  <2>1. \/ j = Outcome(s, e, "Critical")
        \/ \E r \in ForkchoiceUpdated(e, a.parent, s.sync.safe, s.sync.finalized) :
             j.el = r.el
    BY <1>5, OutcomeFields DEF StartBuild
  <2>2. ASSUME NEW r \in ForkchoiceUpdated(e, a.parent, s.sync.safe, s.sync.finalized)
        PROVE  ELSound(r.el, c, k)
    BY <1>7, <2>2, ForkchoiceSound, ZenonT(30) DEF Good, Sound, SyncSound
  <2>3. QED BY <2>1, <2>2, OutcomeFields DEF Sound
<1>9. CASE j.err # "Ok"
  BY <1>4, <1>5, <1>6, <1>8, <1>9
<1>10. CASE j.err = "Ok"
  <2>1. i \in SealAndImport(s, j.el, a, TRUE)
    BY <1>5, <1>10, ZenonT(30)
  <2>2. b \in Block /\ b # Genesis /\ Front(b) = a.parent /\ Last(b) = a.content
    <3>1. b \in Block /\ b # Genesis /\ Front(b) = a.parent
      BY <1>7, ChildBlock, ZenonT(30)
    <3>2. Last(b) = a.content
      BY <1>7 DEF Last, Block
    <3>3. QED BY <3>1, <3>2
  <2>3. a.content \notin Invalid => OnL1(b, c) /\ CanonicalIn(b, c)
    BY ChildOnL1, OnL1Canonical, ZenonT(30) DEF AttributesSound
  <2> HIDE DEF b
  <2>4. CASE i \in {Outcome(s, j.el, "Temporary"), Outcome(s, j.el, "Critical")}
    BY <1>4, <1>8, <2>4, OutcomeFields
  <2>5. CASE \E q \in Insert(s, j.el, b, TRUE) :
               i = [q EXCEPT !.payload = IF q.err = "Ok" THEN b ELSE NoBlock]
    <3>1. PICK q \in Insert(s, j.el, b, TRUE) :
                 i = [q EXCEPT !.payload = IF q.err = "Ok" THEN b ELSE NoBlock]
      BY <2>5, ZenonT(30)
    <3>2. Sound(q.st, q.el, c, k)
      BY <1>6, <1>8, <2>2, <2>3, <3>1, InsertSound, ZenonT(30)
    <3>3. q \in OutcomeSet
      BY <1>6, <1>10, <2>2, <3>1, InsertOk, ZenonT(30) DEF GoodOutcome
    <3>4. i.st = q.st /\ i.el = q.el
      BY <3>1, <3>3 DEF OutcomeSet
    <3>5. QED BY <1>4, <3>2, <3>4
  <2>6. QED BY <2>1, <2>4, <2>5, ZenonT(30) DEF SealAndImport, RpcFailure, b
<1>11. QED BY <1>9, <1>10

\* ConsolidateTask promotes the block the attributes describe: the next derived
\* block.
LEMMA ConsolidateSound ==
  ASSUME NEW c \in Seq(Content), NEW k \in Nat, NEW s, NEW e, Good(s, e),
         Sound(s, e, c, k), NEW a \in Attributes, AttributesSound(a, c),
         NEW o \in Consolidate(s, e, a)
  PROVE  Sound(o.st, o.el, c, k)
<1> DEFINE b == BlockAt(e, BlockNumber(a))
           n == SafeUpdate(s.sync, b)
           t == [s EXCEPT !.sync = n]
<1>1. s \in EngineState /\ s.sync \in EngineSyncState
  BY ZenonT(30) DEF Good, EngineState
<1>2. b \in e.known \cup {NoBlock} /\ b \in MaybeBlock
  <2>1. BlockNumber(a) \in Nat
    BY EmptyBlock DEF BlockNumber, Attributes
  <2>2. QED BY <2>1, CanonicalKnown DEF Good
<1>3. CASE o \in Build(s, e, a, TRUE)
  BY <1>3, BuildSound, ZenonT(30)
<1>4. CASE o \in {Outcome(s, e, "Reset"), Outcome(s, e, "Temporary")}
  BY <1>4, OutcomeFields
<1>5. CASE o \in ConsolidateMatch(s, e, a, b) /\ AttributesMatch(a, b) /\ b # NoBlock
  <2>1. b \in Block /\ b \in e.known
    BY <1>2, <1>5 DEF MaybeBlock
  <2>2. Len(b) = Len(a.parent) + 1 /\ Len(b) \in Nat /\ Len(a.parent) \in Nat
    <3>1. /\ Len(a.parent) \in Nat /\ e.head \in Block /\ Len(e.head) \in Nat
      BY EmptyBlock DEF Attributes, Good, ELOk, ELState
    <3>2. BlockNumber(a) <= Len(e.head) /\ b = SubSeq(e.head, 1, BlockNumber(a))
      BY <1>5, ZenonT(30) DEF BlockAt
    <3>3. Len(b) = BlockNumber(a)
      <4> DEFINE m == BlockNumber(a)
      <4>1. m \in Nat /\ 1 <= m /\ m <= Len(e.head)
        BY <3>1, <3>2 DEF BlockNumber
      <4> HIDE DEF m
      <4>2. Len(SubSeq(e.head, 1, m)) = m
        BY <3>1, <4>1 DEF Block
      <4>3. QED BY <3>2, <4>2, ZenonT(30) DEF m
    <3>4. QED BY <3>1, <3>3 DEF BlockNumber
  <2>3. b[Len(b)] = a.content /\ SubSeq(b, 1, Len(b) - 1) = a.parent
    BY <1>5 DEF AttributesMatch, SameContent, Last, Front
  <2> HIDE DEF b
  <2>4. b = Append(a.parent, a.content)
    <3>1. /\ Append(a.parent, a.content) \in Seq(Content)
          /\ Len(Append(a.parent, a.content)) = Len(b)
      BY <2>2 DEF Attributes, Block
    <3>2. \A j \in 1 .. Len(b) : Append(a.parent, a.content)[j] = b[j]
      <4>1. \A j \in 1 .. Len(a.parent) : a.parent[j] = b[j]
        BY <2>1, <2>2, <2>3 DEF Block
      <4>2. QED BY <2>2, <2>3, <4>1 DEF Attributes, Block
    <3>3. QED BY <2>1, <3>1, <3>2, SeqEqual, ZenonT(30) DEF Block
  <2>5. a.content \notin Invalid
    <3>1. Clean(b)
      BY <2>1, ZenonT(30) DEF Sound, ELSound
    <3>2. Len(b) \in DOMAIN b
      BY <2>1, <2>2 DEF Block
    <3>3. QED BY <2>3, <3>1, <3>2, ZenonT(30) DEF Clean
  <2>6. OnL1(b, c)
    BY <2>4, <2>5, ChildOnL1 DEF AttributesSound
  <2>7. /\ n \in EngineSyncState /\ n.unsafe = s.sync.unsafe /\ n.safe = b
        /\ n.finalized = s.sync.finalized
    BY <1>1, <1>2, ZenonT(30) DEF SafeUpdate, EngineSyncState, b
  <2>8. SyncSound(n, c, k)
    BY <2>6, <2>7, ZenonT(30) DEF Sound, SyncSound
  <2>9. CASE a.last
    <3>1. o \in Synchronize(s, e, n)
      BY <1>5, <2>9, ZenonT(30) DEF ConsolidateMatch
    <3> HIDE DEF n
    <3>2. QED BY <2>7, <2>8, <3>1, SynchronizeSound, ZenonT(30) DEF SyncSound
  <2>10. CASE ~a.last
    <3>1. o = Outcome(t, e, "Ok")
      BY <1>5, <2>10, ZenonT(30) DEF ConsolidateMatch
    <3>2. t.sync = n
      BY <1>1 DEF EngineState
    <3> HIDE DEF t, n
    <3>3. QED BY <2>8, <3>1, <3>2, OutcomeFields DEF Sound
  <2>11. QED BY <2>9, <2>10, ZenonT(30)
<1>6. QED BY <1>3, <1>4, <1>5, ZenonT(30) DEF Consolidate, RpcFailure

\* FinalizeTask finalizes a block of the safe chain: the canonical block of its
\* number is one if the canonical chain holds the safe head, or if the
\* execution layer is to check it against an unsafe head it knows.
LEMMA FinalizeSound ==
  ASSUME NEW c \in Seq(Content), NEW k \in Nat, NEW s, NEW e, Good(s, e),
         Sound(s, e, c, k), NEW m \in Nat, m <= k,
         s.sync.unsafe \in e.known \/ IsAncestor(s.sync.safe, e.head),
         NEW o \in Finalize(s, e, m)
  PROVE  Sound(o.st, o.el, c, k)
<1> DEFINE b == BlockAt(e, m)
           n == FinalizedUpdate(s.sync, b)
<1>1. CASE o \in {Outcome(s, e, "Critical"), Outcome(s, e, "Temporary")}
  BY <1>1, OutcomeFields
<1>2. CASE /\ ~(Number(s.sync.safe) < m) /\ b # NoBlock
           /\ o \in Synchronize(s, e, n)
  <2>1. /\ s.sync \in EngineSyncState /\ s.sync.safe \in MaybeBlock
        /\ s.sync.unsafe \in MaybeBlock /\ b \in MaybeBlock
        /\ e.head \in Block /\ Len(e.head) \in Nat
    BY CanonicalKnown, EmptyBlock DEF Good, EngineState, EngineSyncState, ELOk, ELState
  <2>2. /\ n \in EngineSyncState /\ n.unsafe = s.sync.unsafe
        /\ n.safe = s.sync.safe /\ n.finalized = b
    BY <2>1, ZenonT(30) DEF FinalizedUpdate, EngineSyncState
  <2>3. m <= Len(e.head) /\ b = SubSeq(e.head, 1, m) /\ b \in Block
    BY <1>2, <2>1, ZenonT(30) DEF BlockAt, MaybeBlock
  <2>4. Len(b) = m /\ SubSeq(b, 1, m) = b
    <3>1. Len(SubSeq(e.head, 1, m)) = m
      BY <2>1, <2>3, SubSeqProperties DEF Block
    <3>2. QED BY <2>3, <3>1, SubSeqFull, ZenonT(30) DEF Block
  <2> HIDE DEF n, b
  <2>5. ASSUME NotRejected(n, e)
        PROVE  OnL1(b, c)
    <3>1. CASE s.sync.safe = NoBlock
      <4>1. m = 0
        BY <1>2, <3>1 DEF Number
      <4>2. b = << >>
        BY <2>1, <2>3, <4>1, SubSeqEmpty, ZenonT(30) DEF Block
      <4>3. Derived(c, 0) = << >>
        BY DerivedPrefix, EmptySeq DEF Block
      <4>4. Len(b) = 0 /\ Len(b) <= Len(c)
        BY <2>4, <4>1
      <4>5. QED BY <2>3, <4>2, <4>3, <4>4, ZenonT(30) DEF OnL1
    <3>2. CASE s.sync.safe # NoBlock
      <4> DEFINE f == s.sync.safe
      <4>1. /\ f \in Block /\ Len(f) \in Nat /\ m <= Len(f) /\ OnL1(f, c)
        BY <1>2, <2>1, <3>2, EmptyBlock DEF MaybeBlock, Number, Sound, SyncSound
      <4>2. PICK u \in Block : IsPrefix(f, u) /\ IsPrefix(b, u)
        <5>1. CASE s.sync.unsafe \in e.known
          <6>1. /\ s.sync.unsafe \in Block
                /\ IsAncestor(f, s.sync.unsafe) /\ IsAncestor(b, s.sync.unsafe)
            BY <2>2, <2>5, <5>1 DEF NotRejected, Good, ELOk, ELState
          <6>2. b # NoBlock
            BY <2>3, ContentAssumption, ZenonT(30) DEF Block, Content
          <6>3. QED BY <3>2, <6>1, <6>2, ZenonT(30) DEF IsAncestor
        <5>2. CASE IsAncestor(f, e.head)
          <6>1. IsPrefix(b, e.head)
            BY <2>1, <2>3, <2>4, ZenonT(30) DEF IsPrefix
          <6>2. QED BY <2>1, <3>2, <5>2, <6>1, ZenonT(30) DEF IsAncestor
        <5>3. QED BY <5>1, <5>2, ZenonT(30)
      <4> HIDE DEF f
      <4>3. /\ SubSeq(f, 1, Len(f)) = SubSeq(u, 1, Len(f)) /\ Len(f) <= Len(u)
            /\ b = SubSeq(u, 1, m)
        BY <2>4, <4>2 DEF IsPrefix
      <4>4. SubSeq(f, 1, m) = SubSeq(u, 1, m)
        <5>1. SubSeq(f, 1, Len(f)) = f
          BY <4>1, SubSeqFull, ZenonT(30) DEF Block
        <5>2. SubSeq(SubSeq(u, 1, Len(f)), 1, m) = SubSeq(u, 1, m)
          BY <4>1, <4>2, <4>3, SMTT(40) DEF Block
        <5>3. QED BY <4>3, <5>1, <5>2, ZenonT(30)
      <4>5. QED BY <4>1, <4>3, <4>4, PrefixOnL1, ZenonT(30)
    <3>3. QED BY <3>1, <3>2
  <2>6. NotRejected(n, e) => SyncSound(n, c, k)
    BY <2>2, <2>4, <2>5, ZenonT(30) DEF Sound, SyncSound, FinalOn
  <2>7. n.unsafe # NoBlock => CanonicalIn(n.unsafe, c)
    BY <2>2 DEF Sound, SyncSound
  <2>8. QED BY <1>2, <2>2, <2>6, <2>7, SynchronizeSound, ZenonT(30)
<1>3. QED BY <1>1, <1>2, ZenonT(30) DEF Finalize, RpcFailure

-----------------------------------------------------------------------------
\* The chain d starts with c.
Continues(d, c) == Len(c) <= Len(d) /\ \A i \in 1 .. Len(c) : d[i] = c[i]

\* It starts with its prefixes, and with all of it when a block is added.
LEMMA ContinuesPrefix ==
  ASSUME NEW c \in Seq(Content)
  PROVE  /\ Continues(c, << >>) /\ Continues(c, c)
         /\ \A n \in Nat : n <= Len(c) => Continues(c, SubSeq(c, 1, n))
         /\ \A x \in Content : Append(c, x) \in Seq(Content) /\ Continues(Append(c, x), c)
BY DEF Continues

\* What was derived stays derived as L1 grows and finalizes.
LEMMA DerivedGrows ==
  ASSUME NEW c \in Seq(Content), NEW d \in Seq(Content), Continues(d, c),
         NEW k \in Nat, NEW l \in Nat, k <= l
  PROVE  /\ \A b : OnL1(b, c) => OnL1(b, d)
         /\ \A b : CanonicalIn(b, c) => CanonicalIn(b, d)
         /\ \A b : FinalOn(b, c, k) => FinalOn(b, d, l)
         /\ \A a : AttributesSound(a, c) => AttributesSound(a, d)
<1>1. \A n \in Nat : n <= Len(c) => Derived(d, n) = Derived(c, n)
  BY DEF Continues, Derived
<1>2. ASSUME NEW b, OnL1(b, c) PROVE OnL1(b, d)
  BY <1>1, <1>2, EmptyBlock DEF OnL1, Continues
<1>3. ASSUME NEW b, CanonicalIn(b, c) PROVE CanonicalIn(b, d)
  <2>1. b \in Block /\ Len(b) \in Nat
    BY <1>3, EmptyBlock DEF CanonicalIn
  <2>2. OriginNumber(b) \in Nat
    BY <2>1, BoundAssumption DEF OriginNumber
  <2>3. QED BY <1>1, <1>3, <2>1, <2>2 DEF CanonicalIn, Continues
<1>4. ASSUME NEW b, FinalOn(b, c, k) PROVE FinalOn(b, d, l)
  BY <1>2, <1>4, EmptyBlock DEF FinalOn, OnL1
<1>5. ASSUME NEW a, AttributesSound(a, c) PROVE AttributesSound(a, d)
  <2>1. Len(a.parent) \in Nat
    BY <1>5, EmptyBlock DEF AttributesSound, OnL1
  <2>2. QED BY <1>2, <1>5, <2>1 DEF AttributesSound, Continues
<1>6. QED BY <1>2, <1>3, <1>4, <1>5

\* So do the heads, the blocks known and the tasks.
LEMMA SoundGrows ==
  ASSUME NEW c \in Seq(Content), NEW d \in Seq(Content), Continues(d, c),
         NEW k \in Nat, NEW l \in Nat, k <= l
  PROVE  /\ \A e : ELSound(e, c, k) => ELSound(e, d, l)
         /\ \A n : SyncSound(n, c, k) => SyncSound(n, d, l)
         /\ \A t \in Task : TaskSound(t, c, k) => TaskSound(t, d, l)
         /\ \A o \in Seq(Content) : Continues(c, o) => Continues(d, o)
<1>1. /\ \A b : OnL1(b, c) => OnL1(b, d)
      /\ \A b : CanonicalIn(b, c) => CanonicalIn(b, d)
      /\ \A b : FinalOn(b, c, k) => FinalOn(b, d, l)
      /\ \A a : AttributesSound(a, c) => AttributesSound(a, d)
  BY DerivedGrows, ZenonT(30)
<1>2. ASSUME NEW e, ELSound(e, c, k) PROVE ELSound(e, d, l)
  BY <1>1, <1>2, ZenonT(30) DEF ELSound
<1>3. ASSUME NEW n, SyncSound(n, c, k) PROVE SyncSound(n, d, l)
  BY <1>1, <1>3 DEF SyncSound
<1>4. ASSUME NEW t \in Task, TaskSound(t, c, k) PROVE TaskSound(t, d, l)
  <2>1. t.kind = "Finalize" => t.number \in Nat
    BY DEF Task
  <2>2. QED BY <1>1, <1>4, <2>1 DEF TaskSound
<1>5. ASSUME NEW o \in Seq(Content), Continues(c, o) PROVE Continues(d, o)
  BY <1>5 DEF Continues
<1>6. QED BY <1>2, <1>3, <1>4, <1>5

-----------------------------------------------------------------------------
(* The engine actor. *)

\* A watch channel holds its value or the one sent.
LEMMA ModifiedValue ==
  ASSUME NEW w, NEW v
  PROVE  SendIfModified(w, v).val \in {w.val, v}
BY DEF SendIfModified

\* The inductive invariant of the engine actor.  A reset in progress has
\* found a starting point the execution layer knows.
StartHeld ==
  pc \in {"reset", "signal"} =>
    start.safe \in el.known /\ start.finalized \in el.known

EngineInv == EngineTypeOK /\ Good(st, el) /\ StartHeld

\* Popping a task leaves a queue of tasks.
LEMMA RemoveAtTyped ==
  ASSUME NEW S, NEW q \in Seq(S), NEW i \in DOMAIN q
  PROVE  RemoveAt(q, i) \in Seq(S)
BY DEF RemoveAt

\* The engine actor starts in its invariant.
LEMMA EngineInitOk ==
  ASSUME NEW b \in Block, l1 \in Seq(Content),
         EngineInit(ELStart(b, NoBlock, NoBlock))
  PROVE  EngineInv
\* An execution layer that starts with a chain knows its ancestors.
<1>ELStartOk. ELOk(ELStart(b, NoBlock, NoBlock))
  <2> DEFINE e == ELStart(b, NoBlock, NoBlock)
  <2>1. /\ e \in ELState /\ e.known = Ancestors(b)
        /\ e.head = b /\ e.finalized = NoBlock
    BY AncestorsAreBlocks DEF ELStart, ELState, MaybeBlock
  <2>2. b \in Ancestors(b)
    BY SelfAndGenesis
  <2>3. \A a \in Ancestors(b) : Ancestors(a) \subseteq Ancestors(b)
    BY AncestorsOfAncestor, ZenonT(30)
  <2>4. QED BY <2>1, <2>2, <2>3 DEF ELOk, Closed
<1>1. ELOk(el) /\ el \in ELState
  BY <1>ELStartOk, ZenonT(30) DEF EngineInit, ELOk
<1>2. st \in EngineState /\ start \in EngineSyncState
  BY ZenonT(30) DEF EngineInit, EngineState, EngineSyncState, DefaultSync, MaybeBlock
<1>3. Held(st.sync, el) /\ Ordered(st.sync)
  BY DEF EngineInit, DefaultSync, Held, Ordered, Number
<1>4. EngineTypeOK
  BY <1>1, <1>2 DEF EngineInit, EngineTypeOK, Pcs, Watch, MaybeBlock
<1>5. QED BY <1>1, <1>2, <1>3, <1>4 DEF EngineInv, Good, StartHeld, EngineInit

\* L1 may grow, be reorganised or finalize without disturbing it.
LEMMA L1StepOk ==
  ASSUME EngineInv, L1Step
  PROVE  EngineInv'
<1>1. UNCHANGED <<el, engine, outbound, reset_requests, build_requests,
                  unsafe_blocks, attributes>>
  BY DEF L1Step, L1Extend, L1Reorg, L1Finalize, inbound
<1>2. l1' \in Seq(Content) /\ finalized_l1' \in Watch(Nat)
  <2>1. CASE \E c \in Content : L1Extend(c)
    BY <2>1 DEF EngineInv, EngineTypeOK, L1Extend, inbound
  <2>2. CASE \E n \in 1 .. MaxL1, c, d \in Content : L1Reorg(n, c, d)
    BY <2>2 DEF EngineInv, EngineTypeOK, L1Reorg, inbound
  <2>3. CASE L1Finalize
    <3>1. /\ l1 \in Seq(Content) /\ finalized_l1.val \in Nat
      BY DEF EngineInv, EngineTypeOK, Watch
    <3>2. /\ l1' = l1
          /\ finalized_l1' = [val |-> finalized_l1.val + 1, new |-> TRUE]
      BY <2>3, ZenonT(30) DEF L1Finalize
    <3>3. QED BY <3>1, <3>2 DEF Watch
  <2>4. QED BY <2>1, <2>2, <2>3, ZenonT(30) DEF L1Step
<1>3. QED BY <1>1, <1>2 DEF EngineInv, EngineTypeOK, Good, StartHeld, engine,
                            outbound

\* An execution layer that completes a sync knows more blocks.
LEMMA ELSyncOk ==
  ASSUME EngineInv, ELSync
  PROVE  EngineInv'
<1>1. /\ UNCHANGED <<l1, engine, inbound, outbound>>
      /\ el' = FinishSync(el) /\ el.target \in Block
  BY DEF ELSync, EngineInv, EngineTypeOK, ELState, MaybeBlock, CanFinishSync
<1>2. /\ el' \in ELState /\ el'.known = el.known \cup Ancestors(el.target)
      /\ el'.head = el.target /\ el'.finalized = el.finalized
  BY <1>1, AncestorsAreBlocks, ZenonT(30)
     DEF FinishSync, EngineInv, EngineTypeOK, ELState, MaybeBlock
<1>3. ELOk(el')
  <2>1. el.target \in Ancestors(el.target)
    BY <1>1, SelfAndGenesis
  <2>2. \A a \in Ancestors(el.target) :
          Ancestors(a) \subseteq Ancestors(el.target)
    BY <1>1, AncestorsOfAncestor
  <2>3. QED BY <1>2, <2>1, <2>2, ZenonT(30) DEF EngineInv, Good, ELOk, Closed
<1>4. Good(st, el')
  BY <1>2, <1>3, GoodGrows DEF EngineInv
<1>5. EngineTypeOK'
  BY <1>1, <1>2, ZenonT(30) DEF EngineInv, EngineTypeOK, engine, inbound, outbound
<1>6. StartHeld'
  BY <1>1, <1>2, ZenonT(30) DEF EngineInv, StartHeld, engine
<1>7. st' = st
  BY <1>1, ZenonT(30) DEF engine
<1>8. QED BY <1>4, <1>5, <1>6, <1>7, ZenonT(30) DEF EngineInv

-----------------------------------------------------------------------------
\* EngineInv is inductive for the engine actor, whatever the other actors put
\* into its channels.
LEMMA EngineStepOk ==
  ASSUME EngineInv, EngineStep
  PROVE  EngineInv'
\* One step of the engine actor, action by action.  Those that touch neither
\* EngineState nor the execution layer only have types to keep.
<1>SearchOk. CASE Search
  <2> USE <1>SearchOk
  <2>1. /\ ELOk(el) /\ el.head \in Block /\ el.head \in el.known
        /\ el.known \subseteq Block /\ Ancestors(el.head) \subseteq el.known
    BY ZenonT(30) DEF EngineInv, Good, ELOk, Closed, ELState
  <2>2. ASSUME FindsStart(start')
        PROVE  /\ start' \in EngineSyncState
               /\ start'.safe \in el.known /\ start'.finalized \in el.known
    <3>0. PICK u \in StartCandidates :
            \E c \in Ancestors(u) : start' = StartingForkchoice(u, c)
      BY <2>2 DEF FindsStart
    <3>1. PICK c \in Ancestors(u) : start' = StartingForkchoice(u, c)
      BY <3>0, ZenonT(30)
    <3>2. u \in el.known /\ u \in Ancestors(el.head)
      BY <2>1, <3>1, ZenonT(30) DEF StartCandidates
    <3>3. c \in el.known
      BY <2>1, <3>1, <3>2, AncestorsOfAncestor
    <3>4. FinalizedStart \in el.known
      BY <2>1, SelfAndGenesis DEF FinalizedStart, ELOk, Closed
    <3>5. u \in MaybeBlock /\ c \in MaybeBlock /\ FinalizedStart \in MaybeBlock
      BY <2>1, <3>2, <3>3, <3>4 DEF MaybeBlock
    <3>6. QED BY <3>1, <3>3, <3>4, <3>5 DEF StartingForkchoice, EngineSyncState
  <2>3. /\ tasks' = << >> /\ cur' = 0
        /\ \/ FindsStart(start') /\ pc' = "reset"
           \/ pc' = "dead" /\ start' = start
        /\ UNCHANGED <<l1, el, st, origin, resume, awaiting, sync_tx, inbound,
                       outbound>>
    BY ZenonT(30) DEF Search
  <2>4. start' \in EngineSyncState /\ StartHeld'
    BY <2>2, <2>3 DEF EngineInv, EngineTypeOK, StartHeld
  <2>5. tasks' \in Seq(Task) /\ cur' \in 0 .. Len(tasks') /\ pc' \in Pcs
    BY <2>3 DEF Pcs
  <2>6. EngineTypeOK'
    BY <2>3, <2>4, <2>5 DEF EngineInv, EngineTypeOK, inbound, outbound
  <2>7. QED BY <2>3, <2>4, <2>6 DEF EngineInv, Good
\* Synchronizing to the starting point keeps the invariant.
<1>ResetOk. CASE Reset
  <2> USE <1>ResetOk
  <2>1. PICK o \in Synchronize(st, el, start) :
          /\ st' = o.st /\ el' = o.el
          /\ \/ /\ origin' = SubSeq(l1, 1, OriginNumber(start.safe))
                /\ OriginNumber(start.safe) <= Len(l1)
                /\ safe_head' = SendIfModified(safe_head, o.st.sync.safe)
                /\ pc' = "signal"
             \/ pc' \in {"dead", "reset"} /\ UNCHANGED <<origin, safe_head>>
    BY DEF Reset
  <2>2. /\ pc = "reset"
        /\ UNCHANGED <<l1, tasks, cur, start, resume, awaiting, sync_tx, inbound,
                       payloads, signals, unsafe_head>>
    BY ZenonT(30) DEF Reset
  <2>3. /\ start \in EngineSyncState /\ start.safe \in el.known
        /\ start.finalized \in el.known /\ start.safe \in Block
    BY <2>2, ZenonT(30) DEF EngineInv, EngineTypeOK, StartHeld, ELState
  <2>4. GoodOutcome(el, o)
    BY <2>1, <2>3, SynchronizeOk, ZenonT(30) DEF EngineInv, Held
  <2>5. Good(st', el') /\ el.known \subseteq el'.known
    BY <2>1, <2>4, ZenonT(30) DEF GoodOutcome
  <2>6. StartHeld'
    BY <2>2, <2>3, <2>5, ZenonT(30) DEF StartHeld
  <2>7. /\ origin' \in Seq(Content) /\ pc' \in Pcs
        /\ safe_head' \in Watch(MaybeBlock)
    <3>1. OriginNumber(start.safe) \in Nat
      BY <2>3, EmptyBlock, BoundAssumption DEF OriginNumber
    <3>2. OriginNumber(start.safe) <= Len(l1) =>
            SubSeq(l1, 1, OriginNumber(start.safe)) \in Seq(Content)
      BY <3>1, SMTT(40) DEF EngineInv, EngineTypeOK
    <3>3. o.st.sync.safe \in MaybeBlock
      BY <2>4, ZenonT(30) DEF GoodOutcome, Good, EngineState, EngineSyncState
    <3>4. SendIfModified(safe_head, o.st.sync.safe) \in Watch(MaybeBlock)
      BY <3>3 DEF EngineInv, EngineTypeOK, SendIfModified, Watch
    <3>5. QED BY <2>1, <3>2, <3>4, ZenonT(30) DEF EngineInv, EngineTypeOK, Pcs
  <2>8. EngineTypeOK'
    BY <2>2, <2>5, <2>7, ZenonT(30) DEF EngineInv, EngineTypeOK, Good, ELOk, inbound
  <2>9. QED BY <2>5, <2>6, <2>8 DEF EngineInv
\* Signalling the reset keeps it too.
<1>SignalResetOk. CASE SignalReset
  <2> USE <1>SignalResetOk
  <2>1. start.safe \in Block /\ DefaultSync \in EngineSyncState
    BY ZenonT(30) DEF EngineInv, EngineTypeOK, StartHeld, SignalReset, ELState, DefaultSync,
           EngineSyncState, MaybeBlock
  <2>2. signals' \in Seq(Signal)
    <3>1. signals \in Seq(Signal) /\ origin \in Seq(Content)
      BY ZenonT(30) DEF EngineInv, EngineTypeOK
    <3>2. ResetSignal(start.safe, origin) \in Signal
      BY <2>1, <3>1, ZenonT(30) DEF ResetSignal, Signal
    <3>3. signals' = Append(signals, ResetSignal(start.safe, origin))
      BY ZenonT(30) DEF SignalReset
    <3>4. QED BY <3>1, <3>2, <3>3
  <2>3. EngineTypeOK'
    <3>1. /\ awaiting' = << >> /\ start' = DefaultSync /\ origin' = << >> /\ pc' = resume
          /\ UNCHANGED <<l1, el, st, tasks, cur, resume, sync_tx, inbound, payloads,
                         safe_head, unsafe_head>>
      BY ZenonT(30) DEF SignalReset
    <3>2. /\ origin' \in Seq(Content)
          /\ DOMAIN awaiting' \subseteq Nat /\ \A n \in DOMAIN awaiting' : awaiting'[n] \in Nat
      BY <3>1
    <3>3. pc' \in Pcs
      BY <3>1, ZenonT(30) DEF EngineInv, EngineTypeOK, Pcs
    <3>4. QED BY <2>1, <2>2, <3>1, <3>2, <3>3, ZenonT(30) DEF EngineInv, EngineTypeOK, inbound
  <2>4. Good(st, el)' /\ pc' = resume
    BY ZenonT(30) DEF EngineInv, SignalReset, Good
  <2>5. resume \notin {"reset", "signal"}
    BY DEF EngineInv, EngineTypeOK
  <2>6. QED BY <2>3, <2>4, <2>5, ZenonT(30) DEF EngineInv, StartHeld
\* One attempt at a task keeps the invariant, however it ends.
<1>DrainOk. CASE Drain
  <2> USE <1>DrainOk
  <2>1. PICK i \in (IF cur = 0 THEN Peekable ELSE {cur}) :
          \E o \in Execute(st, el, tasks[i]) : Execution(i, o)
    BY DEF Drain
  <2>2. i \in DOMAIN tasks /\ tasks[i] \in Task /\ i \in 0 .. Len(tasks)
    <3>1. tasks \in Seq(Task) /\ cur \in 0 .. Len(tasks)
      BY DEF EngineInv, EngineTypeOK
    <3>2. i \in DOMAIN tasks
      BY <2>1, <3>1 DEF Peekable
    <3>3. QED BY <3>1, <3>2
  <2>3. PICK o \in Execute(st, el, tasks[i]) : Execution(i, o)
    BY <2>1
  <2>4. GoodOutcome(el, o)
    BY <2>2, <2>3, ExecuteOk, ZenonT(30) DEF EngineInv
  <2>5. Good(st', el') /\ o.payload \in MaybeBlock
    BY <2>3, <2>4 DEF GoodOutcome, Execution, OutcomeSet
  <2>6. /\ pc = "drain"
        /\ UNCHANGED <<l1, inbound, safe_head, unsafe_head, awaiting, sync_tx>>
    BY DEF Drain
  <2>7. /\ DOMAIN payloads' \subseteq Nat
        /\ \A r \in DOMAIN payloads' : payloads'[r] \in Block
    <3>1. /\ DOMAIN payloads \subseteq Nat
          /\ \A r \in DOMAIN payloads : payloads[r] \in Block
      BY DEF EngineInv, EngineTypeOK
    <3>2. CASE payloads' = payloads
      BY <3>1, <3>2
    <3>3. CASE /\ Delivers(tasks[i], o)
               /\ payloads' = [r \in DOMAIN payloads \cup {tasks[i].rx} |->
                                 IF r = tasks[i].rx THEN o.payload
                                                    ELSE payloads[r]]
      <4>1. tasks[i].rx \in Nat /\ o.payload \in Block
        BY <2>2, <2>5, <3>3, ZenonT(30) DEF Delivers, Task, MaybeBlock
      <4>2. QED BY <3>1, <3>3, <4>1, ZenonT(30)
    <3>4. QED BY <2>3, <3>2, <3>3, ZenonT(30) DEF Execution
  <2>8. tasks' \in Seq(Task) /\ cur' \in 0 .. Len(tasks')
    <3>1. tasks \in Seq(Task) /\ cur \in 0 .. Len(tasks)
      BY DEF EngineInv, EngineTypeOK
    <3>2. CASE tasks' = RemoveAt(tasks, i) /\ cur' = 0
      <4>1. RemoveAt(tasks, i) \in Seq(Task)
        BY <2>2, <3>1, RemoveAtTyped
      <4>2. QED BY <3>2, <4>1
    <3>3. CASE tasks' = tasks /\ cur' \in {0, i, cur}
      BY <2>2, <3>1, <3>3
    <3>4. QED BY <2>3, <3>2, <3>3 DEF Execution
  <2>9. /\ pc' \in {"drain", "dead", "drained", "search"}
        /\ UNCHANGED <<start, origin>>
        /\ resume' \in {"drain", "drained", "synced"}
        /\ signals' \in Seq(Signal)
    <3>1. signals \in Seq(Signal) /\ resume \in {"drain", "drained", "synced"}
      BY DEF EngineInv, EngineTypeOK
    <3>2. Append(signals, FlushSignal) \in Seq(Signal)
      BY <3>1 DEF FlushSignal, Signal
    <3>3. QED BY <2>3, <2>6, <3>1, <3>2, SMTT(40) DEF Execution
  <2>10. EngineTypeOK'
    BY <2>5, <2>6, <2>7, <2>8, <2>9, ZenonT(30)
       DEF EngineInv, EngineTypeOK, Good, ELOk, Pcs, inbound
  <2>11. QED BY <2>5, <2>9, <2>10, ZenonT(30) DEF EngineInv, StartHeld
\* SendIfModified keeps the type of a watch channel.
<1>SendIfModifiedTyped. ASSUME NEW S, NEW w \in Watch(S), NEW v \in S
    PROVE  SendIfModified(w, v) \in Watch(S)
  BY ZenonT(30) DEF SendIfModified, Watch
\* Publishing the heads and checking the EL sync keep the invariant.
<1>DrainedOk. CASE DrainEmpty \/ Drained \/ Synced
  <2> USE <1>DrainedOk
  <2>1. st.sync.safe \in MaybeBlock /\ st.sync.unsafe \in MaybeBlock
    BY DEF EngineInv, Good, EngineState, EngineSyncState
  <2>2. /\ SendIfModified(safe_head, st.sync.safe) \in Watch(MaybeBlock)
        /\ SendIfModified(unsafe_head, st.sync.unsafe) \in Watch(MaybeBlock)
    BY <2>1, <1>SendIfModifiedTyped, ZenonT(30) DEF EngineInv, EngineTypeOK
  <2>3. /\ safe_head' \in Watch(MaybeBlock) /\ unsafe_head' \in Watch(MaybeBlock)
        /\ pc' \in {"drained", "search", "select"}
        /\ resume' \in {"drain", "drained", "synced"}
        /\ sync_tx' \in {"held", "taken", "sent", "dropped"}
        /\ UNCHANGED <<l1, el, st, tasks, cur, start, origin, awaiting, inbound,
                       payloads, signals>>
    BY <2>2, ZenonT(30) DEF EngineInv, EngineTypeOK, DrainEmpty, Drained, Synced, outbound
  <2>4. EngineTypeOK'
    BY <2>3 DEF EngineInv, EngineTypeOK, Pcs, inbound
  <2>5. QED BY <2>3, <2>4 DEF EngineInv, Good, StartHeld
\* A step that enqueues a well-typed task and takes a message leaves the
\* engine and the execution layer as they were.
<1>EnqueueOk. ASSUME NEW t \in Task, Enqueue(t),
           UNCHANGED <<l1, el, st, cur, start, origin, resume, sync_tx,
                       outbound>>,
           DOMAIN awaiting' \subseteq Nat,
           \A n \in DOMAIN awaiting' : awaiting'[n] \in Nat,
           reset_requests' \in Nat, build_requests' \in Seq(BuildRequest),
           unsafe_blocks' \in Seq(Block), attributes' \in Seq(Attributes),
           finalized_l1' \in Watch(Nat)
    PROVE  EngineInv'
  <2> USE <1>EnqueueOk
  <2>1. /\ tasks' \in Seq(Task) /\ Len(tasks') = Len(tasks) + 1
        /\ cur' \in 0 .. Len(tasks') /\ pc' \in Pcs
    <3>1. tasks \in Seq(Task) /\ cur \in 0 .. Len(tasks)
      BY ZenonT(30) DEF EngineInv, EngineTypeOK
    <3>2. QED BY <3>1 DEF Enqueue, Pcs
  <2>2. EngineTypeOK'
    BY <2>1, SMTT(40) DEF EngineInv, EngineTypeOK, outbound
  <2>3. QED BY <2>2, ZenonT(30) DEF EngineInv, Good, StartHeld, Enqueue
\* Each branch of the select keeps the invariant: a reset request ...
<1>RecvResetRequestOk. CASE RecvResetRequest
  <2> USE <1>RecvResetRequestOk
  <2>1. EngineTypeOK'
    BY DEF EngineInv, EngineTypeOK, RecvResetRequest, outbound, Pcs
  <2>2. QED BY <2>1, ZenonT(30) DEF EngineInv, Good, StartHeld, RecvResetRequest
\* ... a build request ...
<1>RecvBuildRequestOk. CASE RecvBuildRequest
  <2> USE <1>RecvBuildRequestOk
  <2>1. /\ Head(build_requests) \in BuildRequest
        /\ Tail(build_requests) \in Seq(BuildRequest)
    BY DEF EngineInv, EngineTypeOK, RecvBuildRequest
  <2>2. BuildTask(Head(build_requests).attrs, Head(build_requests).rx) \in Task
    BY <2>1, ZenonT(30) DEF BuildRequest, BuildTask, Task
  <2>3. QED
    BY <2>1, <2>2, <1>EnqueueOk, ZenonT(30)
       DEF EngineInv, EngineTypeOK, RecvBuildRequest, outbound
\* ... an unsafe block ...
<1>RecvUnsafeBlockOk. CASE RecvUnsafeBlock
  <2> USE <1>RecvUnsafeBlockOk
  <2>1. /\ Head(unsafe_blocks) \in Block
        /\ Tail(unsafe_blocks) \in Seq(Block)
    BY DEF EngineInv, EngineTypeOK, RecvUnsafeBlock
  <2>2. InsertTask(Head(unsafe_blocks)) \in Task
    BY <2>1, ZenonT(30) DEF InsertTask, Task
  <2>3. QED
    BY <2>1, <2>2, <1>EnqueueOk, ZenonT(30)
       DEF EngineInv, EngineTypeOK, RecvUnsafeBlock, outbound
\* ... attributes, which also go to the finalizer ...
<1>RecvAttributesOk. CASE RecvAttributes
  <2> USE <1>RecvAttributesOk
  <2>1. /\ Head(attributes) \in Attributes
        /\ Tail(attributes) \in Seq(Attributes)
    BY DEF EngineInv, EngineTypeOK, RecvAttributes
  <2>2. ConsolidateTask(Head(attributes)) \in Task
    BY <2>1, ZenonT(30) DEF ConsolidateTask, Task
  <2>3. /\ DOMAIN awaiting' \subseteq Nat
        /\ \A n \in DOMAIN awaiting' : awaiting'[n] \in Nat
    <3>1. /\ Head(attributes).derived_from \in Nat
          /\ BlockNumber(Head(attributes)) \in Nat
      BY <2>1 DEF Attributes, BlockNumber, Block
    <3>2. QED
      BY <3>1 DEF EngineInv, EngineTypeOK, RecvAttributes, EnqueueForFinalization
  <2>4. QED
    BY <2>1, <2>2, <2>3, <1>EnqueueOk, ZenonT(30)
       DEF EngineInv, EngineTypeOK, RecvAttributes, outbound
\* ... and a finalized L1 block.
<1>RecvFinalizedL1Ok. CASE RecvFinalizedL1
  <2> USE <1>RecvFinalizedL1Ok
  <2>1. finalized_l1' \in Watch(Nat) /\ finalized_l1.val \in Nat
    BY ZenonT(30) DEF EngineInv, EngineTypeOK, RecvFinalizedL1, Watch
  <2>2. CASE Finalizable(finalized_l1.val) = {}
    <3>1. EngineTypeOK'
      BY <2>1, <2>2 DEF EngineInv, EngineTypeOK, RecvFinalizedL1,
         TryFinalizeNext, outbound, Pcs
    <3>2. QED
      BY <3>1, <2>2 DEF EngineInv, Good, StartHeld, RecvFinalizedL1
  <2>3. CASE Finalizable(finalized_l1.val) # {}
    <3>1. PICK k \in Finalizable(finalized_l1.val) :
            tasks' = Append(tasks, FinalizeTask(awaiting[k]))
      BY <2>3, ZenonT(30) DEF RecvFinalizedL1, TryFinalizeNext
    <3>2. FinalizeTask(awaiting[k]) \in Task
      BY ZenonT(30) DEF EngineInv, EngineTypeOK, Finalizable, FinalizeTask, Task
    <3>3. /\ DOMAIN awaiting' \subseteq Nat
          /\ \A n \in DOMAIN awaiting' : awaiting'[n] \in Nat
      BY <2>3 DEF EngineInv, EngineTypeOK, RecvFinalizedL1, TryFinalizeNext
    <3>4. Enqueue(FinalizeTask(awaiting[k]))
      BY <3>1 DEF Enqueue, RecvFinalizedL1
    <3>5. QED
      BY <2>1, <3>2, <3>3, <3>4, <1>EnqueueOk, ZenonT(30)
         DEF EngineInv, EngineTypeOK, RecvFinalizedL1, outbound
  <2>4. QED BY <2>2, <2>3
<1> QED
  BY ZenonT(30),
     <1>SearchOk, <1>ResetOk, <1>SignalResetOk, <1>DrainOk, <1>DrainedOk,
     <1>RecvResetRequestOk, <1>RecvBuildRequestOk, <1>RecvUnsafeBlockOk,
     <1>RecvAttributesOk, <1>RecvFinalizedL1Ok DEF EngineStep
=============================================================================
