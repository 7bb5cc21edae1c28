--------------------------- MODULE PreimageOracle ---------------------------
(***************************************************************************)
(* The fault proof program and its host, run natively: a sequential client *)
(* behind a caching oracle, two message channels, and the two tasks of the *)
(* preimage server, which route hints and serve preimages from one shared  *)
(* backend.                                                                *)
(*                                                                         *)
(* The client hints at what it will need and waits for the hint to be      *)
(* acknowledged.  The online backend only remembers the last hint: it acts *)
(* on it when a preimage is requested that it does not hold, again and     *)
(* again until the preimage turns up or ten seconds have passed.  Some     *)
(* hints are acted on at once instead.  The offline backend ignores hints  *)
(* and serves what its store holds.                                        *)
(***************************************************************************)
EXTENDS ProofClient, FiniteSets

CONSTANTS Losses,      \* kinds of preimages an offline store may lack one of
          Empties,     \* keys whose preimage is the empty string
          CacheSize,   \* capacity of the client's LRU cache
          MaxCalls     \* bound: calls of the client after its prologue

VARIABLES program,    \* the program run
          client,     \* the client: where it is, what is left of the call it makes
          cache,      \* LRU cache, least recently used first
          hintCh,     \* hints sent
          ackCh,      \* acknowledgements
          keyCh,      \* keys requested
          replyCh,    \* lengths and data sent back
          router,     \* the hint router task
          server,     \* the oracle server task
          backend     \* the store and the last hint

oracleVars == <<program, client, cache, hintCh, ackCh, keyCh, replyCh, router, server, backend>>

None == <<"none", "", 0, 0>>
NoHint == [do |-> "none"]
EmptyPreimage == <<"", "", 0, 0>>
Preimage(k) == IF k \in Empties THEN EmptyPreimage ELSE k
LengthOf(v) == IF v = EmptyPreimage THEN 0 ELSE 1

Mode == Programs[program].mode

Over == client.pc \in {"done", "failed", "panicked"}

ClientFails == client' = [client EXCEPT !.pc = "failed"]
ClientPanics == client' = [client EXCEPT !.pc = "panicked"]

(***************************************************************************)
(* CachingOracle.  put and get make the entry the most recently used one;  *)
(* put on a full cache drops the least recently used.                      *)
(***************************************************************************)
Cached(k) == \E i \in DOMAIN cache : cache[i].key = k

MutCacheValue(k) == Last(cache).value

CacheValue(k) == (CHOOSE e \in ToSet(cache) : e.key = k).value

CachePut(k, v) ==
  LET others == SelectSeq(cache, LAMBDA e : e.key # k)
      kept == IF Len(others) = CacheSize THEN Tail(others) ELSE others
  IN cache' = Append(kept, [key |-> k, value |-> v])

\* The step at hand is done.
StepDone == client' = [client EXCEPT !.pc = "run", !.todo = Tail(@)]

Answer(k, v) ==
  /\ client' = [client EXCEPT !.pc = "run", !.todo = Tail(@), !.answer = [key |-> k, value |-> v]]
  /\ CachePut(k, v)

(***************************************************************************)
(* The client goes through the steps of a call, then makes another one or  *)
(* ends.  Each error ends the program.  A channel is closed to a party     *)
(* when the other one has ended and the channel is empty.                  *)
(***************************************************************************)
Running(step) == client.pc = "run" /\ client.todo # <<>> /\ Head(client.todo).do = step

ClientHint ==
  /\ Running("hint")
  /\ IF router = "ended"
     THEN ClientFails /\ UNCHANGED hintCh
     ELSE /\ hintCh' = Append(hintCh, Head(client.todo))
          /\ client' = [client EXCEPT !.pc = "hint"]
  /\ UNCHANGED <<program, cache, ackCh, keyCh, replyCh, router, server, backend>>

ClientAck ==
  /\ client.pc = "hint"
  /\ IF ackCh # <<>>
     THEN ackCh' = Tail(ackCh) /\ StepDone
     ELSE router = "ended" /\ ClientFails /\ UNCHANGED ackCh
  /\ UNCHANGED <<program, cache, hintCh, keyCh, replyCh, router, server, backend>>

ClientGet ==
  LET k == Head(client.todo).key
  IN /\ Running("get")
     /\ IF Cached(k)
        THEN Answer(k, CacheValue(k)) /\ UNCHANGED keyCh
        ELSE IF server.pc = "ended"
        THEN ClientFails /\ UNCHANGED <<keyCh, cache>>
        ELSE /\ keyCh' = Append(keyCh, k)
             /\ client' = [client EXCEPT !.pc = "length", !.key = k]
             /\ UNCHANGED cache
     /\ UNCHANGED <<program, hintCh, ackCh, replyCh, router, server, backend>>

ClientCall(call) ==
  /\ client.pc = "run" /\ client.todo = <<>> /\ client.calls < MaxCalls
  /\ client' = [client EXCEPT !.todo = call, !.calls = @ + 1]
  /\ UNCHANGED <<program, cache, hintCh, ackCh, keyCh, replyCh, router, server, backend>>

(***************************************************************************)
(* write_key reads eight bytes of length, then get reads the data unless   *)
(* the length is zero.  A message of another size than the buffer makes    *)
(* read_exact panic.                                                       *)
(***************************************************************************)
ClientLength ==
  /\ client.pc = "length"
  /\ IF replyCh = <<>>
     THEN server.pc = "ended" /\ ClientFails /\ UNCHANGED <<replyCh, cache>>
     ELSE /\ replyCh' = Tail(replyCh)
          /\ CASE Head(replyCh).kind = "data" -> ClientPanics /\ UNCHANGED cache
               [] Head(replyCh) = [kind |-> "length", n |-> 0] -> Answer(client.key, EmptyPreimage)
               [] OTHER -> client' = [client EXCEPT !.pc = "data"] /\ UNCHANGED cache
  /\ UNCHANGED <<program, hintCh, ackCh, keyCh, router, server, backend>>

ClientData ==
  /\ client.pc = "data"
  /\ IF replyCh = <<>>
     THEN server.pc = "ended" /\ ClientFails /\ UNCHANGED <<replyCh, cache>>
     ELSE /\ replyCh' = Tail(replyCh)
          /\ IF Head(replyCh).kind = "length" THEN ClientPanics /\ UNCHANGED cache
             ELSE Answer(client.key, Head(replyCh).value)
  /\ UNCHANGED <<program, hintCh, ackCh, keyCh, router, server, backend>>

ClientDone ==
  /\ client.pc = "run" /\ client.todo = <<>>
  /\ client' = [client EXCEPT !.pc = "done"]
  /\ UNCHANGED <<program, cache, hintCh, ackCh, keyCh, replyCh, router, server, backend>>

(***************************************************************************)
(* The hint router.  A hint is acknowledged after it was routed, whether   *)
(* that succeeded or not; an error then ends the router.  A witness hint   *)
(* may be skipped silently.  Setting the last hint waits for a prefetch    *)
(* that is reading it.                                                     *)
(***************************************************************************)
MutAcknowledge(next) ==
  /\ ackCh' = IF Over \/ next = "ended" THEN ackCh ELSE Append(ackCh, "ack")
  /\ router' = IF Over THEN "ended" ELSE "wait"

Acknowledge(next) ==
  /\ ackCh' = IF Over THEN ackCh ELSE Append(ackCh, "ack")
  /\ router' = IF Over THEN "ended" ELSE next

RouteHint ==
  LET h == Head(hintCh)
      proactive == h.ty = ProactiveHint(Mode)
  IN /\ router = "wait" /\ hintCh # <<>>
     /\ hintCh' = Tail(hintCh)
     /\ \/ /\ ~backend.online
           /\ UNCHANGED backend /\ Acknowledge("wait")
        \/ /\ backend.online /\ ~proactive
           /\ server.pc # "fetch"
           /\ backend' = [backend EXCEPT !.lastHint = h]
           /\ Acknowledge("wait")
        \/ /\ backend.online /\ proactive
           /\ backend' = [backend EXCEPT !.kv = @ \cup FetchHint(Mode, h)]
           /\ Acknowledge("wait")
        \/ /\ backend.online /\ proactive /\ h.ty = "L2PayloadWitness"
           /\ UNCHANGED backend /\ Acknowledge("wait")
        \/ /\ backend.online /\ proactive
           /\ UNCHANGED backend /\ Acknowledge("ended")
     /\ UNCHANGED <<program, client, cache, keyCh, replyCh, server>>

RouterClosed ==
  /\ router = "wait" /\ hintCh = <<>> /\ Over
  /\ router' = "ended"
  /\ UNCHANGED <<program, client, cache, hintCh, ackCh, keyCh, replyCh, server, backend>>

(***************************************************************************)
(* The oracle server.  A missing preimage is prefetched from the last hint *)
(* until it is there; the wait ends with the timeout, and so does the task.*)
(***************************************************************************)
Reply(k) ==
  /\ replyCh' = replyCh \o <<[kind |-> "length", n |-> LengthOf(Preimage(k))],
                             [kind |-> "data", value |-> Preimage(k)]>>
  /\ server' = [pc |-> IF Over THEN "ended" ELSE "wait", key |-> None]

Held(k, kv) == k \in kv \cup LocalInputs(Mode)

ServeRequest ==
  LET k == Head(keyCh)
  IN /\ server.pc = "wait" /\ keyCh # <<>>
     /\ keyCh' = Tail(keyCh)
     /\ IF Held(k, backend.kv) THEN Reply(k)
        ELSE /\ server' = [pc |-> IF backend.online THEN "fetch" ELSE "ended", key |-> k]
             /\ UNCHANGED replyCh
     /\ UNCHANGED <<program, client, cache, hintCh, ackCh, router, backend>>

Prefetch ==
  /\ server.pc = "fetch" /\ backend.lastHint # NoHint
  /\ backend' = [backend EXCEPT !.kv = @ \cup FetchHint(Mode, backend.lastHint)]
  /\ IF Held(server.key, backend'.kv) THEN Reply(server.key) ELSE UNCHANGED <<replyCh, server>>
  /\ UNCHANGED <<program, client, cache, hintCh, ackCh, keyCh, router>>

FetchTimeout ==
  /\ server.pc = "fetch"
  /\ server' = [server EXCEPT !.pc = "ended"]
  /\ UNCHANGED <<program, client, cache, hintCh, ackCh, keyCh, replyCh, router, backend>>

ServerClosed ==
  /\ server.pc = "wait" /\ keyCh = <<>> /\ Over
  /\ server' = [server EXCEPT !.pc = "ended"]
  /\ UNCHANGED <<program, client, cache, hintCh, ackCh, keyCh, replyCh, router, backend>>

-----------------------------------------------------------------------------
\* What an online run of a program can have stored.
AllKeys ==
  LET p == Programs[program]
      steps == UNION {ToSet(c) : c \in p.calls \cup {p.prologue}}
  IN {s.key : s \in {s \in steps : s.do = "get"}} \ LocalInputs(Mode)

OracleInit ==
  /\ program \in DOMAIN Programs
  /\ client = [pc |-> "run", todo |-> Programs[program].prologue, key |-> None, calls |-> 0,
               answer |-> [key |-> None, value |-> None]]
  /\ cache = <<>>
  /\ hintCh = <<>> /\ ackCh = <<>> /\ keyCh = <<>> /\ replyCh = <<>>
  /\ router = "wait"
  /\ server = [pc |-> "wait", key |-> None]
  /\ \/ backend = [online |-> TRUE, kv |-> {}, lastHint |-> NoHint]
     \/ \E lost \in {{}} \cup {{k} : k \in {k \in AllKeys : k[2] \in Losses}} :
          backend = [online |-> FALSE, kv |-> AllKeys \ lost, lastHint |-> NoHint]

ClientReads == ClientAck \/ ClientLength \/ ClientData
ClientNext == ClientHint \/ ClientGet \/ ClientReads
RouterNext == RouteHint \/ RouterClosed
ServerNext == ServeRequest \/ Prefetch \/ FetchTimeout \/ ServerClosed

OracleNext ==
  \/ ClientNext \/ ClientDone
  \/ \E call \in Programs[program].calls : ClientCall(call)
  \/ RouterNext \/ ServerNext

(***************************************************************************)
(* The tasks of the server and of the client run on a fair scheduler.      *)
(***************************************************************************)
OracleFairness == WF_oracleVars(ClientReads) /\ WF_oracleVars(RouterNext) /\ WF_oracleVars(ServerNext)

(***************************************************************************)
(* What the client gets for a key is the preimage of that key, from the    *)
(* host or from its cache, whatever was sent over the channels before, and *)
(* it never takes one message for another.  When it waits for a preimage,  *)
(* the online host holds it or has recorded the hint that brings it in: a  *)
(* hint is in force by the time it is acknowledged, and is not displaced   *)
(* by a proactive one (OracleReader::get, next_preimage_request,           *)
(* CachingOracle, route_hint, next_hint, get_preimage).                    *)
(***************************************************************************)
AnswersMatch ==
  /\ client.pc # "panicked"
  /\ client.answer.key # None => client.answer.value = Preimage(client.answer.key)
  /\ \A i \in DOMAIN cache : cache[i].value = Preimage(cache[i].key)
  /\ client.pc = "length" /\ backend.online =>
       \/ Held(client.key, backend.kv)
       \/ backend.lastHint # NoHint /\ client.key \in FetchHint(Mode, backend.lastHint)

(***************************************************************************)
(* The host never leaves the client waiting: each hint and each request of *)
(* the client returns, with an answer or with an error, also when the      *)
(* backend fails, times out or lacks the preimage ("Write back on error to *)
(* prevent blocking the client").                                          *)
(***************************************************************************)
ClientUnblocked == client.pc \in {"hint", "length", "data"} ~> (client.pc = "run" \/ Over)
=============================================================================
