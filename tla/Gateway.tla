------------------------------ MODULE Gateway ------------------------------
(***************************************************************************)
(* A mutating request through api-gateway: the Idempotency middleware and  *)
(* its in-memory store in front of the pipeline and stream handlers, which *)
(* call pipeline-service and stream-manager over gRPC.  Clients retry with *)
(* the same key, also while an earlier attempt is still running.           *)
(*                                                                         *)
(* Reads change nothing and are left out.                                  *)
(***************************************************************************)
EXTENDS Integers, FiniteSets, Functions

CONSTANTS Attempts,     \* requests the clients send
          Keys, NoKey,  \* values of Idempotency-Key; NoKey: the header is absent
          Pipelines,    \* pipelines that exist from the start
          StreamNames,
          TTL,          \* Deps.IdempotencyTTL, in ticks
          MaxItems,     \* MemoryStore.maxItems
          MaxTime,      \* bound of the clock
          MaxRestarts   \* bound of restarts of the gateway

ASSUME GatewayAssumption ==
    /\ TTL \in Nat \ {0} /\ MaxItems \in Nat \ {0} /\ MaxTime \in Nat /\ MaxRestarts \in Nat
    /\ NoKey \notin Keys
    /\ IsFiniteSet(Attempts)

VARIABLES att,        \* the attempts
          entries,    \* MemoryStore.entries
          pipelines,  \* pipeline-service: id -> status
          workflows,  \* deploy workflows started
          streams,    \* stream-manager: the streams
          dispatched, \* start commands published for streams
          minted,     \* ids handed out
          told,       \* answers given per key since the gateway last forgot it
          clock, restarts

upstreamVars == <<pipelines, workflows, streams, dispatched, minted>>
gatewayVars == <<att, entries, upstreamVars, told, clock, restarts>>

(* The body of a deploy or a delete is empty: the target is in the path.   *)
Requests ==
    {[op |-> "createPipeline", body |-> "pipeline"]}
      \cup [op : {"deploy"}, body : {"empty"}, id : Pipelines]
      \cup [op : {"createStream"}, body : StreamNames, id : StreamNames]
      \cup [op : {"deleteStream"}, body : {"empty"}, id : StreamNames]

Bodies  == {rq.body : rq \in Requests}
Answers == [of : {"minted"}, id : 1..Cardinality(Attempts)] \cup [of : {"stream"}, name : StreamNames] \cup {[of |-> "status"]}

(* Only the answer to an attempt with a key is kept.                       *)
NoAnswer == [of |-> "none"]
Unborn == [st |-> "idle", key |-> NoKey, rq |-> [op |-> "none", body |-> "none"], ans |-> NoAnswer, only |-> {}]

GatewayInit ==
    /\ att = [a \in Attempts |-> Unborn]
    /\ entries = << >>
    /\ pipelines = [p \in Pipelines |-> "validated"]
    /\ workflows = {} /\ streams = {} /\ dispatched = {} /\ minted = 0
    /\ told = [k \in Keys |-> {}]
    /\ clock = 0 /\ restarts = 0

Ended(k, r) == [Unborn EXCEPT !.st = "ended", !.ans = IF k = NoKey THEN NoAnswer ELSE r]
Answer(a) == att' = [att EXCEPT ![a] = Ended(@.key, @.ans)]
InProgress(a) == att[a].st \notin {"idle", "ended"}
Fail(a) == att' = [att EXCEPT ![a] = Ended(NoKey, NoAnswer)]

-----------------------------------------------------------------------------
(* pkg/platform/idempotency.                                               *)

Live(k) == k \in DOMAIN entries /\ clock <= entries[k].exp

(* Get deletes an entry it finds expired.                                  *)
AfterGet(k) == IF k \in DOMAIN entries /\ ~Live(k) THEN Restrict(entries, DOMAIN entries \ {k}) ELSE entries

(* evictOneLocked: the earliest expiry goes, expired entries included; the *)
(* iteration order of the map breaks ties.                                 *)
Victims == {v \in DOMAIN entries : \A w \in DOMAIN entries : entries[v].exp <= entries[w].exp}

Fits == Cardinality(DOMAIN entries) < MaxItems

(* Put makes room even when it replaces an entry.                          *)
Put(k, e, evicted) ==
    [x \in (DOMAIN entries \ evicted) \cup {k} |-> IF x = k THEN e ELSE entries[x]]

-----------------------------------------------------------------------------
(* middleware.Idempotency.                                                 *)

(* Refused in front of the middleware: no tenant, AuthZ denies or fails.   *)
Refuse(a) ==
    /\ att[a].st = "idle"
    /\ Fail(a)
    /\ UNCHANGED <<entries, upstreamVars, told, clock, restarts>>

(* Mutant: the fingerprint is not compared. *)
BeginAnyBody(a, k, rq) ==
    /\ att[a].st = "idle"
    /\ att' = [att EXCEPT ![a] =
                 [st |-> IF k # NoKey /\ Live(k) THEN "replay" ELSE "handler",
                  key |-> k, rq |-> rq,
                  ans |-> IF k # NoKey /\ Live(k) THEN entries[k].ans ELSE NoAnswer,
                  only |-> IF k = NoKey THEN {} ELSE {r \in Answers : <<rq.body, r>> \in told[k]}]]
    /\ entries' = IF k = NoKey THEN entries ELSE AfterGet(k)
    /\ UNCHANGED <<upstreamVars, told, clock, restarts>>

(* A key that is cached is replayed, or refused with 409 when the body's   *)
(* fingerprint differs; anything else goes to the handler.                 *)
Begin(a, k, rq) ==
    /\ att[a].st = "idle"
    /\ LET hit == k # NoKey /\ Live(k) IN
         att' = [att EXCEPT ![a] =
                   IF hit /\ entries[k].body # rq.body THEN Ended(NoKey, NoAnswer) ELSE
                   [st |-> IF hit THEN "replay" ELSE "handler",
                    key |-> k, rq |-> rq,
                    ans |-> IF hit THEN entries[k].ans ELSE NoAnswer,
                    only |-> IF k = NoKey THEN {} ELSE {r \in Answers : <<rq.body, r>> \in told[k]}]]
    /\ entries' = IF k = NoKey THEN entries ELSE AfterGet(k)
    /\ UNCHANGED <<upstreamVars, told, clock, restarts>>

Tell(k, b, r, forgotten) ==
    [x \in Keys |-> IF x = k THEN told[x] \cup {<<b, r>>} ELSE IF x \in forgotten THEN {} ELSE told[x]]

(* The cached response is written again.                                   *)
Replay(a) ==
    /\ att[a].st = "replay"
    /\ Answer(a)
    /\ UNCHANGED <<entries, upstreamVars, told, clock, restarts>>

(* A 2xx is stored before the server ends the response, so before a client *)
(* has read all of it.                                                     *)
Respond(a) ==
    /\ att[a].st = "acted"
    /\ Answer(a)
    /\ IF att[a].key = NoKey
         THEN UNCHANGED <<entries, told>>
         ELSE LET k == att[a].key
                  e == [body |-> att[a].rq.body, ans |-> att[a].ans, exp |-> clock + TTL] IN
              \E evicted \in IF Fits THEN {{}} ELSE {{v} : v \in Victims} :
                 /\ entries' = Put(k, e, evicted)
                 /\ told' = Tell(k, e.body, e.ans, evicted)
    /\ UNCHANGED <<upstreamVars, clock, restarts>>

-----------------------------------------------------------------------------
(* The handlers and the services behind them.                              *)

InHandler(a, op) == att[a].st = "handler" /\ att[a].rq.op = op

(* The handler's own checks of the body fail.                              *)
RejectBody(a) ==
    /\ att[a].st = "handler" /\ att[a].rq.body # "empty"
    /\ Fail(a)
    /\ UNCHANGED <<entries, upstreamVars, told, clock, restarts>>

(* The 2xx a handler makes of the service's answer.                        *)
PipelineAnswer(a, id) == att' = [att EXCEPT ![a].st = "acted", ![a].ans = [of |-> "minted", id |-> id]]
StreamAnswer(a, r) == att' = [att EXCEPT ![a].st = "acted", ![a].ans = r]

(* pipeline-service mints an id and inserts a draft; the key it is sent is *)
(* not looked at.                                                          *)
InsertDraft(id) ==
    pipelines' = [p \in DOMAIN pipelines \cup {id} |-> IF p \in DOMAIN pipelines THEN pipelines[p] ELSE "draft"]

CreatePipeline(a) ==
    /\ InHandler(a, "createPipeline")
    /\ minted' = minted + 1
    /\ InsertDraft(minted + 1)
    /\ PipelineAnswer(a, minted + 1)
    /\ UNCHANGED <<workflows, streams, dispatched, entries, told, clock, restarts>>

(* A deploy starts a workflow under a fresh id, then sets the status.      *)
StartDeploy(a) ==
    /\ InHandler(a, "deploy")
    /\ minted' = minted + 1
    /\ workflows' = workflows \cup {minted + 1}
    /\ att' = [att EXCEPT ![a].st = "started", ![a].ans = [of |-> "minted", id |-> minted + 1]]
    /\ UNCHANGED <<pipelines, streams, dispatched, entries, told, clock, restarts>>

SetDeploying(a) ==
    /\ att[a].st = "started"
    /\ pipelines' = [pipelines EXCEPT ![att[a].rq.id] = "deploying"]
    /\ PipelineAnswer(a, att[a].ans.id)
    /\ UNCHANGED <<minted, workflows, streams, dispatched, entries, told, clock, restarts>>

(* A new stream of a pipeline is announced to the dataplane runners; a     *)
(* failed publication is only logged.                                      *)
Dispatch(n) == dispatched' \in {dispatched, dispatched \cup {n}}

(* The id of a stream comes from its name: a second create is refused.     *)
CreateStream(a) ==
    /\ InHandler(a, "createStream")
    /\ LET n == att[a].rq.id IN
         IF n \in streams
           THEN Fail(a) /\ UNCHANGED <<streams, dispatched>>
           ELSE StreamAnswer(a, [of |-> "stream", name |-> n]) /\ streams' = streams \cup {n} /\ Dispatch(n)
    /\ UNCHANGED <<pipelines, workflows, minted, entries, told, clock, restarts>>

(* A delete announces nothing.                                             *)
DeleteStream(a) ==
    /\ InHandler(a, "deleteStream")
    /\ IF att[a].rq.id \in streams
         THEN StreamAnswer(a, [of |-> "status"]) /\ streams' = streams \ {att[a].rq.id}
         ELSE Fail(a) /\ UNCHANGED streams
    /\ UNCHANGED <<pipelines, workflows, minted, dispatched, entries, told, clock, restarts>>

(* A call fails: before the service acted, half way, or with its answer    *)
(* lost.                                                                   *)
PipelineCallFails(a) ==
    /\ InProgress(a) /\ att[a].st # "replay" /\ att[a].rq.op \in {"createPipeline", "deploy"}
    /\ Fail(a)
    /\ UNCHANGED <<entries, upstreamVars, told, clock, restarts>>

StreamCallFails(a) ==
    /\ InProgress(a) /\ att[a].st # "replay" /\ att[a].rq.op \in {"createStream", "deleteStream"}
    /\ Fail(a)
    /\ UNCHANGED <<entries, upstreamVars, told, clock, restarts>>

-----------------------------------------------------------------------------
(* A key is forgotten once its entry has expired.                          *)
Tick ==
    /\ clock < MaxTime
    /\ clock' = clock + 1
    /\ told' = [k \in Keys |-> IF k \in DOMAIN entries /\ clock + 1 <= entries[k].exp THEN told[k] ELSE {}]
    /\ UNCHANGED <<att, entries, upstreamVars, restarts>>

(* The store dies with its process, and with it the requests in progress.  *)
GatewayRestarts ==
    /\ restarts < MaxRestarts
    /\ restarts' = restarts + 1
    /\ entries' = << >>
    /\ told' = [k \in Keys |-> {}]
    /\ att' = [a \in Attempts |-> IF InProgress(a) THEN Ended(NoKey, NoAnswer) ELSE att[a]]
    /\ UNCHANGED <<upstreamVars, clock>>

GatewayNext ==
    \/ \E a \in Attempts, k \in Keys \cup {NoKey}, rq \in Requests : Begin(a, k, rq)
    \/ \E a \in Attempts : \/ Refuse(a) \/ RejectBody(a) \/ Replay(a) \/ Respond(a) \/ PipelineCallFails(a) \/ StreamCallFails(a)
                           \/ CreatePipeline(a) \/ StartDeploy(a) \/ SetDeploying(a)
                           \/ CreateStream(a) \/ DeleteStream(a)
    \/ Tick
    \/ GatewayRestarts

GatewaySpec == GatewayInit /\ [][GatewayNext]_gatewayVars

-----------------------------------------------------------------------------
(* The attempt as AnswerOnce sees it.                                      *)
Due(a) ==
    IF att[a].key # NoKey /\ InProgress(a)
      THEN [key |-> att[a].key, body |-> att[a].rq.body, only |-> att[a].only]
      ELSE [key |-> "none"]

Given(a) == IF att[a].st = "ended" THEN att[a].ans ELSE NoAnswer

Owed == [a \in Attempts |-> Due(a)]
Paid == [a \in Attempts |-> Given(a)]

Once == INSTANCE AnswerOnce WITH due <- Owed, given <- Paid

(* The gateway implements AnswerOnce: whatever attempts overlap, upstream  *)
(* calls fail, entries expire or are evicted, a client that retries after  *)
(* an answer gets that answer for that body and the handler does not run   *)
(* again, until the gateway forgets the key.                               *)
RetriesGetTheSameAnswer == Once!OnceSpec

=============================================================================
