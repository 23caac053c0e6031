----------------------------- MODULE UsagePath -----------------------------
(***************************************************************************)
(* What a tenant is billed for: inference-router answers a request (with   *)
(* retries against Triton) and publishes its completion, metering-service  *)
(* buffers the counts of the billable subjects and flushes them into daily *)
(* rows from three places at once.                                         *)
(*                                                                         *)
(* A day is data: rows are summed over days.  inference.baseline.v1 goes   *)
(* to shadow-inference and is not billed.                                  *)
(***************************************************************************)
EXTENDS Integers, FiniteSets, Functions

CONSTANTS Calls,        \* requests to the router, completions of the LLM gateway
          Payers, NoPayer,
          Tokens,       \* values of total_tokens
          MaxRetries,   \* detector.Options.MaxRetries
          MaxBuffered,  \* Consumer.MaxBuffered
          MaxFaults     \* faults of the environment (bound)

ASSUME UsageAssumption ==
    /\ MaxRetries \in Nat /\ MaxBuffered \in Nat /\ MaxFaults \in Nat
    /\ Tokens \subseteq Int /\ NoPayer \notin Payers /\ IsFiniteSet(Calls)

VARIABLES call,    \* the requests and completions
          wire,    \* messages the bus holds
          buf,     \* Consumer.buf
          flush,   \* the running flushes
          meters,  \* table meters, summed over days
          lost,    \* counts that left the path without being billed
          twice,   \* counts written although Increment reported an error
          faults

usageVars == <<call, wire, buf, flush, meters, lost, twice, faults>>

(* The two kinds of entry of the billable catalogue: count 1 per message,  *)
(* or the number in TokenField.                                            *)
Subjects == {"inference.completed.v1", "llm.completed.v1"}
Keys     == Payers \X Subjects

(* One flusher goroutine, and one delivery goroutine per subscription that *)
(* flushes when the buffer overflows.                                      *)
Flushers == {"ticker"} \cup Subjects

Nothing == [k \in Keys |-> 0]
Resting == [st |-> "idle", drain |-> Nothing]

Held(f) == {k \in Keys : f[k] # 0}
Plus(f, g) == [k \in Keys |-> f[k] + g[k]]
Add(f, k, n) == [f EXCEPT ![k] = @ + n]

(* Counts of a key that flushes have swapped out and not written yet.      *)
Draining(k) == SumFunction([f \in Flushers |-> flush[f].drain[k]])

UsageInit ==
    /\ call = [c \in Calls |-> [st |-> "idle", tries |-> 0, tenant |-> NoPayer]]
    /\ wire = {}
    /\ buf = Nothing /\ meters = Nothing /\ lost = Nothing /\ twice = Nothing
    /\ flush = [f \in Flushers |-> Resting]
    /\ faults = 0

-----------------------------------------------------------------------------
(* inference-router.                                                       *)

Message(c, t, subject, n) == [id |-> c, tenant |-> t, subject |-> subject, n |-> n]

Consuming == <<buf, flush, meters, lost, twice>>

(* POST /v1/infer; the tenant of the identity overrides the body's.  An    *)
(* invalid request changes nothing.                                        *)
Infer(c, t) ==
    /\ call[c].st = "idle"
    /\ call' = [call EXCEPT ![c] = [st |-> "trying", tries |-> 1, tenant |-> t]]
    /\ UNCHANGED <<wire, faults, Consuming>>

(* A 5xx or a transient network error, with attempts left.                 *)
Retry(c) ==
    /\ call[c].st = "trying" /\ call[c].tries <= MaxRetries
    /\ call' = [call EXCEPT ![c].tries = @ + 1]
    /\ UNCHANGED <<wire, faults, Consuming>>

(* A 4xx, an undecodable answer, no attempts left, or the caller gave up.  *)
InferFails(c) ==
    /\ call[c].st = "trying"
    /\ call' = [call EXCEPT ![c].st = "failed"]
    /\ UNCHANGED <<wire, faults, Consuming>>

(* Detect succeeded: emit publishes one completion.                        *)
Completed(c) ==
    /\ call[c].st = "trying"
    /\ call' = [call EXCEPT ![c].st = "sent"]
    /\ wire' = wire \cup {Message(c, call[c].tenant, "inference.completed.v1", 1)}
    /\ UNCHANGED <<faults, Consuming>>

(* Another producer of the catalogue: a completion of the LLM gateway.     *)
LlmCompleted(c, t, n) ==
    /\ call[c].st = "idle"
    /\ call' = [call EXCEPT ![c] = [st |-> "sent", tries |-> 0, tenant |-> t]]
    /\ wire' = wire \cup {Message(c, t, "llm.completed.v1", n)}
    /\ UNCHANGED <<faults, Consuming>>

-----------------------------------------------------------------------------
(* metering-service.                                                       *)

Billable(msg) == msg.tenant # NoPayer /\ msg.n > 0
KeyOf(msg) == <<msg.tenant, msg.subject>>

(* Consumer.handle and bump: more keys than MaxBuffered make the delivery  *)
(* goroutine flush.                                                        *)
Handle(msg) ==
    /\ msg \in wire /\ flush[msg.subject].st = "idle"
    /\ wire' = wire \ {msg}
    /\ IF Billable(msg)
         THEN /\ buf' = Add(buf, KeyOf(msg), msg.n)
              /\ flush' = IF Cardinality(Held(buf')) > MaxBuffered
                            THEN [flush EXCEPT ![msg.subject].st = "asked"] ELSE flush
         ELSE UNCHANGED <<buf, flush>>
    /\ UNCHANGED <<call, meters, lost, twice, faults>>

(* Mutant: the ticker leaves a buffer that has not overflowed alone. *)
SwapWhenFull(f) ==
    /\ \/ f = "ticker" /\ flush[f].st = "idle" /\ Cardinality(Held(buf)) > MaxBuffered
       \/ flush[f].st = "asked"
    /\ flush' = [flush EXCEPT ![f] = IF Held(buf) = {} THEN Resting ELSE [st |-> "writing", drain |-> buf]]
    /\ buf' = Nothing
    /\ UNCHANGED <<call, wire, meters, lost, twice, faults>>

(* Mutant: the buffer is emptied after the write. *)
SwapKeepsBuffer(f) ==
    /\ \/ f = "ticker" /\ flush[f].st = "idle" /\ Held(buf) # {}
       \/ flush[f].st = "asked"
    /\ flush' = [flush EXCEPT ![f] = IF Held(buf) = {} THEN Resting ELSE [st |-> "writing", drain |-> buf]]
    /\ UNCHANGED <<call, wire, buf, meters, lost, twice, faults>>

(* The first half of flush: swap the buffer for an empty one.              *)
SwapOut(f) ==
    /\ \/ f = "ticker" /\ flush[f].st = "idle" /\ Held(buf) # {}
       \/ flush[f].st = "asked"
    /\ flush' = [flush EXCEPT ![f] = IF Held(buf) = {} THEN Resting ELSE [st |-> "writing", drain |-> buf]]
    /\ buf' = Nothing
    /\ UNCHANGED <<call, wire, meters, lost, twice, faults>>

(* The second half, over the swapped-out map in any order: the additive    *)
(* upsert of Store.Increment.                                              *)
Increment(f, k) ==
    /\ flush[f].st = "writing" /\ k \in Held(flush[f].drain)
    /\ meters' = Add(meters, k, flush[f].drain[k])
    /\ flush' = [flush EXCEPT ![f] = IF Held(@.drain) = {k} THEN Resting ELSE [@ EXCEPT !.drain[k] = 0]]
    /\ UNCHANGED <<call, wire, buf, lost, twice, faults>>

(* Increment reports an error, before or after the row changed: this key   *)
(* goes back, the keys of the map not reached yet are dropped.             *)
IncrementFails(f, k, written) ==
    /\ flush[f].st = "writing" /\ k \in Held(flush[f].drain)
    /\ faults < MaxFaults
    /\ LET n == flush[f].drain[k] IN
         /\ buf' = Add(buf, k, n)
         /\ meters' = IF written THEN Add(meters, k, n) ELSE meters
         /\ twice' = IF written THEN Add(twice, k, n) ELSE twice
         /\ lost' = Plus(lost, [flush[f].drain EXCEPT ![k] = 0])
    /\ flush' = [flush EXCEPT ![f] = Resting]
    /\ faults' = faults + 1
    /\ UNCHANGED <<call, wire>>

(* The process ends: a crash, or a SIGTERM, after which run() closes the   *)
(* database before Consumer.Close flushes.  It restarts and subscribes.    *)
MeteringStops ==
    /\ faults < MaxFaults
    /\ lost' = Plus(lost, Plus(buf, [k \in Keys |-> Draining(k)]))
    /\ buf' = Nothing
    /\ flush' = [f \in Flushers |-> Resting]
    /\ faults' = faults + 1
    /\ UNCHANGED <<call, wire, meters, twice>>

(* Core NATS keeps no copy: a message with no subscriber up is gone.       *)
BusLoses(msg) ==
    /\ msg \in wire /\ faults < MaxFaults
    /\ wire' = wire \ {msg}
    /\ lost' = IF Billable(msg) THEN Add(lost, KeyOf(msg), msg.n) ELSE lost
    /\ faults' = faults + 1
    /\ UNCHANGED <<call, buf, flush, meters, twice>>

UsageNext ==
    \/ \E c \in Calls : Retry(c) \/ InferFails(c) \/ Completed(c)
    \/ \E c \in Calls, t \in Payers \cup {NoPayer} : Infer(c, t) \/ \E n \in Tokens : LlmCompleted(c, t, n)
    \/ \E msg \in wire : Handle(msg) \/ BusLoses(msg)
    \/ \E f \in Flushers : SwapOut(f) \/ \E k \in Keys : Increment(f, k)
    \/ \E f \in Flushers, k \in Keys, written \in BOOLEAN : IncrementFails(f, k, written)
    \/ MeteringStops

UsageSpec == UsageInit /\ [][UsageNext]_usageVars

-----------------------------------------------------------------------------
(* What a message is worth to a key, and the counts of a key that are on   *)
(* their way from the router to the row.                                   *)
Share(msg, k) == IF Billable(msg) /\ KeyOf(msg) = k THEN msg.n ELSE 0
OnWire(k)     == SumFunction([msg \in wire |-> Share(msg, k)])
OnTheWay(k)   == OnWire(k) + buf[k] + Draining(k)

Inferences(t) == Cardinality({c \in Calls : call[c].st = "sent" /\ call[c].tenant = t /\ call[c].tries > 0})

(* Every answered inference is counted exactly once between emit and the   *)
(* meters table, however often it was retried and however the ticker's,    *)
(* the overflow's and a failing flush interleave; what leaves the path is  *)
(* exactly what a failed Increment, the bus or a stop dropped, and what is *)
(* billed twice exactly what a failed Increment had already written.       *)
UsageConserved ==
    \A t \in Payers :
        LET k == <<t, "inference.completed.v1">> IN
            Inferences(t) + twice[k] = meters[k] + OnTheWay(k) + lost[k]

(* Without a fault, everything a tenant is charged for reaches its row.    *)
EventuallyBilled ==
    \A t \in Payers : []<>(faults > 0 \/ meters[<<t, "inference.completed.v1">>] >= Inferences(t))

=============================================================================
