---------------------------- MODULE ShadowEngine ----------------------------
(***************************************************************************)
(* shadow-inference-service: frames and the primary model's results arrive *)
(* on two subjects in any order and repeatedly; a frame whose baseline is  *)
(* known is given to the candidate model of every plan that selects it, in *)
(* a goroutine that records the comparison in the windows of the moment it *)
(* ends.  A ticker drains the windows that are over and sends them to      *)
(* canary-controller; GET /v1/shadow/observations:peek drains all of them. *)
(*                                                                         *)
(* Time is counted in parts of a window.  What a model predicts is a       *)
(* choice; of the latencies the candidate's maximum is kept.               *)
(***************************************************************************)
EXTENDS Integers, FiniteSets, FiniteSetsExt, Functions

CONSTANTS Urns,           \* frame URNs
          Plans,          \* assignments: [id, tenant, percent]
          FrameOf,        \* the tenant of each URN and the hash of its stream, 0..99
          AnyTenant,      \* Active.TenantID == ""
          Tasks,          \* goroutines of invokeAndRecord
          WindowDur, MaxPending, MaxTime

ASSUME ShadowAssumption ==
    /\ \A f \in Urns : FrameOf[f].hash \in 0..99
    /\ \A p \in Plans : p.percent \in Int
    /\ "free" \notin Tasks
    /\ WindowDur \in Nat \ {0} /\ MaxPending \in Nat /\ MaxTime \in Nat

VARIABLES active,    \* Engine.active
          pending,   \* Engine.pending: the baseline of each frame
          windows,   \* Engine.windows
          task,      \* the goroutines
          mu,        \* who holds Engine.mu over more than one step
          flush,     \* the time the flusher has read, or NoTime
          now,
          sent,      \* how often each window went to canary-controller
          drained,   \* comparisons drained, by plan and variant
          compared   \* comparisons made, by plan

shadowVars == <<active, pending, windows, task, mu, flush, now, sent, drained, compared>>

Free == "free"
NoTime == -1
Variants == {"baseline", "candidate"}
NoTask == [st |-> "none"]
Entered(f, k, x) == [j \in DOMAIN f \cup {k} |-> IF j = k THEN x ELSE f[j]]

ShadowInit ==
    /\ active = {}
    /\ pending = [f \in {} |-> TRUE]
    /\ windows = [k \in {} |-> 0]
    /\ task = [t \in Tasks |-> NoTask]
    /\ mu = Free
    /\ flush = NoTime
    /\ now = 0
    /\ sent = [k \in {} |-> 0]
    /\ drained = [p \in Plans |-> [v \in Variants |-> 0]]
    /\ compared = [p \in Plans |-> 0]

-----------------------------------------------------------------------------
SetActive(plans) ==
    /\ mu = Free
    /\ active' = plans
    /\ UNCHANGED <<pending, windows, task, mu, flush, now, sent, drained, compared>>

(* The latest result of a frame replaces the one before.                   *)
OnBaseline(f, predicted) ==
    /\ mu = Free
    /\ pending' = Entered(pending, f, predicted)
    /\ UNCHANGED <<active, windows, task, mu, flush, now, sent, drained, compared>>

(* pkg/canary: the stream's share of the traffic.                          *)
Variant(hash, percent) ==
    IF percent <= 0 THEN "baseline"
    ELSE IF percent >= 100 \/ hash < percent THEN "candidate" ELSE "baseline"

Selected(p, f) ==
    /\ p.tenant \in {AnyTenant, FrameOf[f].tenant}
    /\ Variant(FrameOf[f].hash, p.percent) = "candidate"

(* A frame without a baseline is dropped; a repeated one counts again.     *)
OnFrame(f) ==
    /\ mu = Free /\ f \in DOMAIN pending
    /\ LET chosen == {p \in active : Selected(p, f)}
       IN \E g \in [chosen -> {t \in Tasks : task[t] = NoTask}] :
              /\ chosen # {} /\ \A p, q \in chosen : g[p] = g[q] => p = q
              /\ task' = [t \in Tasks |->
                     IF \E p \in chosen : g[p] = t
                     THEN [st |-> "invoking", plan |-> CHOOSE p \in chosen : g[p] = t,
                           baseline |-> pending[f], start |-> now]
                     ELSE task[t]]
    /\ UNCHANGED <<active, pending, windows, mu, flush, now, sent, drained, compared>>

(* Mutant: the window of the invocation's start. *)
BucketAtStart(t, v) == [plan |-> task[t].plan, variant |-> v, start |-> (task[t].start \div WindowDur) * WindowDur]

(* bucket: the window of this moment.                                      *)
Bucket(t, v) == [plan |-> task[t].plan, variant |-> v, start |-> (now \div WindowDur) * WindowDur]

NewWindow == [ok |-> 0, bad |-> 0, slowest |-> 0]
Window(k) == IF k \in DOMAIN windows THEN windows[k] ELSE NewWindow
Counted(w, ok, ms) == [ok |-> w.ok + IF ok THEN 1 ELSE 0, bad |-> w.bad + IF ok THEN 0 ELSE 1,
                       slowest |-> IF ms > w.slowest THEN ms ELSE w.slowest]

(* The candidate has answered or failed: the lock is taken and the         *)
(* baseline's bucket found.                                                *)
RecordBaseline(t) ==
    /\ mu = Free /\ task[t].st = "invoking"
    /\ mu' = t
    /\ LET k == Bucket(t, "baseline")
       IN windows' = Entered(windows, k, Counted(Window(k), task[t].baseline, 0))
    /\ task' = [task EXCEPT ![t] = [st |-> "recording", plan |-> @.plan, start |-> @.start, lat |-> now - @.start]]
    /\ UNCHANGED <<active, pending, flush, now, sent, drained, compared>>

(* What invoking the candidate comes to: inference-router's first          *)
(* detection is the baseline's class or another (or there is none), or the *)
(* call fails.                                                             *)
Invocations == {"agrees", "disagrees", "fails"}

(* Then the candidate's, after another look at the clock: it succeeds when *)
(* it agrees with the baseline; a failed call has no latency.              *)
RecordCandidate(t, cand) ==
    /\ mu = t
    /\ LET k == Bucket(t, "candidate")
       IN windows' = Entered(windows, k, Counted(Window(k), cand = "agrees", IF cand = "fails" THEN 0 ELSE task[t].lat))
    /\ compared' = [compared EXCEPT ![task[t].plan] = @ + 1]
    /\ task' = [task EXCEPT ![t] = [st |-> "done"]]
    /\ mu' = Free
    /\ UNCHANGED <<active, pending, flush, now, sent, drained>>

Over(k, time) == k.start + WindowDur <= time
Total(w) == w.ok + w.bad
TotalOf(ks, p, v) == SumFunctionOnSet([k \in ks |-> Total(windows[k])], {k \in ks : k.plan = p /\ k.variant = v})

(* Half of too many pending baselines go, whichever the map yields: the    *)
(* loop's bound shrinks as it deletes.                                     *)
Prune ==
    LET n == Cardinality(DOMAIN pending)
        gone == Min({j \in 1..n : j > (n - j) \div 2})
    IN IF n <= MaxPending THEN pending' = pending
       ELSE \E ks \in kSubset(gone, DOMAIN pending) : pending' = [f \in DOMAIN pending \ ks |-> pending[f]]

Drain(time) ==
    /\ mu = Free
    /\ LET over == {k \in DOMAIN windows : Over(k, time)}
       IN /\ windows' = [k \in DOMAIN windows \ over |-> windows[k]]
          /\ drained' = [p \in Plans |-> [v \in Variants |-> drained[p][v] + TotalOf(over, p, v)]]
    /\ Prune

(* The flusher reads the clock before Drain takes the lock.                *)
FlushTick ==
    /\ flush = NoTime
    /\ flush' = now
    /\ UNCHANGED <<active, pending, windows, task, mu, now, sent, drained, compared>>

(* The post to canary-controller is not retried; its error is dropped.     *)
Flush ==
    /\ flush # NoTime
    /\ Drain(flush)
    /\ LET over == {k \in DOMAIN windows : Over(k, flush)}
       IN sent' = [k \in DOMAIN sent \cup over |->
                      (IF k \in DOMAIN sent THEN sent[k] ELSE 0) + (IF k \in over THEN 1 ELSE 0)]
    /\ flush' = NoTime
    /\ UNCHANGED <<active, task, mu, now, compared>>

(* An hour ahead of time: every window, the open ones too.                 *)
Peek ==
    /\ DOMAIN windows # {}
    /\ Drain(now + WindowDur)
    /\ UNCHANGED <<active, task, mu, flush, now, sent, compared>>

ShadowTick ==
    /\ now < MaxTime
    /\ now' = now + 1
    /\ UNCHANGED <<active, pending, windows, task, mu, flush, sent, drained, compared>>

ShadowNext ==
    \/ \E plans \in SUBSET Plans : SetActive(plans)
    \/ \E f \in Urns : OnFrame(f) \/ \E predicted \in BOOLEAN : OnBaseline(f, predicted)
    \/ \E t \in Tasks : \/ RecordBaseline(t)
                        \/ \E cand \in Invocations : RecordCandidate(t, cand)
    \/ FlushTick \/ Flush \/ Peek
    \/ ShadowTick

ShadowSpec == ShadowInit /\ [][ShadowNext]_shadowVars

-----------------------------------------------------------------------------
(* canary-controller is told of a window once, although a comparison may   *)
(* end long after its frame, or wait for the lock while the flusher drains *)
(* with a clock read earlier; and what was drained and what is open adds   *)
(* up to the comparisons made, for the baseline as for the candidate, also *)
(* when a comparison straddles the boundary of two windows.                *)
ObservationsAddUp ==
    /\ \A k \in DOMAIN sent : sent[k] <= 1
    /\ mu = Free => \A p \in Plans, v \in Variants :
           drained[p][v] + TotalOf(DOMAIN windows, p, v) = compared[p]

=============================================================================
