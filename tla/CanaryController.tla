--------------------------- MODULE CanaryController ---------------------------
(***************************************************************************)
(* Progressive delivery: the decision function (pkg/canary/state.go), the  *)
(* reconciliation loop every replica of canary-controller runs             *)
(* (internal/loop/loop.go), the plan table (internal/store/store.go) and   *)
(* the operator's pause and resume (cmd/canary-controller/main.go).        *)
(*                                                                         *)
(* Statements of the store are single steps; between ListActive, the       *)
(* aggregates, ApplyDecision and the publish of one tick anything else may *)
(* happen.  What AssessRegression makes of the observation windows is the  *)
(* verdict Next() tells apart; time is the age of last_step_at.            *)
(***************************************************************************)
EXTENDS Integers, FiniteSets, Functions

CONSTANTS
  Plans,       \* canary plan ids
  Replicas,    \* canary-controller processes over one database
  LadderLen,   \* len(plan.Ladder)
  Hold,        \* Hold[k]: HoldSeconds of ladder step k, in units of the clock
  AutoPromote, \* plans with auto_promote
  MaxAge,      \* ages saturate here, above every hold
  ListLimit,   \* the LIMIT 500 of ListActive
  MaxOps,      \* bound on operator requests
  MaxFaults    \* bound on failed statements, failed publishes and crashes

ASSUME CanaryAssumption ==
  /\ LadderLen \in Nat \ {0}
  /\ Hold \in [0..LadderLen - 1 -> Nat]
  /\ AutoPromote \subseteq Plans
  /\ MaxAge \in Nat
  /\ ListLimit \in Nat \ {0}
  /\ \A k \in 0..LadderLen - 1 : Hold[k] <= MaxAge
  /\ MaxOps \in Nat
  /\ MaxFaults \in Nat

VARIABLES
  status,  \* canary_plans.status; "none" before the plan is created
  step,    \* canary_plans.current_step
  age,     \* now - canary_plans.last_step_at
  verdict, \* what AssessRegression says of the current observation window
  pc,      \* per replica: "idle", "tick", "apply" or "emit"
  todo,    \* per replica: the rows of ListActive not yet reconciled
  dec,     \* per replica: the decision being applied and announced
  events,  \* messages published on canary.*
  cleared, \* history: rungs [plan, step] a tick found held for their time,
           \* or that lie below the rung a plan was created on
  written, \* history: [plan, status, step] of the decisions applied by ticks
  ops,
  faults

table  == <<status, step, age>>
ticks  == <<pc, todo, dec>>
history == <<cleared, written>>
vars   == <<table, verdict, ticks, events, history, ops, faults>>

Statuses == {"none", "draft", "ramping", "holding", "promoted", "rolled_back", "paused"}
Verdicts == {"insufficient_samples", "regression", "non_inferior"}
Rows     == [status : Statuses, step : 0..LadderLen, age : 0..MaxAge]
NoRows   == [p \in {} |-> 0]

\* A decision with the plan and the status it was taken from.
Decisions == [plan : Plans, from : Statuses, status : Statuses,
              step : -1..LadderLen, gate : BOOLEAN]
NoDecision == [plan |-> "none"]
Events == [plan : Plans, subject : {"canary.transition.v1", "canary.rollback.v1",
           "canary.promote.v1"}, step : -1..LadderLen, gate : BOOLEAN]

-----------------------------------------------------------------------------
(* canary.Next                                                             *)

Terminal == {"promoted", "rolled_back", "failed", "paused"}

Decide(p, row, to, s, gated) ==
  [plan |-> p, from |-> row.status, status |-> to, step |-> s, gate |-> gated]

\* At the end of the ladder: promoted (to be gated) or held for the operator.
AtEnd(p, row, s) ==
  Decide(p, row, IF p \in AutoPromote THEN "promoted" ELSE "holding", s, p \in AutoPromote)

\* Mutant: the hold window is one unit short.
HeldAlmost(row) == row.age + 1 >= Hold[row.step]
HoldElapsed(row) == row.age >= Hold[row.step]

NextDecision(p, row, v) ==
  IF row.status \in Terminal       THEN Decide(p, row, row.status, -1, FALSE)
  ELSE IF row.step >= LadderLen    THEN AtEnd(p, row, row.step)
  ELSE IF v = "regression"         THEN Decide(p, row, "rolled_back", 0, FALSE)
  ELSE IF v = "insufficient_samples"
                                   THEN Decide(p, row, "holding", row.step, FALSE)
  ELSE IF ~HoldElapsed(row)        THEN Decide(p, row, "holding", row.step, FALSE)
  ELSE IF row.step + 1 < LadderLen THEN Decide(p, row, "ramping", row.step + 1, FALSE)
  ELSE AtEnd(p, row, row.step + 1)

-----------------------------------------------------------------------------
(* The store.                                                              *)

Rungs(p, steps) == {[plan |-> p, step |-> k] : k \in steps}

\* POST /v1/canary/plans: status, current_step and last_step_at are what the
\* body says (ramping, 0 and now when it leaves them out).
NewRows == [status : Statuses \ {"none"}, step : 0..LadderLen - 1, age : 0..MaxAge]

CreatePlan(p, row) ==
  /\ status[p] = "none"
  /\ status' = [status EXCEPT ![p] = row.status]
  /\ step' = [step EXCEPT ![p] = row.step]
  /\ age' = [age EXCEPT ![p] = row.age]
  /\ cleared' = cleared \cup Rungs(p, 0..row.step - 1)
  /\ UNCHANGED <<verdict, ticks, events, written, ops, faults>>

\* Mutant: holding is taken for a resting state.
ActiveButHolding == {p \in Plans : status[p] \in {"draft", "ramping", "paused"}}

\* ListActive: what is not terminal, as many rows as the LIMIT lets through.
Active == {p \in Plans : status[p] \in {"draft", "ramping", "holding", "paused"}}
Listings == {ps \in SUBSET Active :
               IF Cardinality(Active) <= ListLimit THEN ps = Active
               ELSE Cardinality(ps) = ListLimit}

\* ApplyDecision: one UPDATE by id; NewStep < 0 leaves step and last_step_at.
ApplyDecision(p, to, s) ==
  /\ status' = [status EXCEPT ![p] = to]
  /\ step' = [step EXCEPT ![p] = IF s < 0 THEN @ ELSE s]
  /\ age' = [age EXCEPT ![p] = IF s < 0 THEN @ ELSE 0]

\* IngestObservation, and windows leaving the lookback, change the verdict.
Observe(p, v) ==
  /\ status[p] # "none"
  /\ verdict[p] # v
  /\ verdict' = [verdict EXCEPT ![p] = v]
  /\ UNCHANGED <<table, ticks, events, history, ops, faults>>

-----------------------------------------------------------------------------
(* One tick of a replica: Reconciler.Tick, tickOne, emitTransition.        *)

\* ListActive, less the drafts and the paused plans.
TickList(r) ==
  /\ pc[r] = "idle"
  /\ \E listed \in Listings :
       LET ps   == {p \in listed : status[p] \notin {"draft", "paused"}}
           held == {p \in ps : step[p] < LadderLen /\ age[p] >= Hold[step[p]]}
       IN
       /\ ps # {}
       /\ todo' = [todo EXCEPT ![r] =
            [p \in ps |-> [status |-> status[p], step |-> step[p], age |-> age[p]]]]
       /\ cleared' = cleared \cup UNION {Rungs(p, {step[p]}) : p \in held}
  /\ pc' = [pc EXCEPT ![r] = "tick"]
  /\ UNCHANGED <<table, verdict, dec, events, written, ops, faults>>

\* Mutant: the snapshot is gone through again.
Relisted(r, p) == UNCHANGED todo
Unlisted(r, p) == todo' = [todo EXCEPT ![r] = Restrict(@, DOMAIN @ \ {p})]

\* Mutant: every decision is written back.
AlwaysChanges(row, d) == TRUE
Changes(row, d) == d.status # row.status \/ d.step # row.step

\* The aggregates are read and the decision taken on the row read before.
\* A ladder that is climbed to its end is not looked at again.
TickAssess(r, p) ==
  LET row == todo[r][p]
      d   == NextDecision(p, row, verdict[p])
  IN
  /\ pc[r] = "tick"
  /\ p \in DOMAIN todo[r]
  /\ Unlisted(r, p)
  /\ IF row.step < LadderLen /\ Changes(row, d)
     THEN /\ pc' = [pc EXCEPT ![r] = "apply"]
          /\ dec' = [dec EXCEPT ![r] = d]
     ELSE UNCHANGED <<pc, dec>>
  /\ UNCHANGED <<table, verdict, events, history, ops, faults>>

\* AggregateSince fails: logged, on to the next plan.
TickAssessFails(r, p) ==
  /\ pc[r] = "tick"
  /\ p \in DOMAIN todo[r]
  /\ faults < MaxFaults
  /\ Unlisted(r, p)
  /\ faults' = faults + 1
  /\ UNCHANGED <<table, verdict, pc, dec, events, history, ops>>

\* Mutant: the announcement overtakes the UPDATE.
ApplyAfterEmit(r) ==
  /\ pc[r] = "apply"
  /\ pc' = [pc EXCEPT ![r] = "emit"]
  /\ UNCHANGED <<table, verdict, todo, dec, events, history, ops, faults>>

TickApply(r) ==
  /\ pc[r] = "apply"
  /\ ApplyDecision(dec[r].plan, dec[r].status, dec[r].step)
  /\ written' = written \cup {[plan |-> dec[r].plan, status |-> dec[r].status,
                               step |-> dec[r].step]}
  /\ pc' = [pc EXCEPT ![r] = "emit"]
  /\ UNCHANGED <<verdict, todo, dec, events, cleared, ops, faults>>

Continue(r) ==
  /\ pc' = [pc EXCEPT ![r] = "tick"]
  /\ dec' = [dec EXCEPT ![r] = NoDecision]

\* The UPDATE fails: nothing is announced.
TickApplyFails(r) ==
  /\ pc[r] = "apply"
  /\ faults < MaxFaults
  /\ Continue(r)
  /\ faults' = faults + 1
  /\ UNCHANGED <<table, verdict, todo, events, history, ops>>

Subject(s) == CASE s = "rolled_back" -> "canary.rollback.v1"
                [] s = "promoted"    -> "canary.promote.v1"
                [] OTHER             -> "canary.transition.v1"

TickEmit(r) ==
  /\ pc[r] = "emit"
  /\ events' = events \cup {[plan |-> dec[r].plan, subject |-> Subject(dec[r].status),
                             step |-> dec[r].step, gate |-> dec[r].gate]}
  /\ Continue(r)
  /\ UNCHANGED <<table, verdict, todo, history, ops, faults>>

\* Publish's error is dropped.
TickEmitFails(r) ==
  /\ pc[r] = "emit"
  /\ faults < MaxFaults
  /\ Continue(r)
  /\ faults' = faults + 1
  /\ UNCHANGED <<table, verdict, todo, events, history, ops>>

TickDone(r) ==
  /\ pc[r] = "tick"
  /\ DOMAIN todo[r] = {}
  /\ pc' = [pc EXCEPT ![r] = "idle"]
  /\ UNCHANGED <<table, verdict, todo, dec, events, history, ops, faults>>

\* The process dies and is restarted: the tick in flight is gone.
Restart(r) ==
  /\ pc[r] # "idle"
  /\ faults < MaxFaults
  /\ pc' = [pc EXCEPT ![r] = "idle"]
  /\ todo' = [todo EXCEPT ![r] = NoRows]
  /\ dec' = [dec EXCEPT ![r] = NoDecision]
  /\ faults' = faults + 1
  /\ UNCHANGED <<table, verdict, events, history, ops>>

-----------------------------------------------------------------------------
(* The operator and the clock.                                             *)

Resume(p) ==
  /\ status[p] # "none"
  /\ ops < MaxOps
  /\ ApplyDecision(p, "ramping", -1)
  /\ ops' = ops + 1
  /\ UNCHANGED <<verdict, ticks, events, history, faults>>

Pause(p) ==
  /\ status[p] # "none"
  /\ ops < MaxOps
  /\ ApplyDecision(p, "paused", -1)
  /\ ops' = ops + 1
  /\ UNCHANGED <<verdict, ticks, events, history, faults>>

Elapse ==
  /\ \E p \in Plans : status[p] # "none" /\ age[p] < MaxAge
  /\ age' = [p \in Plans |-> IF status[p] # "none" /\ age[p] < MaxAge
                             THEN age[p] + 1 ELSE age[p]]
  /\ UNCHANGED <<status, step, verdict, ticks, events, history, ops, faults>>

-----------------------------------------------------------------------------
Init ==
  /\ status = [p \in Plans |-> "none"]
  /\ step = [p \in Plans |-> 0]
  /\ age = [p \in Plans |-> 0]
  /\ verdict = [p \in Plans |-> "insufficient_samples"]
  /\ pc = [r \in Replicas |-> "idle"]
  /\ todo = [r \in Replicas |-> NoRows]
  /\ dec = [r \in Replicas |-> NoDecision]
  /\ events = {}
  /\ cleared = {}
  /\ written = {}
  /\ ops = 0
  /\ faults = 0

TickStep(r) ==
  \/ TickList(r)
  \/ \E p \in Plans : TickAssess(r, p)
  \/ TickApply(r)
  \/ TickEmit(r)
  \/ TickDone(r)

Operator(p) == Pause(p) \/ Resume(p)

Next ==
  \/ \E p \in Plans, row \in NewRows : CreatePlan(p, row)
  \/ \E p \in Plans, v \in Verdicts : Observe(p, v)
  \/ \E r \in Replicas : TickStep(r)
  \/ \E r \in Replicas, p \in Plans : TickAssessFails(r, p)
  \/ \E r \in Replicas : TickApplyFails(r)
  \/ \E r \in Replicas : TickEmitFails(r)
  \/ \E r \in Replicas : Restart(r)
  \/ \E p \in Plans : Operator(p)
  \/ Elapse

Spec == Init /\ [][Next]_vars

\* runTicker fires every 15 s in every replica and the clock goes on.
FairSpec ==
  /\ Spec
  /\ WF_vars(Elapse)
  /\ \A r \in Replicas : WF_vars(TickStep(r))

-----------------------------------------------------------------------------
(* Properties.                                                             *)

\* A plan climbs one rung at a time and only after the rung it leaves was held
\* for its HoldSeconds, whatever the operator and failing statements do between
\* the read of the row and the write of the decision (one replica).
AdvancesAfterHold ==
  [][\A p \in Plans : status[p] # "none" /\ step'[p] > step[p] =>
       /\ step'[p] = step[p] + 1
       /\ age[p] >= Hold[step[p]]]_vars

\* A plan leaves rolled_back or promoted only by an operator's request.  One
\* replica keeps it; loop.go:24 "safe for concurrent ticks" says any number does.
TerminalUntilOperator ==
  [][\A p \in Plans : status[p] \in {"promoted", "rolled_back"} /\ status'[p] # status[p]
       => ops' = ops + 1]_vars

\* Every announcement of a rollback or a promotion is of a decision that is in
\* the table: consumers are never told of a routing change that was not made.
\* (One replica and no operator: nobody else writes the row.)
Announced(p, s) == \E e \in events : e.plan = p /\ e.subject = Subject(s)

AnnouncedIsCommitted ==
  ops = 0 => \A p \in Plans, s \in {"promoted", "rolled_back"} :
               Announced(p, s) => status[p] = s

\* With any number of replicas over one table, no compare in the UPDATE and an
\* operator in between: the candidate of a plan gets a rung's traffic only if
\* each rung below it was found held for its HoldSeconds by some tick (or was
\* skipped by the request that created the plan), however stale the row the
\* decision was taken from.
RungsWereCleared ==
  \A p \in Plans : Rungs(p, 0..step[p] - 1) \subseteq cleared

\* With any number of replicas: what is announced on canary.* was written to the
\* table by the tick that announces it, whatever overwrote it since.
AnnouncementsWereWritten ==
  \A e \in events : \E w \in written :
    w.plan = e.plan /\ Subject(w.status) = e.subject /\ w.step = e.step

\* With any number of replicas: once the ticks that had listed a plan before it
\* came to rest (promoted, rolled back, paused, draft) are through with it, no
\* tick touches it again; only an operator's request moves it.  Until then a
\* stale decision may (canary_concurrent).
AtRest == {"promoted", "rolled_back", "paused", "draft"}
InFlight(p) ==
  \E r \in Replicas : p \in DOMAIN todo[r] \/ (pc[r] = "apply" /\ dec[r].plan = p)
Settled(p) == status[p] \in AtRest /\ ~InFlight(p)

SettledIsFinal ==
  [][\A p \in Plans : Settled(p) =>
       \/ Settled(p)' /\ status'[p] = status[p] /\ step'[p] = step[p]
       \/ ops' = ops + 1]_vars

\* An auto_promote plan whose candidate stays healthy is promoted, however its
\* first rungs went: the resets of last_step_at on ramping -> holding do not
\* keep it from advancing.
HealthyIsPromoted ==
  \A p \in AutoPromote :
    <>[](status[p] \notin {"none", "draft"} /\ verdict[p] = "non_inferior")
      => <>(status[p] \in {"promoted", "rolled_back", "paused"})

\* While on the ladder, a candidate that keeps regressing is rolled back.
RegressionRollsBack ==
  \A p \in Plans :
    ~ <>[](/\ status[p] \in {"ramping", "holding"}
           /\ step[p] < LadderLen
           /\ verdict[p] = "regression")
=============================================================================
