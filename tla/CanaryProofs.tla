---------------------------- MODULE CanaryProofs ----------------------------
(***************************************************************************)
(* CanaryController, for any plans, ladders, holds and any number of       *)
(* replicas over one table.  Nothing is locked between ListActive and      *)
(* ApplyDecision and the UPDATE compares nothing, so a row a tick holds    *)
(* may be older than what the table says.  The proofs rest on what stays   *)
(* true of an old row: the rungs below it were cleared when it was read,   *)
(* and cleared and written only grow.                                      *)
(***************************************************************************)
EXTENDS CanaryController, TLAPS

CanaryTypeOK ==
  /\ status \in [Plans -> Statuses]
  /\ step \in [Plans -> 0..LadderLen]
  /\ age \in [Plans -> Nat]
  /\ pc \in [Replicas -> {"idle", "tick", "apply", "emit"}]
  /\ DOMAIN todo = Replicas
  /\ DOMAIN dec = Replicas
  /\ ops \in Nat

\* Every rung of p below the k-th was cleared.
Below(p, k) == \A j \in 0..k - 1 : [plan |-> p, step |-> j] \in cleared

\* A listed row, however old: the plan was on the ladder, with the rungs below
\* its own cleared, and its own too if it had been held.
RowIsCleared(r, p) ==
  /\ p \in Plans
  /\ todo[r][p].status \in {"ramping", "holding"}
  /\ todo[r][p].step \in 0..LadderLen
  /\ todo[r][p].age \in Nat
  /\ Below(p, todo[r][p].step)
  /\ todo[r][p].step < LadderLen /\ todo[r][p].age >= Hold[todo[r][p].step]
       => Below(p, todo[r][p].step + 1)

\* A decision may be written, however late; one that is announced was.
DecisionIsCleared(r) ==
  pc[r] \in {"apply", "emit"} =>
    /\ dec[r].plan \in Plans
    /\ dec[r].status \in Statuses
    /\ dec[r].step \in 0..LadderLen
    /\ Below(dec[r].plan, dec[r].step)
    /\ pc[r] = "emit" => [plan |-> dec[r].plan, status |-> dec[r].status,
                          step |-> dec[r].step] \in written

CanaryInv ==
  /\ CanaryTypeOK
  /\ \A p \in Plans : Below(p, step[p])
  /\ \A r \in Replicas : \A p \in DOMAIN todo[r] : RowIsCleared(r, p)
  /\ \A r \in Replicas : DecisionIsCleared(r)
  /\ AnnouncementsWereWritten

-----------------------------------------------------------------------------
\* canary.Next on a plan that is on its ladder.
LEMMA NextDecides ==
  ASSUME NEW p, NEW row, NEW v,
         row.status \in {"ramping", "holding"}, row.step \in 0..LadderLen, row.step < LadderLen,
         row.age \in Nat
  PROVE  LET d == NextDecision(p, row, v) IN
         /\ d.plan = p
         /\ d.status \in Statuses \ {"none"}
         /\ d.step \in 0..LadderLen
         /\ d.step > row.step => d.step = row.step + 1 /\ row.age >= Hold[row.step]
<1>1. LadderLen \in Nat /\ row.step \in Nat /\ row.status \notin Terminal /\ ~(row.step >= LadderLen)
  BY CanaryAssumption DEF Terminal
<1>2. \A to, s, g : /\ Decide(p, row, to, s, g).plan = p
                    /\ Decide(p, row, to, s, g).status = to
                    /\ Decide(p, row, to, s, g).step = s
  BY DEF Decide
<1>3. /\ AtEnd(p, row, row.step + 1).plan = p
      /\ AtEnd(p, row, row.step + 1).status \in {"promoted", "holding"}
      /\ AtEnd(p, row, row.step + 1).step = row.step + 1
  BY <1>2 DEF AtEnd
<1>4. {"promoted", "holding", "rolled_back", "ramping"} \subseteq Statuses \ {"none"}
  BY DEF Statuses
<1>5. CASE v = "regression"
  <2>1. NextDecision(p, row, v) = Decide(p, row, "rolled_back", 0, FALSE)
    BY <1>1, <1>5, Zenon DEF NextDecision
  <2>2. 0 \in 0..LadderLen /\ ~(0 > row.step)
    BY <1>1
  <2>3. QED
    BY <1>4, <2>1, <2>2 DEF Decide
<1>6. CASE v # "regression" /\ (v = "insufficient_samples" \/ ~HoldElapsed(row))
  <2>1. NextDecision(p, row, v) = Decide(p, row, "holding", row.step, FALSE)
    BY <1>1, <1>6, Zenon DEF NextDecision
  <2>2. ~(row.step > row.step)
    BY <1>1
  <2>3. QED
    BY <1>4, <2>1, <2>2 DEF Decide
<1>7. CASE v # "regression" /\ v # "insufficient_samples" /\ HoldElapsed(row)
  <2>1. row.step + 1 \in 0..LadderLen /\ row.age >= Hold[row.step]
    BY <1>1, <1>7 DEF HoldElapsed
  <2>2. CASE row.step + 1 < LadderLen
    <3>1. NextDecision(p, row, v) = Decide(p, row, "ramping", row.step + 1, FALSE)
      BY <1>1, <1>7, <2>2, Zenon DEF NextDecision
    <3>2. QED
      BY <1>4, <2>1, <3>1 DEF Decide
  <2>3. CASE ~(row.step + 1 < LadderLen)
    <3>1. NextDecision(p, row, v) = AtEnd(p, row, row.step + 1)
      BY <1>1, <1>7, <2>3, Zenon DEF NextDecision
    <3>2. QED
      BY <1>3, <1>4, <2>1, <3>1
  <2>4. QED
    BY <2>2, <2>3
<1>8. QED
  BY <1>5, <1>6, <1>7

\* Clearing and writing more keeps every row and every decision that stays.
LEMMA RowStays ==
  ASSUME NEW r \in Replicas, NEW p, RowIsCleared(r, p), todo'[r][p] = todo[r][p],
         cleared \subseteq cleared'
  PROVE  RowIsCleared(r, p)'
<1>1. \A k : Below(p, k) => Below(p, k)'
  BY DEF Below
<1>2. QED
  BY <1>1 DEF RowIsCleared

LEMMA DecisionStays ==
  ASSUME NEW r \in Replicas, DecisionIsCleared(r), pc'[r] = pc[r], dec'[r] = dec[r],
         cleared \subseteq cleared', written \subseteq written'
  PROVE  DecisionIsCleared(r)'
<1>1. \A k : Below(dec[r].plan, k) => Below(dec[r].plan, k)'
  BY DEF Below
<1>2. QED
  BY <1>1 DEF DecisionIsCleared

LEMMA CanaryInitInv == Init => CanaryInv
<1> SUFFICES ASSUME Init PROVE CanaryInv
  OBVIOUS
<1>1. DOMAIN NoRows = {} /\ LadderLen \in Nat
  BY CanaryAssumption DEF NoRows
<1>2. CanaryTypeOK
  BY <1>1 DEF Init, CanaryTypeOK, Statuses
<1>3. \A p \in Plans : Below(p, step[p])
  BY DEF Init, Below
<1>4. QED
  BY <1>1, <1>2, <1>3 DEF Init, CanaryInv, DecisionIsCleared, AnnouncementsWereWritten

\* A step outside the ticks leaves their rows, decisions and announcements.
LEMMA TableStep ==
  ASSUME CanaryInv, CanaryTypeOK', UNCHANGED <<ticks, events, written>>,
         cleared \subseteq cleared',
         \A p \in Plans : step'[p] = step[p] \/ Below(p, step[p])'
  PROVE  CanaryInv'
<1>1. pc' = pc /\ todo' = todo /\ dec' = dec /\ events' = events /\ written' = written
  BY DEF ticks
<1>2. ASSUME NEW p \in Plans PROVE Below(p, step[p])'
  BY DEF CanaryInv, Below
<1>3. ASSUME NEW r \in Replicas, NEW p \in DOMAIN todo'[r] PROVE RowIsCleared(r, p)'
  <2>1. RowIsCleared(r, p)
    BY <1>1, <1>3 DEF CanaryInv
  <2>2. QED
    BY <1>1, <2>1, RowStays
<1>4. ASSUME NEW r \in Replicas PROVE DecisionIsCleared(r)'
  <2>1. DecisionIsCleared(r)
    BY DEF CanaryInv
  <2>2. QED
    BY <1>1, <2>1, DecisionStays
<1>5. AnnouncementsWereWritten'
  BY <1>1 DEF CanaryInv, AnnouncementsWereWritten
<1>6. QED
  BY <1>2, <1>3, <1>4, <1>5 DEF CanaryInv

\* The steps of the operator, the clock, the observations and the plan's creation.
LEMMA OutsideKeeps ==
  ASSUME CanaryInv,
         \/ \E p \in Plans, row \in NewRows : CreatePlan(p, row)
         \/ \E p \in Plans, v \in Verdicts : Observe(p, v)
         \/ \E p \in Plans : Operator(p)
         \/ Elapse
  PROVE  CanaryInv'
<1>1. CanaryTypeOK
  BY DEF CanaryInv
<1>2. CASE \E p \in Plans, row \in NewRows : CreatePlan(p, row)
  <2>1. PICK p \in Plans, row \in NewRows : CreatePlan(p, row)
    BY <1>2
  <2>2. row.status \in Statuses /\ row.step \in 0..LadderLen /\ row.age \in Nat
    BY CanaryAssumption DEF NewRows
  <2>3. CanaryTypeOK'
    BY <1>1, <2>1, <2>2 DEF CreatePlan, CanaryTypeOK, ticks
  <2>4. /\ step' = [step EXCEPT ![p] = row.step]
        /\ cleared' = cleared \cup Rungs(p, 0..row.step - 1)
        /\ UNCHANGED <<ticks, events, written>>
    BY <2>1 DEF CreatePlan
  <2>5. \A j \in 0..row.step - 1 : [plan |-> p, step |-> j] \in cleared'
    BY <2>4 DEF Rungs
  <2>6. \A q \in Plans : step'[q] = step[q] \/ Below(q, step[q])'
    BY <1>1, <2>4, <2>5 DEF CanaryTypeOK, Below
  <2>7. QED
    BY <2>3, <2>4, <2>6, TableStep
<1>3. CASE \E p \in Plans, v \in Verdicts : Observe(p, v)
  <2>1. UNCHANGED <<status, step, age, ticks, events, cleared, written, ops>>
    BY <1>3 DEF Observe, table, history
  <2>2. CanaryTypeOK'
    BY <1>1, <2>1 DEF CanaryTypeOK, ticks
  <2>3. QED
    BY <2>1, <2>2, TableStep
<1>4. CASE \E p \in Plans : Operator(p)
  <2>1. PICK p \in Plans, to \in {"paused", "ramping"} :
          /\ ApplyDecision(p, to, -1) /\ ops' = ops + 1
          /\ UNCHANGED <<ticks, events, cleared, written>>
    BY <1>4 DEF Operator, Pause, Resume, history
  <2>2. /\ status' = [status EXCEPT ![p] = to]
        /\ step' = step /\ age' = age
    BY <1>1, <2>1 DEF ApplyDecision, CanaryTypeOK
  <2>3. CanaryTypeOK'
    BY <1>1, <2>1, <2>2 DEF CanaryTypeOK, ticks, Statuses
  <2>4. QED
    BY <2>1, <2>2, <2>3, TableStep
<1>5. CASE Elapse
  <2>1. UNCHANGED <<status, step, ticks, events, cleared, written, ops>>
    BY <1>5 DEF Elapse, history
  <2>2. age' \in [Plans -> Nat]
    BY <1>1, <1>5 DEF CanaryTypeOK, Elapse
  <2>3. CanaryTypeOK'
    BY <1>1, <2>1, <2>2 DEF CanaryTypeOK, ticks
  <2>4. QED
    BY <2>1, <2>3, TableStep
<1>6. QED
  BY <1>2, <1>3, <1>4, <1>5

\* A step of one replica that writes no table row: its own row list and its own
\* decision are looked at, the others' stay.
LEMMA ReplicaStep ==
  ASSUME CanaryInv, CanaryTypeOK', NEW r \in Replicas, step' = step,
         cleared \subseteq cleared', written \subseteq written',
         \A q \in Replicas \ {r} : todo'[q] = todo[q] /\ pc'[q] = pc[q] /\ dec'[q] = dec[q],
         \A p \in DOMAIN todo'[r] : RowIsCleared(r, p)',
         DecisionIsCleared(r)', AnnouncementsWereWritten'
  PROVE  CanaryInv'
<1>1. ASSUME NEW p \in Plans PROVE Below(p, step[p])'
  BY DEF CanaryInv, Below
<1>2. ASSUME NEW q \in Replicas, NEW p \in DOMAIN todo'[q] PROVE RowIsCleared(q, p)'
  <2>1. CASE q = r
    BY <1>2, <2>1
  <2>2. CASE q # r
    <3>1. todo'[q] = todo[q] /\ RowIsCleared(q, p)
      BY <1>2, <2>2 DEF CanaryInv
    <3>2. QED
      BY <3>1, RowStays
  <2>3. QED
    BY <2>1, <2>2
<1>3. ASSUME NEW q \in Replicas PROVE DecisionIsCleared(q)'
  <2>1. CASE q # r
    <3>1. pc'[q] = pc[q] /\ dec'[q] = dec[q] /\ DecisionIsCleared(q)
      BY <2>1 DEF CanaryInv
    <3>2. QED
      BY <3>1, DecisionStays
  <2>2. QED
    BY <2>1
<1>4. QED
  BY <1>1, <1>2, <1>3 DEF CanaryInv

\* ListActive: a row is the table's at this moment, and is cleared if it is held.
LEMMA ListKeeps ==
  ASSUME CanaryInv, NEW r \in Replicas, TickList(r)
  PROVE  CanaryInv'
<1>1. CanaryTypeOK
  BY DEF CanaryInv
<1>2. PICK listed \in Listings :
        /\ todo' = [todo EXCEPT ![r] =
             [p \in {x \in listed : status[x] \notin {"draft", "paused"}} |->
                [status |-> status[p], step |-> step[p], age |-> age[p]]]]
        /\ cleared' = cleared \cup UNION {Rungs(p, {step[p]}) :
             p \in {x \in {y \in listed : status[y] \notin {"draft", "paused"}} :
                      step[x] < LadderLen /\ age[x] >= Hold[step[x]]}}
  BY DEF TickList
<1>3. /\ pc' = [pc EXCEPT ![r] = "tick"]
      /\ UNCHANGED <<status, step, age, dec, events, written, ops>>
  BY DEF TickList, table
<1>4. listed \subseteq Active
  BY DEF Listings
<1>5. CanaryTypeOK'
  BY <1>1, <1>2, <1>3 DEF CanaryTypeOK
<1>6. ASSUME NEW p \in DOMAIN todo'[r] PROVE RowIsCleared(r, p)'
  <2>1. p \in listed /\ status[p] \notin {"draft", "paused"}
    BY <1>1, <1>2, <1>6 DEF CanaryTypeOK
  <2>2. p \in Plans /\ status[p] \in {"ramping", "holding"}
    BY <1>4, <2>1 DEF Active
  <2>3. todo'[r][p] = [status |-> status[p], step |-> step[p], age |-> age[p]]
    BY <1>1, <1>2, <1>6 DEF CanaryTypeOK
  <2>4. step[p] \in 0..LadderLen /\ age[p] \in Nat
    BY <1>1, <2>2 DEF CanaryTypeOK
  <2>5. \A j \in 0..step[p] - 1 : [plan |-> p, step |-> j] \in cleared'
    BY <1>2, <2>2 DEF CanaryInv, Below
  <2>6. ASSUME step[p] < LadderLen, age[p] >= Hold[step[p]]
        PROVE  \A j \in 0..(step[p] + 1) - 1 : [plan |-> p, step |-> j] \in cleared'
    <3>1. [plan |-> p, step |-> step[p]] \in Rungs(p, {step[p]})
      BY DEF Rungs
    <3>2. [plan |-> p, step |-> step[p]] \in cleared'
      BY <1>2, <2>1, <2>6, <3>1
    <3>3. \A j \in 0..(step[p] + 1) - 1 : j \in 0..step[p] - 1 \/ j = step[p]
      BY <2>4
    <3>4. QED
      BY <2>5, <3>2, <3>3
  <2>7. Below(p, step[p])' /\ (step[p] < LadderLen /\ age[p] >= Hold[step[p]] => Below(p, step[p] + 1)')
    BY <1>3, <2>5, <2>6 DEF Below
  <2>8. QED
    BY <1>3, <2>2, <2>3, <2>4, <2>7 DEF RowIsCleared
<1>7. DecisionIsCleared(r)' /\ AnnouncementsWereWritten'
  BY <1>1, <1>3 DEF DecisionIsCleared, AnnouncementsWereWritten, CanaryInv, CanaryTypeOK
<1>8. \A q \in Replicas \ {r} : todo'[q] = todo[q] /\ pc'[q] = pc[q] /\ dec'[q] = dec[q]
  BY <1>1, <1>2, <1>3 DEF CanaryTypeOK
<1>9. QED
  BY <1>2, <1>3, <1>5, <1>6, <1>7, <1>8, ReplicaStep

\* The end of a tick, a restart, a failure, an announcement: rows are dropped and
\* no decision is left.
LEMMA TickKeeps ==
  ASSUME CanaryInv, NEW r \in Replicas,
         \/ TickDone(r) \/ Restart(r)
         \/ TickApplyFails(r) \/ TickEmitFails(r) \/ TickEmit(r)
         \/ \E p \in Plans : TickAssessFails(r, p)
  PROVE  CanaryInv'
<1>1. CanaryTypeOK /\ UNCHANGED <<status, step, age, cleared, written, ops>>
  BY DEF CanaryInv, TickDone, Restart, TickApplyFails, TickEmitFails, TickEmit,
         TickAssessFails, table, history
<1>2. /\ pc'[r] \in {"idle", "tick"} /\ CanaryTypeOK'
      /\ \A q \in Replicas \ {r} : todo'[q] = todo[q] /\ pc'[q] = pc[q] /\ dec'[q] = dec[q]
  <2>1. CASE TickDone(r) \/ Restart(r)
    BY <2>1, <1>1 DEF TickDone, Restart, CanaryTypeOK
  <2>2. CASE TickApplyFails(r) \/ TickEmitFails(r) \/ TickEmit(r)
    BY <2>2, <1>1 DEF TickApplyFails, TickEmitFails, TickEmit, Continue, CanaryTypeOK
  <2>3. CASE \E p \in Plans : TickAssessFails(r, p)
    BY <2>3, <1>1 DEF TickAssessFails, Unlisted, CanaryTypeOK
  <2>4. QED
    BY <2>1, <2>2, <2>3
<1>3. DecisionIsCleared(r)'
  BY <1>2 DEF DecisionIsCleared
<1>4. ASSUME NEW p \in DOMAIN todo'[r] PROVE RowIsCleared(r, p)'
  <2>1. p \in DOMAIN todo[r] /\ todo'[r][p] = todo[r][p]
    <3>1. CASE Restart(r)
      BY <1>1, <1>4, <3>1 DEF Restart, NoRows, CanaryTypeOK
    <3>2. CASE \E x \in Plans : TickAssessFails(r, x)
      BY <1>1, <1>4, <3>2 DEF TickAssessFails, Unlisted, Restrict, CanaryTypeOK
    <3>3. CASE TickDone(r) \/ TickApplyFails(r) \/ TickEmitFails(r) \/ TickEmit(r)
      BY <1>4, <3>3 DEF TickDone, TickApplyFails, TickEmitFails, TickEmit
    <3>4. QED
      BY <3>1, <3>2, <3>3
  <2>2. RowIsCleared(r, p)
    BY <2>1 DEF CanaryInv
  <2>3. QED
    BY <1>1, <2>1, <2>2, RowStays
<1>5. AnnouncementsWereWritten'
  <2>1. CASE events' = events
    BY <1>1, <2>1 DEF CanaryInv, AnnouncementsWereWritten
  <2>2. CASE TickEmit(r)
    <3> SUFFICES ASSUME NEW e \in events'
                 PROVE  \E w \in written : w.plan = e.plan /\ Subject(w.status) = e.subject
                                           /\ w.step = e.step
      BY <1>1 DEF AnnouncementsWereWritten
    <3>1. CASE e \in events
      BY <3>1 DEF CanaryInv, AnnouncementsWereWritten
    <3>2. CASE e \notin events
      <4>1. e = [plan |-> dec[r].plan, subject |-> Subject(dec[r].status),
                 step |-> dec[r].step, gate |-> dec[r].gate]
        BY <2>2, <3>2 DEF TickEmit
      <4>2. [plan |-> dec[r].plan, status |-> dec[r].status, step |-> dec[r].step] \in written
        BY <2>2 DEF TickEmit, CanaryInv, DecisionIsCleared
      <4>3. QED
        BY <4>1, <4>2
    <3>3. QED
      BY <3>1, <3>2
  <2>3. QED
    BY <2>1, <2>2 DEF TickDone, Restart, TickApplyFails, TickEmitFails, TickAssessFails
<1>6. QED
  BY <1>1, <1>2, <1>3, <1>4, <1>5, ReplicaStep

\* The decision is taken on the row that was listed, whatever the table says now.
LEMMA Assessed ==
  ASSUME CanaryInv, NEW r \in Replicas, NEW p \in Plans, TickAssess(r, p)
  PROVE  /\ CanaryTypeOK'
         /\ UNCHANGED <<status, step, age, events, cleared, written, ops>>
         /\ todo' = [todo EXCEPT ![r] = Restrict(@, DOMAIN @ \ {p})]
         /\ p \in DOMAIN todo[r]
         /\ \/ pc' = pc /\ dec' = dec
            \/ \E d : /\ d.plan = p /\ d.status \in Statuses /\ d.step \in 0..LadderLen
                      /\ Below(p, d.step)
                      /\ pc' = [pc EXCEPT ![r] = "apply"] /\ dec' = [dec EXCEPT ![r] = d]
<1> DEFINE row == todo[r][p]
           d   == NextDecision(p, row, verdict[p])
<1>1. CanaryTypeOK /\ UNCHANGED <<status, step, age, ops, events, cleared, written>>
  BY DEF CanaryInv, TickAssess, table, history
<1>2. p \in DOMAIN todo[r] /\ RowIsCleared(r, p)
  BY DEF TickAssess, CanaryInv
<1>3. todo' = [todo EXCEPT ![r] = Restrict(@, DOMAIN @ \ {p})]
  BY DEF TickAssess, Unlisted
<1>4. \/ row.step < LadderLen /\ pc' = [pc EXCEPT ![r] = "apply"] /\ dec' = [dec EXCEPT ![r] = d]
      \/ pc' = pc /\ dec' = dec
  BY Zenon DEF TickAssess
<1>5. CanaryTypeOK'
  BY <1>1, <1>3, <1>4 DEF CanaryTypeOK
<1>6. ASSUME row.step < LadderLen
      PROVE  d.plan = p /\ d.status \in Statuses /\ d.step \in 0..LadderLen /\ Below(p, d.step)
  <2>1. /\ row.status \in {"ramping", "holding"} /\ row.step \in 0..LadderLen /\ row.age \in Nat
        /\ Below(p, row.step)
        /\ row.age >= Hold[row.step] => Below(p, row.step + 1)
    BY <1>2, <1>6 DEF RowIsCleared
  <2> HIDE DEF row
  <2>2. /\ d.plan = p
        /\ d.status \in Statuses \ {"none"}
        /\ d.step \in 0..LadderLen
        /\ d.step > row.step => d.step = row.step + 1 /\ row.age >= Hold[row.step]
    BY <1>6, <2>1, NextDecides
  <2> HIDE DEF d
  <2>3. CASE d.step > row.step
    BY <2>1, <2>2, <2>3
  <2>4. CASE ~(d.step > row.step)
    <3>1. \A j \in 0..d.step - 1 : j \in 0..row.step - 1
      BY <2>1, <2>2, <2>4, CanaryAssumption
    <3>2. QED
      BY <2>1, <2>2, <3>1 DEF Below
  <2>5. QED
    BY <2>2, <2>3, <2>4
<1> HIDE DEF row, d
<1>7. QED
  BY <1>1, <1>2, <1>3, <1>4, <1>5, <1>6

LEMMA AssessKeeps ==
  ASSUME CanaryInv, NEW r \in Replicas, NEW p \in Plans, TickAssess(r, p)
  PROVE  CanaryInv'
<1>1. /\ CanaryTypeOK'
      /\ UNCHANGED <<status, step, age, events, cleared, written, ops>>
      /\ todo' = [todo EXCEPT ![r] = Restrict(@, DOMAIN @ \ {p})]
      /\ \/ pc' = pc /\ dec' = dec
         \/ \E d : /\ d.plan = p /\ d.status \in Statuses /\ d.step \in 0..LadderLen
                   /\ Below(p, d.step)
                   /\ pc' = [pc EXCEPT ![r] = "apply"] /\ dec' = [dec EXCEPT ![r] = d]
  BY Assessed
<1>2. CanaryTypeOK
  BY DEF CanaryInv
<1>3. ASSUME NEW x \in DOMAIN todo'[r] PROVE RowIsCleared(r, x)'
  <2>1. x \in DOMAIN todo[r] /\ todo'[r][x] = todo[r][x]
    BY <1>1, <1>2, <1>3 DEF CanaryTypeOK, Restrict
  <2>2. RowIsCleared(r, x)
    BY <2>1 DEF CanaryInv
  <2>3. QED
    BY <1>1, <2>1, <2>2, RowStays
<1>4. DecisionIsCleared(r)'
  <2>1. CASE pc' = pc /\ dec' = dec
    <3>1. DecisionIsCleared(r)
      BY DEF CanaryInv
    <3>2. QED
      BY <1>1, <2>1, <3>1, DecisionStays
  <2>2. CASE ~(pc' = pc /\ dec' = dec)
    <3>1. PICK d : /\ d.plan = p /\ d.status \in Statuses /\ d.step \in 0..LadderLen
                   /\ Below(p, d.step)
                   /\ pc' = [pc EXCEPT ![r] = "apply"] /\ dec' = [dec EXCEPT ![r] = d]
      BY <1>1, <2>2
    <3>2. pc'[r] = "apply" /\ dec'[r] = d
      BY <1>2, <3>1 DEF CanaryTypeOK
    <3>3. Below(p, d.step)'
      BY <1>1, <3>1 DEF Below
    <3>4. QED
      BY <3>1, <3>2, <3>3 DEF DecisionIsCleared
  <2>3. QED
    BY <2>1, <2>2
<1>5. AnnouncementsWereWritten'
  BY <1>1 DEF CanaryInv, AnnouncementsWereWritten
<1>6. \A q \in Replicas \ {r} : todo'[q] = todo[q] /\ pc'[q] = pc[q] /\ dec'[q] = dec[q]
  BY <1>1, <1>2 DEF CanaryTypeOK
<1>7. QED
  BY <1>1, <1>3, <1>4, <1>5, <1>6, ReplicaStep

\* What the UPDATE of a tick does: it may overwrite anything, but the rungs below
\* what it writes are cleared.
LEMMA ApplyWrites ==
  ASSUME CanaryInv, NEW r \in Replicas, TickApply(r)
  PROVE  /\ dec[r].plan \in Plans
         /\ status' = [status EXCEPT ![dec[r].plan] = dec[r].status]
         /\ step' = [step EXCEPT ![dec[r].plan] = dec[r].step]
         /\ age' = [age EXCEPT ![dec[r].plan] = 0]
<1>1. pc[r] = "apply" /\ dec[r].plan \in Plans /\ dec[r].step \in 0..LadderLen
  BY DEF CanaryInv, DecisionIsCleared, TickApply
<1>2. ~(dec[r].step < 0)
  BY <1>1, CanaryAssumption
<1>3. QED
  BY <1>1, <1>2 DEF TickApply, ApplyDecision

LEMMA ApplyKeeps ==
  ASSUME CanaryInv, NEW r \in Replicas, TickApply(r)
  PROVE  CanaryInv'
<1>1. /\ dec[r].plan \in Plans
      /\ status' = [status EXCEPT ![dec[r].plan] = dec[r].status]
      /\ step' = [step EXCEPT ![dec[r].plan] = dec[r].step]
      /\ age' = [age EXCEPT ![dec[r].plan] = 0]
  BY ApplyWrites
<1>2. /\ CanaryTypeOK /\ pc[r] = "apply" /\ pc' = [pc EXCEPT ![r] = "emit"]
      /\ UNCHANGED <<todo, dec, events, cleared, ops>>
      /\ written' = written \cup {[plan |-> dec[r].plan, status |-> dec[r].status,
                                   step |-> dec[r].step]}
  BY DEF CanaryInv, TickApply
<1>3. dec[r].status \in Statuses /\ dec[r].step \in 0..LadderLen /\ Below(dec[r].plan, dec[r].step)
  BY <1>2 DEF CanaryInv, DecisionIsCleared
<1>4. CanaryTypeOK'
  BY <1>1, <1>2, <1>3 DEF CanaryTypeOK
<1>5. ASSUME NEW p \in Plans PROVE Below(p, step[p])'
  <2>1. Below(p, step'[p])
    BY <1>1, <1>2, <1>3 DEF CanaryTypeOK, CanaryInv
  <2>2. QED
    BY <1>2, <2>1 DEF Below
<1>6. ASSUME NEW q \in Replicas, NEW x \in DOMAIN todo'[q] PROVE RowIsCleared(q, x)'
  <2>1. RowIsCleared(q, x) /\ todo'[q][x] = todo[q][x]
    BY <1>2, <1>6 DEF CanaryInv
  <2>2. QED
    BY <1>2, <2>1, RowStays
<1>7. ASSUME NEW q \in Replicas PROVE DecisionIsCleared(q)'
  <2>1. CASE q = r
    <3>1. pc'[r] = "emit" /\ dec'[r] = dec[r]
      BY <1>2 DEF CanaryTypeOK
    <3>2. Below(dec[r].plan, dec[r].step)'
      BY <1>2, <1>3 DEF Below
    <3>3. QED
      BY <1>1, <1>2, <1>3, <2>1, <3>1, <3>2 DEF DecisionIsCleared
  <2>2. CASE q # r
    <3>1. pc'[q] = pc[q] /\ dec'[q] = dec[q] /\ DecisionIsCleared(q)
      BY <1>2, <2>2 DEF CanaryTypeOK, CanaryInv
    <3>2. QED
      BY <1>2, <3>1, DecisionStays
  <2>3. QED
    BY <2>1, <2>2
<1>8. AnnouncementsWereWritten'
  BY <1>2 DEF CanaryInv, AnnouncementsWereWritten
<1>9. QED
  BY <1>4, <1>5, <1>6, <1>7, <1>8 DEF CanaryInv

LEMMA CanaryNextInv == CanaryInv /\ [Next]_vars => CanaryInv'
<1> SUFFICES ASSUME CanaryInv, [Next]_vars PROVE CanaryInv'
  OBVIOUS
<1>1. CASE \E r \in Replicas : TickStep(r)
  BY <1>1, ListKeeps, TickKeeps, AssessKeeps, ApplyKeeps DEF TickStep
<1>2. CASE \E r \in Replicas : TickApplyFails(r) \/ TickEmitFails(r) \/ Restart(r)
                              \/ \E p \in Plans : TickAssessFails(r, p)
  BY <1>2, TickKeeps
<1>3. CASE UNCHANGED vars
  <2>1. UNCHANGED <<status, step, age, ticks, events, cleared, written, ops>>
    BY <1>3 DEF vars, table, history
  <2>2. CanaryTypeOK'
    BY <2>1 DEF CanaryInv, CanaryTypeOK, ticks
  <2>3. QED
    BY <2>1, <2>2, TableStep
<1>4. QED
  BY <1>1, <1>2, <1>3, OutsideKeeps DEF Next

-----------------------------------------------------------------------------
\* With any number of replicas, however stale the rows they decide on, a plan
\* stands on a rung only if every rung below was found held for its time.
THEOREM RungsCleared == Spec => []RungsWereCleared
<1>1. CanaryInv => RungsWereCleared
  BY DEF CanaryInv, RungsWereCleared, Rungs, Below
<1>2. QED
  BY <1>1, CanaryInitInv, CanaryNextInv, PTL DEF Spec

\* With any number of replicas, nothing is announced on canary.* that the
\* announcing tick did not write, whatever failed and whoever wrote in between.
THEOREM AnnouncedAfterWritten == Spec => []AnnouncementsWereWritten
<1>1. CanaryInv => AnnouncementsWereWritten
  BY DEF CanaryInv
<1>2. QED
  BY <1>1, CanaryInitInv, CanaryNextInv, PTL DEF Spec

\* One step and a plan at rest that no tick holds.
LEMMA SettledStays ==
  ASSUME CanaryInv, [Next]_vars, NEW p \in Plans, Settled(p)
  PROVE  \/ Settled(p)' /\ status'[p] = status[p] /\ step'[p] = step[p]
         \/ ops' = ops + 1
<1>1. /\ CanaryTypeOK /\ status[p] \in AtRest
      /\ \A r \in Replicas : p \notin DOMAIN todo[r] /\ ~(pc[r] = "apply" /\ dec[r].plan = p)
  BY DEF CanaryInv, Settled, InFlight
<1>2. SUFFICES ASSUME ops' # ops + 1
               PROVE  /\ status'[p] = status[p] /\ step'[p] = step[p]
                      /\ \A r \in Replicas : /\ p \notin DOMAIN todo'[r]
                                            /\ ~(pc'[r] = "apply" /\ dec'[r].plan = p)
  BY <1>1 DEF Settled, InFlight
<1>3. CASE \E x \in Plans, row \in NewRows : CreatePlan(x, row)
  <2>1. PICK x \in Plans, row \in NewRows : CreatePlan(x, row)
    BY <1>3
  <2>2. x # p
    BY <1>1, <2>1 DEF CreatePlan, AtRest
  <2>3. QED
    BY <1>1, <2>1, <2>2 DEF CreatePlan, CanaryTypeOK, ticks
<1>4. CASE \E r \in Replicas : TickApply(r)
  <2>1. PICK r \in Replicas : TickApply(r)
    BY <1>4
  <2>2. /\ dec[r].plan \in Plans
        /\ status' = [status EXCEPT ![dec[r].plan] = dec[r].status]
        /\ step' = [step EXCEPT ![dec[r].plan] = dec[r].step]
    BY <2>1, ApplyWrites
  <2>3. /\ pc[r] = "apply" /\ pc' = [pc EXCEPT ![r] = "emit"] /\ UNCHANGED <<todo, dec>>
    BY <2>1 DEF TickApply
  <2>4. dec[r].plan # p
    BY <1>1, <2>3
  <2>5. QED
    BY <1>1, <2>2, <2>3, <2>4 DEF CanaryTypeOK
<1>5. CASE \E r \in Replicas : \E x \in Plans : TickAssess(r, x)
  <2>1. PICK r \in Replicas, x \in Plans : TickAssess(r, x)
    BY <1>5
  <2>2. /\ UNCHANGED <<status, step>>
        /\ todo' = [todo EXCEPT ![r] = Restrict(@, DOMAIN @ \ {x})]
        /\ x \in DOMAIN todo[r]
        /\ \/ pc' = pc /\ dec' = dec
           \/ \E d : /\ d.plan = x /\ d.status \in Statuses /\ d.step \in 0..LadderLen
                     /\ Below(x, d.step)
                     /\ pc' = [pc EXCEPT ![r] = "apply"] /\ dec' = [dec EXCEPT ![r] = d]
    BY <2>1, Assessed
  <2>3. x # p
    BY <1>1, <2>2
  <2>4. \A q \in Replicas : p \notin DOMAIN todo'[q]
    BY <1>1, <2>2 DEF CanaryTypeOK, Restrict
  <2>5. CASE pc' = pc /\ dec' = dec
    BY <1>1, <2>2, <2>4, <2>5
  <2>6. CASE ~(pc' = pc /\ dec' = dec)
    <3>1. PICK d : d.plan = x /\ pc' = [pc EXCEPT ![r] = "apply"] /\ dec' = [dec EXCEPT ![r] = d]
      BY <2>2, <2>6
    <3>2. QED
      BY <1>1, <2>2, <2>3, <2>4, <3>1 DEF CanaryTypeOK
  <2>7. QED
    BY <2>5, <2>6
<1>6. CASE \E r \in Replicas : TickList(r)
  <2>1. PICK r \in Replicas : TickList(r)
    BY <1>6
  <2>2. PICK listed \in Listings :
          todo' = [todo EXCEPT ![r] =
             [x \in {y \in listed : status[y] \notin {"draft", "paused"}} |->
                [status |-> status[x], step |-> step[x], age |-> age[x]]]]
    BY <2>1 DEF TickList
  <2>3. ~(p \in listed /\ status[p] \notin {"draft", "paused"})
    BY <1>1 DEF Listings, Active, AtRest
  <2>4. \A q \in Replicas : p \notin DOMAIN todo'[q]
    BY <1>1, <2>2, <2>3 DEF CanaryTypeOK
  <2>5. UNCHANGED <<status, step, dec>> /\ pc' = [pc EXCEPT ![r] = "tick"]
    BY <2>1 DEF TickList, table
  <2>6. QED
    BY <1>1, <2>4, <2>5 DEF CanaryTypeOK
<1>7. CASE \E r \in Replicas : \/ TickDone(r) \/ Restart(r)
                               \/ TickApplyFails(r) \/ TickEmitFails(r) \/ TickEmit(r)
                               \/ \E x \in Plans : TickAssessFails(r, x)
  <2>1. PICK r \in Replicas : \/ TickDone(r) \/ Restart(r)
                               \/ TickApplyFails(r) \/ TickEmitFails(r) \/ TickEmit(r)
                               \/ \E x \in Plans : TickAssessFails(r, x)
    BY <1>7
  <2>2. /\ UNCHANGED <<status, step>>
        /\ pc'[r] # "apply" /\ \A q \in Replicas \ {r} : pc'[q] = pc[q] /\ dec'[q] = dec[q]
    BY <1>1, <2>1 DEF TickDone, Restart, TickApplyFails, TickEmitFails, TickEmit, TickAssessFails,
                      Continue, table, CanaryTypeOK
  <2>3. \A q \in Replicas : p \notin DOMAIN todo'[q]
    <3>1. CASE Restart(r)
      BY <1>1, <3>1 DEF Restart, NoRows, CanaryTypeOK
    <3>2. CASE \E x \in Plans : TickAssessFails(r, x)
      BY <1>1, <3>2 DEF TickAssessFails, Unlisted, Restrict, CanaryTypeOK
    <3>3. CASE TickDone(r) \/ TickApplyFails(r) \/ TickEmitFails(r) \/ TickEmit(r)
      BY <1>1, <3>3 DEF TickDone, TickApplyFails, TickEmitFails, TickEmit
    <3>4. QED
      BY <2>1, <3>1, <3>2, <3>3
  <2>4. QED
    BY <1>1, <2>2, <2>3
<1>8. CASE UNCHANGED <<status, step, pc, todo, dec>>
  BY <1>1, <1>8
<1>9. CASE \E x \in Plans : Operator(x)
  BY <1>2, <1>9 DEF Operator, Pause, Resume
<1>10. CASE (\E x \in Plans, v \in Verdicts : Observe(x, v)) \/ Elapse \/ UNCHANGED vars
  BY <1>8, <1>10 DEF Observe, Elapse, vars, table, ticks
<1>11. QED
  BY <1>3, <1>4, <1>5, <1>6, <1>7, <1>9, <1>10 DEF Next, TickStep

\* With any number of replicas: once the ticks that were under way when a plan
\* came to rest are through with it, only an operator moves it.
THEOREM SettledPlansRest == Spec => SettledIsFinal
<1>1. CanaryInv /\ [Next]_vars =>
        [\A p \in Plans : Settled(p) =>
           \/ Settled(p)' /\ status'[p] = status[p] /\ step'[p] = step[p]
           \/ ops' = ops + 1]_vars
  BY SettledStays
<1>2. QED
  BY <1>1, CanaryInitInv, CanaryNextInv, PTL DEF Spec, SettledIsFinal
=============================================================================
