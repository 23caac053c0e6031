---------------------------- MODULE AgentSessions ----------------------------
(***************************************************************************)
(* The bounded-autonomy agent: the plan/act/observe loop (pkg/agent), the  *)
(* session and step tables (agent-service/internal/store), the start and   *)
(* resume handlers and the gate.resolved subscriber                        *)
(* (cmd/agent-service/main.go), composed with PolicyGate.                  *)
(*                                                                         *)
(* A run is one Agent executing in a request or in the bus callback.  The  *)
(* model's answers, tools and tool results are reduced to the risk tiers   *)
(* the loop tells apart; a step row to which kind of Agent wrote it: the    *)
(* one that started the session or one that resumed it.                    *)
(***************************************************************************)
EXTENDS PolicyGate

CONSTANTS
  Sessions,  \* session ids
  Runs,      \* Agents that can execute at once
  ToolTiers, \* risk tiers of the registered tools
  MaxTier,   \* AEGIS_AGENT_MAX_AUTONOMY_TIER
  MaxSteps,  \* max_steps of every session
  MaxCalls,  \* tool calls in one LLM answer, at most
  MaxFaults  \* bound on disconnects, failed calls, failed statements and lost messages

NoSession == "nosession"

ASSUME AgentAssumption ==
  /\ NoSession \notin Sessions
  /\ ToolTiers \subseteq 0..3
  /\ MaxTier \in 0..3
  /\ MaxSteps \in Nat \ {0}
  /\ MaxCalls \in Nat \ {0}
  /\ MaxFaults \in Nat

VARIABLES
  status,      \* agent_sessions.status; "none" before the row exists
  gateId,      \* agent_sessions.gate_id
  steps,       \* agent_steps: per session, idx -> which Agent wrote the row
  gateSession, \* policy_gates.session_id
  pc,          \* per run: where it is
  at,          \* ... its session
  via,         \* ... "run" (start handler) or "resume" (handler or bus)
  nstep,       \* ... Agent.step
  calls,       \* ... tiers of the tool calls left in the LLM's answer
  gate,        \* ... the gate it resolves or waits for
  outcome,     \* ... Outcome.Status
  ran,         \* history: steps its starting Agent took, per session
  unwritten,   \* history: numbers an INSERT failed on, per session
  faults

rows      == <<status, gateId, steps>>
trail     == <<steps, ran, unwritten>>
running   == <<pc, at, via, nstep, calls, gate, outcome>>
agentVars == <<rows, gateSession, running, ran, unwritten, faults>>
vars      == <<gateVars, agentVars>>

Answers   == UNION {[1..n -> ToolTiers] : n \in 1..MaxCalls}

\* Config.defaults: tier 0 means "not set".
Ceiling == IF MaxTier = 0 THEN 2 ELSE MaxTier

-----------------------------------------------------------------------------
(* The session store.                                                      *)

\* Mutant: the row that is there is overwritten.
AppendUpserts(st, idx, by) == [i \in DOMAIN st \cup {idx} |-> IF i = idx THEN by ELSE st[i]]

\* AppendStep: (session_id, idx) is the primary key.
AppendStep(st, idx, by) ==
  [i \in DOMAIN st \cup {idx} |-> IF i \in DOMAIN st THEN st[i] ELSE by]

\* Bounded bad luck: n more faults.
Faulty(n) == faults + n <= MaxFaults /\ faults' = faults + n

\* recordStep drops the error of AppendStep: a row whose number is taken, or
\* whose INSERT fails (f = 1), is not in the table and the Agent goes on.
Record(r, idx, f) ==
  LET s == at[r] IN
  /\ ran' = IF via[r] = "run" THEN [ran EXCEPT ![s] = idx + 1] ELSE ran
  /\ \/ /\ f = 0
        /\ steps' = [steps EXCEPT ![s] = AppendStep(@, idx, via[r])]
        /\ UNCHANGED unwritten
     \/ /\ f = 1
        /\ idx \notin DOMAIN steps[s]
        /\ unwritten' = [unwritten EXCEPT ![s] = @ \cup {idx}]
        /\ UNCHANGED steps

\* The error of this UPDATE is dropped as well (f = 1).
SetStatus(s, to, g, f) ==
  \/ /\ f = 0
     /\ status' = [status EXCEPT ![s] = to]
     /\ gateId' = [gateId EXCEPT ![s] = g]
  \/ /\ f = 1
     /\ UNCHANGED <<status, gateId>>

-----------------------------------------------------------------------------
(* The handlers that create an Agent.                                      *)

\* POST /v1/agents/sessions
Start(r, s) ==
  /\ pc[r] = "idle"
  /\ status[s] = "none"
  /\ status' = [status EXCEPT ![s] = "active"]
  /\ gateId' = [gateId EXCEPT ![s] = NoGate]
  /\ pc' = [pc EXCEPT ![r] = "chat"]
  /\ at' = [at EXCEPT ![r] = s]
  /\ via' = [via EXCEPT ![r] = "run"]
  /\ UNCHANGED <<gateVars, trail, gateSession, nstep, calls, gate, outcome,
                 faults>>

ResumesWith(r, s, g) ==
  /\ pc' = [pc EXCEPT ![r] = "inject"]
  /\ at' = [at EXCEPT ![r] = s]
  /\ via' = [via EXCEPT ![r] = "resume"]
  /\ gate' = [gate EXCEPT ![r] = g]
  /\ UNCHANGED <<rows, trail, gateSession, nstep, calls, outcome, faults>>

\* POST /v1/agents/sessions/{id}/resume: the row must name this gate.
ResumeHTTP(r, s, g) ==
  /\ pc[r] = "idle"
  /\ gateId[s] = g
  /\ ResumesWith(r, s, g)
  /\ UNCHANGED gateVars

\* autoResume, on gate.resolved.<g>: a session that is not waiting for this
\* gate is left alone; the message is gone either way.
AutoResume(r, m) ==
  LET s == gateSession[m.gate] IN
  /\ pc[r] = "idle"
  /\ Deliver(m)
  /\ IF gateId[s] = m.gate THEN ResumesWith(r, s, m.gate) ELSE UNCHANGED agentVars

-----------------------------------------------------------------------------
(* Agent.loop                                                              *)

\* Mutant: a step is not counted.
NotAdvanced(n) == n
\* a.step++ after each row.
Advanced(n) == n + 1

\* A row at the Agent's counter, which moves on.
Recorded(r, f) ==
  /\ Record(r, nstep[r], f)
  /\ nstep' = [nstep EXCEPT ![r] = Advanced(@)]

\* The resolution goes into the history of a new Agent, whose step is 0.
Inject(r) ==
  /\ pc[r] = "inject"
  /\ \E f \in 0..1 : Recorded(r, f) /\ Faulty(f)
  /\ pc' = [pc EXCEPT ![r] = "chat"]
  /\ UNCHANGED <<gateVars, status, gateId, gateSession, at, via, calls, gate,
                 outcome>>

\* The loop returns with this status; gate_id is cleared.
Returns(r, to, f) ==
  /\ SetStatus(at[r], to, NoGate, f)
  /\ outcome' = [outcome EXCEPT ![r] = to]
  /\ pc' = [pc EXCEPT ![r] = "settle"]
  /\ calls' = [calls EXCEPT ![r] = << >>]
  /\ UNCHANGED <<gateSession, at, via, gate>>

\* fail: a final row, which is not counted.  n faults led here.
Fails(r, n) ==
  /\ \E f, h \in 0..1 :
       /\ Record(r, nstep[r], f)
       /\ Returns(r, "failed", h)
       /\ Faulty(n + f + h)
  /\ UNCHANGED <<gateVars, nstep>>

InBudget(r) == nstep[r] < MaxSteps

ChatFinal(r) ==
  /\ pc[r] = "chat"
  /\ InBudget(r)
  /\ \E f, h \in 0..1 :
       /\ Recorded(r, f)
       /\ Returns(r, "completed", h)
       /\ Faulty(f + h)
  /\ UNCHANGED gateVars

ChatCalls(r, answer) ==
  /\ pc[r] = "chat"
  /\ InBudget(r)
  /\ calls' = [calls EXCEPT ![r] = answer]
  /\ pc' = [pc EXCEPT ![r] = "calls"]
  /\ UNCHANGED <<gateVars, rows, trail, gateSession, at, via, nstep, gate, outcome,
                 faults>>

\* "max steps exceeded"
Exhausted(r) ==
  /\ pc[r] = "chat"
  /\ ~InBudget(r)
  /\ Fails(r, 0)

\* The chat fails, the answer names an unknown tool, or OpenGate fails; it may
\* have opened the gate all the same.
RunFails(r) ==
  /\ pc[r] \in {"chat", "calls", "gating", "opened"}
  /\ Fails(r, 1)

\* The tool_call row; then the tool runs or, above the ceiling, waits.
Calls(r) ==
  /\ pc[r] = "calls"
  /\ \E f \in 0..1 : Recorded(r, f) /\ Faulty(f)
  /\ pc' = [pc EXCEPT ![r] = IF Head(calls[r]) <= Ceiling THEN "tool" ELSE "gating"]
  /\ UNCHANGED <<gateVars, status, gateId, gateSession, at, via, calls, gate,
                 outcome>>

AfterCall(r) == IF Len(calls[r]) = 1 THEN "chat" ELSE "calls"

\* The tool returns: its error is a result like any other.
ToolReturns(r) ==
  /\ pc[r] = "tool"
  /\ \E f \in 0..1 : Recorded(r, f) /\ Faulty(f)
  /\ calls' = [calls EXCEPT ![r] = Tail(@)]
  /\ pc' = [pc EXCEPT ![r] = AfterCall(r)]
  /\ UNCHANGED <<gateVars, status, gateId, gateSession, at, via, gate, outcome>>

\* Gateway.OpenGate: POST /v1/gates with the session's id.
GatewayOpens(r, g) ==
  /\ OpenGate(g)
  /\ gateSession' = [gateSession EXCEPT ![g] = at[r]]

\* A tool above the ceiling: the gate opens, the calls behind it are dropped.
CallGated(r, g) ==
  /\ pc[r] = "gating"
  /\ GatewayOpens(r, g)
  /\ gate' = [gate EXCEPT ![r] = g]
  /\ calls' = [calls EXCEPT ![r] = << >>]
  /\ pc' = [pc EXCEPT ![r] = "opened"]
  /\ UNCHANGED <<rows, trail, at, via, nstep, outcome, faults>>

\* gate_requested, and Sink.SetStatus with no gate id.
AwaitGate(r) ==
  /\ pc[r] = "opened"
  /\ \E f, h \in 0..1 :
       /\ Recorded(r, f)
       /\ Returns(r, "awaiting_gate", h)
       /\ Faulty(f + h)
  /\ UNCHANGED gateVars

RunGone(r) ==
  /\ pc' = [pc EXCEPT ![r] = "idle"]
  /\ at' = [at EXCEPT ![r] = NoSession]
  /\ via' = [via EXCEPT ![r] = "run"]
  /\ nstep' = [nstep EXCEPT ![r] = 0]
  /\ calls' = [calls EXCEPT ![r] = << >>]
  /\ gate' = [gate EXCEPT ![r] = NoGate]
  /\ outcome' = [outcome EXCEPT ![r] = "none"]

\* Back in the handler: the start handler stores the gate it waits for, the
\* resume handlers store the outcome and no gate.
Settle(r) ==
  /\ pc[r] = "settle"
  /\ IF via[r] = "run" /\ outcome[r] # "awaiting_gate"
     THEN UNCHANGED <<status, gateId, faults>>
     ELSE \E f \in 0..1 :
            /\ SetStatus(at[r], outcome[r], IF via[r] = "run" THEN gate[r] ELSE NoGate, f)
            /\ Faulty(f)
  /\ RunGone(r)
  /\ UNCHANGED <<gateVars, trail, gateSession>>

\* The client disconnects or the process dies: with the request's context gone
\* every further statement fails and the rows stay as they are: what the Agent
\* still does is recorded nowhere.
Disconnect(r) ==
  /\ pc[r] # "idle"
  /\ RunGone(r)
  /\ Faulty(1)
  /\ UNCHANGED <<gateVars, rows, trail, gateSession>>

\* Core NATS: a message nobody receives is gone.
LoseMessage(m) ==
  /\ Deliver(m)
  /\ Faulty(1)
  /\ UNCHANGED <<rows, trail, gateSession, running>>

\* policy-gate-service fails between its UPDATE and its publish.
DecisionUntold(o) ==
  /\ DecideDies(o)
  /\ Faulty(1)
  /\ UNCHANGED <<rows, trail, gateSession, running>>

-----------------------------------------------------------------------------
Init ==
  /\ GateInit
  /\ status = [s \in Sessions |-> "none"]
  /\ gateId = [s \in Sessions |-> NoGate]
  /\ steps = [s \in Sessions |-> << >>]
  /\ gateSession = [g \in Gates |-> NoSession]
  /\ pc = [r \in Runs |-> "idle"]
  /\ at = [r \in Runs |-> NoSession]
  /\ via = [r \in Runs |-> "run"]
  /\ nstep = [r \in Runs |-> 0]
  /\ calls = [r \in Runs |-> << >>]
  /\ gate = [r \in Runs |-> NoGate]
  /\ outcome = [r \in Runs |-> "none"]
  /\ ran = [s \in Sessions |-> 0]
  /\ unwritten = [s \in Sessions |-> {}]
  /\ faults = 0

\* What a run does by itself once it is started.
RunStep(r) ==
  \/ Inject(r)
  \/ ChatFinal(r)
  \/ \E answer \in Answers : ChatCalls(r, answer)
  \/ Exhausted(r)
  \/ Calls(r)
  \/ ToolReturns(r)
  \/ \E g \in Gates : CallGated(r, g)
  \/ AwaitGate(r)
  \/ Settle(r)

Next ==
  \/ \E r \in Runs, s \in Sessions : Start(r, s)
  \/ \E r \in Runs, s \in Sessions, g \in Gates : ResumeHTTP(r, s, g)
  \/ \E r \in Runs : \E m \in resolved : AutoResume(r, m)
  \/ \E r \in Runs : RunStep(r)
  \/ \E r \in Runs : RunFails(r)
  \/ \E r \in Runs : Disconnect(r)
  \/ \E m \in resolved : LoseMessage(m)
  \/ \E o \in Deciders : DecisionUntold(o)
  \/ DeciderNext /\ UNCHANGED agentVars

Spec == Init /\ [][Next]_vars

\* A started run goes on by itself, a request that wrote its decision answers,
\* and a delivered message is handled; nobody has to start or decide anything.
FairSpec ==
  /\ Spec
  /\ \A r \in Runs : WF_vars(RunStep(r))
  /\ WF_vars(\E r \in Runs : \E m \in resolved : AutoResume(r, m))
  /\ WF_vars(\E o \in Deciders : DecideReplies(o) /\ UNCHANGED agentVars)

-----------------------------------------------------------------------------
(* Properties.                                                             *)

RowsOK ==
  /\ status \in [Sessions -> {"none", "active", "awaiting_gate", "completed", "failed"}]
  /\ gateId \in [Sessions -> Gates \cup {NoGate}]
  /\ DOMAIN steps = Sessions
  /\ \A s \in Sessions : \A i \in DOMAIN steps[s] : i \in Nat /\ steps[s][i] \in {"run", "resume"}

RunningOK ==
  /\ pc \in [Runs -> {"idle", "inject", "chat", "calls", "tool", "gating", "opened", "settle"}]
  /\ at \in [Runs -> Sessions \cup {NoSession}]
  /\ via \in [Runs -> {"run", "resume"}]
  /\ nstep \in [Runs -> Nat]
  /\ gate \in [Runs -> Gates \cup {NoGate}]
  /\ outcome \in [Runs -> {"none", "completed", "failed", "awaiting_gate"}]

CallsOK ==
  /\ DOMAIN calls = Runs
  /\ \A r \in Runs : calls[r] \in Answers \cup {<< >>} /\ (pc[r] \in {"calls", "tool", "gating"} => calls[r] # << >>)

HistoryOK ==
  /\ gateSession \in [Gates -> Sessions \cup {NoSession}]
  /\ ran \in [Sessions -> Nat]
  /\ unwritten \in [Sessions -> SUBSET Nat]
  /\ faults \in 0..MaxFaults

TypeOK == GateTypeOK /\ RowsOK /\ RunningOK /\ CallsOK /\ HistoryOK

\* What GET /sessions/{id} shows, whatever runs, resumes, disconnects and failed
\* statements did: the numbers run from 0 and one is missing only if its INSERT
\* failed; and of what the Agent that started the session did, every other step
\* is there and no resume has overwritten it, in spite of starting at 0 again.
\* (What a resume did under those numbers is not there.)  A run writes no more
\* than its budget plus the tool calls of one answer.
Accounted(s) == DOMAIN steps[s] \cup unwritten[s]

StepsAreAccountedFor ==
  /\ \A s \in Sessions :
       /\ Accounted(s) = 0..Cardinality(Accounted(s)) - 1
       /\ \A i \in (0..ran[s] - 1) \ unwritten[s] :
            i \in DOMAIN steps[s] /\ steps[s][i] = "run"
  /\ \A r \in Runs : nstep[r] <= MaxSteps - 1 + 2 * MaxCalls

\* The gate a session waits for was opened by that session and for nobody else:
\* one approval can only ever wake the session it was given for.
WaitsForOwnGate ==
  \A s \in Sessions : gateId[s] # NoGate =>
    /\ gateSession[gateId[s]] = s
    /\ decision[gateId[s]] # "none"

\* The strengthening WaitsForOwnGate needs: a run that opened a gate, and will
\* store it when it settles, holds a gate of its own session.
HoldsOwnGate ==
  \A r \in Runs :
    pc[r] = "opened" \/ (pc[r] = "settle" /\ outcome[r] = "awaiting_gate") =>
      /\ gate[r] # NoGate
      /\ gateSession[gate[r]] = at[r]
      /\ decision[gate[r]] # "none"

\* A run that is going on has a session, and one that ended has an outcome.
BusyHasSession ==
  \A r \in Runs :
    /\ pc[r] # "idle" => at[r] # NoSession
    /\ pc[r] = "settle" => outcome[r] # "none"
    /\ pc[r] = "inject" => gate[r] # NoGate

\* Only agents open gates, each for its session.
OpenHasSession == \A g \in Gates : decision[g] # "none" => gateSession[g] # NoSession

WaitInv  == TypeOK /\ BusyHasSession /\ HoldsOwnGate /\ WaitsForOwnGate
AgentInv == WaitInv /\ OpenHasSession

\* Every run ends: the loop is bounded, and neither gates nor failing tools
\* keep it going.
RunsEnd == \A r \in Runs : pc[r] # "idle" ~> pc[r] = "idle"

=============================================================================
