------------------------- MODULE AgentSessionsProofs -------------------------
(***************************************************************************)
(* Proofs about PolicyGate and AgentSessions, for any sessions, runs,      *)
(* gates, tools and bounds: the gates keep their promises by themselves,   *)
(* the composition uses them as PolicyGate allows (so every theorem about  *)
(* GateSpec holds of it), its state has its type, a session waits only for *)
(* a gate it opened itself, and its step table holds what its first Agent  *)
(* did but for failed INSERTs.                                             *)
(***************************************************************************)
EXTENDS AgentSessions, SequenceTheorems, FiniteSetTheorems, TLAPS

-----------------------------------------------------------------------------
(* The gate service by itself, for any gates, any number of concurrent     *)
(* decision requests and any bound on them.  GateInv is inductive: that a  *)
(* gate is announced once rests on the guarded UPDATE making one request   *)
(* the owner of the change (ChangedIsFresh, ChangedIsUnique).              *)

\* The part of GateInv about the messages on the bus survives any step that
\* publishes nothing and leaves decided rows alone.
LEMMA BusKeeps ==
  ASSUME GateInv, resolved' \subseteq resolved, announced' = announced,
         \A g \in Gates : decision[g] \in Verdict => decision'[g] = decision[g]
  PROVE  AnnouncedOnce' /\ AnnouncedIsDecided'
<1>1. \A m \in resolved : m.gate \in Gates /\ m.decision = decision[m.gate] /\ m.decision \in Verdict
  BY DEF GateInv, GateTypeOK, Messages, AnnouncedOnce, AnnouncedIsDecided
<1>2. \A m \in resolved' : m.decision = decision'[m.gate] /\ m.decision \in Verdict
  BY <1>1
<1>3. \A g \in Gates : announced'[g] <= 1 /\ (announced'[g] > 0 => decision'[g] \in Verdict)
  BY DEF GateInv, AnnouncedOnce, AnnouncedIsDecided
<1> QED BY <1>2, <1>3 DEF AnnouncedOnce, AnnouncedIsDecided

\* Opening a gate.
LEMMA OpenKeeps == ASSUME NEW g \in Gates, GateInv, OpenGate(g) PROVE GateInv'
<1> USE DEF GateInv, OpenGate, GateOpens
<1>1. GateTypeOK'
  BY DEF GateTypeOK, Decisions
<1>2. \A h \in Gates : decision[h] \in Verdict => decision'[h] = decision[h]
  BY DEF GateTypeOK, Verdict
<1>3. ChangedIsFresh'
  BY DEF ChangedIsFresh, GateTypeOK, Verdict
<1>4. ChangedIsUnique'
  BY DEF ChangedIsUnique
<1> QED BY <1>1, <1>2, <1>3, <1>4, BusKeeps

\* The UPDATE of a decision request.
LEMMA DecideKeeps ==
  ASSUME NEW o \in Deciders, NEW g \in Gates, NEW d \in Verdict, GateInv, Decide(o, g, d)
  PROVE  GateInv'
<1> USE DEF GateInv, Decide
<1>1. GateTypeOK'
  BY GateAssumption DEF GateTypeOK, Decisions, Verdict
<1>2. \A h \in Gates : decision[h] \in Verdict => decision'[h] = decision[h]
  BY DEF GateTypeOK, Verdict
<1>3. ASSUME NEW p \in Deciders, changed'[p]
      PROVE  deciding'[p] # NoGate /\ decision'[deciding'[p]] \in Verdict /\ announced'[deciding'[p]] = 0
  <2>1. CASE p = o
    <3>1. decision[g] = "pending" /\ deciding'[p] = g
      BY <1>3, <2>1 DEF GateTypeOK
    <3>2. decision'[g] = d
      BY <3>1 DEF GateTypeOK
    <3>3. announced[g] = 0
      BY <3>1 DEF AnnouncedIsDecided, GateTypeOK, Verdict
    <3> QED BY <3>1, <3>2, <3>3, GateAssumption
  <2>2. CASE p # o
    <3>1. changed[p] /\ deciding'[p] = deciding[p]
      BY <1>3, <2>2 DEF GateTypeOK
    <3> QED BY <3>1, <1>2 DEF ChangedIsFresh, GateTypeOK
  <2> QED BY <2>1, <2>2
<1>5. ChangedIsFresh'
  BY <1>3 DEF ChangedIsFresh
<1>4. ChangedIsUnique'
  BY DEF ChangedIsUnique, ChangedIsFresh, GateTypeOK, Verdict
<1> QED BY <1>1, <1>2, <1>5, <1>4, BusKeeps

\* The request reads the row back and announces what it changed.
LEMMA RepliesKeeps == ASSUME NEW o \in Deciders, GateInv, DecideReplies(o) PROVE GateInv'
<1> DEFINE g == deciding[o]
<1>0. g \in Gates /\ decision' = decision /\ requests' = requests
  BY DEF GateInv, GateTypeOK, DecideReplies
<1>a. /\ deciding' = [deciding EXCEPT ![o] = NoGate]
      /\ changed' = [changed EXCEPT ![o] = FALSE]
  BY DEF DecideReplies
<1>4. ChangedIsUnique'
  BY <1>a DEF GateInv, GateTypeOK, ChangedIsUnique
<1>1. CASE changed[o]
  <2>1. /\ resolved' = resolved \cup {[gate |-> g, decision |-> decision[g]]}
        /\ announced' = [announced EXCEPT ![g] = @ + 1]
    BY <1>1 DEF DecideReplies, Announces
  <2>2. decision[g] \in Verdict /\ announced[g] = 0
    BY <1>1 DEF GateInv, ChangedIsFresh
  <2>3. GateTypeOK'
    BY <2>1, <1>0, <1>a DEF GateInv, GateTypeOK, Messages
  <2>4. AnnouncedOnce'
    BY <2>1, <2>2, <1>0 DEF GateInv, GateTypeOK, AnnouncedOnce
  <2>5. AnnouncedIsDecided'
    BY <2>1, <2>2, <1>0 DEF GateInv, GateTypeOK, AnnouncedIsDecided
  <2>6. ASSUME NEW p \in Deciders, changed'[p]
        PROVE  deciding'[p] # NoGate /\ decision'[deciding'[p]] \in Verdict /\ announced'[deciding'[p]] = 0
    <3>1. p # o /\ changed[p] /\ deciding'[p] = deciding[p]
      BY <2>6, <1>a DEF GateInv, GateTypeOK
    <3>2. deciding[p] # g
      BY <3>1, <1>1 DEF GateInv, ChangedIsUnique
    <3> QED BY <3>1, <3>2, <2>1, <1>0 DEF GateInv, GateTypeOK, ChangedIsFresh
  <2>7. ChangedIsFresh'
    BY <2>6 DEF ChangedIsFresh
  <2> QED BY <2>3, <2>4, <2>5, <2>7, <1>4 DEF GateInv
<1>2. CASE ~changed[o]
  <2>1. resolved' = resolved /\ announced' = announced
    BY <1>2 DEF DecideReplies, Announces
  <2>2. GateTypeOK'
    BY <2>1, <1>0, <1>a DEF GateInv, GateTypeOK
  <2>3. ChangedIsFresh'
    BY <2>1, <1>0, <1>a DEF GateInv, GateTypeOK, ChangedIsFresh
  <2> QED BY <2>1, <2>2, <2>3, <1>0, <1>4, BusKeeps DEF GateInv
<1> QED BY <1>1, <1>2

\* The request dies after its UPDATE.
LEMMA DiesKeeps == ASSUME NEW o \in Deciders, GateInv, DecideDies(o) PROVE GateInv'
<1> USE DEF GateInv, DecideDies
<1>1. GateTypeOK'
  BY DEF GateTypeOK
<1>2. ChangedIsFresh'
  BY DEF ChangedIsFresh, GateTypeOK
<1>3. ChangedIsUnique'
  BY DEF ChangedIsUnique, GateTypeOK
<1> QED BY <1>1, <1>2, <1>3, BusKeeps

\* A message leaves the bus.
LEMMA DeliverKeeps == ASSUME NEW m \in resolved, GateInv, Deliver(m) PROVE GateInv'
<1> USE DEF GateInv, Deliver
<1>1. GateTypeOK'
  BY DEF GateTypeOK
<1>2. ChangedIsFresh' /\ ChangedIsUnique'
  BY DEF ChangedIsFresh, ChangedIsUnique
<1> QED BY <1>1, <1>2, BusKeeps

LEMMA InitGateInv == ASSUME GateInit PROVE GateInv
BY GateAssumption DEF GateInit, GateInv, GateTypeOK, AnnouncedOnce, ChangedIsFresh,
   ChangedIsUnique, AnnouncedIsDecided, Decisions

LEMMA StutterKeeps == ASSUME GateInv, UNCHANGED gateVars PROVE GateInv'
BY DEF gateVars, GateInv, GateTypeOK, AnnouncedOnce, ChangedIsFresh, ChangedIsUnique,
   AnnouncedIsDecided

LEMMA NextGateInv == ASSUME GateInv, [GateNext]_gateVars PROVE GateInv'
BY OpenKeeps, DecideKeeps, RepliesKeeps, DiesKeeps, DeliverKeeps, StutterKeeps
   DEF GateNext, DeciderNext

\* Every reachable state of the gate table satisfies the inductive invariant.
THEOREM GateInvariant == GateSpec => []GateInv
BY InitGateInv, NextGateInv, PTL DEF GateSpec

\* main.go:181-196: whatever the approvers do at once, a gate's resolution is
\* published at most once and with the decision the table holds.
THEOREM GateAnnouncedOnce == GateSpec => []AnnouncedOnce
<1>1. GateInv => AnnouncedOnce
  BY DEF GateInv
<1> QED BY <1>1, GateInvariant, PTL

\* store.go:93-94: a step of the gate table keeps every decision taken before.
LEMMA DecidedStays ==
  ASSUME GateInv, [GateNext]_gateVars
  PROVE  \A g \in Gates : decision[g] \in Verdict => decision'[g] = decision[g]
<1>1. ASSUME NEW g \in Gates, OpenGate(g)
      PROVE  \A h \in Gates : decision[h] \in Verdict => decision'[h] = decision[h]
  BY <1>1 DEF GateInv, GateTypeOK, OpenGate, GateOpens, Verdict
<1>2. ASSUME NEW o \in Deciders, NEW g \in Gates, NEW d \in Verdict, Decide(o, g, d)
      PROVE  \A h \in Gates : decision[h] \in Verdict => decision'[h] = decision[h]
  BY <1>2 DEF GateInv, GateTypeOK, Decide, Verdict
<1>3. ASSUME NEW o \in Deciders, DecideReplies(o) \/ DecideDies(o)
      PROVE  decision' = decision
  BY <1>3 DEF DecideReplies, DecideDies
<1>4. ASSUME NEW m \in resolved, Deliver(m)
      PROVE  decision' = decision
  BY <1>4 DEF Deliver
<1>5. CASE UNCHANGED gateVars
  BY <1>5 DEF gateVars
<1> QED BY <1>1, <1>2, <1>3, <1>4, <1>5 DEF GateNext, DeciderNext

\* store.go:93-94: the first decision stands, for any number of approvers.
THEOREM GateDecisionIsFinal == GateSpec => DecisionIsFinal
<1>1. GateInv /\ [GateNext]_gateVars
        => [\A g \in Gates : decision[g] \in Verdict => decision'[g] = decision[g]]_gateVars
  BY DecidedStays
<1> QED BY <1>1, GateInvariant, PTL DEF GateSpec, DecisionIsFinal

-----------------------------------------------------------------------------
(* The composition implements the gate service's specification.            *)

\* Every step of the agents, the bus and the approvers is a step of the gate
\* table or leaves it alone.
LEMMA AgentStepIsGateStep == ASSUME [Next]_vars PROVE [GateNext]_gateVars
<1>1. ASSUME NEW r \in Runs, NEW m \in resolved, AutoResume(r, m) PROVE GateNext
  BY <1>1 DEF AutoResume, GateNext
<1>2. ASSUME NEW r \in Runs, NEW g \in Gates, CallGated(r, g) PROVE GateNext
  BY <1>2 DEF CallGated, GatewayOpens, GateNext
<1>3. ASSUME NEW m \in resolved, LoseMessage(m) PROVE GateNext
  BY <1>3 DEF LoseMessage, GateNext
<1>4. ASSUME NEW o \in Deciders, DecisionUntold(o) PROVE GateNext
  BY <1>4 DEF DecisionUntold, GateNext
<1>5. ASSUME NEW r \in Runs, NEW s \in Sessions, Start(r, s) PROVE UNCHANGED gateVars
  BY <1>5 DEF Start
<1>6. ASSUME NEW r \in Runs, NEW s \in Sessions, NEW g \in Gates, ResumeHTTP(r, s, g)
      PROVE UNCHANGED gateVars
  BY <1>6 DEF ResumeHTTP
<1>7. ASSUME NEW r \in Runs, RunStep(r) PROVE [GateNext]_gateVars
  BY <1>2, <1>7 DEF RunStep, Inject, ChatFinal, ChatCalls, Exhausted, Fails, Calls,
                       ToolReturns, AwaitGate, Settle
<1>8. ASSUME NEW r \in Runs, RunFails(r) \/ Disconnect(r)
      PROVE UNCHANGED gateVars
  BY <1>8 DEF RunFails, Fails, Disconnect
<1>9. DeciderNext => GateNext
  BY DEF GateNext
<1>10. UNCHANGED vars => UNCHANGED gateVars
  BY DEF vars
<1> QED BY <1>1, <1>3, <1>4, <1>5, <1>6, <1>7, <1>8, <1>9, <1>10 DEF Next

\* The agents and their transport keep to the contract of policy-gate-service
\* (store.go:37-107): the composition implements GateSpec.
THEOREM AgentsImplementGates == Spec => GateSpec
<1>1. Init => GateInit
  BY DEF Init
<1>2. [Next]_vars => [GateNext]_gateVars
  BY AgentStepIsGateStep
<1> QED BY <1>1, <1>2, PTL DEF Spec, GateSpec

\* What holds of the gates alone holds among running agents:
\* a decided gate keeps its decision and is announced at most once.
THEOREM AgentGatesSound == Spec => [](AnnouncedOnce /\ GateInv) /\ DecisionIsFinal
BY AgentsImplementGates, GateInvariant, GateAnnouncedOnce, GateDecisionIsFinal, PTL

-----------------------------------------------------------------------------
(* Types.                                                                  *)

\* What the starting and the resuming Agents write in a step table.
Writers == {"run", "resume"}

\* A row of an Agent keeps the types of the trail (agent.go:358-363,
\* store.go:80-93), whether its INSERT fails or not.
LEMMA RecordTyped ==
  ASSUME RowsOK, RunningOK, HistoryOK, NEW r \in Runs, at[r] \in Sessions, NEW idx \in Nat,
         NEW f, Record(r, idx, f)
  PROVE  /\ DOMAIN steps' = Sessions
         /\ \A q \in Sessions : \A i \in DOMAIN steps'[q] : i \in Nat /\ steps'[q][i] \in Writers
         /\ ran' \in [Sessions -> Nat]
         /\ unwritten' \in [Sessions -> SUBSET Nat]
<1>1. PICK s \in Sessions : s = at[r]
  OBVIOUS
<1>2. PICK by \in Writers : by = via[r]
  BY DEF RunningOK, Writers
<1>3. ran' \in [Sessions -> Nat]
  BY <1>1 DEF Record, HistoryOK
<1>4. unwritten' \in [Sessions -> SUBSET Nat]
  BY <1>1 DEF Record, HistoryOK
<1>5. CASE steps' = steps
  BY <1>3, <1>4, <1>5 DEF RowsOK, Writers
<1>6. CASE steps' = [steps EXCEPT ![s] = AppendStep(steps[s], idx, by)]
  <2> DEFINE new == AppendStep(steps[s], idx, by)
  <2>1. \A i \in DOMAIN new : i \in Nat /\ new[i] \in Writers
    BY DEF AppendStep, RowsOK, Writers
  <2>2. DOMAIN steps = Sessions
    BY DEF RowsOK
  <2> HIDE DEF new
  <2>3. DOMAIN steps' = Sessions /\ steps'[s] = new /\ \A q \in Sessions \ {s} : steps'[q] = steps[q]
    BY <1>6, <2>2 DEF new
  <2> QED BY <1>3, <1>4, <2>1, <2>3 DEF RowsOK, Writers
<1> QED BY <1>1, <1>2, <1>5, <1>6 DEF Record

\* A session row written with values of their types (or not: store.go:74).
LEMMA RowsTyped ==
  ASSUME RowsOK, NEW s \in Sessions, NEW to \in {"none", "active", "awaiting_gate", "completed", "failed"},
         NEW g \in Gates \cup {NoGate}, NEW f, SetStatus(s, to, g, f)
  PROVE  /\ status' \in [Sessions -> {"none", "active", "awaiting_gate", "completed", "failed"}]
         /\ gateId' \in [Sessions -> Gates \cup {NoGate}]
         /\ gateId'[s] = g \/ gateId'[s] = gateId[s]
         /\ status'[s] = to \/ status'[s] = status[s]
         /\ \A q \in Sessions \ {s} : gateId'[q] = gateId[q] /\ status'[q] = status[q]
BY DEF RowsOK, SetStatus

\* Faults are counted up to their bound.
LEMMA FaultsBounded ==
  ASSUME faults \in 0..MaxFaults, NEW n \in Nat, Faulty(n)
  PROVE  faults' \in 0..MaxFaults
BY AgentAssumption DEF Faulty

\* The tool calls of one answer, taken one by one.
LEMMA AnswersTyped ==
  ASSUME NEW c \in Answers
  PROVE  /\ c # << >>
         /\ Head(c) \in ToolTiers
         /\ Len(c) = 1 => Tail(c) = << >>
         /\ Len(c) # 1 => Tail(c) \in Answers
<1>1. PICK n \in 1..MaxCalls : c \in [1..n -> ToolTiers]
  BY DEF Answers
<1>2. n \in Nat /\ n >= 1 /\ n <= MaxCalls
  BY <1>1, AgentAssumption
<1>3. c \in Seq(ToolTiers) /\ Len(c) = n
  BY <1>1, <1>2
<1>4. c # << >> /\ Head(c) \in ToolTiers
  BY <1>2, <1>3
<1>5. Tail(c) \in Seq(ToolTiers) /\ Len(Tail(c)) = n - 1
  BY <1>2, <1>3, <1>4, HeadTailProperties
<1>6. n = 1 => Tail(c) = << >>
  <2>1. Tail(c) # << >> => Len(Tail(c)) \in Nat \ {0}
    BY <1>5, EmptySeq
  <2> QED BY <1>2, <1>5, <2>1
<1>7. n # 1 => Tail(c) \in Answers
  <2>1. Tail(c) \in [1..(n - 1) -> ToolTiers]
    BY <1>5, LenProperties
  <2>2. n # 1 => n - 1 \in 1..MaxCalls
    BY <1>2, AgentAssumption
  <2> QED BY <2>1, <2>2 DEF Answers
<1> QED BY <1>3, <1>4, <1>6, <1>7

-----------------------------------------------------------------------------
(* WaitInv is inductive.                                                   *)

\* Gates that exist go on existing and stay with the session that opened them,
\* so what WaitInv says of gates survives a step that leaves the rows' gate
\* ids, and what the runs hold, alone.
OwnersStay ==
  \A g \in Gates : decision[g] # "none" =>
    decision'[g] # "none" /\ gateSession'[g] = gateSession[g]

\* Every step leaves the gates that are open with their session.
LEMMA GatesStay == ASSUME TypeOK, [Next]_vars PROVE OwnersStay
<1>1. ASSUME [GateNext]_gateVars PROVE \A g \in Gates : decision[g] # "none" => decision'[g] # "none"
  <2>1. ASSUME NEW g \in Gates, OpenGate(g)
        PROVE  \A h \in Gates : decision[h] # "none" => decision'[h] # "none"
    BY <2>1 DEF TypeOK, GateTypeOK, OpenGate, GateOpens
  <2>2. ASSUME NEW o \in Deciders, NEW g \in Gates, NEW d \in Verdict, Decide(o, g, d)
        PROVE  \A h \in Gates : decision[h] # "none" => decision'[h] # "none"
    BY <2>2 DEF TypeOK, GateTypeOK, Decide, Verdict
  <2>3. ASSUME NEW o \in Deciders, DecideReplies(o) \/ DecideDies(o) PROVE decision' = decision
    BY <2>3 DEF DecideReplies, DecideDies
  <2>4. ASSUME NEW m \in resolved, Deliver(m) PROVE decision' = decision
    BY <2>4 DEF Deliver
  <2>5. CASE UNCHANGED gateVars
    BY <2>5 DEF gateVars
  <2> QED BY <1>1, <2>1, <2>2, <2>3, <2>4, <2>5 DEF GateNext, DeciderNext
<1>2. ASSUME NEW r \in Runs, NEW g \in Gates, CallGated(r, g)
      PROVE  \A h \in Gates : decision[h] # "none" => gateSession'[h] = gateSession[h]
  BY <1>2 DEF CallGated, GatewayOpens, OpenGate, GateOpens, TypeOK, HistoryOK
<1>3. (\E r \in Runs, g \in Gates : CallGated(r, g)) \/ UNCHANGED gateSession
  BY DEF Next, vars, agentVars, rows, running, Start, ResumeHTTP, ResumesWith, AutoResume, RunStep,
         Inject, Returns, Fails, ChatFinal, ChatCalls, Exhausted, RunFails, Calls, ToolReturns, AwaitGate,
         Settle, Disconnect, LoseMessage, DecisionUntold
<1> QED BY <1>1, <1>2, <1>3, AgentStepIsGateStep DEF OwnersStay

\* What a step on run r has to keep of what the runs hold: the other runs are
\* untouched, so only r is looked at.
OthersStay(r) ==
  \A q \in Runs \ {r} :
    /\ pc'[q] = pc[q] /\ at'[q] = at[q] /\ gate'[q] = gate[q]
    /\ outcome'[q] = outcome[q] /\ calls'[q] = calls[q]

\* The state parts a step of run r leaves for the last argument.
LEMMA RunKeeps ==
  ASSUME NEW r \in Runs, WaitInv, OthersStay(r), OwnersStay,
         RowsOK', RunningOK', HistoryOK', GateTypeOK', DOMAIN calls' = Runs,
         calls'[r] \in Answers \cup {<< >>}, pc'[r] \in {"calls", "tool", "gating"} => calls'[r] # << >>,
         pc'[r] # "idle" => at'[r] # NoSession,
         pc'[r] = "settle" => outcome'[r] # "none",
         pc'[r] = "inject" => gate'[r] # NoGate,
         pc'[r] = "opened" \/ (pc'[r] = "settle" /\ outcome'[r] = "awaiting_gate") =>
           gate'[r] # NoGate /\ gateSession'[gate'[r]] = at'[r] /\ decision'[gate'[r]] # "none",
         \A s \in Sessions : gateId'[s] = gateId[s] \/ gateId'[s] = NoGate \/
           (gateId'[s] # NoGate /\ gateSession'[gateId'[s]] = s /\ decision'[gateId'[s]] # "none")
  PROVE  WaitInv'
<1>1. CallsOK'
  BY DEF WaitInv, TypeOK, CallsOK, OthersStay
<1>2. BusyHasSession'
  BY DEF WaitInv, BusyHasSession, OthersStay
<1>3. HoldsOwnGate'
  <2> SUFFICES ASSUME NEW q \in Runs, q # r,
                      pc'[q] = "opened" \/ (pc'[q] = "settle" /\ outcome'[q] = "awaiting_gate")
               PROVE  gate'[q] # NoGate /\ gateSession'[gate'[q]] = at'[q] /\ decision'[gate'[q]] # "none"
    BY DEF HoldsOwnGate
  <2>1. gate[q] # NoGate /\ gateSession[gate[q]] = at[q] /\ decision[gate[q]] # "none" /\ gate[q] \in Gates
    BY DEF WaitInv, HoldsOwnGate, OthersStay, TypeOK, RunningOK
  <2> QED BY <2>1 DEF OthersStay, OwnersStay
<1>4. WaitsForOwnGate'
  <2> SUFFICES ASSUME NEW s \in Sessions, gateId'[s] = gateId[s], gateId[s] # NoGate
               PROVE  gateSession'[gateId[s]] = s /\ decision'[gateId[s]] # "none"
    BY DEF WaitsForOwnGate
  <2>1. gateId[s] \in Gates
    BY DEF WaitInv, TypeOK, RowsOK
  <2> QED BY <2>1 DEF WaitInv, WaitsForOwnGate, OwnersStay
<1> QED BY <1>1, <1>2, <1>3, <1>4 DEF WaitInv, TypeOK

\* A run writes a row and goes on: the gate's resolution, a tool call, a tool's
\* result (agent.go:230-246,286-293,320-340).
LEMMA RowKeeps ==
  ASSUME NEW r \in Runs, WaitInv, GateTypeOK', OwnersStay, pc[r] \in {"inject", "calls", "tool"},
         NEW f, f \in 0..1, Recorded(r, f), Faulty(f), UNCHANGED <<status, gateId, gateSession, at, via, gate, outcome>>,
         NEW to, to \in {"chat", "calls", "tool", "gating"}, pc' = [pc EXCEPT ![r] = to],
         NEW c, c \in Answers \cup {<< >>}, DOMAIN calls' = Runs, calls'[r] = c,
         \A q \in Runs \ {r} : calls'[q] = calls[q],
         to \in {"calls", "tool", "gating"} => c # << >>
  PROVE  WaitInv'
<1>1. at[r] \in Sessions /\ nstep[r] \in Nat /\ RowsOK /\ RunningOK /\ HistoryOK
  BY DEF WaitInv, BusyHasSession, TypeOK, RunningOK
<1>2. Record(r, nstep[r], f)
  BY DEF Recorded
<1>3. faults' \in 0..MaxFaults
  <2>1. f \in Nat /\ faults \in 0..MaxFaults
    BY <1>1 DEF HistoryOK
  <2> QED BY <2>1, FaultsBounded
<1>4. RowsOK' /\ HistoryOK'
  <2>1. /\ DOMAIN steps' = Sessions
        /\ \A q \in Sessions : \A i \in DOMAIN steps'[q] : i \in Nat /\ steps'[q][i] \in Writers
        /\ ran' \in [Sessions -> Nat]
        /\ unwritten' \in [Sessions -> SUBSET Nat]
    BY <1>1, <1>2, RecordTyped
  <2> QED BY <1>1, <1>3, <2>1 DEF RowsOK, HistoryOK, Writers
<1>5. RunningOK' /\ OthersStay(r) /\ DOMAIN calls' = Runs /\ calls'[r] = c
  BY <1>1 DEF WaitInv, TypeOK, RunningOK, CallsOK, OthersStay, Recorded, Advanced
<1>6. pc'[r] = to /\ at'[r] = at[r]
  BY <1>1 DEF RunningOK
<1> QED BY <1>1, <1>4, <1>5, <1>6, RunKeeps, AgentAssumption

LEMMA InjectKeeps ==
  ASSUME NEW r \in Runs, WaitInv, GateTypeOK', OwnersStay, Inject(r)
  PROVE  WaitInv'
<1>1. PICK f \in 0..1 : Recorded(r, f) /\ Faulty(f)
  BY DEF Inject
<1>2. calls' = calls /\ DOMAIN calls = Runs /\ calls[r] \in Answers \cup {<< >>}
  BY DEF Inject, WaitInv, TypeOK, CallsOK
<1> QED BY <1>1, <1>2, RowKeeps DEF Inject

LEMMA CallsKeeps ==
  ASSUME NEW r \in Runs, WaitInv, GateTypeOK', OwnersStay, Calls(r)
  PROVE  WaitInv'
<1>1. PICK f \in 0..1 : Recorded(r, f) /\ Faulty(f)
  BY DEF Calls
<1>2. calls' = calls /\ DOMAIN calls = Runs /\ calls[r] \in Answers \cup {<< >>} /\ calls[r] # << >>
  BY DEF Calls, WaitInv, TypeOK, CallsOK
<1>3. PICK to \in {"tool", "gating"} : pc' = [pc EXCEPT ![r] = to]
  BY DEF Calls
<1> QED BY <1>1, <1>2, <1>3, RowKeeps DEF Calls

LEMMA ToolKeeps ==
  ASSUME NEW r \in Runs, WaitInv, GateTypeOK', OwnersStay, ToolReturns(r)
  PROVE  WaitInv'
<1>1. PICK f \in 0..1 : Recorded(r, f) /\ Faulty(f)
  BY DEF ToolReturns
<1>2. /\ DOMAIN calls' = Runs /\ calls'[r] = Tail(calls[r]) /\ calls[r] \in Answers
      /\ \A q \in Runs \ {r} : calls'[q] = calls[q]
  BY DEF ToolReturns, WaitInv, TypeOK, CallsOK
<1>3. /\ Tail(calls[r]) \in Answers \cup {<< >>}
      /\ AfterCall(r) \in {"chat", "calls"}
      /\ AfterCall(r) = "calls" => Tail(calls[r]) # << >>
  BY <1>2, AnswersTyped DEF AfterCall
<1>4. PICK to \in {"chat", "calls"}, c \in Answers \cup {<< >>} :
         /\ pc' = [pc EXCEPT ![r] = to]
         /\ c = Tail(calls[r]) /\ (to = "calls" => c # << >>)
  BY <1>3 DEF ToolReturns
<1>5. /\ DOMAIN calls' = Runs /\ calls'[r] = c /\ \A q \in Runs \ {r} : calls'[q] = calls[q]
      /\ to \in {"calls", "tool", "gating"} => c # << >>
  BY <1>2, <1>4
<1>6. pc[r] = "tool" /\ UNCHANGED <<status, gateId, gateSession, at, via, gate, outcome>>
  BY DEF ToolReturns
<1> QED BY <1>1, <1>4, <1>5, <1>6, RowKeeps

\* A run returns from its loop: Agent.fail, the final answer, or a gate to wait
\* for (agent.go:262-279,307-319,345-363).
LEMMA ReturnsKeeps ==
  ASSUME NEW r \in Runs, NEW to \in {"completed", "failed", "awaiting_gate"}, NEW f, NEW h,
         WaitInv, GateTypeOK', OwnersStay, pc[r] # "idle", to = "awaiting_gate" => pc[r] = "opened",
         Record(r, nstep[r], f), Returns(r, to, h), nstep' \in [Runs -> Nat], faults' \in 0..MaxFaults
  PROVE  WaitInv'
<1>1. at[r] \in Sessions /\ nstep[r] \in Nat /\ RowsOK /\ RunningOK /\ HistoryOK
  BY DEF WaitInv, BusyHasSession, TypeOK, RunningOK
<1>2. /\ DOMAIN steps' = Sessions
      /\ \A q \in Sessions : \A i \in DOMAIN steps'[q] : i \in Nat /\ steps'[q][i] \in Writers
      /\ ran' \in [Sessions -> Nat]
      /\ unwritten' \in [Sessions -> SUBSET Nat]
  BY <1>1, RecordTyped
<1>3. SetStatus(at[r], to, NoGate, h)
  BY DEF Returns
<1>s. PICK s \in Sessions : s = at[r]
  BY <1>1
<1>t. SetStatus(s, to, NoGate, h)
  BY <1>3, <1>s
<1>4. /\ status' \in [Sessions -> {"none", "active", "awaiting_gate", "completed", "failed"}]
      /\ gateId' \in [Sessions -> Gates \cup {NoGate}]
      /\ \A q \in Sessions : gateId'[q] = gateId[q] \/ gateId'[q] = NoGate
  BY <1>1, <1>t, RowsTyped
<1>5. RowsOK' /\ HistoryOK'
  BY <1>1, <1>2, <1>4 DEF RowsOK, HistoryOK, Writers, Returns
<1>6. RunningOK' /\ OthersStay(r) /\ DOMAIN calls' = Runs /\ calls'[r] = << >>
  BY DEF WaitInv, TypeOK, RunningOK, CallsOK, OthersStay, Returns
<1>7. pc'[r] = "settle" /\ outcome'[r] = to /\ at'[r] = at[r] /\ gate'[r] = gate[r]
  BY DEF WaitInv, TypeOK, RunningOK, Returns
<1>8. to = "awaiting_gate" =>
        gateSession'[gate[r]] = at[r] /\ decision'[gate[r]] # "none" /\ gate[r] # NoGate
  BY <1>1 DEF WaitInv, HoldsOwnGate, OwnersStay, RunningOK
<1> QED BY <1>1, <1>4, <1>5, <1>6, <1>7, <1>8, RunKeeps, AgentAssumption

\* A failed run leaves a final row and a status.
LEMMA FailsKeeps ==
  ASSUME NEW r \in Runs, WaitInv, GateTypeOK', OwnersStay, pc[r] # "idle", NEW n \in Nat, Fails(r, n)
  PROVE  WaitInv'
<1>1. PICK f, h \in 0..1 : Record(r, nstep[r], f) /\ Returns(r, "failed", h) /\ Faulty(n + f + h)
  BY DEF Fails
<1>2. n + f + h \in Nat /\ faults \in 0..MaxFaults /\ nstep' \in [Runs -> Nat]
  BY DEF Fails, WaitInv, TypeOK, RunningOK, HistoryOK
<1>3. faults' \in 0..MaxFaults
  BY <1>1, <1>2, FaultsBounded
<1> QED BY <1>1, <1>2, <1>3, ReturnsKeeps

\* A gated call opens its gate (agent.go:294-307).
LEMMA CallGatedKeeps ==
  ASSUME NEW r \in Runs, NEW g \in Gates, WaitInv, GateTypeOK', OwnersStay, CallGated(r, g)
  PROVE  WaitInv'
<1>1. at[r] \in Sessions /\ pc[r] = "gating"
  BY DEF WaitInv, BusyHasSession, TypeOK, RunningOK, CallGated
<1>2. RowsOK' /\ gateId' = gateId
  BY DEF WaitInv, TypeOK, RowsOK, CallGated, rows
<1>3. RunningOK' /\ HistoryOK' /\ OthersStay(r) /\ DOMAIN calls' = Runs /\ calls'[r] = << >>
  BY <1>1 DEF WaitInv, TypeOK, RunningOK, HistoryOK, CallsOK, OthersStay, CallGated, GatewayOpens, trail
<1>4. pc'[r] = "opened" /\ at'[r] = at[r] /\ gate'[r] = g
  BY DEF WaitInv, TypeOK, RunningOK, CallGated
<1>5. gateSession'[g] = at[r] /\ decision'[g] # "none"
  BY DEF WaitInv, TypeOK, GateTypeOK, HistoryOK, CallGated, GatewayOpens, OpenGate, GateOpens
<1> QED BY <1>1, <1>2, <1>3, <1>4, <1>5, RunKeeps, AgentAssumption, GateAssumption

\* gate_requested and the status (agent.go:307-319).
LEMMA AwaitKeeps ==
  ASSUME NEW r \in Runs, WaitInv, GateTypeOK', OwnersStay, AwaitGate(r)
  PROVE  WaitInv'
<1>1. PICK f, h \in 0..1 : Recorded(r, f) /\ Returns(r, "awaiting_gate", h) /\ Faulty(f + h)
  BY DEF AwaitGate
<1>2. /\ f + h \in Nat /\ faults \in 0..MaxFaults /\ nstep' \in [Runs -> Nat]
      /\ Record(r, nstep[r], f) /\ pc[r] = "opened"
  BY <1>1 DEF AwaitGate, Recorded, Advanced, WaitInv, TypeOK, RunningOK, HistoryOK
<1>3. faults' \in 0..MaxFaults
  BY <1>1, <1>2, FaultsBounded
<1> QED BY <1>1, <1>2, <1>3, ReturnsKeeps

\* A run that is gone leaves nothing behind but what it stored.
LEMMA GoneKeeps ==
  ASSUME NEW r \in Runs, WaitInv, GateTypeOK', OwnersStay, RunGone(r), RowsOK', HistoryOK',
         \A s \in Sessions : gateId'[s] = gateId[s] \/ gateId'[s] = NoGate \/
           (gateId'[s] # NoGate /\ gateSession'[gateId'[s]] = s /\ decision'[gateId'[s]] # "none")
  PROVE  WaitInv'
<1>1. RunningOK' /\ OthersStay(r) /\ DOMAIN calls' = Runs /\ calls'[r] = << >> /\ pc'[r] = "idle"
  BY DEF WaitInv, TypeOK, RunningOK, CallsOK, OthersStay, RunGone
<1> QED BY <1>1, RunKeeps

\* Back in the handler (main.go:222-229,301-316).
LEMMA SettleKeeps ==
  ASSUME NEW r \in Runs, WaitInv, GateTypeOK', OwnersStay, Settle(r)
  PROVE  WaitInv'
<1>1. /\ at[r] \in Sessions /\ RowsOK /\ HistoryOK /\ gate[r] \in Gates \cup {NoGate}
      /\ outcome[r] \in {"completed", "failed", "awaiting_gate"}
  BY DEF WaitInv, BusyHasSession, TypeOK, RunningOK, Settle
<1>2. RunGone(r) /\ steps' = steps /\ ran' = ran /\ unwritten' = unwritten /\ gateSession' = gateSession
  BY DEF Settle, trail
<1>3. CASE UNCHANGED <<status, gateId, faults>>
  <2>1. RowsOK' /\ HistoryOK' /\ gateId' = gateId
    BY <1>1, <1>2, <1>3 DEF RowsOK, HistoryOK
  <2> QED BY <1>2, <2>1, GoneKeeps
<1>4. ASSUME NEW f \in 0..1, NEW g, g = (IF via[r] = "run" THEN gate[r] ELSE NoGate),
             SetStatus(at[r], outcome[r], g, f), Faulty(f), via[r] = "run" => outcome[r] = "awaiting_gate"
      PROVE  WaitInv'
  <2>1. g \in Gates \cup {NoGate}
    BY <1>1, <1>4
  <2>s. PICK s \in Sessions, to \in {"completed", "failed", "awaiting_gate"} : s = at[r] /\ to = outcome[r]
    BY <1>1
  <2>t. SetStatus(s, to, g, f)
    BY <1>4, <2>s
  <2>2. /\ status' \in [Sessions -> {"none", "active", "awaiting_gate", "completed", "failed"}]
        /\ gateId' \in [Sessions -> Gates \cup {NoGate}]
        /\ gateId'[at[r]] = g \/ gateId'[at[r]] = gateId[at[r]]
        /\ \A q \in Sessions \ {at[r]} : gateId'[q] = gateId[q]
    <3>1. RowsOK /\ to \in {"none", "active", "awaiting_gate", "completed", "failed"}
      BY <1>1
    <3>2. /\ status' \in [Sessions -> {"none", "active", "awaiting_gate", "completed", "failed"}]
          /\ gateId' \in [Sessions -> Gates \cup {NoGate}]
          /\ gateId'[s] = g \/ gateId'[s] = gateId[s]
          /\ \A q \in Sessions \ {s} : gateId'[q] = gateId[q] /\ status'[q] = status[q]
      BY <2>1, <2>t, <3>1, RowsTyped
    <3> QED BY <2>s, <3>2
  <2>3. faults' \in 0..MaxFaults
    <3>1. f \in Nat /\ faults \in 0..MaxFaults
      BY <1>1 DEF HistoryOK
    <3> QED BY <1>4, <3>1, FaultsBounded
  <2>4. RowsOK' /\ HistoryOK'
    BY <1>1, <1>2, <2>2, <2>3 DEF RowsOK, HistoryOK
  <2>5. g # NoGate => gateSession'[g] = at[r] /\ decision'[g] # "none"
    <3>1. g # NoGate => g = gate[r] /\ g \in Gates /\ gateSession[g] = at[r] /\ decision[g] # "none"
      BY <1>1, <1>4 DEF WaitInv, HoldsOwnGate, Settle
    <3> QED BY <3>1 DEF OwnersStay
  <2>6. \A q \in Sessions : gateId'[q] = gateId[q] \/ gateId'[q] = NoGate \/
           (gateId'[q] # NoGate /\ gateSession'[gateId'[q]] = q /\ decision'[gateId'[q]] # "none")
    BY <2>2, <2>5
  <2> QED BY <1>2, <2>4, <2>6, GoneKeeps
<1> QED BY <1>3, <1>4 DEF Settle

\* POST /v1/agents/sessions (main.go:175-222).
LEMMA StartKeeps ==
  ASSUME NEW r \in Runs, NEW s \in Sessions, WaitInv, GateTypeOK', OwnersStay, Start(r, s)
  PROVE  WaitInv'
<1>1. RowsOK' /\ \A q \in Sessions : gateId'[q] = gateId[q] \/ gateId'[q] = NoGate
  BY DEF WaitInv, TypeOK, Start, RowsOK, trail
<1>2. RunningOK' /\ HistoryOK' /\ OthersStay(r) /\ calls' = calls
  BY DEF WaitInv, TypeOK, RunningOK, HistoryOK, OthersStay, Start, trail
<1>3. pc'[r] = "chat" /\ at'[r] = s
  BY DEF WaitInv, TypeOK, RunningOK, Start
<1>4. DOMAIN calls' = Runs /\ calls'[r] \in Answers \cup {<< >>}
  BY <1>2 DEF WaitInv, TypeOK, CallsOK
<1> QED BY <1>1, <1>2, <1>3, <1>4, RunKeeps, AgentAssumption

\* A resume, by HTTP or by the bus (main.go:268-301,354-413).
LEMMA ResumeKeeps ==
  ASSUME NEW r \in Runs, NEW s \in Sessions, NEW g \in Gates, WaitInv, GateTypeOK', OwnersStay,
         ResumesWith(r, s, g)
  PROVE  WaitInv'
<1>1. RowsOK' /\ gateId' = gateId
  BY DEF WaitInv, TypeOK, RowsOK, ResumesWith, rows
<1>2. RunningOK' /\ HistoryOK' /\ OthersStay(r) /\ calls' = calls
  BY DEF WaitInv, TypeOK, RunningOK, HistoryOK, OthersStay, ResumesWith, trail
<1>3. pc'[r] = "inject" /\ at'[r] = s /\ gate'[r] = g
  BY DEF WaitInv, TypeOK, RunningOK, ResumesWith
<1>4. DOMAIN calls' = Runs /\ calls'[r] \in Answers \cup {<< >>}
  BY <1>2 DEF WaitInv, TypeOK, CallsOK
<1> QED BY <1>1, <1>2, <1>3, <1>4, RunKeeps, AgentAssumption, GateAssumption

\* A step that writes neither rows nor runs.
LEMMA GateStepKeeps ==
  ASSUME WaitInv, GateTypeOK', OwnersStay, UNCHANGED <<rows, trail, gateSession, running>>,
         faults' \in 0..MaxFaults
  PROVE  WaitInv'
<1>1. RowsOK' /\ RunningOK' /\ CallsOK' /\ HistoryOK'
  BY DEF WaitInv, TypeOK, RowsOK, RunningOK, CallsOK, HistoryOK, rows, running, trail
<1>2. BusyHasSession'
  BY DEF WaitInv, BusyHasSession, running
<1>3. HoldsOwnGate'
  BY DEF WaitInv, HoldsOwnGate, OwnersStay, TypeOK, RunningOK, running
<1>4. WaitsForOwnGate'
  BY DEF WaitInv, WaitsForOwnGate, OwnersStay, TypeOK, RowsOK, rows
<1> QED BY <1>1, <1>2, <1>3, <1>4 DEF WaitInv, TypeOK

\* The answer of the LLM, or the end of the budget (agent.go:248-281,342).
LEMMA ChatKeeps ==
  ASSUME NEW r \in Runs, WaitInv, GateTypeOK', OwnersStay,
         ChatFinal(r) \/ Exhausted(r) \/ RunFails(r) \/ \E answer \in Answers : ChatCalls(r, answer)
  PROVE  WaitInv'
<1>1. pc[r] # "idle" /\ at[r] \in Sessions
  BY DEF WaitInv, BusyHasSession, TypeOK, RunningOK, ChatFinal, Exhausted, RunFails, ChatCalls
<1>2. CASE ChatFinal(r)
  <2>1. PICK f, h \in 0..1 : Recorded(r, f) /\ Returns(r, "completed", h) /\ Faulty(f + h)
    BY <1>2 DEF ChatFinal
  <2>2. /\ f + h \in Nat /\ faults \in 0..MaxFaults /\ nstep' \in [Runs -> Nat]
        /\ Record(r, nstep[r], f)
    BY <2>1 DEF Recorded, Advanced, WaitInv, TypeOK, RunningOK, HistoryOK
  <2>3. faults' \in 0..MaxFaults
    BY <2>1, <2>2, FaultsBounded
  <2> QED BY <1>1, <2>1, <2>2, <2>3, ReturnsKeeps
<1>3. CASE Exhausted(r)
  BY <1>1, <1>3, FailsKeeps DEF Exhausted
<1>4. CASE RunFails(r)
  BY <1>1, <1>4, FailsKeeps DEF RunFails
<1>5. ASSUME NEW answer \in Answers, ChatCalls(r, answer) PROVE WaitInv'
  <2>1. RowsOK' /\ RunningOK' /\ HistoryOK' /\ OthersStay(r) /\ gateId' = gateId
    BY <1>5 DEF WaitInv, TypeOK, RowsOK, RunningOK, HistoryOK, CallsOK, OthersStay, ChatCalls, rows, trail
  <2>2. pc'[r] = "calls" /\ calls'[r] = answer /\ at'[r] = at[r] /\ DOMAIN calls' = Runs
    BY <1>5 DEF WaitInv, TypeOK, RunningOK, CallsOK, ChatCalls
  <2> QED BY <1>1, <2>1, <2>2, AnswersTyped, RunKeeps, AgentAssumption
<1> QED BY <1>2, <1>3, <1>4, <1>5

\* A gate is open only for a session: only CallGated opens one.
LEMMA OpenForSession == ASSUME AgentInv, [Next]_vars PROVE OpenHasSession'
<1>1. ASSUME NEW r \in Runs, NEW g \in Gates, CallGated(r, g) PROVE OpenHasSession'
  <2>1. at[r] # NoSession
    BY <1>1 DEF AgentInv, WaitInv, BusyHasSession, CallGated
  <2> QED BY <1>1, <2>1 DEF AgentInv, WaitInv, TypeOK, HistoryOK, GateTypeOK, OpenHasSession,
                            CallGated, GatewayOpens, OpenGate, GateOpens
<1>2. ASSUME UNCHANGED gateSession, \A g \in Gates : decision[g] = "none" => decision'[g] = "none"
      PROVE  OpenHasSession'
  BY <1>2 DEF AgentInv, OpenHasSession
<1>3. ASSUME UNCHANGED gateVars, UNCHANGED gateSession PROVE OpenHasSession'
  BY <1>2, <1>3 DEF gateVars
<1>4. ASSUME NEW o \in Deciders, NEW g \in Gates, NEW d \in Verdict, Decide(o, g, d), UNCHANGED gateSession
      PROVE  OpenHasSession'
  <2>1. \A h \in Gates : decision[h] = "none" => decision'[h] = "none"
    BY <1>4 DEF AgentInv, WaitInv, TypeOK, GateTypeOK, Decide
  <2> QED BY <1>2, <1>4, <2>1
<1>5. ASSUME NEW o \in Deciders, DecideReplies(o) \/ DecideDies(o), UNCHANGED gateSession
      PROVE  OpenHasSession'
  BY <1>2, <1>5 DEF DecideReplies, DecideDies
<1>6. ASSUME NEW m, Deliver(m), UNCHANGED gateSession PROVE OpenHasSession'
  BY <1>2, <1>6 DEF Deliver
<1>7. ASSUME NEW r \in Runs, NEW m, AutoResume(r, m) PROVE OpenHasSession'
  <2>1. Deliver(m) /\ UNCHANGED gateSession
    BY <1>7 DEF AutoResume, ResumesWith, agentVars
  <2> QED BY <1>6, <2>1
<1>8. ASSUME NEW r \in Runs, RunStep(r) PROVE OpenHasSession'
  <2>1. (\E g \in Gates : CallGated(r, g)) \/ (UNCHANGED gateVars /\ UNCHANGED gateSession)
    BY <1>8 DEF RunStep, Inject, ChatFinal, Exhausted, Fails, Returns, ChatCalls, Calls, ToolReturns,
                     AwaitGate, Settle
  <2> QED BY <1>1, <1>3, <2>1
<1>9. ASSUME NEW r \in Runs, RunFails(r) \/ Disconnect(r) PROVE OpenHasSession'
  BY <1>3, <1>9 DEF RunFails, Fails, Returns, Disconnect
<1>10. ASSUME NEW r \in Runs, NEW s \in Sessions, Start(r, s) PROVE OpenHasSession'
  BY <1>3, <1>10 DEF Start
<1>11. ASSUME NEW r \in Runs, NEW s \in Sessions, NEW g \in Gates, ResumeHTTP(r, s, g)
       PROVE OpenHasSession'
  BY <1>3, <1>11 DEF ResumeHTTP, ResumesWith
<1>12. ASSUME NEW m, LoseMessage(m) PROVE OpenHasSession'
  BY <1>6, <1>12 DEF LoseMessage
<1>13. ASSUME NEW o \in Deciders, DecisionUntold(o) PROVE OpenHasSession'
  BY <1>5, <1>13 DEF DecisionUntold
<1>14. ASSUME DeciderNext, UNCHANGED agentVars PROVE OpenHasSession'
  BY <1>4, <1>5, <1>14 DEF DeciderNext, agentVars
<1>15. ASSUME UNCHANGED vars PROVE OpenHasSession'
  BY <1>3, <1>15 DEF vars, agentVars
<1> QED BY <1>7, <1>8, <1>9, <1>10, <1>11, <1>12, <1>13, <1>14, <1>15 DEF Next

\* Every step keeps AgentInv.
LEMMA AgentInvStep == ASSUME AgentInv, GateInv, GateInv', [Next]_vars PROVE AgentInv'
<1> USE DEF AgentInv
<1>1. GateTypeOK' /\ OwnersStay /\ faults \in 0..MaxFaults
  BY GatesStay DEF GateInv, WaitInv, TypeOK, HistoryOK
<1>2. ASSUME NEW r \in Runs, NEW s \in Sessions, Start(r, s) PROVE WaitInv'
  BY <1>1, <1>2, StartKeeps
<1>3. ASSUME NEW r \in Runs, NEW s \in Sessions, NEW g \in Gates, ResumeHTTP(r, s, g) PROVE WaitInv'
  BY <1>1, <1>3, ResumeKeeps DEF ResumeHTTP
<1>4. ASSUME NEW r \in Runs, NEW m \in resolved, AutoResume(r, m) PROVE WaitInv'
  <2>1. m.gate \in Gates /\ decision[m.gate] # "none"
    BY DEF GateInv, AnnouncedOnce, AnnouncedIsDecided, GateTypeOK, Messages, Verdict
  <2>2. gateSession[m.gate] \in Sessions
    BY <2>1 DEF WaitInv, TypeOK, HistoryOK, OpenHasSession
  <2>3. CASE ResumesWith(r, gateSession[m.gate], m.gate)
    BY <1>1, <2>1, <2>2, <2>3, ResumeKeeps
  <2>4. CASE UNCHANGED agentVars
    BY <1>1, <2>4, GateStepKeeps DEF agentVars, rows, trail
  <2> QED BY <1>4, <2>3, <2>4 DEF AutoResume
<1>5. ASSUME NEW r \in Runs, RunStep(r) PROVE WaitInv'
  BY <1>1, <1>5, InjectKeeps, ChatKeeps, CallsKeeps, ToolKeeps, CallGatedKeeps, AwaitKeeps, SettleKeeps DEF RunStep
<1>6. ASSUME NEW r \in Runs, RunFails(r) PROVE WaitInv'
  BY <1>1, <1>6, ChatKeeps
<1>7. ASSUME Faulty(1) PROVE faults' \in 0..MaxFaults
  BY <1>1, <1>7, FaultsBounded
<1>8. ASSUME NEW r \in Runs, Disconnect(r) PROVE WaitInv'
  <2>1. RowsOK' /\ HistoryOK' /\ gateId' = gateId
    BY <1>7, <1>8 DEF WaitInv, TypeOK, RowsOK, HistoryOK, Disconnect, rows, trail
  <2> QED BY <1>1, <1>8, <2>1, GoneKeeps DEF Disconnect
<1>9. ASSUME NEW m, LoseMessage(m) PROVE WaitInv'
  BY <1>1, <1>7, <1>9, GateStepKeeps DEF LoseMessage
<1>10. ASSUME NEW o, DecisionUntold(o) PROVE WaitInv'
  BY <1>1, <1>7, <1>10, GateStepKeeps DEF DecisionUntold
<1>11. ASSUME UNCHANGED agentVars PROVE WaitInv'
  BY <1>1, <1>11, GateStepKeeps DEF agentVars, rows, trail
<1>12. UNCHANGED vars => UNCHANGED agentVars
  BY DEF vars
<1> QED BY <1>2, <1>3, <1>4, <1>5, <1>6, <1>8, <1>9, <1>10, <1>11, <1>12, OpenForSession DEF Next

\* The inductive invariant of the composition, for every instance.
THEOREM AgentInvariant == Spec => []AgentInv
<1>1. Init => AgentInv
  <2> SUFFICES ASSUME Init PROVE AgentInv
    OBVIOUS
  <2>1. GateTypeOK
    BY GateAssumption DEF Init, GateInit, GateTypeOK, Decisions
  <2>2. RowsOK
    BY DEF Init, RowsOK
  <2>3. RunningOK /\ CallsOK /\ BusyHasSession /\ HoldsOwnGate
    BY DEF Init, RunningOK, CallsOK, BusyHasSession, HoldsOwnGate
  <2>4. HistoryOK
    BY AgentAssumption DEF Init, HistoryOK
  <2>5. WaitsForOwnGate /\ OpenHasSession
    BY DEF Init, GateInit, WaitsForOwnGate, OpenHasSession
  <2> QED BY <2>1, <2>2, <2>3, <2>4, <2>5 DEF AgentInv, WaitInv, TypeOK
<1>2. AgentInv /\ GateInv /\ GateInv' /\ [Next]_vars => AgentInv'
  BY AgentInvStep
<1> QED BY <1>1, <1>2, AgentGatesSound, PTL DEF Spec

\* Every reachable state of sessions, runs and gates has its type.
THEOREM AgentTypeCorrect == Spec => []TypeOK
<1>1. AgentInv => TypeOK
  BY DEF AgentInv, WaitInv
<1> QED BY <1>1, AgentInvariant, PTL

\* main.go:227, main.go:395: whichever runs and resumes are in flight, the gate
\* a session's row names was opened by that session.
THEOREM SessionsWaitForOwnGate == Spec => []WaitsForOwnGate
<1>1. AgentInv => WaitsForOwnGate
  BY DEF AgentInv, WaitInv
<1> QED BY <1>1, AgentInvariant, PTL

-----------------------------------------------------------------------------
(* StepsAreAccountedFor.  Numbers have no gaps but those of failed INSERTs *)
(* because a run only writes where it has been: every number below its     *)
(* counter is taken, by itself or by another run of the session, or was    *)
(* lost (RunInOrder).  The counter is bounded because the budget is looked *)
(* at before an answer, and an answer's calls are few.  The Agent that     *)
(* started a session keeps its rows because it is alone until it has       *)
(* returned: until then the session's row names no gate, so nobody can     *)
(* resume it (FirstAlone); afterwards the key protects them.               *)

Gapless == \A s \in Sessions : \E n \in Nat : Accounted(s) = 0 .. n - 1

\* The rows of the starting Agent, but those whose INSERT failed.
FirstKept(s) ==
  \A i \in (0 .. ran[s] - 1) \ unwritten[s] : i \in DOMAIN steps[s] /\ steps[s][i] = "run"

RunInOrder(r) ==
  /\ pc[r] # "idle" => 0 .. nstep[r] - 1 \subseteq Accounted(at[r])
  /\ pc[r] \in {"idle", "inject"} => nstep[r] = 0
  /\ nstep[r] <= MaxSteps - 1 + 2 * MaxCalls
  /\ pc[r] = "calls" => nstep[r] <= MaxSteps - 1 + 2 * (MaxCalls - Len(calls[r]))
  /\ pc[r] \in {"tool", "gating"} => nstep[r] <= MaxSteps + 2 * (MaxCalls - Len(calls[r]))
  /\ pc[r] = "opened" => nstep[r] < MaxSteps - 1 + 2 * MaxCalls

FirstAlone(r) ==
  pc[r] # "idle" /\ via[r] = "run" =>
    /\ gateId[at[r]] = NoGate
    /\ \A q \in Runs \ {r} : at[q] # at[r]
    /\ pc[r] # "settle" => nstep[r] = ran[at[r]] /\ DOMAIN steps[at[r]] \subseteq 0 .. ran[at[r]] - 1

Unstarted(s) ==
  status[s] = "none" =>
    gateId[s] = NoGate /\ ran[s] = 0 /\ DOMAIN steps[s] = {} /\ \A q \in Runs : at[q] # s

IdleNowhere == \A r \in Runs : pc[r] = "idle" => at[r] = NoSession

TrailInv ==
  /\ Gapless
  /\ IdleNowhere
  /\ \A s \in Sessions : FirstKept(s) /\ Unstarted(s)
  /\ \A r \in Runs : RunInOrder(r) /\ FirstAlone(r)

\* What is accounted for stays so, without gaps, and the first rows are kept.
TrailsGrow ==
  \A s \in Sessions : /\ Accounted(s) \subseteq Accounted(s)'
                      /\ \E n \in Nat : Accounted(s)' = 0 .. n - 1
                      /\ FirstKept(s)'

LEMMA SameTrails == ASSUME TrailInv, UNCHANGED trail PROVE TrailsGrow
BY DEF TrailInv, Gapless, TrailsGrow, Accounted, FirstKept, trail

\* The sessions other than s keep their rows and trails.
OnlyTouches(s) ==
  \A q \in Sessions \ {s} :
    /\ status'[q] = status[q] /\ gateId'[q] = gateId[q]
    /\ steps'[q] = steps[q] /\ ran'[q] = ran[q] /\ unwritten'[q] = unwritten[q]

OthersGoOn(r) ==
  \A q \in Runs \ {r} :
    pc'[q] = pc[q] /\ at'[q] = at[q] /\ via'[q] = via[q] /\ nstep'[q] = nstep[q] /\ calls'[q] = calls[q]

\* A session that a run is at has been started.
LEMMA BusyIsStarted ==
  ASSUME WaitInv, TrailInv, NEW r \in Runs, pc[r] # "idle"
  PROVE  at[r] \in Sessions /\ status[at[r]] # "none" /\ nstep[r] \in Nat
BY DEF WaitInv, BusyHasSession, TypeOK, RunningOK, TrailInv, Unstarted

\* A step of one run, or one that starts it: the others stay in order.
LEMMA RunMoves ==
  ASSUME WaitInv, TrailInv, NEW r \in Runs, NEW s \in Sessions, TrailsGrow, OthersGoOn(r), OnlyTouches(s),
         status'[s] # "none", RunInOrder(r)', FirstAlone(r)',
         at'[r] \in {s, NoSession}, pc'[r] = "idle" => at'[r] = NoSession,
         \A q \in Runs \ {r} : pc[q] # "idle" /\ via[q] = "run" => at[q] # s
  PROVE  TrailInv'
<1>0. NoSession \notin Sessions
  BY AgentAssumption
<1>1. Gapless' /\ \A q \in Sessions : FirstKept(q)'
  BY DEF TrailsGrow, Gapless
<1>2. IdleNowhere'
  BY DEF TrailInv, IdleNowhere, OthersGoOn
<1>3. ASSUME NEW q \in Sessions PROVE Unstarted(q)'
  <2>1. CASE q = s
    BY <2>1 DEF Unstarted
  <2>2. CASE q # s
    BY <1>0, <2>2 DEF TrailInv, Unstarted, OnlyTouches, OthersGoOn
  <2> QED BY <2>1, <2>2
<1>4. ASSUME NEW q \in Runs \ {r} PROVE RunInOrder(q)'
  <2>1. pc[q] # "idle" => at[q] \in Sessions
    BY DEF WaitInv, BusyHasSession, TypeOK, RunningOK
  <2>2. RunInOrder(q)
    BY DEF TrailInv
  <2>3. pc[q] # "idle" => Accounted(at[q]) \subseteq Accounted(at[q])'
    <3>1. ASSUME NEW x \in Sessions, x = at[q], x = at'[q] PROVE Accounted(at[q]) \subseteq Accounted(at[q])'
      <4>1. Accounted(x) \subseteq Accounted(x)'
        BY DEF TrailsGrow
      <4> QED BY <3>1, <4>1 DEF Accounted
    <3> QED BY <2>1, <3>1 DEF OthersGoOn
  <2> QED BY <2>2, <2>3 DEF RunInOrder, OthersGoOn
<1>5. ASSUME NEW q \in Runs \ {r} PROVE FirstAlone(q)'
  <2> SUFFICES ASSUME pc[q] # "idle", via[q] = "run"
               PROVE  FirstAlone(q)'
    BY DEF FirstAlone, OthersGoOn
  <2>1. at[q] \in Sessions /\ at[q] # s /\ at'[q] = at[q]
    BY BusyIsStarted DEF OthersGoOn
  <2>2. FirstAlone(q)
    BY DEF TrailInv
  <2>3. \A p \in Runs \ {q} : at'[p] # at[q]
    BY <1>0, <2>1, <2>2 DEF FirstAlone, OthersGoOn
  <2> QED BY <2>1, <2>2, <2>3 DEF FirstAlone, OnlyTouches, OthersGoOn
<1> QED BY <1>1, <1>2, <1>3, <1>4, <1>5 DEF TrailInv

\* A number at or below the end of what is accounted for is added to it.
LEMMA OneMore ==
  ASSUME NEW n \in Nat, NEW idx \in Nat, idx <= n
  PROVE  \E m \in Nat : (0 .. n - 1) \cup {idx} = 0 .. m - 1
<1>1. CASE idx = n
  <2>1. (0 .. n - 1) \cup {n} = 0 .. (n + 1) - 1
    OBVIOUS
  <2> QED BY <1>1, <2>1
<1>2. CASE idx < n
  <2>1. (0 .. n - 1) \cup {idx} = 0 .. n - 1
    BY <1>2
  <2> QED BY <2>1
<1> QED BY <1>1, <1>2

\* The row a run writes at its counter, or loses.
LEMMA RecordGrows ==
  ASSUME WaitInv, TrailInv, NEW r \in Runs, pc[r] \notin {"idle", "settle"}, NEW f,
         Record(r, nstep[r], f)
  PROVE  /\ TrailsGrow
         /\ 0 .. nstep[r] \subseteq DOMAIN steps'[at[r]] \cup unwritten'[at[r]]
         /\ via[r] = "run" => ran'[at[r]] = nstep[r] + 1 /\ DOMAIN steps'[at[r]] \subseteq 0 .. nstep[r]
         /\ \A q \in Sessions \ {at[r]} : steps'[q] = steps[q] /\ ran'[q] = ran[q] /\ unwritten'[q] = unwritten[q]
<1>0. PICK s \in Sessions, k \in Nat : s = at[r] /\ k = nstep[r]
  BY BusyIsStarted
<1>1. /\ DOMAIN steps = Sessions /\ ran \in [Sessions -> Nat] /\ unwritten \in [Sessions -> SUBSET Nat]
      /\ via[r] \in {"run", "resume"}
  BY DEF WaitInv, TypeOK, RowsOK, HistoryOK, RunningOK
<1>2. PICK n \in Nat : Accounted(s) = 0 .. n - 1
  BY DEF TrailInv, Gapless
<1>3. 0 .. k - 1 \subseteq 0 .. n - 1
  BY <1>0, <1>2 DEF TrailInv, RunInOrder
<1>4. k <= n
  <2>1. k > 0 => k - 1 \in 0 .. k - 1
    OBVIOUS
  <2> QED BY <1>3, <2>1
<1>5. PICK m \in Nat : (0 .. n - 1) \cup {k} = 0 .. m - 1
  BY <1>4, OneMore
<1>6. /\ ran' = (IF via[r] = "run" THEN [ran EXCEPT ![s] = k + 1] ELSE ran)
      /\ \/ steps' = [steps EXCEPT ![s] = AppendStep(steps[s], k, via[r])] /\ unwritten' = unwritten
         \/ /\ k \notin DOMAIN steps[s] /\ steps' = steps
            /\ unwritten' = [unwritten EXCEPT ![s] = unwritten[s] \cup {k}]
  BY <1>0 DEF Record
<1>7. \A q \in Sessions \ {s} : steps'[q] = steps[q] /\ ran'[q] = ran[q] /\ unwritten'[q] = unwritten[q]
  BY <1>1, <1>6
<1>8. ran'[s] = IF via[r] = "run" THEN k + 1 ELSE ran[s]
  BY <1>1, <1>6
<1>9. \/ /\ unwritten'[s] = unwritten[s]
         /\ DOMAIN steps'[s] = DOMAIN steps[s] \cup {k}
         /\ \A i \in DOMAIN steps[s] : steps'[s][i] = steps[s][i]
         /\ k \notin DOMAIN steps[s] => steps'[s][k] = via[r]
      \/ /\ unwritten'[s] = unwritten[s] \cup {k}
         /\ steps'[s] = steps[s]
  <2> DEFINE new == AppendStep(steps[s], k, via[r])
  <2>1. /\ DOMAIN new = DOMAIN steps[s] \cup {k}
        /\ \A i \in DOMAIN steps[s] : new[i] = steps[s][i]
        /\ k \notin DOMAIN steps[s] => new[k] = via[r]
    BY DEF AppendStep
  <2> HIDE DEF new
  <2>2. CASE steps' = [steps EXCEPT ![s] = new] /\ unwritten' = unwritten
    <3>1. steps'[s] = new /\ unwritten'[s] = unwritten[s]
      BY <1>1, <2>2
    <3> QED BY <2>1, <3>1
  <2>3. CASE steps' = steps /\ unwritten' = [unwritten EXCEPT ![s] = unwritten[s] \cup {k}]
    BY <1>1, <2>3
  <2> QED BY <1>6, <2>2, <2>3 DEF new
<1>10. (DOMAIN steps'[s]) \cup unwritten'[s] = 0 .. m - 1
  <2>1. (DOMAIN steps'[s]) \cup unwritten'[s] = (DOMAIN steps[s] \cup unwritten[s]) \cup {k}
    BY <1>9
  <2> QED BY <1>2, <1>5, <2>1 DEF Accounted
<1>11. ASSUME via[r] = "run" PROVE k = ran[s] /\ k \notin DOMAIN steps[s] /\ DOMAIN steps[s] \subseteq 0 .. k - 1
  BY <1>0, <1>11 DEF TrailInv, FirstAlone
<1>12. FirstKept(s)'
  <2> SUFFICES ASSUME NEW i \in (0 .. ran'[s] - 1) \ unwritten'[s]
               PROVE  i \in DOMAIN steps'[s] /\ steps'[s][i] = "run"
    BY DEF FirstKept
  <2>1. FirstKept(s) /\ i \notin unwritten[s]
    BY <1>9 DEF TrailInv
  <2>2. CASE i \in 0 .. ran[s] - 1
    BY <1>9, <2>1, <2>2 DEF FirstKept
  <2>3. CASE i \notin 0 .. ran[s] - 1
    <3>1. via[r] = "run" /\ i = k
      BY <1>1, <1>8, <1>11, <2>3
    <3> QED BY <1>9, <1>11, <3>1
  <2> QED BY <2>2, <2>3
<1>13. TrailsGrow
  <2>1. ASSUME NEW q \in Sessions \ {s}
        PROVE  Accounted(q)' = Accounted(q) /\ FirstKept(q)' /\ \E j \in Nat : Accounted(q) = 0 .. j - 1
    BY <1>7 DEF Accounted, FirstKept, TrailInv, Gapless
  <2>2. Accounted(s) \subseteq Accounted(s)' /\ Accounted(s)' = 0 .. m - 1
    BY <1>9, <1>10 DEF Accounted
  <2> QED BY <1>12, <2>1, <2>2 DEF TrailsGrow
<1>14. 0 .. k \subseteq (DOMAIN steps'[s]) \cup unwritten'[s]
  <2>1. 0 .. k \subseteq (0 .. n - 1) \cup {k}
    BY <1>4
  <2> QED BY <1>5, <1>10, <2>1
<1>16. via[r] = "run" => ran'[s] = k + 1 /\ DOMAIN steps'[s] \subseteq 0 .. k
  BY <1>8, <1>9, <1>11
<1> QED BY <1>0, <1>7, <1>13, <1>14, <1>16

\* Nobody else is where the Agent that started a session is.
LEMMA FirstIsAlone ==
  ASSUME TrailInv, NEW r \in Runs
  PROVE  \A q \in Runs \ {r} : pc[q] # "idle" /\ via[q] = "run" => at[q] # at[r]
<1>1. ASSUME NEW q \in Runs \ {r}, pc[q] # "idle", via[q] = "run" PROVE at[q] # at[r]
  <2>1. FirstAlone(q) /\ r \in Runs \ {q}
    BY DEF TrailInv
  <2> QED BY <1>1, <2>1 DEF FirstAlone
<1> QED BY <1>1

\* A run writes a row at its counter, goes on or returns, and may write its
\* session's row.
LEMMA RowInOrder ==
  ASSUME WaitInv, TrailInv, NEW r \in Runs, pc[r] \notin {"idle", "settle"}, NEW f,
         Record(r, nstep[r], f), at' = at, via' = via,
         NEW to, to \in {"chat", "calls", "tool", "gating", "settle"}, pc' = [pc EXCEPT ![r] = to],
         NEW k \in Nat, nstep' = [nstep EXCEPT ![r] = k], k <= nstep[r] + 1,
         to # "settle" => k = nstep[r] + 1,
         k <= MaxSteps - 1 + 2 * MaxCalls,
         to = "calls" => k <= MaxSteps - 1 + 2 * (MaxCalls - Len(calls'[r])),
         to \in {"tool", "gating"} => k <= MaxSteps + 2 * (MaxCalls - Len(calls'[r])),
         \A q \in Runs \ {r} : calls'[q] = calls[q],
         gateId'[at[r]] = gateId[at[r]] \/ gateId'[at[r]] = NoGate,
         status'[at[r]] # "none",
         \A q \in Sessions \ {at[r]} : status'[q] = status[q] /\ gateId'[q] = gateId[q]
  PROVE  TrailInv'
<1>1. at[r] \in Sessions /\ nstep[r] \in Nat /\ status[at[r]] # "none"
  BY BusyIsStarted
<1>2. /\ TrailsGrow
      /\ 0 .. nstep[r] \subseteq DOMAIN steps'[at[r]] \cup unwritten'[at[r]]
      /\ via[r] = "run" => ran'[at[r]] = nstep[r] + 1 /\ DOMAIN steps'[at[r]] \subseteq 0 .. nstep[r]
      /\ \A q \in Sessions \ {at[r]} : steps'[q] = steps[q] /\ ran'[q] = ran[q] /\ unwritten'[q] = unwritten[q]
  BY RecordGrows
<1>3. pc'[r] = to /\ nstep'[r] = k /\ OthersGoOn(r)
  BY DEF WaitInv, TypeOK, RunningOK, OthersGoOn
<1>4. OnlyTouches(at[r])
  BY <1>2 DEF OnlyTouches
<1>5. 0 .. k - 1 \subseteq DOMAIN steps'[at[r]] \cup unwritten'[at[r]]
  <2>1. 0 .. k - 1 \subseteq 0 .. nstep[r]
    BY <1>1
  <2> QED BY <1>2, <2>1
<1>6. RunInOrder(r)'
  BY <1>3, <1>5 DEF RunInOrder, Accounted
<1>7. FirstAlone(r)'
  <2> SUFFICES ASSUME via[r] = "run" PROVE FirstAlone(r)'
    BY DEF FirstAlone
  <2>1. gateId[at[r]] = NoGate /\ \A q \in Runs \ {r} : at[q] # at[r]
    BY DEF TrailInv, FirstAlone
  <2>2. to # "settle" => k = ran'[at[r]] /\ DOMAIN steps'[at[r]] \subseteq 0 .. ran'[at[r]] - 1
    BY <1>1, <1>2
  <2> QED BY <1>3, <2>1, <2>2 DEF FirstAlone
<1> QED BY <1>1, <1>2, <1>3, <1>4, <1>6, <1>7, FirstIsAlone, RunMoves

\* A run that returns writes its last row and its session's status.
LEMMA ReturnInOrder ==
  ASSUME WaitInv, TrailInv, NEW r \in Runs, pc[r] \notin {"idle", "settle"}, NEW f, NEW h,
         NEW to \in {"completed", "failed", "awaiting_gate"}, NEW k \in Nat,
         Record(r, nstep[r], f), Returns(r, to, h), nstep' = [nstep EXCEPT ![r] = k],
         k <= nstep[r] + 1, k <= MaxSteps - 1 + 2 * MaxCalls
  PROVE  TrailInv'
<1>1. PICK s \in Sessions : s = at[r] /\ status[s] # "none"
  BY BusyIsStarted
<1>2. SetStatus(s, to, NoGate, h) /\ RowsOK
  BY <1>1 DEF Returns, WaitInv, TypeOK
<1>3. /\ gateId'[s] = NoGate \/ gateId'[s] = gateId[s]
      /\ status'[s] = to \/ status'[s] = status[s]
      /\ \A q \in Sessions \ {s} : gateId'[q] = gateId[q] /\ status'[q] = status[q]
  BY <1>2, RowsTyped
<1>4. /\ at' = at /\ via' = via /\ pc' = [pc EXCEPT ![r] = "settle"]
      /\ \A q \in Runs \ {r} : calls'[q] = calls[q]
  BY DEF Returns, WaitInv, TypeOK, CallsOK
<1>5. /\ gateId'[at[r]] = gateId[at[r]] \/ gateId'[at[r]] = NoGate
      /\ status'[at[r]] # "none"
      /\ \A q \in Sessions \ {at[r]} : status'[q] = status[q] /\ gateId'[q] = gateId[q]
  BY <1>1, <1>3
<1> QED BY <1>4, <1>5, RowInOrder

LEMMA AnswerLength ==
  ASSUME NEW c \in Answers
  PROVE  /\ Len(c) \in Nat /\ Len(c) >= 1 /\ Len(c) <= MaxCalls
         /\ Len(Tail(c)) = Len(c) - 1
<1>1. PICK n \in 1..MaxCalls : c \in [1..n -> ToolTiers]
  BY DEF Answers
<1>2. n \in Nat /\ n >= 1 /\ n <= MaxCalls
  BY <1>1, AgentAssumption
<1>3. c \in Seq(ToolTiers) /\ Len(c) = n
  BY <1>1, <1>2
<1>4. Len(Tail(c)) = n - 1
  BY <1>2, <1>3, HeadTailProperties
<1> QED BY <1>2, <1>3, <1>4

\* A call costs two rows, and its answer is one call shorter.
LEMMA CallCosts ==
  ASSUME NEW M \in Nat, NEW S \in Nat, NEW l \in Nat, l >= 1, l <= M, NEW n \in Nat
  PROVE  /\ n <= S - 1 + 2 * (M - l) => n + 1 <= S + 2 * (M - l) /\ n + 1 <= S - 1 + 2 * M
         /\ n <= S + 2 * (M - l) => /\ n + 1 <= S - 1 + 2 * (M - (l - 1)) /\ n + 1 <= S - 1 + 2 * M
                                    /\ n < S - 1 + 2 * M
OBVIOUS

\* The gate's resolution is the first row of a resumed run.
LEMMA InjectInOrder == ASSUME WaitInv, TrailInv, NEW r \in Runs, Inject(r) PROVE TrailInv'
<1>1. nstep[r] = 0 /\ pc[r] = "inject" /\ at[r] \in Sessions /\ status[at[r]] # "none"
  BY BusyIsStarted DEF Inject, TrailInv, RunInOrder
<1>2. PICK f \in 0..1 : Recorded(r, f)
  BY DEF Inject
<1>3. Record(r, nstep[r], f) /\ nstep' = [nstep EXCEPT ![r] = nstep[r] + 1]
  BY <1>2 DEF Recorded, Advanced
<1>4. nstep[r] + 1 \in Nat /\ nstep[r] + 1 <= MaxSteps - 1 + 2 * MaxCalls
  BY <1>1, AgentAssumption
<1>5. /\ at' = at /\ via' = via /\ pc' = [pc EXCEPT ![r] = "chat"] /\ calls' = calls
      /\ status' = status /\ gateId' = gateId
  BY DEF Inject
<1>6. PICK k \in Nat : k = nstep[r] + 1
  BY <1>4
<1>7. nstep' = [nstep EXCEPT ![r] = k] /\ k <= nstep[r] + 1 /\ k <= MaxSteps - 1 + 2 * MaxCalls
  BY <1>3, <1>4, <1>6
<1>8. pc[r] \notin {"idle", "settle"} /\ status'[at[r]] # "none"
  BY <1>1, <1>5
<1> QED BY <1>3, <1>5, <1>6, <1>7, <1>8, RowInOrder

\* The tool_call row.
LEMMA CallsInOrder == ASSUME WaitInv, TrailInv, NEW r \in Runs, Calls(r) PROVE TrailInv'
<1>1. pc[r] = "calls" /\ at[r] \in Sessions /\ status[at[r]] # "none" /\ nstep[r] \in Nat
  BY BusyIsStarted DEF Calls
<1>2. PICK f \in 0..1 : Recorded(r, f)
  BY DEF Calls
<1>3. Record(r, nstep[r], f) /\ nstep' = [nstep EXCEPT ![r] = nstep[r] + 1]
  BY <1>2 DEF Recorded, Advanced
<1>4. calls[r] \in Answers /\ nstep[r] <= MaxSteps - 1 + 2 * (MaxCalls - Len(calls[r]))
  BY <1>1 DEF WaitInv, TypeOK, CallsOK, TrailInv, RunInOrder
<1>5. PICK l \in Nat : l = Len(calls[r]) /\ l >= 1 /\ l <= MaxCalls
  BY <1>4, AnswerLength
<1>6. MaxSteps \in Nat /\ MaxCalls \in Nat
  BY AgentAssumption
<1>7. nstep[r] + 1 <= MaxSteps + 2 * (MaxCalls - l) /\ nstep[r] + 1 <= MaxSteps - 1 + 2 * MaxCalls
  <2>1. nstep[r] <= MaxSteps - 1 + 2 * (MaxCalls - l)
    BY <1>4, <1>5
  <2> QED BY <1>1, <1>5, <1>6, <2>1, CallCosts
<1>8. /\ at' = at /\ via' = via /\ calls' = calls /\ status' = status /\ gateId' = gateId
      /\ \E to \in {"tool", "gating"} : pc' = [pc EXCEPT ![r] = to]
  BY DEF Calls
<1>9. nstep[r] + 1 \in Nat /\ nstep[r] + 1 <= MaxSteps + 2 * (MaxCalls - Len(calls'[r]))
  BY <1>1, <1>5, <1>7, <1>8
<1>10. PICK k \in Nat : k = nstep[r] + 1
  BY <1>9
<1>11. /\ nstep' = [nstep EXCEPT ![r] = k] /\ k <= nstep[r] + 1 /\ k <= MaxSteps - 1 + 2 * MaxCalls
       /\ k <= MaxSteps + 2 * (MaxCalls - Len(calls'[r]))
  BY <1>3, <1>7, <1>9, <1>10
<1>12. pc[r] \notin {"idle", "settle"} /\ status'[at[r]] # "none"
  BY <1>1, <1>8
<1>13. PICK to \in {"tool", "gating"} : pc' = [pc EXCEPT ![r] = to]
  BY <1>8
<1> QED BY <1>3, <1>8, <1>10, <1>11, <1>12, <1>13, RowInOrder

\* The tool_result row; the next call of the answer, or the LLM again.
LEMMA ToolInOrder == ASSUME WaitInv, TrailInv, NEW r \in Runs, ToolReturns(r) PROVE TrailInv'
<1>1. pc[r] = "tool" /\ at[r] \in Sessions /\ status[at[r]] # "none" /\ nstep[r] \in Nat
  BY BusyIsStarted DEF ToolReturns
<1>2. PICK f \in 0..1 : Recorded(r, f)
  BY DEF ToolReturns
<1>3. Record(r, nstep[r], f) /\ nstep' = [nstep EXCEPT ![r] = nstep[r] + 1]
  BY <1>2 DEF Recorded, Advanced
<1>4. calls[r] \in Answers /\ nstep[r] <= MaxSteps + 2 * (MaxCalls - Len(calls[r]))
  BY <1>1 DEF WaitInv, TypeOK, CallsOK, TrailInv, RunInOrder
<1>5. /\ at' = at /\ via' = via /\ status' = status /\ gateId' = gateId
      /\ calls'[r] = Tail(calls[r]) /\ \A q \in Runs \ {r} : calls'[q] = calls[q]
      /\ \E to \in {"chat", "calls"} : pc' = [pc EXCEPT ![r] = to]
  BY DEF ToolReturns, AfterCall, WaitInv, TypeOK, CallsOK
<1>6. PICK l \in Nat : l = Len(calls[r]) /\ l >= 1 /\ l <= MaxCalls /\ Len(calls'[r]) = l - 1
  BY <1>4, <1>5, AnswerLength
<1>7. MaxSteps \in Nat /\ MaxCalls \in Nat
  BY AgentAssumption
<1>8. nstep[r] + 1 <= MaxSteps - 1 + 2 * (MaxCalls - (l - 1)) /\ nstep[r] + 1 <= MaxSteps - 1 + 2 * MaxCalls
  <2>1. nstep[r] <= MaxSteps + 2 * (MaxCalls - l)
    BY <1>4, <1>6
  <2> QED BY <1>1, <1>6, <1>7, <2>1, CallCosts
<1>9. nstep[r] + 1 \in Nat /\ nstep[r] + 1 <= MaxSteps - 1 + 2 * (MaxCalls - Len(calls'[r]))
  BY <1>1, <1>6, <1>8
<1>10. PICK k \in Nat : k = nstep[r] + 1
  BY <1>9
<1>11. /\ nstep' = [nstep EXCEPT ![r] = k] /\ k <= nstep[r] + 1 /\ k <= MaxSteps - 1 + 2 * MaxCalls
       /\ k <= MaxSteps - 1 + 2 * (MaxCalls - Len(calls'[r]))
  BY <1>3, <1>8, <1>9, <1>10
<1>12. pc[r] \notin {"idle", "settle"} /\ status'[at[r]] # "none"
  BY <1>1, <1>5
<1>13. PICK to \in {"chat", "calls"} : pc' = [pc EXCEPT ![r] = to]
  BY <1>5
<1> QED BY <1>3, <1>5, <1>10, <1>11, <1>12, <1>13, RowInOrder

\* The three ways out of the loop.
LEMMA LoopEndsInOrder ==
  ASSUME WaitInv, TrailInv, NEW r \in Runs, ChatFinal(r) \/ Exhausted(r) \/ RunFails(r) \/ AwaitGate(r)
  PROVE  TrailInv'
<1>1. pc[r] \notin {"idle", "settle"} /\ nstep[r] \in Nat
  <2>1. pc[r] \in {"chat", "calls", "gating", "opened"}
    BY DEF ChatFinal, Exhausted, RunFails, AwaitGate
  <2> QED BY <2>1, BusyIsStarted
<1>2. /\ nstep[r] <= MaxSteps - 1 + 2 * MaxCalls
      /\ pc[r] = "opened" => nstep[r] < MaxSteps - 1 + 2 * MaxCalls
      /\ nstep = [nstep EXCEPT ![r] = nstep[r]]
  BY DEF TrailInv, RunInOrder, WaitInv, TypeOK, RunningOK
<1>3. ASSUME NEW n \in Nat, Fails(r, n) PROVE TrailInv'
  <2>1. PICK f, h \in 0..1 : Record(r, nstep[r], f) /\ Returns(r, "failed", h)
    BY <1>3 DEF Fails
  <2>2. nstep' = [nstep EXCEPT ![r] = nstep[r]]
    BY <1>2, <1>3 DEF Fails
  <2>3. nstep[r] <= nstep[r] + 1
    BY <1>1
  <2> QED BY <1>1, <1>2, <2>1, <2>2, <2>3, ReturnInOrder
<1>4. ASSUME NEW f, NEW h, NEW to \in {"completed", "failed", "awaiting_gate"},
             Recorded(r, f), Returns(r, to, h), nstep[r] + 1 <= MaxSteps - 1 + 2 * MaxCalls
      PROVE  TrailInv'
  <2>1. Record(r, nstep[r], f) /\ nstep' = [nstep EXCEPT ![r] = nstep[r] + 1] /\ nstep[r] + 1 \in Nat
    BY <1>1, <1>4 DEF Recorded, Advanced
  <2>2. PICK k \in Nat : k = nstep[r] + 1
    BY <2>1
  <2>3. nstep' = [nstep EXCEPT ![r] = k] /\ k <= nstep[r] + 1 /\ k <= MaxSteps - 1 + 2 * MaxCalls
    BY <1>4, <2>1, <2>2
  <2> QED BY <1>1, <1>4, <2>1, <2>3, ReturnInOrder
<1>5. CASE ChatFinal(r)
  <2>1. nstep[r] + 1 <= MaxSteps - 1 + 2 * MaxCalls
    BY <1>1, <1>5, AgentAssumption DEF ChatFinal, InBudget
  <2> QED BY <1>4, <1>5, <2>1 DEF ChatFinal
<1>6. CASE AwaitGate(r)
  <2>1. nstep[r] + 1 <= MaxSteps - 1 + 2 * MaxCalls
    BY <1>1, <1>2, <1>6, AgentAssumption DEF AwaitGate
  <2> QED BY <1>4, <1>6, <2>1 DEF AwaitGate
<1> QED BY <1>3, <1>5, <1>6 DEF Exhausted, RunFails

\* The LLM answers with tool calls: nothing is written yet.
LEMMA AnswerInOrder ==
  ASSUME WaitInv, TrailInv, NEW r \in Runs, NEW answer \in Answers, ChatCalls(r, answer)
  PROVE  TrailInv'
<1>1. pc[r] = "chat" /\ at[r] \in Sessions /\ status[at[r]] # "none" /\ nstep[r] \in Nat
  BY BusyIsStarted DEF ChatCalls
<1>2. TrailsGrow /\ OnlyTouches(at[r]) /\ UNCHANGED <<trail, status, gateId, at, via, nstep>>
  BY SameTrails DEF ChatCalls, rows, trail, OnlyTouches
<1>3. pc'[r] = "calls" /\ calls'[r] = answer /\ OthersGoOn(r)
  BY DEF ChatCalls, WaitInv, TypeOK, RunningOK, CallsOK, OthersGoOn
<1>4. PICK l \in Nat : l = Len(answer) /\ l <= MaxCalls
  BY AnswerLength
<1>5. nstep[r] <= MaxSteps - 1 + 2 * (MaxCalls - l)
  BY <1>1, <1>4, AgentAssumption DEF ChatCalls, InBudget
<1>6. RunInOrder(r)'
  BY <1>1, <1>2, <1>3, <1>4, <1>5 DEF TrailInv, RunInOrder, Accounted, trail
<1>7. FirstAlone(r)'
  BY <1>1, <1>2, <1>3 DEF TrailInv, FirstAlone, OthersGoOn, trail
<1>8. status'[at[r]] # "none" /\ at'[r] = at[r]
  BY <1>1, <1>2
<1> QED BY <1>1, <1>2, <1>3, <1>6, <1>7, <1>8, FirstIsAlone, RunMoves

\* The gate of a call opens.
LEMMA GatedInOrder ==
  ASSUME WaitInv, TrailInv, NEW r \in Runs, NEW g \in Gates, CallGated(r, g)
  PROVE  TrailInv'
<1>1. pc[r] = "gating" /\ at[r] \in Sessions /\ status[at[r]] # "none" /\ nstep[r] \in Nat
  BY BusyIsStarted DEF CallGated
<1>2. TrailsGrow /\ OnlyTouches(at[r]) /\ UNCHANGED <<trail, status, gateId, at, via, nstep>>
  BY SameTrails DEF CallGated, rows, trail, OnlyTouches
<1>3. pc'[r] = "opened" /\ OthersGoOn(r)
  BY DEF CallGated, WaitInv, TypeOK, RunningOK, CallsOK, OthersGoOn
<1>4. calls[r] \in Answers /\ nstep[r] <= MaxSteps + 2 * (MaxCalls - Len(calls[r]))
  BY <1>1 DEF WaitInv, TypeOK, CallsOK, TrailInv, RunInOrder
<1>5. PICK l \in Nat : l = Len(calls[r]) /\ l >= 1 /\ l <= MaxCalls
  BY <1>4, AnswerLength
<1>6. nstep[r] < MaxSteps - 1 + 2 * MaxCalls
  <2>1. MaxSteps \in Nat /\ MaxCalls \in Nat
    BY AgentAssumption
  <2>2. nstep[r] <= MaxSteps + 2 * (MaxCalls - l)
    BY <1>4, <1>5
  <2> QED BY <1>1, <1>5, <2>1, <2>2, CallCosts
<1>7. RunInOrder(r)'
  BY <1>1, <1>2, <1>3, <1>6 DEF TrailInv, RunInOrder, Accounted, trail
<1>8. FirstAlone(r)'
  BY <1>1, <1>2, <1>3 DEF TrailInv, FirstAlone, OthersGoOn, trail
<1>9. status'[at[r]] # "none" /\ at'[r] = at[r]
  BY <1>1, <1>2
<1> QED BY <1>1, <1>2, <1>3, <1>7, <1>8, <1>9, FirstIsAlone, RunMoves

\* A run is over: its handler may write the session's row.
LEMMA GoneInOrder ==
  ASSUME WaitInv, TrailInv, NEW r \in Runs, pc[r] # "idle", RunGone(r), UNCHANGED trail,
         status'[at[r]] # "none",
         \A q \in Sessions \ {at[r]} : status'[q] = status[q] /\ gateId'[q] = gateId[q]
  PROVE  TrailInv'
<1>1. at[r] \in Sessions
  BY BusyIsStarted
<1>2. pc'[r] = "idle" /\ nstep'[r] = 0 /\ at'[r] = NoSession /\ OthersGoOn(r)
  BY DEF RunGone, WaitInv, TypeOK, RunningOK, CallsOK, OthersGoOn
<1>3. TrailsGrow /\ OnlyTouches(at[r])
  BY SameTrails DEF OnlyTouches, trail
<1>4. RunInOrder(r)'
  BY <1>2, AgentAssumption DEF RunInOrder
<1>5. FirstAlone(r)'
  BY <1>2 DEF FirstAlone
<1> QED BY <1>1, <1>2, <1>3, <1>4, <1>5, FirstIsAlone, RunMoves

LEMMA SettleInOrder ==
  ASSUME WaitInv, TrailInv, NEW r \in Runs, Settle(r) \/ Disconnect(r)
  PROVE  TrailInv'
<1>1. pc[r] # "idle" /\ RunGone(r) /\ UNCHANGED trail
  BY DEF Settle, Disconnect
<1>2. PICK s \in Sessions : s = at[r] /\ status[s] # "none"
  BY <1>1, BusyIsStarted
<1>3. status'[s] # "none" /\ \A q \in Sessions \ {s} : status'[q] = status[q] /\ gateId'[q] = gateId[q]
  <2>1. CASE UNCHANGED <<status, gateId>>
    BY <1>2, <2>1
  <2>2. ASSUME NEW f, NEW g, SetStatus(s, outcome[r], g, f), outcome[r] # "none"
        PROVE  status'[s] # "none" /\ \A q \in Sessions \ {s} : status'[q] = status[q] /\ gateId'[q] = gateId[q]
    BY <1>2, <2>2 DEF SetStatus, WaitInv, TypeOK, RowsOK
  <2>3. CASE Settle(r)
    <3>1. outcome[r] # "none"
      BY <2>3 DEF Settle, WaitInv, BusyHasSession
    <3> QED BY <1>2, <2>1, <2>2, <2>3, <3>1 DEF Settle
  <2>4. CASE Disconnect(r)
    BY <2>1, <2>4 DEF Disconnect, rows
  <2> QED BY <2>3, <2>4
<1> QED BY <1>1, <1>2, <1>3, GoneInOrder

\* A session starts: it had no row, so no number and nobody at it.
LEMMA StartInOrder ==
  ASSUME WaitInv, TrailInv, NEW r \in Runs, NEW s \in Sessions, Start(r, s)
  PROVE  TrailInv'
<1>1. /\ pc'[r] = "chat" /\ at'[r] = s /\ via'[r] = "run" /\ nstep'[r] = nstep[r] /\ OthersGoOn(r)
      /\ UNCHANGED trail
  BY DEF Start, WaitInv, TypeOK, RunningOK, CallsOK, OthersGoOn
<1>2. /\ status'[s] # "none" /\ gateId'[s] = NoGate
      /\ \A q \in Sessions \ {s} : status'[q] = status[q] /\ gateId'[q] = gateId[q]
  BY DEF Start, WaitInv, TypeOK, RowsOK
<1>3. TrailsGrow /\ OnlyTouches(s)
  BY <1>1, <1>2, SameTrails DEF OnlyTouches, trail
<1>4. nstep[r] = 0 /\ ran[s] = 0 /\ DOMAIN steps[s] = {} /\ \A q \in Runs : at[q] # s
  BY DEF Start, TrailInv, RunInOrder, Unstarted
<1>5. RunInOrder(r)'
  BY <1>1, <1>4, AgentAssumption DEF RunInOrder
<1>6. FirstAlone(r)'
  BY <1>1, <1>2, <1>4 DEF FirstAlone, OthersGoOn, trail
<1> QED BY <1>1, <1>2, <1>3, <1>4, <1>5, <1>6, RunMoves

\* A session is resumed: its row names a gate, so its first Agent has returned.
LEMMA ResumeInOrder ==
  ASSUME WaitInv, TrailInv, NEW r \in Runs, NEW s \in Sessions, NEW g \in Gates, pc[r] = "idle",
         gateId[s] = g, ResumesWith(r, s, g)
  PROVE  TrailInv'
<1>1. gateId[s] # NoGate
  BY GateAssumption
<1>2. /\ pc'[r] = "inject" /\ at'[r] = s /\ via'[r] = "resume" /\ nstep'[r] = nstep[r] /\ OthersGoOn(r)
      /\ UNCHANGED <<trail, status, gateId>>
  BY DEF ResumesWith, WaitInv, TypeOK, RunningOK, CallsOK, OthersGoOn, rows
<1>3. TrailsGrow /\ OnlyTouches(s)
  BY <1>2, SameTrails DEF OnlyTouches, trail
<1>4. nstep[r] = 0 /\ status[s] # "none"
  BY <1>1 DEF TrailInv, RunInOrder, Unstarted
<1>5. RunInOrder(r)'
  BY <1>2, <1>4, AgentAssumption DEF RunInOrder
<1>6. FirstAlone(r)'
  BY <1>2 DEF FirstAlone
<1>7. \A q \in Runs \ {r} : pc[q] # "idle" /\ via[q] = "run" => at[q] # s
  BY <1>1 DEF TrailInv, FirstAlone
<1> QED BY <1>2, <1>3, <1>4, <1>5, <1>6, <1>7, RunMoves

\* Every step keeps the trails.
LEMMA TrailInvStep == ASSUME AgentInv, GateInv, TrailInv, [Next]_vars PROVE TrailInv'
<1>0. WaitInv
  BY DEF AgentInv
<1>1. ASSUME UNCHANGED <<rows, trail, running>> PROVE TrailInv'
  BY <1>1 DEF rows, trail, running, TrailInv, Gapless, RunInOrder, IdleNowhere, FirstKept, FirstAlone,
              Unstarted, Accounted
<1>2. ASSUME NEW r \in Runs, NEW m \in resolved, AutoResume(r, m) PROVE TrailInv'
  <2>1. m.gate \in Gates /\ decision[m.gate] # "none"
    BY DEF GateInv, AnnouncedOnce, AnnouncedIsDecided, GateTypeOK, Messages, Verdict
  <2>2. PICK s \in Sessions, g \in Gates : s = gateSession[m.gate] /\ g = m.gate
    BY <2>1 DEF AgentInv, WaitInv, TypeOK, HistoryOK, OpenHasSession
  <2>3. CASE gateId[s] = g /\ ResumesWith(r, s, g)
    BY <1>0, <1>2, <2>3, ResumeInOrder DEF AutoResume
  <2>4. CASE UNCHANGED agentVars
    BY <1>1, <2>4 DEF agentVars, rows, trail
  <2> QED BY <1>2, <2>2, <2>3, <2>4 DEF AutoResume
<1>3. ASSUME NEW r \in Runs, RunStep(r) PROVE TrailInv'
  BY <1>0, <1>3, InjectInOrder, CallsInOrder, ToolInOrder, LoopEndsInOrder, AnswerInOrder, GatedInOrder,
     SettleInOrder DEF RunStep
<1>4. ASSUME NEW r \in Runs, NEW s \in Sessions, NEW g \in Gates, ResumeHTTP(r, s, g) PROVE TrailInv'
  BY <1>0, <1>4, ResumeInOrder DEF ResumeHTTP
<1>5. ASSUME \/ \E m \in resolved : LoseMessage(m)
             \/ \E o \in Deciders : DecisionUntold(o)
             \/ DeciderNext /\ UNCHANGED agentVars
             \/ UNCHANGED vars
      PROVE  TrailInv'
  BY <1>1, <1>5 DEF LoseMessage, DecisionUntold, vars, agentVars, rows, trail
<1>6. ASSUME NEW r \in Runs, RunFails(r) \/ Disconnect(r) PROVE TrailInv'
  BY <1>0, <1>6, LoopEndsInOrder, SettleInOrder
<1>7. ASSUME NEW r \in Runs, NEW s \in Sessions, Start(r, s) PROVE TrailInv'
  BY <1>0, <1>7, StartInOrder
<1> QED BY <1>2, <1>3, <1>4, <1>5, <1>6, <1>7 DEF Next

\* agent.go:230-363, store.go:80-93, main.go:296: for any number of sessions,
\* concurrent runs, resumes, disconnects and failed statements, a number is
\* missing from a session's trail only if its INSERT failed, the Agent that
\* started the session keeps every other row although resumed Agents count from
\* 0 again, and a run ends within its budget and the calls of one answer.
THEOREM FirstTrailIsKept == Spec => []StepsAreAccountedFor
<1>1. Init => TrailInv
  <2> SUFFICES ASSUME Init PROVE TrailInv
    OBVIOUS
  <2>1. \A s \in Sessions : Accounted(s) = 0 .. 0 - 1
    BY DEF Init, Accounted
  <2>2. \A r \in Runs : RunInOrder(r) /\ FirstAlone(r)
    BY AgentAssumption DEF Init, RunInOrder, FirstAlone
  <2>3. \A s \in Sessions : FirstKept(s) /\ Unstarted(s)
    BY AgentAssumption DEF Init, FirstKept, Unstarted
  <2> QED BY <2>1, <2>2, <2>3 DEF TrailInv, Gapless, IdleNowhere, Init
<1>2. AgentInv /\ GateInv /\ TrailInv /\ [Next]_vars => TrailInv'
  BY TrailInvStep
<1>3. TrailInv => StepsAreAccountedFor
  <2> SUFFICES ASSUME TrailInv PROVE StepsAreAccountedFor
    OBVIOUS
  <2>1. ASSUME NEW s \in Sessions PROVE Accounted(s) = 0 .. Cardinality(Accounted(s)) - 1
    <3>1. PICK n \in Nat : Accounted(s) = 0 .. n - 1
      BY DEF TrailInv, Gapless
    <3>2. Cardinality(0 .. n - 1) = n
      <4>1. n - 1 \in Int /\ 0 \in Int
        OBVIOUS
      <4>2. Cardinality(0 .. n - 1) = IF 0 > n - 1 THEN 0 ELSE (n - 1) - 0 + 1
        BY <4>1, FS_Interval
      <4> QED BY <4>2
    <3> QED BY <3>1, <3>2
  <2> QED BY <2>1 DEF TrailInv, FirstKept, RunInOrder, StepsAreAccountedFor
<1> QED BY <1>1, <1>2, <1>3, AgentInvariant, AgentGatesSound, PTL DEF Spec
=============================================================================
