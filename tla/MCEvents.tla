------------------------------ MODULE MCEvents ------------------------------
(* What travels on the bus, for TLC: rule engine, fan-out, audit trail,    *)
(* metering, sampling and drift detection share no state, so a behaviour   *)
(* is about one of them; likewise each queue group of the fan-out receives *)
(* its own copy and is explored by itself.                                 *)
EXTENDS RuleEngine, EventFanout, AuditTrail, UsagePath, Sampling, DriftWindow

VARIABLE focus

MCRule(id, kind) ==
    [id |-> id, kind |-> kind, zone |-> TRUE, dwell |-> 2, stale |-> 2, n |-> 3, win |-> 2,
     direction |-> "positive", composer |-> "or", parts |-> <<>>, cooldown |-> 2]

MCRuleSet ==
    <<MCRule("dwell", "spatial.dwell"), MCRule("left", "temporal.abandoned"),
      [MCRule("any", "composite") EXCEPT
          !.parts = <<MCRule("line", "spatial.line_cross"), MCRule("rate", "temporal.rate")>>]>>

MCPositions ==
    {[zone |-> TRUE, side |-> 1, place |-> 1], [zone |-> FALSE, side |-> -1, place |-> 2],
     [zone |-> TRUE, side |-> 0, place |-> 2]}

MCStreamOf     == [t \in {"walker"} |-> "cam1"]
MCEventIds     == 1..3
MCClientTenant == [c \in {"s1", "s2", "h1", "h2"} |-> IF c = "h2" THEN "t2" ELSE "t1"]
MCHome         == [c \in {"s1", "s2"} |-> "r1"]
MCOwnerOf      == [ep \in {"w1", "w2"} |-> "t1"]
MCLimits       == {[budget |-> 2, div |-> {"car", "person"}], [budget |-> 1, div |-> {}]}
MCDriftLimits  == {[width |-> 2, min |-> 2], [width |-> 0, min |-> 1]}

learningVars == <<samplingVars, driftVars>>

vars == <<focus, ruleVars, fanVars, auditVars, usageVars, learningVars>>

Init ==
    /\ focus \in {"rules", "fanout", "audit", "usage", "sampling", "drift"}
    /\ RuleInit /\ FanInit /\ AuditInit /\ UsageInit /\ SamplingInit /\ DriftInit
    /\ Cardinality(up) = (IF focus = "fanout" THEN 1 ELSE 0)
    /\ "notification-service" \notin up => rows = {}
    /\ focus # "audit" => transport = "nats"

Next ==
    \/ focus = "rules" /\ RuleNext /\ UNCHANGED <<focus, fanVars, auditVars, usageVars, learningVars>>
    \/ focus = "fanout" /\ FanNext /\ UNCHANGED <<focus, ruleVars, auditVars, usageVars, learningVars>>
    \/ focus = "audit" /\ AuditNext /\ UNCHANGED <<focus, ruleVars, fanVars, usageVars, learningVars>>
    \/ focus = "usage" /\ UsageNext /\ UNCHANGED <<focus, ruleVars, fanVars, auditVars, learningVars>>
    \/ focus = "sampling" /\ SamplingNext /\ UNCHANGED <<focus, ruleVars, fanVars, auditVars, usageVars, driftVars>>
    \/ focus = "drift" /\ DriftNext /\ UNCHANGED <<focus, ruleVars, fanVars, auditVars, usageVars, samplingVars>>

(* The goroutines of a subscription, the 1 s ticker and a flush in         *)
(* progress keep going.                                                    *)
Fan(A)   == focus = "fanout" /\ A /\ UNCHANGED <<focus, ruleVars, auditVars, usageVars, learningVars>>
Usage(A) == focus = "usage" /\ A /\ UNCHANGED <<focus, ruleVars, fanVars, auditVars, learningVars>>

Fairness ==
    /\ WF_vars(Fan(NotifyStep)) /\ WF_vars(Fan(HubStep))
    /\ WF_vars(Usage(\E msg \in wire : Handle(msg)))
    /\ \A f \in Flushers : /\ WF_vars(Usage(SwapOut(f)))
                           /\ WF_vars(Usage(\E k \in Keys : Increment(f, k)))

Spec == Init /\ [][Next]_vars /\ Fairness

=============================================================================
