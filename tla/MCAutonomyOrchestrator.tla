----------------------- MODULE MCAutonomyOrchestrator -----------------------
(* Instances of AutonomyOrchestrator for TLC.                              *)
EXTENDS AutonomyOrchestrator, TLC

CONSTANTS nightly, drift, driftB, a, b, wide, narrow, onDrift, onSlo, sig, other, q1, q2, f1, f2

\* A cron schedule of tenant a, a signal schedule of nobody, one of tenant b.
MCTenant == [s \in Schedules |-> (nightly :> a @@ drift :> NoTenant @@ driftB :> b)[s]]
MCRank   == [s \in Schedules |-> (nightly :> 2 @@ drift :> 1 @@ driftB :> 3)[s]]

\* "autonomy.signal" for one of them, "autonomy.signal.drift" for the other.
MCPrefix    == [s \in Schedules \ Cron |-> IF s = driftB THEN narrow ELSE wide]
MCPrefixLen == [p \in Prefixes |-> (wide :> 1 @@ narrow :> 2)[p]]
MCCovers    == [x \in Signals |-> IF x = sig THEN {wide, narrow} \cap Prefixes ELSE {wide}]

\* autonomy.signal.drift.> and autonomy.signal.slo.>
MCSubOf     == [x \in Signals |-> IF x = sig THEN onDrift ELSE onSlo]
=============================================================================
