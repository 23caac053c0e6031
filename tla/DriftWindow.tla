---------------------------- MODULE DriftWindow ----------------------------
(***************************************************************************)
(* drift-detection-service: the rolling windows over detections.v1, one    *)
(* per model, and the periodic evaluation that signals drift.  Every       *)
(* replica gets its share of the detections and evaluates by itself.       *)
(*                                                                         *)
(* Divergence is floating-point arithmetic: its verdict is a choice.       *)
(***************************************************************************)
EXTENDS Naturals, Sequences, FiniteSets, Functions

CONSTANTS Detectors,     \* replicas
          Watched,       \* (tenant, model) pairs
          DefaultWidth,  \* seconds, 900 in the code
          DriftLimits,   \* [width, min] a policy may have; width 0: the default
          MaxUpserts,    \* policy requests (bound)
          MaxSeen,       \* detections (bound)
          MaxSeconds,    \* time (bound)
          MaxSignals     \* rows of drift_signals (bound)

ASSUME DriftAssumption ==
    /\ DefaultWidth \in Nat
    /\ DriftLimits \subseteq [width : Nat, min : Nat]
    /\ {MaxUpserts, MaxSeen, MaxSeconds, MaxSignals} \subseteq Nat

VARIABLES second,    \* the time
          limits,    \* drift_policies of each model, by row
          compared,  \* models with a reference distribution
          windows,   \* each replica's Rolling per model: width and buckets
          eval,      \* each replica's evalAll: the snapshots still to be judged
          drifts,    \* drift_signals, with what they rest on
          seen,      \* history: the detections observed, by whom and when
          born,      \* history: how many there were when the process started
          nUpserts

driftVars == <<second, limits, compared, windows, eval, drifts, seen, born, nUpserts>>

DriftInit ==
    /\ second = 0
    /\ limits = [k \in Watched |-> <<>>]
    /\ compared = {}
    /\ windows = [r \in Detectors |-> <<>>]
    /\ eval = [r \in Detectors |-> <<>>]
    /\ drifts = <<>> /\ seen = <<>> /\ nUpserts = 0
    /\ born = [r \in Detectors |-> 0]

(* POST /v1/drift/policies: a new row, or a new body for one.              *)
UpsertLimits(k, l) ==
    /\ nUpserts < MaxUpserts
    /\ nUpserts' = nUpserts + 1
    /\ \E i \in 1..(Len(limits[k]) + 1) :
         limits' = [limits EXCEPT ![k] = [j \in DOMAIN @ \cup {i} |-> IF j = i THEN l ELSE @[j]]]
    /\ UNCHANGED <<second, compared, windows, eval, drifts, seen, born>>

(* POST /v1/drift/references.                                              *)
UpsertReference(k) ==
    /\ k \notin compared
    /\ compared' = compared \cup {k}
    /\ UNCHANGED <<second, limits, windows, eval, drifts, seen, born, nUpserts>>

(* ListPoliciesByModel()[0]: the rows come in no particular order.         *)
FirstPolicies(k) == {limits[k][i] : i \in DOMAIN limits[k]}

-----------------------------------------------------------------------------
(* The policy's window, or the default: when there is none, and when the   *)
(* list fails, whose error is dropped.                                     *)
Widths(k) == {DefaultWidth} \cup {l.width : l \in {p \in FirstPolicies(k) : p.width > 0}}

(* getRoll: the first detection fixes the width of the process's window.   *)
GetRoll(r, k, width) ==
    IF k \in DOMAIN windows[r] THEN windows[r][k] ELSE [width |-> width, buckets |-> <<>>]

Bump(buckets) ==
    IF second \in DOMAIN buckets THEN [buckets EXCEPT ![second] = @ + 1]
                                ELSE [s \in DOMAIN buckets \cup {second} |-> IF s = second THEN 1 ELSE buckets[s]]

(* The handler of detections.v1: list, getRoll, Rolling.Observe.           *)
Observe(r, k) ==
    /\ Len(seen) < MaxSeen
    /\ \E width \in Widths(k) :
         LET w == GetRoll(r, k, width) IN
         windows' = [windows EXCEPT ![r] = [m \in DOMAIN @ \cup {k} |->
                        IF m = k THEN [w EXCEPT !.buckets = Bump(@)] ELSE @[m]]]
    /\ seen' = Append(seen, [by |-> r, model |-> k, at |-> second])
    /\ UNCHANGED <<second, limits, compared, eval, drifts, born, nUpserts>>

-----------------------------------------------------------------------------
(* Mutant: nothing is pruned. *)
KeepAll(w) == w

(* Snapshot prunes the buckets before now - width.                         *)
Prune(w) == [w EXCEPT !.buckets = Restrict(@, {s \in DOMAIN @ : s + w.width >= second})]

(* evalAll, under the lock of the map: a snapshot of every window.         *)
EvalSnapshot(r) ==
    /\ eval[r] = <<>> /\ DOMAIN windows[r] # {}
    /\ windows' = [windows EXCEPT ![r] = [k \in DOMAIN @ |-> Prune(@[k])]]
    /\ eval' = [eval EXCEPT ![r] = [k \in DOMAIN windows[r] |->
                    [samples |-> SumFunction(Prune(windows[r][k]).buckets), at |-> second, upto |-> Len(seen)]]]
    /\ UNCHANGED <<second, limits, compared, drifts, seen, born, nUpserts>>

Judged(r, k) == eval' = [eval EXCEPT ![r] = Restrict(@, DOMAIN @ \ {k})]

(* No policy or reference, too few samples, a divergence below both        *)
(* thresholds, or a failed INSERT: nothing is signalled.                   *)
EvalNothing(r, k) ==
    /\ k \in DOMAIN eval[r]
    /\ Judged(r, k)
    /\ UNCHANGED <<second, limits, compared, windows, drifts, seen, born, nUpserts>>

(* InsertSignal, then autonomy.signal.drift.v1, whose error is dropped.    *)
EvalSignals(r, k) ==
    /\ k \in DOMAIN eval[r] /\ Len(drifts) < MaxSignals
    /\ k \in compared
    /\ \E l \in FirstPolicies(k) :
         LET snap == eval[r][k] IN
         /\ snap.samples >= l.min
         /\ drifts' = Append(drifts, [by |-> r, model |-> k, samples |-> snap.samples, min |-> l.min, at |-> snap.at,
                                      width |-> windows[r][k].width, from |-> born[r], upto |-> snap.upto])
    /\ Judged(r, k)
    /\ UNCHANGED <<second, limits, compared, windows, seen, born, nUpserts>>

SecondPasses ==
    /\ second < MaxSeconds
    /\ second' = second + 1
    /\ UNCHANGED <<limits, compared, windows, eval, drifts, seen, born, nUpserts>>

(* The windows are in memory only.                                         *)
DetectorRestart(r) ==
    /\ DOMAIN windows[r] # {}
    /\ windows' = [windows EXCEPT ![r] = <<>>]
    /\ eval' = [eval EXCEPT ![r] = <<>>]
    /\ born' = [born EXCEPT ![r] = Len(seen)]
    /\ UNCHANGED <<second, limits, compared, drifts, seen, nUpserts>>

DriftNext ==
    \/ \E k \in Watched : UpsertReference(k) \/ \E l \in DriftLimits : UpsertLimits(k, l)
    \/ \E r \in Detectors :
         \/ EvalSnapshot(r) \/ DetectorRestart(r)
         \/ \E k \in Watched : Observe(r, k) \/ EvalNothing(r, k) \/ EvalSignals(r, k)
    \/ SecondPasses

DriftSpec == DriftInit /\ [][DriftNext]_driftVars

-----------------------------------------------------------------------------
(* A drift signal rests on detections (Rolling, evalAll): its sample count *)
(* is what this process, since it started, observed of this model in the   *)
(* width + 1 seconds up to the snapshot, nothing older, twice or of        *)
(* another model, however late it is judged and whatever became of the     *)
(* policy meanwhile; and it reaches the minimum it was judged by.          *)
SignalsRestOnTheWindow ==
    \A i \in DOMAIN drifts :
        LET d == drifts[i] IN
        /\ d.samples = Cardinality({j \in (d.from + 1)..d.upto :
                           seen[j].by = d.by /\ seen[j].model = d.model /\ seen[j].at + d.width >= d.at})
        /\ d.samples >= d.min

=============================================================================
