----------------------------- MODULE Sampling ------------------------------
(***************************************************************************)
(* active-learning-service: every replica takes detections from one queue  *)
(* group, one at a time, and queues samples for annotation under the daily *)
(* budget of each policy.  The budget is counted in the process, in a      *)
(* Budgeter per policy and day; policies and samples are rows.             *)
(*                                                                         *)
(* The scores of the sampler are floating-point numbers: whether a         *)
(* detection passes the roll and the band is a choice.                     *)
(***************************************************************************)
EXTENDS Naturals, Sequences, FiniteSets, SequencesExt

CONSTANTS Samplers,       \* replicas
          PolicyIds, Models, Labels,
          Limits,         \* <<daily_budget, diversity_classes>> a policy may have
          MaxPolicies,    \* policy requests (bound)
          MaxDetections,  \* detections (bound)
          MaxDays,        \* days (bound)
          MaxLaunches       \* starts of a replica (bound)

ASSUME SamplingAssumption ==
    /\ Limits \subseteq [budget : Nat, div : SUBSET Labels]
    /\ {MaxPolicies, MaxDetections, MaxLaunches} \subseteq Nat /\ MaxDays \in Nat \ {0}
    /\ IsFiniteSet(Labels)

VARIABLES policies,  \* learning_policies: id -> row
          samples,   \* learning_samples, in order of insertion
          spent,     \* the budgeters of each replica: policy and day -> class -> count
          handling,  \* the detection each replica is at, with the policies it has listed
          today,     \* the date
          launches,    \* how often each replica has been started
          given,     \* history: the limits each policy ever had
          nPolicies, nDetections

samplingVars == <<policies, samples, spent, handling, today, launches, given, nPolicies, nDetections>>

NoDetection  == [todo |-> <<>>, class |-> "", charged |-> 0]
Row(model, limit) == [model |-> model, limit |-> limit]
Unspent  == [k \in PolicyIds \X (1..MaxDays) |-> [c \in Labels |-> 0]]

SamplingInit ==
    /\ policies = <<>> /\ samples = <<>>
    /\ spent = [r \in Samplers |-> Unspent]
    /\ handling = [r \in Samplers |-> NoDetection]
    /\ today = 1
    /\ launches = [r \in Samplers |-> 1]
    /\ given = [p \in PolicyIds |-> {}]
    /\ nPolicies = 0 /\ nDetections = 0

(* POST /v1/learning/policies: an upsert by id.                            *)
UpsertPolicy(p, row) ==
    /\ nPolicies < MaxPolicies
    /\ nPolicies' = nPolicies + 1
    /\ policies' = [q \in DOMAIN policies \cup {p} |-> IF q = p THEN row ELSE policies[q]]
    /\ given' = [given EXCEPT ![p] = @ \cup {row.limit}]
    /\ UNCHANGED <<samples, spent, handling, today, launches, nDetections>>

-----------------------------------------------------------------------------
(* The handler of detections.v1.                                           *)

(* ListPoliciesByModel: any order; its error is dropped and lists nothing. *)
ListPolicies(r, model, class) ==
    /\ nDetections < MaxDetections
    /\ handling[r].todo = <<>>
    /\ nDetections' = nDetections + 1
    /\ \E list \in {<<>>} \cup SetToSeqs({p \in DOMAIN policies : policies[p].model = model}) :
         handling' = [handling EXCEPT ![r] =
             [todo |-> [i \in DOMAIN list |-> [id |-> list[i], limit |-> policies[list[i]].limit]],
              class |-> class, charged |-> 0]]
    /\ UNCHANGED <<policies, samples, spent, today, launches, given, nPolicies>>

Policy(r) == Head(handling[r].todo)
Spent(r) == spent[r][<<Policy(r).id, today>>]

(* Mutant: one sample over the budget. *)
TryOffByOne(limit, counts, class) ==
    /\ limit.budget > 0 => SumFunction(counts) <= limit.budget
    /\ (limit.budget > 0 /\ limit.div # {}) => counts[class] <= limit.budget \div Cardinality(limit.div)

(* Budgeter.Try: below the daily budget (0: none) and, with diversity      *)
(* classes, below an even share of it (rounded down) for this class.       *)
Try(limit, counts, class) ==
    /\ limit.budget > 0 => SumFunction(counts) < limit.budget
    /\ (limit.budget > 0 /\ limit.div # {}) => counts[class] < limit.budget \div Cardinality(limit.div)

NextPolicy(r) == [handling[r] EXCEPT !.todo = Tail(@), !.charged = 0]

(* The roll or the band rejects, or the budget is spent.                   *)
RejectSample(r) ==
    /\ handling[r].todo # <<>> /\ handling[r].charged = 0
    /\ handling' = [handling EXCEPT ![r] = NextPolicy(r)]
    /\ UNCHANGED <<policies, samples, spent, today, launches, given, nPolicies, nDetections>>

Charge(r) ==
    /\ handling[r].todo # <<>> /\ handling[r].charged = 0
    /\ Try(Policy(r).limit, Spent(r), handling[r].class)
    /\ spent' = [spent EXCEPT ![r][<<Policy(r).id, today>>][handling[r].class] = @ + 1]
    /\ handling' = [handling EXCEPT ![r].charged = today]
    /\ UNCHANGED <<policies, samples, today, launches, given, nPolicies, nDetections>>

(* InsertSample, then learning.sampled.v1, whose error is dropped; a       *)
(* failed insert stays charged.                                            *)
InsertSample(r) ==
    /\ handling[r].charged # 0
    /\ \/ samples' = Append(samples,
              [policy |-> Policy(r).id, class |-> handling[r].class, charged |-> handling[r].charged,
               at |-> today, by |-> r, start |-> launches[r], status |-> "queued"])
       \/ UNCHANGED samples
    /\ handling' = [handling EXCEPT ![r] = NextPolicy(r)]
    /\ UNCHANGED <<policies, spent, today, launches, given, nPolicies, nDetections>>

-----------------------------------------------------------------------------
(* POST /v1/learning/samples/{id}/labels: no look at the status before.    *)
MarkLabeled(i) ==
    /\ samples[i].status # "labeled"
    /\ samples' = [samples EXCEPT ![i].status = "labeled"]
    /\ UNCHANGED <<policies, spent, handling, today, launches, given, nPolicies, nDetections>>

Midnight ==
    /\ today < MaxDays
    /\ today' = today + 1
    /\ UNCHANGED <<policies, samples, spent, handling, launches, given, nPolicies, nDetections>>

(* A restart empties the budgeters; nothing reads the rows back.           *)
Restart(r) ==
    /\ launches[r] < MaxLaunches
    /\ launches' = [launches EXCEPT ![r] = @ + 1]
    /\ spent' = [spent EXCEPT ![r] = Unspent]
    /\ handling' = [handling EXCEPT ![r] = NoDetection]
    /\ UNCHANGED <<policies, samples, today, given, nPolicies, nDetections>>

SamplingNext ==
    \/ \E p \in PolicyIds, m \in Models, l \in Limits : UpsertPolicy(p, Row(m, l))
    \/ \E r \in Samplers :
         \/ \E m \in Models, c \in Labels : ListPolicies(r, m, c)
         \/ RejectSample(r) \/ Charge(r) \/ InsertSample(r) \/ Restart(r)
    \/ \E i \in DOMAIN samples : MarkLabeled(i)
    \/ Midnight

SamplingSpec == SamplingInit /\ [][SamplingNext]_samplingVars

-----------------------------------------------------------------------------
NoMoreThanSome(n, bounds) == \E b \in bounds : n <= b

Queued(p, r, s, C, d) ==
    {i \in DOMAIN samples : /\ samples[i].policy = p /\ samples[i].class \in C
                            /\ samples[i].by = r /\ samples[i].start = s /\ samples[i].charged = d}

(* What a daily budget is worth (Budgeter.Try, main.go's handler): between *)
(* two launches of a replica, and whatever the policy is changed to, listed  *)
(* as or labelled meanwhile, no day is charged with more samples than the  *)
(* largest budget the policy ever had, and no class with more than the     *)
(* largest share any of its diversity settings allowed.  Replicas and      *)
(* restarts multiply it; a sample may be dated on the day after.           *)
BudgetPerStart ==
    \A p \in PolicyIds, r \in Samplers, s \in 1..MaxLaunches, d \in 1..MaxDays :
        LET share(l) == IF l.div = {} THEN l.budget ELSE l.budget \div Cardinality(l.div)
            n(C)     == Cardinality(Queued(p, r, s, C, d)) IN
        (\A l \in given[p] : l.budget > 0) =>
            /\ n(Labels) > 0 => NoMoreThanSome(n(Labels), {l.budget : l \in given[p]})
            /\ \A c \in Labels : n({c}) > 0 => NoMoreThanSome(n({c}), {share(l) : l \in given[p]})

=============================================================================
