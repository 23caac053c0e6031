------------------------------ MODULE PolicyGate ------------------------------
(***************************************************************************)
(* policy-gate-service: the gate table (internal/store/store.go) and the   *)
(* open and decide handlers (cmd/policy-gate-service/main.go) of any       *)
(* number of replicas over one database.  A decision request is two steps: *)
(* the guarded UPDATE, then the read-back with the publish of              *)
(* gate.resolved.<id>; other requests run in between.                      *)
(***************************************************************************)
EXTENDS Integers, Sequences, FiniteSets

CONSTANTS
  Gates,      \* gate ids, minted by the client (UnixNano)
  Deciders,   \* decision requests that can be in flight at once
  MaxRequests \* bound on decision requests

VARIABLES
  decision,   \* policy_gates.decision; "none" before the row exists
  deciding,   \* per request: the gate it updated, or NoGate
  changed,    \* per request: RowsAffected > 0
  requests,   \* decision requests so far
  resolved,   \* gate.resolved messages on the bus, not yet delivered
  announced   \* history: how often each gate was announced

gateVars == <<decision, deciding, changed, requests, resolved, announced>>

NoGate    == "nogate"

ASSUME GateAssumption == MaxRequests \in Nat /\ NoGate \notin Gates

Verdict   == {"approved", "rejected", "expired"}
Decisions == {"none", "pending"} \cup Verdict
Messages  == [gate : Gates, decision : Decisions]

\* Mutant: the INSERT overwrites a row with the same id.
GateUpserts(g) == decision' = [decision EXCEPT ![g] = "pending"]

\* Store.Open: INSERT with decision = 'pending'; the id is the primary key.
GateOpens(g) ==
  /\ decision[g] = "none"
  /\ decision' = [decision EXCEPT ![g] = "pending"]

OpenGate(g) ==
  /\ GateOpens(g)
  /\ UNCHANGED <<deciding, changed, requests, resolved, announced>>

\* Mutant: UPDATE without AND decision = 'pending'.
DecideAnyway(o, g, d) ==
  /\ deciding[o] = NoGate
  /\ requests < MaxRequests
  /\ decision[g] # "none"
  /\ decision' = [decision EXCEPT ![g] = d]
  /\ changed' = [changed EXCEPT ![o] = TRUE]
  /\ deciding' = [deciding EXCEPT ![o] = g]
  /\ requests' = requests + 1
  /\ UNCHANGED <<resolved, announced>>

\* Store.Decide's UPDATE: only a pending gate changes.
Decide(o, g, d) ==
  /\ deciding[o] = NoGate
  /\ requests < MaxRequests
  /\ decision[g] # "none"
  /\ decision' = [decision EXCEPT ![g] = IF @ = "pending" THEN d ELSE @]
  /\ changed' = [changed EXCEPT ![o] = decision[g] = "pending"]
  /\ deciding' = [deciding EXCEPT ![o] = g]
  /\ requests' = requests + 1
  /\ UNCHANGED <<resolved, announced>>

\* Mutant: the handler announces whatever it read back.
AnnounceAnyway(o) == TRUE
Announces(o) == changed[o]

\* Store.Decide's Get, then audit and gate.resolved if the row changed.
DecideReplies(o) ==
  LET g == deciding[o] IN
  /\ g # NoGate
  /\ IF Announces(o)
     THEN /\ resolved' = resolved \cup {[gate |-> g, decision |-> decision[g]]}
          /\ announced' = [announced EXCEPT ![g] = @ + 1]
     ELSE UNCHANGED <<resolved, announced>>
  /\ deciding' = [deciding EXCEPT ![o] = NoGate]
  /\ changed' = [changed EXCEPT ![o] = FALSE]
  /\ UNCHANGED <<decision, requests>>

\* The Get fails, the publish's error is dropped, or the process dies: the row
\* is decided and nobody is told.
DecideDies(o) ==
  /\ deciding[o] # NoGate
  /\ deciding' = [deciding EXCEPT ![o] = NoGate]
  /\ changed' = [changed EXCEPT ![o] = FALSE]
  /\ UNCHANGED <<decision, requests, resolved, announced>>

\* The bus hands a message to its subscriber, or to nobody.
Deliver(m) ==
  /\ resolved' = resolved \ {m}
  /\ UNCHANGED <<decision, deciding, changed, requests, announced>>

GateInit ==
  /\ decision = [g \in Gates |-> "none"]
  /\ deciding = [o \in Deciders |-> NoGate]
  /\ changed = [o \in Deciders |-> FALSE]
  /\ requests = 0
  /\ resolved = {}
  /\ announced = [g \in Gates |-> 0]

DeciderNext ==
  \/ \E o \in Deciders, g \in Gates, d \in Verdict : Decide(o, g, d)
  \/ \E o \in Deciders : DecideReplies(o)

GateNext ==
  \/ DeciderNext
  \/ \E g \in Gates : OpenGate(g)
  \/ \E o \in Deciders : DecideDies(o)
  \/ \E m \in resolved : Deliver(m)

GateSpec == GateInit /\ [][GateNext]_gateVars

-----------------------------------------------------------------------------
GateTypeOK ==
  /\ decision \in [Gates -> Decisions]
  /\ deciding \in [Deciders -> Gates \cup {NoGate}]
  /\ changed \in [Deciders -> BOOLEAN]
  /\ requests \in 0..MaxRequests
  /\ resolved \subseteq Messages
  /\ announced \in [Gates -> Nat]

\* store.go:1-4, main.go:11-12: the first decision stands; whatever several
\* approvers do at once, a gate that is decided keeps its decision.
DecisionIsFinal ==
  [][\A g \in Gates : decision[g] \in Verdict => decision'[g] = decision[g]]_gateVars

\* A gate is announced at most once, however many approvers answer at once and
\* although the handler reads the row back in a statement of its own; and what
\* is on the bus is the decision that is recorded.
AnnouncedOnce ==
  /\ \A g \in Gates : announced[g] <= 1
  /\ \A m \in resolved : m.decision = decision[m.gate]

(* The strengthening AnnouncedOnce needs: a request that changed a row is the *)
(* only one, and its row has not been announced yet.                          *)
ChangedIsFresh ==
  \A o \in Deciders : changed[o] =>
    /\ deciding[o] # NoGate
    /\ decision[deciding[o]] \in Verdict
    /\ announced[deciding[o]] = 0

ChangedIsUnique ==
  \A o1, o2 \in Deciders :
    changed[o1] /\ changed[o2] /\ deciding[o1] = deciding[o2] => o1 = o2

AnnouncedIsDecided ==
  /\ \A g \in Gates : announced[g] > 0 => decision[g] \in Verdict
  /\ \A m \in resolved : m.decision \in Verdict

GateInv ==
  /\ GateTypeOK
  /\ AnnouncedOnce
  /\ ChangedIsFresh
  /\ ChangedIsUnique
  /\ AnnouncedIsDecided
=============================================================================
