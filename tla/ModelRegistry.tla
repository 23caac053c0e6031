--------------------------- MODULE ModelRegistry ---------------------------
(***************************************************************************)
(* model-registry: models, their versions and the channel each version is  *)
(* served on.  A version begins on CANARY and reaches STABLE only through  *)
(* PromoteModelVersion, whose gates read the version and its model in one  *)
(* statement and whose update is another: promotions of one version, up    *)
(* and down, interleave between the two.                                   *)
(*                                                                         *)
(* Of a version the gates look at: the cost profiles, as the set of their  *)
(* verified flags (the JSON column keeps each of them), and whether it has *)
(* a fairness evaluation.  Of a model they look at its kind, and only at   *)
(* whether that is FACE: there is no kind for models of people, which are  *)
(* detectors (or pose, or embedding models) here as in the catalog.        *)
(***************************************************************************)
EXTENDS Integers, FiniteSets

CONSTANTS Models,       \* ids CreateModel will draw
          Orphan,       \* a model id nobody created: there is no foreign key
          Versions,     \* ids CreateModelVersion will draw
          Semvers,
          Promoters,    \* requests of PromoteModelVersion
          MaxDbFaults   \* faults of the environment (bound)

ASSUME RegistryAssumption == Orphan \notin Models /\ MaxDbFaults \in Nat

VARIABLES models,     \* table models: the kind of each
          versions,   \* table model_versions
          promotion,  \* the requests: what each has read and was told
          updates,    \* channel updates each version has seen
          dbFaults

registryVars == <<models, versions, promotion, updates, dbFaults>>

ModelKinds == {"detector", "face"}
Channels   == {"unspecified", "canary", "stable", "deprecated"}

RegistryInit ==
    /\ models = [m \in {} |-> "none"]
    /\ versions = [v \in {} |-> "none"]
    /\ promotion = [p \in Promoters |-> [st |-> "idle"]]
    /\ updates = [v \in Versions |-> 0]
    /\ dbFaults = 0

-----------------------------------------------------------------------------
(* A table with one more row: INSERT.                                      *)
WithRow(table, id, row) == [x \in DOMAIN table \cup {id} |-> IF x = id THEN row ELSE table[x]]

CreateModel(m, kind) ==
    /\ m \notin DOMAIN models
    /\ models' = WithRow(models, m, kind)
    /\ UNCHANGED <<versions, promotion, updates, dbFaults>>

(* The row CreateVersion inserts, always on CANARY.                        *)
NewVersion(m, semver, profiles, fairness) ==
    [model |-> m, semver |-> semver, profiles |-> profiles, fairness |-> fairness,
     channel |-> "canary", version |-> 1]

(* UNIQUE(model_id, semver) refuses a second one.                          *)
CreateModelVersion(v, m, semver, profiles, fairness) ==
    /\ v \notin DOMAIN versions
    /\ \A w \in DOMAIN versions : <<versions[w].model, versions[w].semver>> # <<m, semver>>
    /\ versions' = WithRow(versions, v, NewVersion(m, semver, profiles, fairness))
    /\ UNCHANGED <<models, promotion, updates, dbFaults>>

(* The gates of PromoteVersion.                                            *)
Promotable(row, kind, ch) ==
    ch = "stable" =>
        /\ TRUE \in row.profiles
        /\ kind = "face" => row.fairness

(* getVersionAndKind joins the model: a version of an unknown one is not   *)
(* found.                                                                  *)
GetVersionAndKind(v) == v \in DOMAIN versions /\ versions[v].model \in DOMAIN models

(* A closed gate refuses, and the request is over.                         *)
ReadVersion(p, v, ch) ==
    /\ promotion[p].st = "idle" /\ GetVersionAndKind(v)
    /\ promotion' = [promotion EXCEPT ![p] =
           IF Promotable(versions[v], models[versions[v].model], ch)
           THEN [st |-> "read", version |-> v, channel |-> ch, seen |-> versions[v].version]
           ELSE [st |-> "refused"]]
    /\ UNCHANGED <<models, versions, updates, dbFaults>>

NotFound(p, v) ==
    /\ promotion[p].st = "idle" /\ ~GetVersionAndKind(v)
    /\ promotion' = [promotion EXCEPT ![p] = [st |-> "refused"]]
    /\ UNCHANGED <<models, versions, updates, dbFaults>>

(* Mutant: the version is written from the row read before. *)
PromotedFromRead(row, pr) == [row EXCEPT !.channel = pr.channel, !.version = pr.seen + 1]

(* SET channel=?, version=version+1: the count is the database's.          *)
Promoted(row, pr) == [row EXCEPT !.channel = pr.channel, !.version = @ + 1]

(* The caller is told the version it has read, plus one.                   *)
UpdateChannel(p) ==
    /\ promotion[p].st = "read"
    /\ LET v == promotion[p].version
       IN /\ versions' = [versions EXCEPT ![v] = Promoted(@, promotion[p])]
          /\ updates' = [updates EXCEPT ![v] = @ + 1]
    /\ promotion' = [promotion EXCEPT ![p].st = "answered", ![p].seen = @ + 1]
    /\ UNCHANGED <<models, dbFaults>>

(* The statement fails, before or after the row changed; the caller may    *)
(* try again, under another request.                                       *)
UpdateFails(p, written) ==
    /\ promotion[p].st = "read" /\ dbFaults < MaxDbFaults
    /\ LET v == promotion[p].version
       IN IF written
          THEN /\ versions' = [versions EXCEPT ![v] = Promoted(@, promotion[p])]
               /\ updates' = [updates EXCEPT ![v] = @ + 1]
          ELSE UNCHANGED <<versions, updates>>
    /\ promotion' = [promotion EXCEPT ![p] = [st |-> "refused"]]
    /\ dbFaults' = dbFaults + 1
    /\ UNCHANGED models

RegistryNext ==
    \/ \E m \in Models, kind \in ModelKinds : CreateModel(m, kind)
    \/ \E v \in Versions, m \in DOMAIN models \cup {Orphan}, semver \in Semvers :
           \E profiles \in SUBSET BOOLEAN, fairness \in BOOLEAN :
               CreateModelVersion(v, m, semver, profiles, fairness)
    \/ \E p \in Promoters, v \in Versions :
           NotFound(p, v) \/ \E ch \in Channels : ReadVersion(p, v, ch)
    \/ \E p \in Promoters : UpdateChannel(p) \/ \E written \in BOOLEAN : UpdateFails(p, written)

RegistrySpec == RegistryInit /\ [][RegistryNext]_registryVars

-----------------------------------------------------------------------------
(* The two gates that PromoteVersion has, although they look at a row read *)
(* before the update: a version on STABLE has a verified profile (eu-ai-   *)
(* act.md:101) and, if its model's kind is FACE, a fairness evaluation;    *)
(* and no promotion gets lost between two that read the same row: each     *)
(* counts in the row's version, which never falls behind what a caller was *)
(* told.  Two gates the documents name are not in the code, so not here: a *)
(* fairness evaluation of a model of people that is not FACE (sql.go:159), *)
(* and a resolved policy gate (README.md:36 of the service).               *)
PromotionsAreGated ==
    /\ \A v \in DOMAIN versions :
           /\ versions[v].channel = "stable" =>
                  /\ versions[v].model \in DOMAIN models
                  /\ TRUE \in versions[v].profiles
                  /\ models[versions[v].model] = "face" => versions[v].fairness
           /\ versions[v].version = 1 + updates[v]
    /\ \A p \in Promoters : promotion[p].st = "answered" =>
           promotion[p].seen <= versions[promotion[p].version].version

=============================================================================
