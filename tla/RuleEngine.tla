---------------------------- MODULE RuleEngine ----------------------------
(***************************************************************************)
(* services/rule-engine: one engine evaluating its rules against the       *)
(* detections of its subscription, in delivery order, and swapped for an   *)
(* empty one when the rules are reloaded.                                  *)
(*                                                                         *)
(* A detection is a position of a track at a capture time; geometry is the *)
(* three things the rules ask of it: in the zone or not, which side of the *)
(* line, which place (boxes of one place are nearby).  Capture times are   *)
(* per stream: two cameras' clocks are independent.  A stream's frames     *)
(* have different capture times and carry one detection each (bound).      *)
(***************************************************************************)
EXTENDS Integers, Sequences, FiniteSets

CONSTANTS RuleSet,     \* the configured rules, in order
          Tracks, NoTrack,
          Streams,
          StreamOf,    \* the stream a track belongs to
          Positions,   \* [zone, side, place]
          StateTTL,    \* Engine.StateTTL
          MaxTime,     \* last capture time (bound)
          MaxReloads   \* reloads of the rules (bound)

IsList(list) == Len(list) \in Nat /\ DOMAIN list = 1..Len(list)

ASSUME RuleAssumption ==
    /\ IsList(RuleSet)
    /\ \A i \in DOMAIN RuleSet :
          /\ RuleSet[i].dwell \in Int /\ RuleSet[i].stale \in Int /\ RuleSet[i].cooldown \in Int
          /\ IsList(RuleSet[i].parts)
    /\ StateTTL \in Nat \ {0} /\ MaxTime \in Nat /\ MaxReloads \in Nat
    /\ NoTrack \notin Tracks /\ StreamOf \in [Tracks -> Streams]

VARIABLES states,    \* Engine.states
          clock,     \* last capture time of each stream
          fired,     \* what the last Apply returned
          reloads,
          inZone,    \* since when the engine has seen the track only in the zone
          inPlace,   \* where, and since when, it has seen the track only there
          last       \* when a rule last fired for a track

ruleVars == <<states, clock, fired, reloads, inZone, inPlace, last>>

Never  == 0
Absent == [kind |-> "absent"]

(* Keys are rule:track, or rule:stream for the rate and composite rules.   *)
IdsOf(r) == {r.id} \cup {r.parts[j].id : j \in DOMAIN r.parts}
RuleIds  == UNION {IdsOf(RuleSet[i]) : i \in DOMAIN RuleSet}
StateKeys == RuleIds \X (Tracks \cup Streams)

Fresh == [kind |-> "state", enteredAt |-> Never, lastFired |-> Never, prevSide |-> 0,
          stableSince |-> Never, stablePlace |-> Never, hits |-> {}]

(* What evaluating a rule returns: the state map, and whether it fired.    *)
Quiet(st)     == [st |-> st, fires |-> FALSE]
Set(st, k, s) == [st EXCEPT ![k] = s]
Fire(st, k, s, now) == [st |-> Set(st, k, [s EXCEPT !.lastFired = now]), fires |-> TRUE]

CooldownActive(s, r, now) == s.lastFired # Never /\ now - s.lastFired < r.cooldown

-----------------------------------------------------------------------------
(* Mutant: leaving the zone keeps the entry time. *)
EvalDwellKeeps(r, d, st) ==
    LET k == <<r.id, d.track>> s == st[k] IN
    CASE d.track = NoTrack \/ ~r.zone \/ ~d.pos.zone -> Quiet(st)
      [] OTHER -> IF s = Absent THEN Quiet(Set(st, k, [Fresh EXCEPT !.enteredAt = d.at]))
                  ELSE IF CooldownActive(s, r, d.at) \/ d.at - s.enteredAt < r.dwell THEN Quiet(st)
                  ELSE Fire(st, k, s, d.at)

EvalDwell(r, d, st) ==
    LET k == <<r.id, d.track>>
        s == st[k]
    IN IF d.track = NoTrack \/ ~r.zone THEN Quiet(st)
       ELSE IF ~d.pos.zone THEN Quiet(Set(st, k, Absent))
       ELSE IF s = Absent THEN Quiet(Set(st, k, [Fresh EXCEPT !.enteredAt = d.at]))
       ELSE IF CooldownActive(s, r, d.at) \/ d.at - s.enteredAt < r.dwell THEN Quiet(st)
       ELSE Fire(st, k, s, d.at)

SignFlipped(a, b) == a * b < 0

(* A filtered-out crossing and one inside the cooldown only move prevSide. *)
EvalLineCross(r, d, st) ==
    LET k    == <<r.id, d.track>>
        s    == st[k]
        side == d.pos.side
        moved == [s EXCEPT !.prevSide = side]
        wanted == \/ r.direction = "any"
                  \/ r.direction = "positive" /\ s.prevSide < 0
                  \/ r.direction = "negative" /\ s.prevSide > 0
    IN CASE d.track = NoTrack -> Quiet(st)
         [] OTHER ->
              IF s = Absent THEN Quiet(Set(st, k, [Fresh EXCEPT !.prevSide = side, !.enteredAt = d.at]))
              ELSE IF SignFlipped(s.prevSide, side) /\ ~CooldownActive(s, r, d.at) /\ wanted
                THEN Fire(st, k, moved, d.at)
                ELSE Quiet(Set(st, k, moved))

EvalAbandoned(r, d, st) ==
    LET k == <<r.id, d.track>>
        s == st[k]
        Anchored(x) == [x EXCEPT !.stableSince = d.at, !.stablePlace = d.pos.place]
    IN CASE d.track = NoTrack \/ r.stale = 0 -> Quiet(st)
         [] OTHER ->
              IF s = Absent THEN Quiet(Set(st, k, Anchored(Fresh)))
              ELSE IF s.stablePlace # d.pos.place THEN Quiet(Set(st, k, Anchored(s)))
              ELSE IF CooldownActive(s, r, d.at) \/ d.at - s.stableSince < r.stale THEN Quiet(st)
              ELSE Fire(st, k, s, d.at)

(* Hits are counted per stream, tracked or not.                            *)
EvalRate(r, d, st) ==
    LET k == <<r.id, d.stream>>
        s == IF st[k] = Absent THEN Fresh ELSE st[k]
        hits == {h \in s.hits : h > d.at - r.win} \cup {d.at}
        counted == [s EXCEPT !.hits = hits]
    IN CASE r.n = 0 \/ r.win = 0 -> Quiet(st)
         [] OTHER -> IF Cardinality(hits) >= r.n /\ ~CooldownActive(s, r, d.at)
                       THEN Fire(st, k, counted, d.at)
                       ELSE Quiet(Set(st, k, counted))

EvalSimple(r, d, st) ==
    CASE r.kind = "spatial.dwell"      -> EvalDwell(r, d, st)
      [] r.kind = "spatial.line_cross" -> EvalLineCross(r, d, st)
      [] r.kind = "temporal.abandoned" -> EvalAbandoned(r, d, st)
      [] r.kind = "temporal.rate"      -> EvalRate(r, d, st)
      [] OTHER                         -> Quiet(st)

(* The states after each part of a composition, one after the other.       *)
PartsRun(r, d, st) ==
    LET run[i \in 0..Len(r.parts)] == IF i = 0 THEN st ELSE EvalSimple(r.parts[i], d, run[i - 1]).st
    IN run

(* The parts are evaluated with their own states, which they update        *)
(* whether or not the composition fires.                                   *)
EvalComposite(r, d, st) ==
    LET run   == PartsRun(r, d, st)
        after == run[Len(r.parts)]
        fires == {i \in DOMAIN r.parts : EvalSimple(r.parts[i], d, run[i - 1]).fires}
        want  == IF r.composer = "or" THEN 1 ELSE Len(r.parts)
        k     == <<r.id, d.stream>>
        s     == IF after[k] = Absent THEN Fresh ELSE after[k]
    IN IF want = 0 \/ Cardinality(fires) < want \/ CooldownActive(s, r, d.at)
         THEN Quiet(after)
         ELSE Fire(after, k, s, d.at)

EvalRule(r, d, st) == IF r.kind = "composite" THEN EvalComposite(r, d, st) ELSE EvalSimple(r, d, st)

(* The age of a state is counted from its last event, else from the entry, *)
(* else from when it stood still; a rate state that never fired has none.  *)
RefTime(s) == IF s.lastFired # Never THEN s.lastFired
              ELSE IF s.enteredAt # Never THEN s.enteredAt ELSE s.stableSince

Expired(s, now) == s # Absent /\ RefTime(s) # Never /\ now - RefTime(s) > StateTTL

GcLocked(st, now) == [k \in StateKeys |-> IF Expired(st[k], now) THEN Absent ELSE st[k]]

(* The states after each rule, one after the other.                        *)
RulesRun(d, st) ==
    LET run[i \in 0..Len(RuleSet)] == IF i = 0 THEN st ELSE EvalRule(RuleSet[i], d, run[i - 1]).st
    IN run

Apply(d, st) ==
    LET run == RulesRun(d, st)
    IN [st  |-> GcLocked(run[Len(RuleSet)], d.at),
        ids |-> {RuleSet[i].id : i \in {j \in DOMAIN RuleSet : EvalRule(RuleSet[j], d, run[j - 1]).fires}}]

-----------------------------------------------------------------------------
RuleInit ==
    /\ states = [k \in StateKeys |-> Absent]
    /\ clock = [s \in Streams |-> Never]
    /\ fired = [ids |-> {}, track |-> NoTrack, at |-> Never, since |-> Never, still |-> Never, prev |-> <<>>]
    /\ reloads = 0
    /\ inZone = [t \in Tracks |-> Never]
    /\ inPlace = [t \in Tracks |-> [place |-> Never, since |-> Never]]
    /\ last = [k \in RuleIds \X Tracks |-> Never]

(* What the engine has been shown of a track, d included.                  *)
ZoneSince(d) == IF ~d.pos.zone THEN Never ELSE IF inZone[d.track] = Never THEN d.at ELSE inZone[d.track]
PlaceSince(d) == IF inPlace[d.track].place = d.pos.place /\ inPlace[d.track].since # Never
                   THEN inPlace[d.track].since ELSE d.at

(* The subscription's handler, and POST /v1/rules:eval, which runs the     *)
(* same Apply on the live engine but returns the events instead of         *)
(* publishing them.                                                        *)
Detect(d) ==
    LET after == Apply(d, states) IN
    /\ states' = after.st
    /\ clock' = [clock EXCEPT ![d.stream] = d.at]
    /\ fired' = [ids |-> after.ids, track |-> d.track, at |-> d.at,
                 since |-> IF d.track = NoTrack THEN Never ELSE ZoneSince(d),
                 still |-> IF d.track = NoTrack THEN Never ELSE PlaceSince(d),
                 prev |-> IF d.track = NoTrack THEN <<>> ELSE [i \in RuleIds |-> last[<<i, d.track>>]]]
    /\ IF d.track = NoTrack THEN UNCHANGED <<inZone, inPlace, last>>
       ELSE /\ inZone' = [inZone EXCEPT ![d.track] = ZoneSince(d)]
            /\ inPlace' = [inPlace EXCEPT ![d.track] = [place |-> d.pos.place, since |-> PlaceSince(d)]]
            /\ last' = [k \in RuleIds \X Tracks |->
                          IF k[2] = d.track /\ k[1] \in after.ids THEN d.at ELSE last[k]]
    /\ UNCHANGED reloads

(* POST /v1/rules:reload: an engine with no state replaces the old one.  A *)
(* handler that fetched the old one just before counts as run before.      *)
Reload ==
    /\ reloads < MaxReloads
    /\ states' = [k \in StateKeys |-> Absent]
    /\ reloads' = reloads + 1
    /\ UNCHANGED <<clock, fired, inZone, inPlace, last>>

(* An untracked detection counts for the rate rules only, wherever it is.  *)
Detections ==
    {[stream |-> StreamOf[t], track |-> t, pos |-> p, at |-> n] : t \in Tracks, p \in Positions, n \in 1..MaxTime}
    \cup {[stream |-> s, track |-> NoTrack, pos |-> CHOOSE p \in Positions : TRUE, at |-> n] : s \in Streams, n \in 1..MaxTime}

RuleNext ==
    \/ \E d \in Detections : d.at > clock[d.stream] /\ Detect(d)
    \/ Reload

RuleSpec == RuleInit /\ [][RuleNext]_ruleVars

-----------------------------------------------------------------------------
(* loadRules takes the ids of the file as they are: rules and parts that   *)
(* share one share its states.                                             *)
OwnId(i) == \A j \in DOMAIN RuleSet \ {i} : RuleSet[i].id \notin IdsOf(RuleSet[j])

(* An alert is earned: a dwell rule fires only for a track the engine has  *)
(* seen in the zone, and nowhere else, for at least Dwell, and not again   *)
(* within the shorter of Dwell and Cooldown; an abandoned rule only for an *)
(* object seen in one place for at least Stale.  Garbage collection driven *)
(* by another camera's clock, leaving and re-entering, composition and     *)
(* reloads may cost an alert and never make one up.                        *)
AlertsAreEarned ==
    \A i \in DOMAIN RuleSet :
        LET r == RuleSet[i] IN
        OwnId(i) /\ r.id \in fired.ids =>
            CASE r.kind = "spatial.dwell" ->
                   /\ fired.since # Never /\ fired.at - fired.since >= r.dwell
                   /\ fired.prev[r.id] # Never =>
                        fired.at - fired.prev[r.id] >= (IF r.cooldown < r.dwell THEN r.cooldown ELSE r.dwell)
              [] r.kind = "temporal.abandoned" -> fired.at - fired.still >= r.stale
              [] OTHER -> TRUE

=============================================================================
