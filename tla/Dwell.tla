------------------------------- MODULE Dwell -------------------------------
(***************************************************************************)
(* The tracker and the dwell rule of a frame chain: frames with detections *)
(* become track ids, and tracks that stay in a zone become events.  The    *)
(* tracker keeps a track through MaxMissing frames without its target; the *)
(* rule keeps its state by track and rule, whatever the gaps.  Frames the  *)
(* detect operator dropped are never seen by either.                       *)
(*                                                                         *)
(* Boxes have one width and move along a line, as the synthetic target's;  *)
(* the larger the common part, the larger the ratio iou computes.          *)
(***************************************************************************)
EXTENDS Integers, Sequences, FiniteSets

CONSTANTS Classes, Places, BoxWidth,
          Threshold,    \* IOUThreshold in percent
          MaxMissing,
          Rules,        \* a sequence of [id, zone, dwell]
          MaxTicks

ASSUME DwellAssumption ==
    /\ IsFiniteSet(Classes) /\ Places \subseteq Nat /\ BoxWidth \in Nat \ {0} /\ Threshold \in 1..100
    /\ MaxMissing \in Nat \ {0} /\ MaxTicks \in Nat
    /\ DOMAIN Rules = 1..Len(Rules) /\ Len(Rules) \in Nat
    /\ \A r \in DOMAIN Rules : Rules[r].zone \subseteq Places /\ Rules[r].dwell \in Nat

VARIABLES tracks,   \* Tracker.tracks: track by id, in the order of the ids
          ids,      \* track ids given so far: newTrackID never repeats
          insides,  \* Rule.insides
          events,   \* the RuleEvents of all frames
          ticks,    \* capture time
          history   \* the frames seen: capture time and place of each class

dwellVars == <<tracks, ids, insides, events, ticks, history>>

TrackerInit == tracks = [j \in {} |-> 0] /\ ids = 0
RuleInit == insides = [k \in {} |-> 0] /\ events = {}
DwellInit == TrackerInit /\ RuleInit /\ ticks = 0 /\ history = << >>

-----------------------------------------------------------------------------
Common(a, b) == BoxWidth - IF a > b THEN a - b ELSE b - a
IoU(a, b) == IF Common(a, b) <= 0 THEN 0 ELSE (100 * Common(a, b)) \div (2 * BoxWidth - Common(a, b))

Track(det) == [class |-> det.class, box |-> det.box, missed |-> 0]

(* The unused tracks of a detection's class that overlap it enough.        *)
Matching(acc, det) ==
    {j \in DOMAIN acc.tracks \ acc.used :
        acc.tracks[j].class = det.class /\ IoU(acc.tracks[j].box, det.box) >= Threshold}

(* One detection of assign: the best candidate, the first of equals, or a  *)
(* new track.                                                              *)
Associate(acc, det) ==
    LET cands == Matching(acc, det)
        best == CHOOSE j \in cands : \A k \in cands :
                    \/ IoU(acc.tracks[k].box, det.box) < IoU(acc.tracks[j].box, det.box)
                    \/ IoU(acc.tracks[k].box, det.box) = IoU(acc.tracks[j].box, det.box) /\ j <= k
        id == IF cands # {} THEN best ELSE acc.ids + 1
    IN [tracks |-> [j \in DOMAIN acc.tracks \cup {id} |-> IF j = id THEN Track(det) ELSE acc.tracks[j]],
        ids    |-> IF cands # {} THEN acc.ids ELSE id,
        used   |-> acc.used \cup {id},
        given  |-> id]

Associations(dets) ==
    LET associated[d \in 0..Len(dets)] ==
            IF d = 0 THEN [tracks |-> tracks, ids |-> ids, used |-> {}, given |-> 0]
                     ELSE Associate(associated[d - 1], dets[d])
    IN associated

(* Mutant: a track is closed one frame too early. *)
SurvivesLess(t) == t.missed < MaxMissing

Survives(t) == t.missed <= MaxMissing

Aged(acc) ==
    [j \in DOMAIN acc.tracks |-> IF j \in acc.used THEN acc.tracks[j]
                                 ELSE [acc.tracks[j] EXCEPT !.missed = @ + 1]]

(* Tracker.assign: the associations, then the tracks without one age.      *)
Assign(dets) ==
    LET a == Associations(dets)
        aged == Aged(a[Len(dets)])
    IN [tracks |-> [j \in {i \in DOMAIN aged : Survives(aged[i])} |-> aged[j]],
        ids    |-> a[Len(dets)].ids,
        dets   |-> [d \in 1..Len(dets) |-> [class |-> dets[d].class, box |-> dets[d].box, track |-> a[d].given]]]

(* The box's centre is in the zone.                                        *)
ZoneContains(zone, box) == box \in zone

(* Of an event the rule, the class and the capture time matter.            *)
BuildEvent(rule, det, at) == [rule |-> rule.id, class |-> det.class, at |-> at]

Key(rule, det) == <<det.track, rule.id>>

(* The target has been inside for Dwell, and that was not reported yet.    *)
Fires(ins, rule, det, now) ==
    /\ ZoneContains(rule.zone, det.box) /\ Key(rule, det) \in DOMAIN ins
    /\ ~ins[Key(rule, det)].fired /\ now - ins[Key(rule, det)].entered >= rule.dwell

JustEntered(now) == [entered |-> now, fired |-> FALSE]

(* What a detection leaves in insides.                                     *)
NextInsides(ins, rule, det, now) ==
    LET k == Key(rule, det) IN
    IF ZoneContains(rule.zone, det.box)
    THEN [j \in DOMAIN ins \cup {k} |->
             IF j # k THEN ins[j]
             ELSE IF k \notin DOMAIN ins THEN JustEntered(now)
             ELSE [ins[k] EXCEPT !.fired = @ \/ Fires(ins, rule, det, now)]]
    ELSE [j \in DOMAIN ins \ {k} |-> ins[j]]

(* One detection under one rule.  The detection that fires takes the first *)
(* place of the frame's list, which the rules after it then read.          *)
Judge(acc, rule, d, now) ==
    LET det   == acc.dets[d]
        fires == Fires(acc.insides, rule, det, now)
    IN [insides |-> NextInsides(acc.insides, rule, det, now),
        events  |-> acc.events \cup (IF fires THEN {BuildEvent(rule, det, now)} ELSE {}),
        dets    |-> [e \in DOMAIN acc.dets |-> IF fires /\ e = 1 THEN det ELSE acc.dets[e]]]

(* Rule.evaluate: every rule, and under it every detection.                *)
JudgeAll(acc, rule, now) ==
    LET judged[d \in 0..Len(acc.dets)] == IF d = 0 THEN acc ELSE Judge(judged[d - 1], rule, d, now)
    IN judged[Len(acc.dets)]

Evaluate(dets, now) ==
    LET evaluated[r \in 0..Len(Rules)] ==
            IF r = 0 THEN [insides |-> insides, events |-> events, dets |-> dets]
                     ELSE JudgeAll(evaluated[r - 1], Rules[r], now)
    IN evaluated[Len(Rules)]

(* Where a class was last seen, and where it can be seen next: the target  *)
(* is slow enough for two sightings in a row to be associated.             *)
Seen(h, c) == {n \in DOMAIN h : c \in DOMAIN h[n].at}
Latest(h, c) == CHOOSE n \in Seen(h, c) : \A m \in Seen(h, c) : m <= n
Reach(c) == IF Seen(history, c) = {} THEN Places
            ELSE {x \in Places : IoU(history[Latest(history, c)].at[c], x) >= Threshold}

(* What the detector makes of a target.                                    *)
Detection(c, x) == [class |-> c, box |-> x]

Sighted(dets) == [c \in {dets[d].class : d \in DOMAIN dets} |->
                     dets[CHOOSE d \in DOMAIN dets : dets[d].class = c].box]

Frame(dets) ==
    /\ ticks < MaxTicks
    /\ LET a == Assign(dets)
           e == Evaluate(a.dets, ticks)
       IN /\ tracks' = a.tracks /\ ids' = a.ids
          /\ insides' = e.insides /\ events' = e.events
    /\ history' = Append(history, [t |-> ticks, at |-> Sighted(dets)])
    /\ ticks' = ticks + 1

FrameDropped ==
    /\ ticks < MaxTicks
    /\ ticks' = ticks + 1
    /\ UNCHANGED <<tracks, ids, insides, events, history>>

(* A frame reaches the tracker with at most one target of each class, in   *)
(* any order.                                                              *)
OneOfEach(q) == \A i, j \in DOMAIN q : q[i] = q[j] => i = j

DwellNext ==
    \/ \E n \in 0..Cardinality(Classes) :
          \E cs \in {q \in [1..n -> Classes] : OneOfEach(q)}, boxes \in [1..n -> Places] :
              /\ \A i \in 1..n : boxes[i] \in Reach(cs[i])
              /\ Frame([i \in 1..n |-> Detection(cs[i], boxes[i])])
    \/ FrameDropped

DwellSpec == DwellInit /\ [][DwellNext]_dwellVars

-----------------------------------------------------------------------------
(* A stay, read off the frames: sightings in the zone with never more than *)
(* MaxMissing frames between two of them.                                  *)
Stay(h, c, zone, i, j) ==
    LET s == Seen(h, c) \cap i..j
    IN /\ i \in s /\ j \in s
       /\ \A n \in s : h[n].at[c] \in zone
       /\ \A n \in i..j : n + MaxMissing < j => (n..n + MaxMissing) \cap s # {}
Begins(h, c, zone, i) ==
    \A m \in Seen(h, c) : m < i => ~Stay(h, c, zone, m, i)
Lasted(h, rule, i, j) == h[j].t - h[i].t >= rule.dwell

(* Frame j is the first at which a stay of c has lasted the dwell time.    *)
Due(h, rule, c, j) ==
    \E i \in 1..j - 1 :
        /\ Stay(h, c, rule.zone, i, j) /\ Begins(h, c, rule.zone, i)
        /\ Lasted(h, rule, i, j)
        /\ \A k \in i + 1..j - 1 : k \in Seen(h, c) => ~Lasted(h, rule, i, k)

(* The rule has its id to itself, and reads the frame's detections as the  *)
(* tracker left them: none before it can have moved one over another.      *)
Undisturbed(r) ==
    /\ \A q \in DOMAIN Rules \ {r} : Rules[q].id # Rules[r].id
    /\ r = 1 \/ \A c, d \in Classes : c = d

(* For targets moving slowly enough to be followed, the events are exactly *)
(* those a reader of the frames expects: one for every stay in the zone    *)
(* that lasts the dwell time, at the first frame at which it has, across   *)
(* dropped frames and frames without the target, and a new one only after  *)
(* the target has left or been missed for too long.                        *)
DwellFiresOncePerStay ==
    \A r \in DOMAIN Rules :
        Undisturbed(r) =>
            {e \in events : e.rule = Rules[r].id} =
                {[rule |-> Rules[r].id, class |-> x[1], at |-> history[x[2]].t] :
                    x \in {y \in Classes \X DOMAIN history : Due(history, Rules[r], y[1], y[2])}}

=============================================================================
