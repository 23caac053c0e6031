----------------------------- MODULE FrameRing -----------------------------
(***************************************************************************)
(* The claim-check ring of one stream and the chains dataplane-runner      *)
(* starts on it.  Every pipeline on the stream, and every restart of one,  *)
(* shares the ring, because Registry.Ensure looks it up by stream id: a    *)
(* stopped chain still writes while its successor has begun.  Put takes an *)
(* index without a lock and writes under one; a descriptor carries the     *)
(* slot and its generation to detect, and to redact where a pipeline has   *)
(* that node.                                                              *)
(*                                                                         *)
(* A payload is a name of the frame it was written for.                    *)
(***************************************************************************)
EXTENDS Integers, Sequences, FiniteSets

CONSTANTS Pipelines,   \* pipelines deployed on the stream
          Redacting,   \* those with a redact node
          Chains,      \* runs of the chain, 1..n in the order they start
          RingCap,
          MaxPuts      \* bound of the index counter

ASSUME RingAssumption ==
    /\ Redacting \subseteq Pipelines
    /\ RingCap \in Nat \ {0} /\ MaxPuts \in Nat
    /\ Chains = 1..Cardinality(Chains)

VARIABLES watching,   \* the runner's subscription
          running,    \* Runner.running: the chain of each started pipeline
          chain,      \* each run: its pipeline, state and frames
          ring        \* the stream's ring, once Ensure has made it

ringVars == <<watching, running, chain, ring>>

NoRing == [slots |-> << >>]
ErrStale == <<"stale">>
Empty == << >>
Idle == [st |-> "idle"]

(* The text "ring:slot:gen" of a locator, and back: with one ring per      *)
(* stream the pair says it all.                                            *)
Locator(slot, gen) == [slot |-> slot, gen |-> gen]

NewRing == [slots |-> [s \in 0..RingCap - 1 |-> Empty],
            generation |-> [s \in 0..RingCap - 1 |-> 0], next |-> 0]

RingInit ==
    /\ watching = TRUE
    /\ running = [p \in {} |-> 0]
    /\ chain = [c \in Chains |-> [st |-> "unused"]]
    /\ ring = NoRing

-----------------------------------------------------------------------------
(* handle, "start": a pipeline already running is left alone.              *)
Start(p) ==
    /\ watching /\ p \notin DOMAIN running
    /\ \E c \in Chains :
           /\ chain[c].st = "unused" /\ \A d \in Chains : d < c => chain[d].st # "unused"
           /\ running' = [q \in DOMAIN running \cup {p} |-> IF q = p THEN c ELSE running[q]]
           /\ chain' = [chain EXCEPT ![c] = [st |-> "starting", pipeline |-> p, cancelled |-> FALSE, seq |-> 0,
                                             ingest |-> Idle, flight |-> << >>, redact |-> Idle]]
    /\ UNCHANGED <<watching, ring>>

(* handle, "stop": the context is cancelled and the key free at once.      *)
Stop(p) ==
    /\ watching /\ p \in DOMAIN running
    /\ chain' = [chain EXCEPT ![running[p]].cancelled = TRUE]
    /\ running' = [q \in DOMAIN running \ {p} |-> running[q]]
    /\ UNCHANGED <<watching, ring>>

(* Runner.Close drains the subscription and cancels nothing.               *)
Close ==
    /\ watching
    /\ watching' = FALSE
    /\ UNCHANGED <<running, chain, ring>>

(* Registry.Ensure: the ring of the stream, made once.                     *)
Ensure == IF ring = NoRing THEN NewRing ELSE ring

(* runOne: Ensure, then the chain runs.                                    *)
RunOne(c) ==
    /\ chain[c].st = "starting"
    /\ ring' = Ensure
    /\ chain' = [chain EXCEPT ![c].st = "live"]
    /\ UNCHANGED <<watching, running>>

Live(c) == chain[c].st = "live"

(* Ring.Put, the atomic index.                                             *)
TakeIndex == [ring EXCEPT !.next = @ + 1]
NextSlot == ring.next % RingCap
CanPut == ring.next < MaxPuts

(* Mutant: the locator carries the generation from before the write. *)
PutOld(slot, payload) ==
    [loc |-> Locator(slot, ring.generation[slot]),
     ring |-> [ring EXCEPT !.slots[slot] = payload, !.generation[slot] = @ + 1]]

(* Ring.Put under the lock.                                                *)
Put(slot, payload) ==
    [loc |-> Locator(slot, ring.generation[slot] + 1),
     ring |-> [ring EXCEPT !.slots[slot] = payload, !.generation[slot] = @ + 1]]

Get(loc) == IF ring.generation[loc.slot] # loc.gen THEN ErrStale ELSE ring.slots[loc.slot]

(* A tick of the ingest; it may win against a cancellation once more.      *)
Tick(c) ==
    /\ Live(c) /\ chain[c].ingest = Idle /\ CanPut
    /\ chain' = [chain EXCEPT ![c].ingest = [st |-> "put", slot |-> NextSlot], ![c].seq = @ + 1]
    /\ ring' = TakeIndex
    /\ UNCHANGED <<watching, running>>

WriteFrame(c) ==
    /\ Live(c) /\ chain[c].ingest # Idle
    /\ LET payload == <<c, chain[c].seq, "raw">>
           put == Put(chain[c].ingest.slot, payload)
       IN /\ ring' = put.ring
          /\ chain' = [chain EXCEPT ![c].ingest = Idle,
                                    ![c].flight = Append(@, [payload |-> payload, loc |-> put.loc, at |-> "detect"])]
    /\ UNCHANGED <<watching, running>>

(* detect takes the oldest frame that has not passed it: a stale one is    *)
(* dropped, the others go on to redact or are done with the ring.          *)
Detect(c) ==
    /\ Live(c)
    /\ \E j \in DOMAIN chain[c].flight :
           LET f == chain[c].flight[j]
               rest == SubSeq(chain[c].flight, j + 1, Len(chain[c].flight))
               before == SubSeq(chain[c].flight, 1, j - 1)
           IN /\ f.at = "detect" /\ \A k \in 1..j - 1 : chain[c].flight[k].at # "detect"
              /\ chain' = [chain EXCEPT ![c].flight =
                     IF Get(f.loc) = ErrStale \/ chain[c].pipeline \notin Redacting THEN before \o rest
                     ELSE before \o <<[f EXCEPT !.at = "redact"]>> \o rest]
    /\ UNCHANGED <<watching, running, ring>>

(* redact reads the payload and takes an index for the redacted copy; a    *)
(* frame gone stale since detect, or without a detection of a class to     *)
(* redact, passes as it is.                                                *)
Redact(c) ==
    /\ Live(c) /\ chain[c].redact = Idle
    /\ chain[c].flight # << >> /\ Head(chain[c].flight).at = "redact"
    /\ \/ /\ chain' = [chain EXCEPT ![c].flight = Tail(@)]
          /\ UNCHANGED ring
       \/ /\ Get(Head(chain[c].flight).loc) # ErrStale /\ CanPut
          /\ chain' = [chain EXCEPT ![c].redact = [st |-> "put", slot |-> NextSlot]]
          /\ ring' = TakeIndex
    /\ UNCHANGED <<watching, running>>

WriteRedacted(c) ==
    /\ Live(c) /\ chain[c].redact # Idle
    /\ LET f == Head(chain[c].flight)
           payload == [f.payload EXCEPT ![3] = "redacted"]
           put == Put(chain[c].redact.slot, payload)
       IN /\ ring' = put.ring
          /\ chain' = [chain EXCEPT ![c].redact = Idle,
                                    ![c].flight = <<[payload |-> payload, loc |-> put.loc, at |-> "sink"]>> \o Tail(@)]
    /\ UNCHANGED <<watching, running>>

(* A consumer behind redact, then the frame is done.                       *)
Consume(c) ==
    /\ Live(c) /\ chain[c].flight # << >> /\ Head(chain[c].flight).at = "sink"
    /\ chain' = [chain EXCEPT ![c].flight = Tail(@)]
    /\ UNCHANGED <<watching, running, ring>>

(* The operators see ctx.Done; a Put under way is finished first.          *)
End(c) ==
    /\ Live(c) /\ chain[c].cancelled /\ chain[c].ingest = Idle /\ chain[c].redact = Idle
    /\ chain' = [chain EXCEPT ![c].st = "ended", ![c].flight = << >>]
    /\ UNCHANGED <<watching, running, ring>>

RingNext ==
    \/ \E p \in Pipelines : Start(p) \/ Stop(p)
    \/ Close
    \/ \E c \in Chains :
          \/ RunOne(c) \/ Tick(c) \/ WriteFrame(c) \/ Detect(c)
          \/ Redact(c) \/ WriteRedacted(c) \/ Consume(c) \/ End(c)

RingSpec == RingInit /\ [][RingNext]_ringVars

-----------------------------------------------------------------------------
(* A locator on its way through a chain reads the pixels of its own frame  *)
(* as long as they are in the ring and ErrStale afterwards, never those of *)
(* another frame: whatever other pipelines of the stream, earlier runs of  *)
(* this one and redacted copies write between the index and the lock.      *)
DetectsItsOwnPixels ==
    \A c \in Chains : Live(c) =>
        \A j \in DOMAIN chain[c].flight :
            LET f == chain[c].flight[j]
            IN Get(f.loc) = IF ring.slots[f.loc.slot] = f.payload THEN f.payload ELSE ErrStale

=============================================================================
