---------------------------- MODULE EventsProofs ----------------------------
(***************************************************************************)
(* What travels on the bus, for any tenants, messages and replicas: the    *)
(* books of the metering path, the audit trail's losses, the channels of   *)
(* the hub and what a slow client costs, the budgets of the samplers, the  *)
(* windows of the detectors of drift and the alerts of the rules.          *)
(***************************************************************************)
EXTENDS UsagePath, AuditTrail, EventFanout, Sampling, DriftWindow, RuleEngine, SequenceTheorems, SetSums

-----------------------------------------------------------------------------
(* UsagePath.  Usage is conserved because every step moves counts from one *)
(* place to another; that needs sums over the messages on the wire and     *)
(* over the running flushes, that a message is not on the wire twice, and  *)
(* that a flush which is not writing holds nothing.                        *)

CallStates == [st : {"idle", "trying", "failed", "sent"}, tries : Nat, tenant : Payers \cup {NoPayer}]
Messages   == [id : Calls, tenant : Payers \cup {NoPayer}, subject : Subjects, n : Int]
Counts     == [Keys -> Int]
Flushes    == [st : {"idle", "asked", "writing"}, drain : Counts]

CallsOK ==
  /\ call \in [Calls -> CallStates]
  /\ \A c \in Calls : call[c].st = "trying" => call[c].tries > 0

WireOK ==
  /\ IsFiniteSet(wire) /\ wire \subseteq Messages
  /\ \A msg \in wire : call[msg.id].st = "sent"

BooksOK ==
  /\ buf \in Counts /\ meters \in Counts /\ lost \in Counts /\ twice \in Counts
  /\ flush \in [Flushers -> Flushes]
  /\ \A f \in Flushers : flush[f].st # "writing" => flush[f].drain = Nothing
  /\ faults \in Nat

UsageInv == CallsOK /\ WireOK /\ BooksOK /\ UsageConserved

\* A message more, a message less.
LEMMA ShareInt ==
  ASSUME NEW msg \in Messages, NEW k PROVE Share(msg, k) \in Int
BY DEF Share, Messages

LEMMA WireGrows ==
  ASSUME NEW W, IsFiniteSet(W), W \subseteq Messages, NEW x \in Messages, x \notin W, NEW k
  PROVE  /\ SumFunction([msg \in W |-> Share(msg, k)]) \in Int
         /\ SumFunction([msg \in W \cup {x} |-> Share(msg, k)])
              = SumFunction([msg \in W |-> Share(msg, k)]) + Share(x, k)
<1> DEFINE V == W \cup {x}
           f == [msg \in W |-> Share(msg, k)]
           g == [msg \in V |-> Share(msg, k)]
<1>1. IsFiniteSet(V) /\ V \ {x} = W
  BY FS_AddElement
<1>2. \A msg \in V : g[msg] \in Int
  BY ShareInt
<1>3. \A msg \in W : f[msg] \in Int /\ g[msg] = f[msg]
  BY ShareInt
<1>4. g[x] = Share(x, k)
  OBVIOUS
<1>5. x \in V
  OBVIOUS
<1>6. SumFunction(f) = SumFunctionOnSet(f, W) /\ SumFunction(g) = SumFunctionOnSet(g, V)
  BY DEF SumFunction
<1> HIDE DEF V, f, g
<1>7. SumFunctionOnSet(g, V) = g[x] + SumFunctionOnSet(g, W)
  BY <1>1, <1>2, <1>5, SumTake, Zenon
<1>8. SumFunctionOnSet(g, W) = SumFunctionOnSet(f, W)
  BY <1>3, SumSame
<1>9. SumFunctionOnSet(f, W) \in Int
  BY <1>3, SumInt
<1>10. Share(x, k) \in Int
  BY ShareInt
<1> QED
  BY <1>4, <1>6, <1>7, <1>8, <1>9, <1>10 DEF V, f, g

LEMMA WireShrinks ==
  ASSUME NEW W, IsFiniteSet(W), W \subseteq Messages, NEW x, x \in W, NEW V, V = W \ {x}, NEW k
  PROVE  /\ SumFunction([msg \in V |-> Share(msg, k)]) \in Int
         /\ SumFunction([msg \in W |-> Share(msg, k)])
              = SumFunction([msg \in V |-> Share(msg, k)]) + Share(x, k)
<1>1. IsFiniteSet(V) /\ V \subseteq Messages /\ x \in Messages /\ x \notin V /\ V \cup {x} = W
  BY FS_RemoveElement
<1>2. /\ SumFunction([msg \in V |-> Share(msg, k)]) \in Int
      /\ SumFunction([msg \in V \cup {x} |-> Share(msg, k)])
           = SumFunction([msg \in V |-> Share(msg, k)]) + Share(x, k)
  BY <1>1, WireGrows, ZenonT(60)
<1> QED
  BY <1>1, <1>2

\* The running flushes: there are three, and one changes at a time.
LEMMA FlushersFinite == IsFiniteSet(Flushers)
<1>1. Flushers = ({} \cup {"ticker"}) \cup {"inference.completed.v1"} \cup {"llm.completed.v1"}
  BY DEF Flushers, Subjects
<1>2. IsFiniteSet({})
  BY FS_EmptySet
<1>3. IsFiniteSet({} \cup {"ticker"})
  BY <1>2, FS_AddElement
<1>4. IsFiniteSet(({} \cup {"ticker"}) \cup {"inference.completed.v1"})
  BY <1>3, FS_AddElement
<1> QED
  BY <1>1, <1>4, FS_AddElement

LEMMA DrainChanges ==
  ASSUME NEW f \in Flushers, NEW d \in [Flushers -> Int], NEW e \in [Flushers -> Int],
         \A g \in Flushers \ {f} : e[g] = d[g]
  PROVE  SumFunction(d) \in Int /\ SumFunction(e) = SumFunction(d) - d[f] + e[f]
<1> DEFINE rest == Flushers \ {f}
<1>1. IsFiniteSet(Flushers) /\ IsFiniteSet(rest)
  BY FlushersFinite, FS_RemoveElement
<1>2. (\A g \in Flushers : d[g] \in Int) /\ (\A g \in Flushers : e[g] \in Int)
  OBVIOUS
<1>3. \A g \in rest : d[g] \in Int /\ e[g] = d[g]
  OBVIOUS
<1>4. /\ SumFunctionOnSet(d, Flushers) \in Int
      /\ SumFunctionOnSet(d, rest) \in Int
      /\ SumFunctionOnSet(d, Flushers) = d[f] + SumFunctionOnSet(d, rest)
  BY <1>1, <1>2, SumTake
<1>5. SumFunctionOnSet(e, Flushers) = e[f] + SumFunctionOnSet(e, rest)
  BY <1>1, <1>2, SumTake
<1> HIDE DEF rest
<1>6. SumFunctionOnSet(e, rest) = SumFunctionOnSet(d, rest)
  BY <1>1, <1>3, SumSame
<1>7. SumFunction(d) = SumFunctionOnSet(d, Flushers) /\ SumFunction(e) = SumFunctionOnSet(e, Flushers)
  BY DEF SumFunction
<1> QED
  BY <1>2, <1>4, <1>5, <1>6, <1>7

LEMMA NothingDrains ==
  ASSUME NEW d \in [Flushers -> Int], \A f \in Flushers : d[f] = 0
  PROVE  SumFunction(d) = 0
<1>1. Additive([T \in SUBSET Flushers |-> 0], d, Flushers)
  BY DEF Additive
<1>2. SumFunctionOnSet(d, Flushers) = [T \in SUBSET Flushers |-> 0][Flushers]
  BY <1>1, FlushersFinite, SumIs
<1>3. SumFunction(d) = SumFunctionOnSet(d, Flushers)
  BY DEF SumFunction
<1> QED
  BY <1>2, <1>3

LEMMA DrainingInt ==
  ASSUME BooksOK, NEW k \in Keys
  PROVE  /\ Draining(k) \in Int
         /\ [f \in Flushers |-> flush[f].drain[k]] \in [Flushers -> Int]
<1>1. [f \in Flushers |-> flush[f].drain[k]] \in [Flushers -> Int]
  BY DEF BooksOK, Flushes, Counts
<1>2. PICK f \in Flushers : TRUE
  BY DEF Flushers
<1> QED
  BY <1>1, <1>2, DrainChanges DEF Draining

LEMMA DrainingChanges ==
  ASSUME BooksOK, NEW f \in Flushers, NEW x \in Flushes, flush' = [flush EXCEPT ![f] = x], NEW k \in Keys
  PROVE  /\ Draining(k) \in Int /\ x.drain[k] \in Int /\ flush[f].drain[k] \in Int
         /\ Draining(k)' = Draining(k) - flush[f].drain[k] + x.drain[k]
<1> DEFINE d == [g \in Flushers |-> flush[g].drain[k]]
           e == [g \in Flushers |-> flush'[g].drain[k]]
<1>1. /\ flush' \in [Flushers -> Flushes] /\ flush'[f] = x
      /\ \A g \in Flushers \ {f} : flush'[g] = flush[g]
  BY DEF BooksOK
<1>2. d \in [Flushers -> Int] /\ e \in [Flushers -> Int]
  BY <1>1 DEF BooksOK, Flushes, Counts
<1>3. d[f] = flush[f].drain[k] /\ e[f] = x.drain[k] /\ \A g \in Flushers \ {f} : e[g] = d[g]
  BY <1>1
<1>4. Draining(k) = SumFunction(d) /\ Draining(k)' = SumFunction(e)
  BY DEF Draining
<1>5. x.drain[k] \in Int /\ flush[f].drain[k] \in Int
  BY DEF BooksOK, Flushes, Counts
<1> HIDE DEF d, e
<1> QED
  BY <1>2, <1>3, <1>4, <1>5, DrainChanges

\* The row a payer's inferences are billed on.
MeterRow(t) == <<t, "inference.completed.v1">>

LEMMA RowIsKey == \A t \in Payers : MeterRow(t) \in Keys
BY DEF MeterRow, Keys, Subjects

Conserved(t) ==
  Inferences(t) + twice[MeterRow(t)]
    = meters[MeterRow(t)] + (OnWire(MeterRow(t)) + buf[MeterRow(t)] + Draining(MeterRow(t))) + lost[MeterRow(t)]

LEMMA ConservedIs == UsageConserved <=> \A t \in Payers : Conserved(t)
BY DEF UsageConserved, Conserved, OnTheWay, MeterRow

LEMMA ConservedNext == (\A t \in Payers : Conserved(t)') => UsageConserved'
BY DEF UsageConserved, Conserved, OnTheWay, MeterRow

\* All the terms are numbers.
LEMMA TermsAreNumbers ==
  ASSUME UsageInv, NEW t \in Payers
  PROVE  /\ Inferences(t) \in Nat
         /\ twice[MeterRow(t)] \in Int /\ meters[MeterRow(t)] \in Int /\ buf[MeterRow(t)] \in Int /\ lost[MeterRow(t)] \in Int
         /\ OnWire(MeterRow(t)) \in Int /\ Draining(MeterRow(t)) \in Int
         /\ Conserved(t)
<1>1. MeterRow(t) \in Keys
  BY RowIsKey
<1>2. Inferences(t) \in Nat
  <2>1. IsFiniteSet({c \in Calls : call[c].st = "sent" /\ call[c].tenant = t /\ call[c].tries > 0})
    BY UsageAssumption, FS_Subset
  <2> QED
    BY <2>1, FS_CardinalityType DEF Inferences
<1>3. OnWire(MeterRow(t)) \in Int
  <2> DEFINE f == [msg \in wire |-> Share(msg, MeterRow(t))]
  <2>1. \A msg \in wire : f[msg] \in Int
    BY ShareInt DEF UsageInv, WireOK
  <2>2. OnWire(MeterRow(t)) = SumFunctionOnSet(f, wire)
    BY DEF OnWire, SumFunction
  <2> HIDE DEF f
  <2> QED
    BY <2>1, <2>2, SumInt DEF UsageInv, WireOK
<1>4. Draining(MeterRow(t)) \in Int
  BY <1>1, DrainingInt DEF UsageInv
<1> QED
  BY <1>1, <1>2, <1>3, <1>4, ConservedIs DEF UsageInv, BooksOK, Counts

\* The requests that count do not change, or gain one.
Counted(t) == {c \in Calls : call[c].st = "sent" /\ call[c].tenant = t /\ call[c].tries > 0}

LEMMA CallMoves ==
  ASSUME UsageInv, NEW c \in Calls, NEW x \in CallStates, call' = [call EXCEPT ![c] = x],
         call[c].st # "sent", NEW t \in Payers
  PROVE  Inferences(t)' = Inferences(t) + IF x.st = "sent" /\ x.tenant = t /\ x.tries > 0 THEN 1 ELSE 0
<1>1. /\ call' \in [Calls -> CallStates] /\ call'[c] = x
      /\ \A b \in Calls \ {c} : call'[b] = call[b]
  BY DEF UsageInv, CallsOK
<1>3. IsFiniteSet(Counted(t)) /\ c \notin Counted(t)
  BY UsageAssumption, FS_Subset DEF Counted
<1>4. Inferences(t) = Cardinality(Counted(t)) /\ Inferences(t)' = Cardinality(Counted(t)')
  BY DEF Inferences, Counted
<1>5. CASE x.st = "sent" /\ x.tenant = t /\ x.tries > 0
  <2>1. Counted(t)' = Counted(t) \cup {c}
    BY <1>1, <1>5 DEF Counted
  <2>2. Cardinality(Counted(t)') = Cardinality(Counted(t)) + 1
    BY <1>3, <2>1, FS_AddElement
  <2> QED
    BY <1>4, <1>5, <2>2
<1>6. CASE ~(x.st = "sent" /\ x.tenant = t /\ x.tries > 0)
  <2>1. Counted(t)' = Counted(t)
    BY <1>1, <1>3, <1>6 DEF Counted
  <2>2. Inferences(t) \in Nat
    BY TermsAreNumbers
  <2> QED
    BY <1>4, <1>6, <2>1, <2>2
<1> QED
  BY <1>5, <1>6

LEMMA CallKeeps ==
  ASSUME UsageInv, NEW c \in Calls, NEW x \in CallStates, call' = [call EXCEPT ![c] = x],
         call[c].st # "sent", x.st = "trying" => x.tries > 0
  PROVE  /\ CallsOK'
         /\ wire' = wire => WireOK'
         /\ \A msg \in wire : msg.id # c
         /\ \A m \in Messages : m.id = c /\ x.st = "sent" /\ wire' = wire \cup {m} => WireOK'
<1>1. /\ call' \in [Calls -> CallStates] /\ call'[c] = x
      /\ \A b \in Calls \ {c} : call'[b] = call[b]
  BY DEF UsageInv, CallsOK
<1>2. CallsOK'
  BY <1>1 DEF UsageInv, CallsOK
<1>3. \A msg \in wire : msg.id \in Calls /\ msg.id # c /\ call'[msg.id].st = "sent"
  BY <1>1 DEF UsageInv, WireOK, Messages
<1>4. ASSUME NEW m \in Messages, m.id = c, x.st = "sent", wire' = wire \cup {m} PROVE WireOK'
  <2>1. IsFiniteSet(wire')
    BY <1>4, FS_AddElement DEF UsageInv, WireOK
  <2> QED
    BY <1>1, <1>3, <1>4, <2>1 DEF UsageInv, WireOK
<1> QED
  BY <1>2, <1>3, <1>4 DEF UsageInv, WireOK

\* A step of a request that sends nothing.
LEMMA QuietCall ==
  ASSUME UsageInv, NEW c \in Calls, NEW x \in CallStates, call' = [call EXCEPT ![c] = x],
         call[c].st # "sent", x.st # "sent", x.st = "trying" => x.tries > 0,
         UNCHANGED <<wire, faults, Consuming>>
  PROVE  UsageInv'
<1>1. CallsOK' /\ WireOK'
  BY CallKeeps
<1>2. BooksOK'
  BY DEF UsageInv, BooksOK, Consuming
<1>3. \A t \in Payers : Conserved(t)'
  <2> SUFFICES ASSUME NEW t \in Payers PROVE Conserved(t)'
    OBVIOUS
  <2>1. Inferences(t)' = Inferences(t) + 0
    BY CallMoves
  <2>2. Inferences(t) \in Nat /\ Conserved(t)
    BY TermsAreNumbers
  <2>3. Inferences(t)' = Inferences(t)
    BY <2>1, <2>2
  <2> QED
    BY <2>2, <2>3 DEF Conserved, OnWire, Draining, Consuming
<1> QED
  BY <1>1, <1>2, <1>3, ConservedNext DEF UsageInv

\* A request whose completion goes on the wire.
LEMMA SendingCall ==
  ASSUME UsageInv, NEW c \in Calls, NEW x \in CallStates, call' = [call EXCEPT ![c] = x],
         call[c].st # "sent", x.st = "sent",
         NEW m \in Messages, m.id = c, wire' = wire \cup {m},
         \A t \in Payers : Share(m, MeterRow(t)) = IF x.tenant = t /\ x.tries > 0 THEN 1 ELSE 0,
         UNCHANGED <<faults, Consuming>>
  PROVE  UsageInv'
<1>1. CallsOK' /\ WireOK' /\ m \notin wire
  BY CallKeeps
<1>2. BooksOK'
  BY DEF UsageInv, BooksOK, Consuming
<1>3. \A t \in Payers : Conserved(t)'
  <2> SUFFICES ASSUME NEW t \in Payers PROVE Conserved(t)'
    OBVIOUS
  <2>1. Inferences(t)' = Inferences(t) + Share(m, MeterRow(t))
    BY CallMoves
  <2>2. OnWire(MeterRow(t))' = OnWire(MeterRow(t)) + Share(m, MeterRow(t))
    <3>1. IsFiniteSet(wire) /\ wire \subseteq Messages
      BY DEF UsageInv, WireOK
    <3>2. SumFunction([msg \in wire \cup {m} |-> Share(msg, MeterRow(t))])
            = SumFunction([msg \in wire |-> Share(msg, MeterRow(t))]) + Share(m, MeterRow(t))
      BY <1>1, <3>1, WireGrows
    <3> QED
      BY <3>2 DEF OnWire
  <2>3. Draining(MeterRow(t))' = Draining(MeterRow(t))
    BY DEF Draining, Consuming
  <2>4. /\ twice' = twice /\ meters' = meters /\ buf' = buf /\ lost' = lost
        /\ Share(m, MeterRow(t)) \in Int
    BY ShareInt DEF Consuming
  <2>5. /\ Inferences(t) \in Nat
        /\ twice[MeterRow(t)] \in Int /\ meters[MeterRow(t)] \in Int /\ buf[MeterRow(t)] \in Int /\ lost[MeterRow(t)] \in Int
        /\ OnWire(MeterRow(t)) \in Int /\ Draining(MeterRow(t)) \in Int
        /\ Conserved(t)
    BY TermsAreNumbers
  <2> QED
    BY <2>1, <2>2, <2>3, <2>4, <2>5 DEF Conserved
<1> QED
  BY <1>1, <1>2, <1>3, ConservedNext DEF UsageInv

\* A message leaves the wire for the buffer or is lost.
LEMMA WireMoves ==
  ASSUME UsageInv, NEW m \in wire, wire' = wire \ {m}, call' = call
  PROVE  /\ CallsOK' /\ WireOK'
         /\ \A t \in Payers : Inferences(t)' = Inferences(t)
         /\ \A t \in Payers : Share(m, MeterRow(t)) \in Int /\ OnWire(MeterRow(t))' = OnWire(MeterRow(t)) - Share(m, MeterRow(t))
<1>1. IsFiniteSet(wire) /\ wire \subseteq Messages /\ m \in Messages
  BY DEF UsageInv, WireOK
<1>2. CallsOK'
  BY DEF UsageInv, CallsOK
<1>3. IsFiniteSet(wire \ {m})
  BY <1>1, FS_RemoveElement
<1>4. WireOK'
  BY <1>3 DEF UsageInv, WireOK
<1>5. \A t \in Payers : Inferences(t)' = Inferences(t)
  BY DEF Inferences
<1>6. ASSUME NEW t \in Payers
      PROVE  Share(m, MeterRow(t)) \in Int /\ OnWire(MeterRow(t))' = OnWire(MeterRow(t)) - Share(m, MeterRow(t))
  <2>0. PICK W, V, k : /\ W = wire /\ V = W \ {m} /\ k = MeterRow(t)
                       /\ IsFiniteSet(W) /\ W \subseteq Messages /\ m \in W
    BY <1>1
  <2>1. /\ SumFunction([msg \in V |-> Share(msg, k)]) \in Int
        /\ SumFunction([msg \in W |-> Share(msg, k)])
             = SumFunction([msg \in V |-> Share(msg, k)]) + Share(m, k)
    BY <2>0, WireShrinks
  <2>2. /\ OnWire(MeterRow(t))' = SumFunction([msg \in V |-> Share(msg, k)])
        /\ OnWire(MeterRow(t)) = SumFunction([msg \in W |-> Share(msg, k)])
    BY <2>0 DEF OnWire, MeterRow
  <2>3. Share(m, MeterRow(t)) \in Int
    BY <1>1, ShareInt
  <2> QED
    BY <2>0, <2>1, <2>2, <2>3
<1> QED
  BY <1>2, <1>4, <1>5, <1>6

\* Counts move between the books of the metering service; what a key gains in
\* one place it loses in another.
LEMMA BooksMove ==
  ASSUME UsageInv, UNCHANGED <<call, wire>>, BooksOK',
         \A k \in Keys : twice'[k] - twice[k]
                           = (meters'[k] - meters[k]) + (buf'[k] - buf[k])
                               + (Draining(k)' - Draining(k)) + (lost'[k] - lost[k])
  PROVE  UsageInv'
<1>1. CallsOK' /\ WireOK'
  BY DEF UsageInv, CallsOK, WireOK
<1>2. \A t \in Payers : Conserved(t)'
  <2> SUFFICES ASSUME NEW t \in Payers PROVE Conserved(t)'
    OBVIOUS
  <2>1. Inferences(t)' = Inferences(t) /\ OnWire(MeterRow(t))' = OnWire(MeterRow(t))
    BY DEF Inferences, OnWire
  <2>2. PICK k \in Keys : k = MeterRow(t)
    BY RowIsKey
  <2>3. /\ Inferences(t) \in Nat
        /\ twice[k] \in Int /\ meters[k] \in Int /\ buf[k] \in Int /\ lost[k] \in Int
        /\ OnWire(k) \in Int /\ Draining(k) \in Int
        /\ Conserved(t)
    BY <2>2, TermsAreNumbers
  <2>4. twice'[k] \in Int /\ meters'[k] \in Int /\ buf'[k] \in Int /\ lost'[k] \in Int
    BY DEF BooksOK, Counts
  <2>5. Draining(k)' \in Int
    <3> DEFINE d == [f \in Flushers |-> flush'[f].drain[k]]
    <3>1. d \in [Flushers -> Int]
      BY DEF BooksOK, Flushes, Counts
    <3>2. \A f \in Flushers : d[f] \in Int
      BY <3>1
    <3>3. Draining(k)' = SumFunctionOnSet(d, Flushers)
      BY DEF Draining, SumFunction
    <3> HIDE DEF d
    <3> QED
      BY <3>2, <3>3, FlushersFinite, SumInt
  <2>6. MeterRow(t)' = k
    BY <2>2 DEF MeterRow
  <2>7. Inferences(t) + twice[k] = meters[k] + (OnWire(k) + buf[k] + Draining(k)) + lost[k]
    BY <2>2, <2>3 DEF Conserved
  <2>8. Inferences(t) + twice'[k] = meters'[k] + (OnWire(k) + buf'[k] + Draining(k)') + lost'[k]
    <3>1. twice'[k] - twice[k] = (meters'[k] - meters[k]) + (buf'[k] - buf[k])
                                   + (Draining(k)' - Draining(k)) + (lost'[k] - lost[k])
      OBVIOUS
    <3> QED
      BY ONLY <2>3, <2>4, <2>5, <2>7, <3>1
  <2> QED
    BY <2>1, <2>2, <2>6, <2>8 DEF Conserved
<1> QED
  BY <1>1, <1>2, ConservedNext DEF UsageInv

\* A book with a key's count raised.
LEMMA AddIs ==
  ASSUME NEW f \in Counts, NEW k \in Keys, NEW n \in Int
  PROVE  /\ Add(f, k, n) \in Counts
         /\ Add(f, k, n)[k] = f[k] + n
         /\ \A j \in Keys \ {k} : Add(f, k, n)[j] = f[j]
BY DEF Add, Counts

\* A message arrives in a book (the buffer or the losses) if it is billable.
LEMMA AddShare ==
  ASSUME NEW f \in Counts, NEW m \in Messages, NEW t \in Payers
  PROVE  LET g == IF Billable(m) THEN Add(f, KeyOf(m), m.n) ELSE f
         IN  g \in Counts /\ g[MeterRow(t)] = f[MeterRow(t)] + Share(m, MeterRow(t))
<1>1. MeterRow(t) \in Keys /\ f[MeterRow(t)] \in Int /\ m.n \in Int
  BY RowIsKey DEF Counts, Messages
<1>2. CASE Billable(m)
  <2>1. KeyOf(m) \in Keys
    BY <1>2 DEF Billable, KeyOf, Keys, Messages
  <2>2. PICK k \in Keys, n \in Int : k = KeyOf(m) /\ n = m.n
    BY <1>1, <2>1
  <2>3. /\ Add(f, k, n) \in Counts
        /\ Add(f, k, n)[k] = f[k] + n
        /\ \A j \in Keys \ {k} : Add(f, k, n)[j] = f[j]
    BY AddIs
  <2>4. Share(m, MeterRow(t)) = IF k = MeterRow(t) THEN n ELSE 0
    BY <1>2, <2>2 DEF Share
  <2> QED
    BY <1>1, <1>2, <2>2, <2>3, <2>4
<1>3. CASE ~Billable(m)
  BY <1>1, <1>3 DEF Share
<1> QED
  BY <1>2, <1>3

LEMMA RestingOK == Resting \in Flushes /\ Resting.drain = Nothing /\ Nothing \in Counts /\ \A k \in Keys : Nothing[k] = 0
BY DEF Resting, Flushes, Nothing, Counts

\* One flush changes hands, holding nothing unless it is writing.
LEMMA FlushMoves ==
  ASSUME UsageInv, NEW f \in Flushers, NEW x \in Flushes, x.st # "writing" => x.drain = Nothing,
         flush' = [flush EXCEPT ![f] = x],
         buf' \in Counts, meters' \in Counts, lost' \in Counts, twice' \in Counts, faults' \in Nat
  PROVE  BooksOK'
BY DEF UsageInv, BooksOK

LEMMA UsageInitInv == UsageInit => UsageInv
<1> SUFFICES ASSUME UsageInit PROVE UsageInv
  OBVIOUS
<1>1. CallsOK
  BY DEF UsageInit, CallsOK, CallStates
<1>2. WireOK
  BY FS_EmptySet DEF UsageInit, WireOK
<1>3. BooksOK
  BY RestingOK DEF UsageInit, BooksOK
<1>4. \A t \in Payers : Conserved(t)
  <2> SUFFICES ASSUME NEW t \in Payers PROVE Conserved(t)
    OBVIOUS
  <2>1. MeterRow(t) \in Keys
    BY RowIsKey
  <2>2. Inferences(t) = 0
    <3>1. {c \in Calls : call[c].st = "sent" /\ call[c].tenant = t /\ call[c].tries > 0} = {}
      BY DEF UsageInit
    <3> QED
      BY <3>1, FS_EmptySet DEF Inferences
  <2>3. OnWire(MeterRow(t)) = 0
    <3> DEFINE f == [msg \in wire |-> Share(msg, MeterRow(t))]
    <3>1. OnWire(MeterRow(t)) = SumFunctionOnSet(f, {})
      BY DEF UsageInit, OnWire, SumFunction
    <3> HIDE DEF f
    <3> QED
      BY <3>1, SumEmpty
  <2>4. Draining(MeterRow(t)) = 0
    <3>1. \A f \in Flushers : flush[f].drain[MeterRow(t)] = 0
      BY <2>1, RestingOK DEF UsageInit
    <3>2. [f \in Flushers |-> flush[f].drain[MeterRow(t)]] \in [Flushers -> Int]
      BY <3>1
    <3> QED
      BY <3>1, <3>2, NothingDrains DEF Draining
  <2>5. buf[MeterRow(t)] = 0 /\ meters[MeterRow(t)] = 0 /\ lost[MeterRow(t)] = 0 /\ twice[MeterRow(t)] = 0
    BY <2>1, RestingOK DEF UsageInit
  <2> QED
    BY <2>2, <2>3, <2>4, <2>5 DEF Conserved
<1> QED
  BY <1>1, <1>2, <1>3, <1>4, ConservedIs DEF UsageInv

LEMMA UsageNextInv == UsageInv /\ [UsageNext]_usageVars => UsageInv'
<1> SUFFICES ASSUME UsageInv, [UsageNext]_usageVars PROVE UsageInv'
  OBVIOUS
<1>0. /\ call \in [Calls -> CallStates]
      /\ wire \subseteq Messages
      /\ buf \in Counts /\ meters \in Counts /\ lost \in Counts /\ twice \in Counts
      /\ flush \in [Flushers -> Flushes] /\ faults \in Nat
      /\ \A f \in Flushers : flush[f].st # "writing" => flush[f].drain = Nothing
      /\ Subjects \subseteq Flushers
  BY DEF UsageInv, CallsOK, WireOK, BooksOK, Flushers
<1>1. ASSUME NEW c \in Calls, NEW t \in Payers \cup {NoPayer}, Infer(c, t) PROVE UsageInv'
  <2> DEFINE x == [st |-> "trying", tries |-> 1, tenant |-> t]
  <2>1. x \in CallStates /\ x.st = "trying" /\ x.tries > 0
    BY DEF CallStates
  <2>2. call' = [call EXCEPT ![c] = x] /\ call[c].st # "sent" /\ UNCHANGED <<wire, faults, Consuming>>
    BY <1>1 DEF Infer
  <2> HIDE DEF x
  <2> QED
    BY <2>1, <2>2, QuietCall
<1>2. ASSUME NEW c \in Calls, Retry(c) PROVE UsageInv'
  <2>1. PICK n \in Nat : n = call[c].tries + 1 /\ n > 0
    BY <1>0 DEF CallStates
  <2> DEFINE x == [call[c] EXCEPT !.tries = n]
  <2>2. x \in CallStates /\ x.st = "trying" /\ x.tries > 0
    BY <1>0, <1>2, <2>1 DEF Retry, CallStates
  <2>3. call' = [call EXCEPT ![c] = x] /\ call[c].st # "sent" /\ UNCHANGED <<wire, faults, Consuming>>
    BY <1>2, <2>1 DEF Retry
  <2> HIDE DEF x
  <2> QED
    BY <2>2, <2>3, QuietCall
<1>3. ASSUME NEW c \in Calls, InferFails(c) PROVE UsageInv'
  <2> DEFINE x == [call[c] EXCEPT !.st = "failed"]
  <2>2. x \in CallStates /\ x.st = "failed"
    BY <1>0 DEF CallStates
  <2>3. call' = [call EXCEPT ![c] = x] /\ call[c].st # "sent" /\ UNCHANGED <<wire, faults, Consuming>>
    BY <1>3 DEF InferFails
  <2> HIDE DEF x
  <2> QED
    BY <2>2, <2>3, QuietCall
<1>4. ASSUME NEW c \in Calls, Completed(c) PROVE UsageInv'
  <2> DEFINE x == [call[c] EXCEPT !.st = "sent"]
             m == Message(c, call[c].tenant, "inference.completed.v1", 1)
  <2>1. /\ x \in CallStates /\ x.st = "sent" /\ x.tenant = call[c].tenant /\ x.tries = call[c].tries
        /\ call[c].tenant \in Payers \cup {NoPayer}
    BY <1>0 DEF CallStates
  <2>2. call[c].tries > 0 /\ call[c].st # "sent"
    BY <1>4 DEF Completed, UsageInv, CallsOK
  <2>3. m \in Messages /\ m.id = c
    BY <2>1 DEF Message, Messages, Subjects
  <2>4. \A t \in Payers : Share(m, MeterRow(t)) = IF x.tenant = t /\ x.tries > 0 THEN 1 ELSE 0
    <3> SUFFICES ASSUME NEW t \in Payers
                 PROVE  Share(m, MeterRow(t)) = IF call[c].tenant = t THEN 1 ELSE 0
      BY <2>1, <2>2
    <3>1. m.tenant = call[c].tenant /\ m.subject = "inference.completed.v1" /\ m.n = 1
      BY DEF Message
    <3>2. KeyOf(m) = MeterRow(t) <=> call[c].tenant = t
      BY <3>1 DEF KeyOf, MeterRow
    <3>3. call[c].tenant = t => Billable(m)
      BY <3>1, UsageAssumption DEF Billable
    <3> QED
      BY <3>1, <3>2, <3>3 DEF Share
  <2>5. call' = [call EXCEPT ![c] = x] /\ wire' = wire \cup {m} /\ UNCHANGED <<faults, Consuming>>
    BY <1>4 DEF Completed
  <2> HIDE DEF x, m
  <2> QED
    BY <2>1, <2>2, <2>3, <2>4, <2>5, SendingCall
<1>5. ASSUME NEW c \in Calls, NEW t \in Payers \cup {NoPayer}, NEW n \in Tokens, LlmCompleted(c, t, n)
      PROVE UsageInv'
  <2> DEFINE x == [st |-> "sent", tries |-> 0, tenant |-> t]
             m == Message(c, t, "llm.completed.v1", n)
  <2>1. x \in CallStates /\ x.st = "sent" /\ ~(x.tries > 0)
    BY DEF CallStates
  <2>2. m \in Messages /\ m.id = c
    BY UsageAssumption DEF Message, Messages, Subjects
  <2>3. \A u \in Payers : Share(m, MeterRow(u)) = IF x.tenant = u /\ x.tries > 0 THEN 1 ELSE 0
    BY DEF Share, KeyOf, MeterRow, Message
  <2>4. call' = [call EXCEPT ![c] = x] /\ wire' = wire \cup {m} /\ UNCHANGED <<faults, Consuming>>
        /\ call[c].st # "sent"
    BY <1>5 DEF LlmCompleted
  <2> HIDE DEF x, m
  <2> QED
    BY <2>1, <2>2, <2>3, <2>4, SendingCall
<1>6. ASSUME NEW m \in wire, Handle(m) PROVE UsageInv'
  <2>1. m \in Messages /\ m.subject \in Flushers
    BY <1>0 DEF Messages
  <2>2. /\ CallsOK' /\ WireOK'
        /\ \A t \in Payers : Inferences(t)' = Inferences(t)
        /\ \A t \in Payers : Share(m, MeterRow(t)) \in Int /\ OnWire(MeterRow(t))' = OnWire(MeterRow(t)) - Share(m, MeterRow(t))
    BY <1>6, WireMoves DEF Handle
  <2>3. buf' = (IF Billable(m) THEN Add(buf, KeyOf(m), m.n) ELSE buf) /\ UNCHANGED <<meters, lost, twice, faults>>
    BY <1>6 DEF Handle
  <2>4. \A t \in Payers : buf' \in Counts /\ buf'[MeterRow(t)] = buf[MeterRow(t)] + Share(m, MeterRow(t))
    BY <1>0, <2>1, <2>3, AddShare
  <2>5. buf' \in Counts
    <3>1. CASE Billable(m)
      <4>1. KeyOf(m) \in Keys /\ m.n \in Int
        BY <2>1, <3>1 DEF Billable, KeyOf, Keys, Messages
      <4> QED
        BY <1>0, <2>3, <3>1, <4>1, AddIs
    <3> QED
      BY <1>0, <2>3, <3>1
  <2>6. /\ flush' \in [Flushers -> Flushes]
        /\ \A f \in Flushers : flush'[f].drain = flush[f].drain
        /\ \A f \in Flushers : flush'[f].st = "writing" <=> flush[f].st = "writing"
    <3>1. CASE flush' = flush
      BY <1>0, <3>1
    <3>2. CASE flush' = [flush EXCEPT ![m.subject].st = "asked"]
      <4> DEFINE x == [flush[m.subject] EXCEPT !.st = "asked"]
      <4>1. x \in Flushes /\ x.drain = flush[m.subject].drain /\ x.st = "asked"
        BY <1>0, <2>1 DEF Flushes
      <4>2. flush' = [flush EXCEPT ![m.subject] = x]
        BY <3>2
      <4>3. flush[m.subject].st = "idle"
        BY <1>6 DEF Handle
      <4> HIDE DEF x
      <4> QED
        BY <1>0, <2>1, <4>1, <4>2, <4>3
    <3> QED
      BY <1>6, <3>1, <3>2 DEF Handle
  <2>7. BooksOK'
    BY <1>0, <2>3, <2>5, <2>6 DEF BooksOK
  <2>8. \A t \in Payers : Conserved(t)'
    <3> SUFFICES ASSUME NEW t \in Payers PROVE Conserved(t)'
      OBVIOUS
    <3>1. Draining(MeterRow(t))' = Draining(MeterRow(t))
      <4>1. [f \in Flushers |-> flush'[f].drain[MeterRow(t)]] = [f \in Flushers |-> flush[f].drain[MeterRow(t)]]
        BY <2>6
      <4> QED
        BY <4>1 DEF Draining, MeterRow
    <3>2. /\ Inferences(t) \in Nat
          /\ twice[MeterRow(t)] \in Int /\ meters[MeterRow(t)] \in Int /\ buf[MeterRow(t)] \in Int /\ lost[MeterRow(t)] \in Int
          /\ OnWire(MeterRow(t)) \in Int /\ Draining(MeterRow(t)) \in Int
          /\ Conserved(t)
      BY TermsAreNumbers
    <3> QED
      BY <2>2, <2>3, <2>4, <3>1, <3>2 DEF Conserved
  <2> QED
    BY <2>2, <2>7, <2>8, ConservedNext DEF UsageInv
<1>7. ASSUME NEW m \in wire, BusLoses(m) PROVE UsageInv'
  <2>1. m \in Messages
    BY <1>0
  <2>2. /\ CallsOK' /\ WireOK'
        /\ \A t \in Payers : Inferences(t)' = Inferences(t)
        /\ \A t \in Payers : Share(m, MeterRow(t)) \in Int /\ OnWire(MeterRow(t))' = OnWire(MeterRow(t)) - Share(m, MeterRow(t))
    BY <1>7, WireMoves DEF BusLoses
  <2>3. /\ lost' = (IF Billable(m) THEN Add(lost, KeyOf(m), m.n) ELSE lost)
        /\ UNCHANGED <<meters, buf, flush, twice>> /\ faults' \in Nat
    BY <1>0, <1>7 DEF BusLoses
  <2>4. \A t \in Payers : lost'[MeterRow(t)] = lost[MeterRow(t)] + Share(m, MeterRow(t))
    BY <1>0, <2>1, <2>3, AddShare
  <2>5. lost' \in Counts
    <3>1. CASE Billable(m)
      <4>1. KeyOf(m) \in Keys /\ m.n \in Int
        BY <2>1, <3>1 DEF Billable, KeyOf, Keys, Messages
      <4> QED
        BY <1>0, <2>3, <3>1, <4>1, AddIs
    <3> QED
      BY <1>0, <2>3, <3>1
  <2>6. BooksOK'
    BY <1>0, <2>3, <2>5 DEF BooksOK
  <2>7. \A t \in Payers : Conserved(t)'
    <3> SUFFICES ASSUME NEW t \in Payers PROVE Conserved(t)'
      OBVIOUS
    <3>1. Draining(MeterRow(t))' = Draining(MeterRow(t))
      BY <2>3 DEF Draining, MeterRow
    <3>2. /\ Inferences(t) \in Nat
          /\ twice[MeterRow(t)] \in Int /\ meters[MeterRow(t)] \in Int /\ buf[MeterRow(t)] \in Int /\ lost[MeterRow(t)] \in Int
          /\ OnWire(MeterRow(t)) \in Int /\ Draining(MeterRow(t)) \in Int
          /\ Conserved(t)
      BY TermsAreNumbers
    <3> QED
      BY <2>2, <2>3, <2>4, <3>1, <3>2 DEF Conserved
  <2> QED
    BY <2>2, <2>6, <2>7, ConservedNext DEF UsageInv
<1>8. ASSUME NEW f \in Flushers, SwapOut(f) PROVE UsageInv'
  <2> DEFINE x == IF Held(buf) = {} THEN Resting ELSE [st |-> "writing", drain |-> buf]
  <2>1. x \in Flushes /\ (x.st # "writing" => x.drain = Nothing)
    BY <1>0, RestingOK DEF Flushes
  <2>2. flush' = [flush EXCEPT ![f] = x] /\ buf' = Nothing /\ UNCHANGED <<call, wire, meters, lost, twice, faults>>
    BY <1>8 DEF SwapOut
  <2>3. flush[f].drain = Nothing
    BY <1>0, <1>8 DEF SwapOut
  <2>4. \A k \in Keys : x.drain[k] = buf[k]
    BY RestingOK DEF Held
  <2> HIDE DEF x
  <2>5. BooksOK'
    BY <1>0, <2>1, <2>2, FlushMoves, RestingOK
  <2>6. ASSUME NEW k \in Keys
        PROVE  twice'[k] - twice[k]
                 = (meters'[k] - meters[k]) + (buf'[k] - buf[k])
                     + (Draining(k)' - Draining(k)) + (lost'[k] - lost[k])
    <3>1. /\ Draining(k) \in Int /\ x.drain[k] \in Int /\ flush[f].drain[k] \in Int
          /\ Draining(k)' = Draining(k) - flush[f].drain[k] + x.drain[k]
      BY <2>1, <2>2, DrainingChanges DEF UsageInv
    <3>2. flush[f].drain[k] = 0 /\ buf'[k] = 0 /\ x.drain[k] = buf[k]
      BY <2>2, <2>3, <2>4, RestingOK
    <3>3. twice[k] \in Int /\ meters[k] \in Int /\ lost[k] \in Int /\ buf[k] \in Int
      BY <1>0 DEF Counts
    <3> QED
      BY <2>2, <3>1, <3>2, <3>3
  <2> QED
    BY <2>2, <2>5, <2>6, BooksMove
<1>9. ASSUME NEW f \in Flushers, NEW k \in Keys, Increment(f, k) PROVE UsageInv'
  <2> DEFINE d == [flush[f].drain EXCEPT ![k] = 0]
             x == IF Held(flush[f].drain) = {k} THEN Resting ELSE [flush[f] EXCEPT !.drain[k] = 0]
  <2>0. flush[f] \in Flushes /\ flush[f].drain \in Counts /\ flush[f].st = "writing" /\ flush[f].drain[k] \in Int
    BY <1>0, <1>9 DEF Increment, Flushes, Counts
  <2>1. x \in Flushes /\ (x.st # "writing" => x.drain = Nothing)
    BY <2>0, RestingOK DEF Flushes, Counts
  <2>2. /\ flush' = [flush EXCEPT ![f] = x] /\ meters' = Add(meters, k, flush[f].drain[k])
        /\ UNCHANGED <<call, wire, buf, lost, twice, faults>>
    BY <1>9 DEF Increment
  <2>3. x.drain[k] = 0 /\ \A j \in Keys \ {k} : x.drain[j] = flush[f].drain[j]
    <3>1. CASE Held(flush[f].drain) = {k}
      BY <3>1, RestingOK DEF Held
    <3>2. CASE Held(flush[f].drain) # {k}
      BY <2>0, <3>2 DEF Flushes, Counts
    <3> QED
      BY <3>1, <3>2
  <2> HIDE DEF x
  <2>4. PICK n \in Int : n = flush[f].drain[k]
    BY <2>0
  <2>5. meters' \in Counts /\ meters'[k] = meters[k] + n /\ \A j \in Keys \ {k} : meters'[j] = meters[j]
    BY <1>0, <2>2, <2>4, AddIs
  <2>6. BooksOK'
    BY <1>0, <2>1, <2>2, <2>5, FlushMoves
  <2>7. ASSUME NEW j \in Keys
        PROVE  twice'[j] - twice[j]
                 = (meters'[j] - meters[j]) + (buf'[j] - buf[j])
                     + (Draining(j)' - Draining(j)) + (lost'[j] - lost[j])
    <3>1. /\ Draining(j) \in Int /\ x.drain[j] \in Int /\ flush[f].drain[j] \in Int
          /\ Draining(j)' = Draining(j) - flush[f].drain[j] + x.drain[j]
      BY <2>1, <2>2, DrainingChanges DEF UsageInv
    <3>2. twice[j] \in Int /\ meters[j] \in Int /\ lost[j] \in Int /\ buf[j] \in Int
      BY <1>0 DEF Counts
    <3>3. meters'[j] - meters[j] = flush[f].drain[j] - x.drain[j]
      BY <2>3, <2>4, <2>5, <3>1, <3>2
    <3> QED
      BY <2>2, <3>1, <3>2, <3>3
  <2> QED
    BY <2>2, <2>6, <2>7, BooksMove
<1>10. ASSUME NEW f \in Flushers, NEW k \in Keys, NEW written \in BOOLEAN, IncrementFails(f, k, written)
       PROVE  UsageInv'
  <2>0. flush[f] \in Flushes /\ flush[f].drain \in Counts /\ flush[f].drain[k] \in Int
    BY <1>0 DEF Flushes, Counts
  <2>1. PICK n \in Int, rest \in Counts :
          /\ n = flush[f].drain[k] /\ rest = [flush[f].drain EXCEPT ![k] = 0]
          /\ rest[k] = 0 /\ \A j \in Keys \ {k} : rest[j] = flush[f].drain[j]
    <3> DEFINE r == [flush[f].drain EXCEPT ![k] = 0]
    <3>1. r \in Counts /\ r[k] = 0 /\ \A j \in Keys \ {k} : r[j] = flush[f].drain[j]
      BY <2>0 DEF Counts
    <3> HIDE DEF r
    <3>2. \E n \in Int, rest \in Counts : /\ n = flush[f].drain[k] /\ rest = r
                                          /\ rest[k] = 0 /\ \A j \in Keys \ {k} : rest[j] = flush[f].drain[j]
      BY <2>0, <3>1
    <3> QED
      BY <3>2 DEF r
  <2>2. /\ buf' = Add(buf, k, n) /\ lost' = Plus(lost, rest)
        /\ IF written THEN meters' = Add(meters, k, n) /\ twice' = Add(twice, k, n)
                      ELSE UNCHANGED <<meters, twice>>
        /\ flush' = [flush EXCEPT ![f] = Resting] /\ faults' \in Nat /\ UNCHANGED <<call, wire>>
    BY <1>0, <1>10, <2>1 DEF IncrementFails
  <2>3. buf' \in Counts /\ buf'[k] = buf[k] + n /\ \A j \in Keys \ {k} : buf'[j] = buf[j]
    BY <1>0, <2>2, AddIs
  <2>4. lost' \in Counts /\ \A j \in Keys : lost'[j] = lost[j] + rest[j]
    BY <1>0, <2>2 DEF Plus, Counts
  <2>5. /\ meters' \in Counts /\ twice' \in Counts
        /\ \A j \in Keys : meters'[j] - meters[j] = twice'[j] - twice[j]
    <3>1. \A j \in Keys : meters[j] \in Int /\ twice[j] \in Int
      BY <1>0 DEF Counts
    <3>2. CASE written
      <4>0. meters' = Add(meters, k, n) /\ twice' = Add(twice, k, n)
        BY <2>2, <3>2, Zenon
      <4>1. meters' \in Counts /\ meters'[k] = meters[k] + n /\ \A j \in Keys \ {k} : meters'[j] = meters[j]
        BY <1>0, <4>0, AddIs
      <4>2. twice' \in Counts /\ twice'[k] = twice[k] + n /\ \A j \in Keys \ {k} : twice'[j] = twice[j]
        BY <1>0, <4>0, AddIs
      <4> QED
        BY <3>1, <4>1, <4>2
    <3>3. CASE ~written
      BY <1>0, <2>2, <3>1, <3>3
    <3> QED
      BY <3>2, <3>3
  <2>6. BooksOK'
    BY <2>2, <2>3, <2>4, <2>5, FlushMoves, RestingOK
  <2>7. ASSUME NEW j \in Keys
        PROVE  twice'[j] - twice[j]
                 = (meters'[j] - meters[j]) + (buf'[j] - buf[j])
                     + (Draining(j)' - Draining(j)) + (lost'[j] - lost[j])
    <3>1. /\ Draining(j) \in Int /\ Resting.drain[j] \in Int /\ flush[f].drain[j] \in Int
          /\ Draining(j)' = Draining(j) - flush[f].drain[j] + Resting.drain[j]
      BY <2>2, RestingOK, DrainingChanges DEF UsageInv
    <3>2. Resting.drain[j] = 0
      BY RestingOK
    <3>3. twice[j] \in Int /\ meters[j] \in Int /\ lost[j] \in Int /\ buf[j] \in Int /\ rest[j] \in Int
          /\ twice'[j] \in Int /\ meters'[j] \in Int
      BY <1>0, <2>5 DEF Counts
    <3>4. flush[f].drain[j] = (buf'[j] - buf[j]) + rest[j]
      BY <2>1, <2>3, <3>1, <3>3
    <3>5. meters'[j] - meters[j] = twice'[j] - twice[j] /\ lost'[j] = lost[j] + rest[j] /\ buf'[j] \in Int
      BY <2>3, <2>4, <2>5 DEF Counts
    <3> QED
      BY <3>1, <3>2, <3>3, <3>4, <3>5
  <2> QED
    BY <2>2, <2>6, <2>7, BooksMove
<1>11. ASSUME MeteringStops PROVE UsageInv'
  <2>1. /\ lost' = Plus(lost, Plus(buf, [k \in Keys |-> Draining(k)])) /\ buf' = Nothing
        /\ flush' = [f \in Flushers |-> Resting] /\ faults' \in Nat
        /\ UNCHANGED <<call, wire, meters, twice>>
    BY <1>0, <1>11 DEF MeteringStops
  <2>2. \A k \in Keys : Draining(k) \in Int /\ lost[k] \in Int /\ buf[k] \in Int
                          /\ meters[k] \in Int /\ twice[k] \in Int
    BY <1>0, DrainingInt DEF UsageInv, Counts
  <2>3. \A k \in Keys : lost'[k] = lost[k] + (buf[k] + Draining(k))
    BY <2>1 DEF Plus
  <2>4. lost' \in Counts
    BY <2>1, <2>2 DEF Plus, Counts
  <2>5. BooksOK'
    BY <1>0, <2>1, <2>4, RestingOK DEF BooksOK
  <2>6. ASSUME NEW k \in Keys PROVE Draining(k)' = 0
    <3>1. \A f \in Flushers : flush'[f].drain[k] = 0
      BY <2>1, RestingOK
    <3>2. [f \in Flushers |-> flush'[f].drain[k]] \in [Flushers -> Int]
      BY <3>1
    <3> QED
      BY <3>1, <3>2, NothingDrains DEF Draining
  <2>7. \A k \in Keys : twice'[k] - twice[k]
                          = (meters'[k] - meters[k]) + (buf'[k] - buf[k])
                              + (Draining(k)' - Draining(k)) + (lost'[k] - lost[k])
    <3> SUFFICES ASSUME NEW k \in Keys
                 PROVE  twice'[k] - twice[k]
                          = (meters'[k] - meters[k]) + (buf'[k] - buf[k])
                              + (Draining(k)' - Draining(k)) + (lost'[k] - lost[k])
      OBVIOUS
    <3>1. buf'[k] = 0
      BY <2>1, RestingOK
    <3> QED
      BY <2>1, <2>2, <2>3, <2>6, <3>1
  <2> QED
    BY <2>1, <2>5, <2>7, BooksMove
<1>12. ASSUME UNCHANGED usageVars PROVE UsageInv'
  BY <1>12 DEF usageVars, UsageInv, CallsOK, WireOK, BooksOK, UsageConserved, Inferences,
               OnTheWay, OnWire, Draining
<1> QED
  BY <1>1, <1>2, <1>3, <1>4, <1>5, <1>6, <1>7, <1>8, <1>9, <1>10, <1>11, <1>12 DEF UsageNext

(* For any tenants, tokens, buffer size and number of faults: between      *)
(* emit and the meters table every answered inference is counted exactly   *)
(* once, whatever the three flushes and the failures do; what is missing   *)
(* is in lost and what is charged again in twice.                          *)
THEOREM UsageIsConserved == UsageSpec => []UsageConserved
<1>1. UsageInit => UsageInv
  BY UsageInitInv
<1>2. UsageInv /\ [UsageNext]_usageVars => UsageInv'
  BY UsageNextInv
<1>3. UsageInv => UsageConserved
  BY DEF UsageInv
<1> QED
  BY <1>1, <1>2, <1>3, PTL DEF UsageSpec

-----------------------------------------------------------------------------
(* AuditTrail.  The property is about what was fetched; a restart goes     *)
(* back to the committed offset, so the same is needed of what was         *)
(* committed, and that a verdict is about the record in hand.  Kafka skips *)
(* nothing that it has yet to fetch, and nothing after its first commit.   *)

Finished(r) == r \in table \cup failed \cup unheard

AuditInv ==
  /\ log \in Seq(Records)
  /\ pos \in 0 .. Len(log) /\ committed \in -1 .. Len(log)
  /\ \A i \in 1 .. pos : Finished(log[i]) \/ (i = pos /\ hand = log[i])
  /\ \A i \in 1 .. committed : Finished(log[i])
  /\ committed <= pos
  /\ transport \in {"kafka", "nats"}
  /\ transport = "kafka" => \A i \in DOMAIN log :
       log[i] \in unheard => i <= (IF committed = Unset THEN pos ELSE committed)
  /\ hand = Nobody \/ (pos > 0 /\ hand = log[pos])
  /\ verdict \in {"none", "ok", "error"}
  /\ verdict # "none" => hand # Nobody
  /\ verdict = "ok" => hand \in table
  /\ verdict = "error" => hand \in failed

LEMMA AuditInitInv == AuditInit => AuditInv
BY DEF AuditInit, AuditInv, Unset

\* The record leaves the handler's hands once it is finished with.
LEMMA HandsDown ==
  ASSUME AuditInv, Finished(hand) \/ hand = Nobody
  PROVE  \A i \in 1 .. pos : Finished(log[i])
<1> SUFFICES ASSUME NEW i \in 1 .. pos, ~Finished(log[i]) PROVE FALSE
  OBVIOUS
<1>1. hand = log[i] /\ log[i] \in Records
  BY DEF AuditInv
<1> QED
  BY <1>1, AuditAssumption

LEMMA AuditNextInv == AuditInv /\ [AuditNext]_auditVars => AuditInv'
<1> SUFFICES ASSUME AuditInv, [AuditNext]_auditVars PROVE AuditInv'
  OBVIOUS
<1>0. log \in Seq(Records) /\ Len(log) \in Nat /\ pos \in Nat /\ pos <= Len(log)
  BY DEF AuditInv
<1>1. ASSUME NEW r \in Records, Emit(r) PROVE AuditInv'
  <2>1. /\ log' \in Seq(Records) /\ Len(log') = Len(log) + 1
        /\ \A i \in 1 .. Len(log) : log'[i] = log[i]
        /\ log'[Len(log) + 1] = r
    BY <1>0, <1>1 DEF Emit
  <2>2. r \notin unheard /\ <<transport, pos, committed, unheard>>' = <<transport, pos, committed, unheard>>
    BY <1>1 DEF Emit, Outstanding
  <2>3. transport' = "kafka" => \A i \in DOMAIN log' :
          log'[i] \in unheard' => i <= (IF committed' = Unset THEN pos' ELSE committed')
    <3> SUFFICES ASSUME transport = "kafka", NEW i \in 1 .. Len(log) + 1, log'[i] \in unheard
                 PROVE  i <= (IF committed = Unset THEN pos ELSE committed)
      BY <1>0, <2>1, <2>2
    <3>1. i \in 1 .. Len(log) /\ log[i] \in unheard
      BY <1>0, <2>1, <2>2
    <3> QED
      BY <1>0, <3>1 DEF AuditInv
  <2>4. /\ pos' \in 0 .. Len(log') /\ committed' \in -1 .. Len(log')
        /\ committed' <= pos' /\ transport' \in {"kafka", "nats"}
    BY <1>0, <2>1, <2>2 DEF AuditInv
  <2>5. /\ (\A i \in 1 .. pos : Finished(log[i]) \/ (i = pos /\ hand = log[i]))'
        /\ (\A i \in 1 .. committed : Finished(log[i]))'
        /\ (hand = Nobody \/ (pos > 0 /\ hand = log[pos]))'
    BY <1>0, <1>1, <2>1 DEF Emit, AuditInv, Finished
  <2>6. /\ verdict' \in {"none", "ok", "error"}
        /\ verdict' # "none" => hand' # Nobody
        /\ verdict' = "ok" => hand' \in table'
        /\ verdict' = "error" => hand' \in failed'
    BY <1>1 DEF Emit, AuditInv
  <2> QED
    BY <2>1, <2>3, <2>4, <2>5, <2>6 DEF AuditInv
<1>2. ASSUME NEW r \in Records, EmitFails(r) PROVE AuditInv'
  BY <1>2 DEF EmitFails, AuditInv, Finished
<1>3. ASSUME NEW r \in Records, Ingest(r) PROVE AuditInv'
  BY <1>3 DEF Ingest, AuditInv, Finished
<1>4. ASSUME Fetch PROVE AuditInv'
  <2>1. \A i \in 1 .. pos : Finished(log[i])
    BY <1>4, HandsDown DEF Fetch
  <2>2. verdict = "none"
    BY <1>4 DEF Fetch, AuditInv
  <2> QED
    BY <1>0, <1>4, <2>1, <2>2 DEF Fetch, AuditInv, Finished
<1>5. ASSUME AppendRow PROVE AuditInv'
  BY <1>5 DEF AppendRow, AuditInv, Finished
<1>6. ASSUME AppendRejected PROVE AuditInv'
  BY <1>6 DEF AppendRejected, Reject, AuditInv, Finished
<1>7. ASSUME AppendFails PROVE AuditInv'
  BY <1>7 DEF AppendFails, Reject, AuditInv, Finished
<1>8. ASSUME Acknowledge PROVE AuditInv'
  <2>1. \A i \in 1 .. pos : Finished(log[i])
    BY <1>8, HandsDown DEF Acknowledge, AuditInv, Finished
  <2> QED
    BY <1>0, <1>8, <2>1 DEF Acknowledge, AuditInv, Finished
<1>9. ASSUME CommitFails PROVE AuditInv'
  <2>1. \A i \in 1 .. pos : Finished(log[i])
    BY <1>9, HandsDown DEF CommitFails, AuditInv, Finished
  <2> QED
    BY <1>0, <1>9, <2>1 DEF CommitFails, AuditInv, Finished
<1>10. ASSUME ConsumerRestarts PROVE AuditInv'
  <2>1. CASE transport = "nats"
    <3>1. \A i \in 1 .. pos : Finished(log[i])'
      BY <1>0, <1>10, <2>1, AuditAssumption DEF ConsumerRestarts, AuditInv, Finished
    <3> QED
      BY <1>0, <1>10, <2>1, <3>1 DEF ConsumerRestarts, AuditInv, Finished
  <2>2. CASE transport # "nats" /\ committed = Unset
    <3>1. \A i \in 1 .. Len(log) : Finished(log[i])'
      BY <1>0, <1>10, <2>2 DEF ConsumerRestarts, AuditInv, Finished, ToSet
    <3> QED
      BY <1>0, <1>10, <2>2, <3>1 DEF ConsumerRestarts, AuditInv, Finished, Unset
  <2>3. CASE transport # "nats" /\ committed # Unset
    BY <1>0, <1>10, <2>3 DEF ConsumerRestarts, AuditInv, Finished, Unset
  <2> QED
    BY <2>1, <2>2, <2>3
<1>11. ASSUME NatsDrops PROVE AuditInv'
  <2>1. \A i \in 1 .. pos : Finished(log[i])
    BY <1>11, HandsDown DEF NatsDrops
  <2> QED
    BY <1>0, <1>11, <2>1 DEF NatsDrops, AuditInv, Finished
<1>12. ASSUME UNCHANGED auditVars PROVE AuditInv'
  BY <1>12 DEF auditVars, AuditInv, Finished
<1> QED
  BY <1>1, <1>2, <1>3, <1>4, <1>5, <1>6, <1>7, <1>8, <1>9, <1>10, <1>11, <1>12
  DEF AuditNext, ConsumerStep

(* For any records and any number of faults: a published audit record that *)
(* is not in the table, not in the handler's hands and not to be fetched   *)
(* was rejected with a logged error, or its loss was heard by nobody: over *)
(* NATS, which keeps nothing, or, over Kafka, before its group's first     *)
(* commit.  Neither a failed commit nor a restart loses another one.       *)
THEOREM LossesAreKnown == AuditSpec => []OnlyKnownLosses
<1>1. AuditInit => AuditInv
  BY AuditInitInv
<1>2. AuditInv /\ [AuditNext]_auditVars => AuditInv'
  BY AuditNextInv
<1>3. AuditInv => OnlyKnownLosses
  BY DEF AuditInv, OnlyKnownLosses, Finished
<1> QED
  BY <1>1, <1>2, <1>3, PTL DEF AuditSpec

-----------------------------------------------------------------------------
(* EventFanout.  The client Publish is about to send to is still in the    *)
(* map, because it was when the lock was taken and leaving needs the lock. *)

ClientStates == {"new", "on", "marked", "removed", "closed"}
Connections  == [st : ClientStates, chan : Seq(Nat), got : Seq(Nat), due : Nat, missed : Nat]
Fanning      == [ev : Nat, todo : SUBSET HubClients, to : HubClients \cup {NoOne}]

FanTypes ==
  /\ client \in [Clients -> Connections]
  /\ inbox \in [Groups -> Seq(Nat \ {0})]
  /\ published \in Seq(Tenants)
  /\ hub \in Fanning

FanInv ==
  /\ FanTypes
  /\ hub.to # NoOne => hub.ev # 0 /\ client[hub.to].st \in {"on", "marked"}

LEMMA OfferKeeps ==
  ASSUME NEW cl \in Connections, NEW e \in Nat
  PROVE  Offer(cl, e) \in Connections /\ Offer(cl, e).st = cl.st
<1>1. PICK n \in Nat : n = cl.missed + 1
  BY DEF Connections
<1>2. PICK ch \in Seq(Nat) : ch = Append(cl.chan, e)
  <2>1. Append(cl.chan, e) \in Seq(Nat)
    BY DEF Connections
  <2> QED
    BY <2>1, Zenon
<1>3. Offer(cl, e) = IF Len(cl.chan) < ChanCap THEN [cl EXCEPT !.chan = ch] ELSE [cl EXCEPT !.missed = n]
  BY <1>1, <1>2 DEF Offer
<1> QED
  BY <1>3 DEF Connections

LEMMA TakeFromKeeps ==
  ASSUME NEW cl \in Connections, cl.chan # <<>>
  PROVE  TakeFrom(cl) \in Connections /\ TakeFrom(cl).st = cl.st
<1>1. cl.chan \in Seq(Nat) /\ cl.got \in Seq(Nat)
  BY DEF Connections
<1>2. PICK ch \in Seq(Nat), g \in Seq(Nat) : ch = Tail(cl.chan) /\ g = Append(cl.got, Head(cl.chan))
  <2>1. Tail(cl.chan) \in Seq(Nat) /\ Append(cl.got, Head(cl.chan)) \in Seq(Nat)
    BY <1>1
  <2> QED
    BY <2>1, Zenon
<1>3. TakeFrom(cl) = [cl EXCEPT !.chan = ch, !.got = g]
  BY <1>2 DEF TakeFrom
<1> QED
  BY <1>3 DEF Connections

LEMMA OneMoreDue ==
  ASSUME NEW cl \in Connections
  PROVE  [cl EXCEPT !.due = @ + 1] \in Connections /\ [cl EXCEPT !.due = @ + 1].st = cl.st
<1>1. PICK n \in Nat : n = cl.due + 1
  BY DEF Connections
<1>2. [cl EXCEPT !.due = n] \in Connections /\ [cl EXCEPT !.due = n].st = cl.st
  BY DEF Connections
<1> QED
  BY <1>1, <1>2

\* The bus hands out the oldest copy of a group.
LEMMA InboxTail ==
  ASSUME FanInv, NEW g \in Groups, inbox[g] # <<>>
  PROVE  /\ [inbox EXCEPT ![g] = Tail(@)] \in [Groups -> Seq(Nat \ {0})]
         /\ Head(inbox[g]) \in Nat \ {0}
<1>1. inbox[g] \in Seq(Nat \ {0}) /\ inbox \in [Groups -> Seq(Nat \ {0})]
  BY DEF FanInv, FanTypes
<1>2. PICK s \in Seq(Nat \ {0}) : s = Tail(inbox[g])
  <2>1. Tail(inbox[g]) \in Seq(Nat \ {0})
    BY <1>1
  <2> QED
    BY <2>1, Zenon
<1>3. [inbox EXCEPT ![g] = Tail(@)] = [inbox EXCEPT ![g] = s]
  BY <1>2
<1> QED
  BY <1>1, <1>3

\* One connection changes: unless it is a hub client that leaves the map, the
\* hub's promise stands.
LEMMA ClientMoves ==
  ASSUME FanInv, NEW c \in Clients, NEW x \in Connections, client' = [client EXCEPT ![c] = x],
         (x.st \in {"on", "marked"} \/ c \notin HubClients \/ hub.ev = 0 \/ client[c].st = "removed"),
         UNCHANGED <<inbox, published, hub>>
  PROVE  FanInv'
<1>1. FanTypes'
  BY DEF FanInv, FanTypes
<1>2. ASSUME hub.to # NoOne PROVE hub.ev # 0 /\ client'[hub.to].st \in {"on", "marked"}
  <2>1. hub.to \in HubClients /\ hub.to \in Clients /\ hub.ev # 0 /\ client[hub.to].st \in {"on", "marked"}
    BY <1>2 DEF FanInv, FanTypes, Fanning, HubClients
  <2>2. client' \in [Clients -> Connections] /\ client'[c] = x /\ \A d \in Clients \ {c} : client'[d] = client[d]
    BY <1>1 DEF FanInv, FanTypes
  <2> QED
    BY <2>1, <2>2
<1> QED
  BY <1>1, <1>2 DEF FanInv

\* Connections keep their state.
LEMMA ClientsStay ==
  ASSUME FanInv, FanTypes', \A c \in Clients : client'[c].st = client[c].st,
         hub'.to = NoOne \/ UNCHANGED hub
  PROVE  FanInv'
<1>1. hub.to # NoOne => hub.to \in Clients
  BY DEF FanInv, FanTypes, Fanning, HubClients
<1> QED
  BY <1>1 DEF FanInv

LEMMA FanInitInv == FanInit => FanInv
<1> SUFFICES ASSUME FanInit PROVE FanInv
  OBVIOUS
<1>1. NewClient \in Connections /\ HubIdle \in Fanning /\ HubIdle.to = NoOne
  BY DEF NewClient, Connections, ClientStates, HubIdle, Fanning
<1>2. inbox \in [Groups -> Seq(Nat \ {0})] /\ published \in Seq(Tenants)
  BY DEF FanInit
<1> QED
  BY <1>1, <1>2 DEF FanInit, FanInv, FanTypes

LEMMA FanNextInv == FanInv /\ [FanNext]_fanVars => FanInv'
<1> SUFFICES ASSUME FanInv, [FanNext]_fanVars PROVE FanInv'
  OBVIOUS
<1>0. /\ client \in [Clients -> Connections] /\ inbox \in [Groups -> Seq(Nat \ {0})]
      /\ published \in Seq(Tenants) /\ hub \in Fanning
      /\ {"event-service", "realtime-hub", "notification-service"} = Groups
  BY DEF FanInv, FanTypes, Groups
<1>1. ASSUME NEW t \in Tenants, PublishEvent(t) PROVE FanInv'
  <2>1. published' \in Seq(Tenants) /\ Len(published') \in Nat \ {0}
    BY <1>0, <1>1 DEF PublishEvent
  <2>2. inbox' \in [Groups -> Seq(Nat \ {0})]
    <3>1. ASSUME NEW g \in Groups PROVE Append(inbox[g], Len(published')) \in Seq(Nat \ {0})
      BY <1>0, <2>1
    <3> QED
      BY <1>0, <1>1, <3>1 DEF PublishEvent
  <2> QED
    BY <1>0, <1>1, <2>1, <2>2 DEF PublishEvent, FanInv, FanTypes
<1>2. ASSUME NEW g \in Groups, inbox[g] # <<>>, inbox' = [inbox EXCEPT ![g] = Tail(@)],
             UNCHANGED <<client, hub, published>>
      PROVE  FanInv'
  BY <1>0, <1>2, InboxTail DEF FanInv, FanTypes
<1>3. ASSUME NEW c \in Clients, SseReceive(c) PROVE FanInv'
  <2>1. TakeFrom(client[c]) \in Connections /\ c \notin HubClients
    BY <1>0, <1>3, TakeFromKeeps DEF SseReceive, HubClients
  <2> QED
    BY <1>3, <2>1, ClientMoves DEF SseReceive
<1>4. ASSUME NEW c \in Clients, SseSubscribe(c) \/ SseCancel(c) PROVE FanInv'
  <2>1. PICK s \in ClientStates : client' = [client EXCEPT ![c].st = s]
    BY <1>4 DEF SseSubscribe, SseCancel, ClientStates
  <2>2. [client[c] EXCEPT !.st = s] \in Connections /\ c \notin HubClients
    BY <1>0, <1>4 DEF Connections, SseSubscribe, SseCancel, HubClients
  <2> QED
    BY <1>4, <2>1, <2>2, ClientMoves DEF SseSubscribe, SseCancel
<1>5. ASSUME NEW c \in Clients, NEW written \in BOOLEAN, HubReceive(c, written) PROVE FanInv'
  <2>1. TakeFrom(client[c]) \in Connections /\ TakeFrom(client[c]).st = "on"
    BY <1>0, <1>5, TakeFromKeeps DEF HubReceive
  <2>2. PICK x \in Connections : client' = [client EXCEPT ![c] = x] /\ x.st \in {"on", "marked"}
    <3>1. CASE written
      BY <1>5, <2>1, <3>1 DEF HubReceive
    <3>2. CASE ~written
      <4>1. PICK y \in Connections : y = TakeFrom(client[c])
        BY <2>1
      <4>2. [y EXCEPT !.st = "marked"] \in Connections /\ [y EXCEPT !.st = "marked"].st = "marked"
        BY DEF Connections, ClientStates
      <4> QED
        BY <1>5, <3>2, <4>1, <4>2 DEF HubReceive
    <3> QED
      BY <3>1, <3>2
  <2> QED
    BY <1>5, <2>2, ClientMoves DEF HubReceive
<1>6. ASSUME NEW c \in Clients, HubSubscribe(c) \/ Mark(c) \/ RemoveFromMap(c) \/ CloseChannel(c) PROVE FanInv'
  <2>1. PICK s \in ClientStates : /\ client' = [client EXCEPT ![c].st = s]
                                  /\ s \in {"on", "marked"} \/ hub.ev = 0 \/ client[c].st = "removed"
    BY <1>6 DEF HubSubscribe, Mark, RemoveFromMap, CloseChannel, HubLocked, ClientStates
  <2>2. [client[c] EXCEPT !.st = s] \in Connections /\ [client[c] EXCEPT !.st = s].st = s
    BY <1>0 DEF Connections
  <2>3. UNCHANGED <<inbox, published, hub>>
    BY <1>6 DEF HubSubscribe, Mark, RemoveFromMap, CloseChannel
  <2> QED
    BY <2>1, <2>2, <2>3, ClientMoves
<1>7. ASSUME NEW r \in Replicas, RingAppend(r) PROVE FanInv'
  <2>1. PICK e \in Nat : e = Head(inbox["event-service"])
    BY <1>0, <1>7, InboxTail DEF RingAppend
  <2>2. client' = FanOut(r, e) /\ inbox' \in [Groups -> Seq(Nat \ {0})] /\ UNCHANGED <<published, hub>>
    BY <1>0, <1>7, <2>1, InboxTail DEF RingAppend
  <2>3. ASSUME NEW c \in Clients
        PROVE  client'[c] \in Connections /\ client'[c].st = client[c].st
    <3>1. PICK cl \in Connections : cl = Offer(client[c], e) /\ cl.st = client[c].st
      BY <1>0, OfferKeeps
    <3>2. client'[c] = client[c] \/ client'[c] = [cl EXCEPT !.due = @ + 1]
      BY <2>2, <3>1 DEF FanOut
    <3> QED
      BY <1>0, <3>1, <3>2, OneMoreDue
  <2>4. client' \in [Clients -> Connections]
    BY <2>2, <2>3 DEF FanOut
  <2> QED
    BY <1>0, <2>2, <2>3, <2>4, ClientsStay DEF FanTypes
<1>8. ASSUME HubPublish PROVE FanInv'
  <2>1. Head(inbox["realtime-hub"]) \in Nat /\ inbox' \in [Groups -> Seq(Nat \ {0})]
    BY <1>0, <1>8, InboxTail DEF HubPublish
  <2>2. hub' \in Fanning /\ hub'.to = NoOne
    BY <1>8, <2>1 DEF HubPublish, Fanning
  <2>3. ASSUME NEW c \in Clients
        PROVE  client'[c] \in Connections /\ client'[c].st = client[c].st
    <3>1. client'[c] = client[c] \/ client'[c] = [client[c] EXCEPT !.due = @ + 1]
      BY <1>8 DEF HubPublish
    <3> QED
      BY <1>0, <3>1, OneMoreDue
  <2>4. client' \in [Clients -> Connections]
    BY <1>8, <2>3 DEF HubPublish
  <2> QED
    BY <1>0, <1>8, <2>1, <2>2, <2>3, <2>4, ClientsStay DEF FanTypes, HubPublish
<1>9. ASSUME NEW c \in Clients, HubVisit(c) PROVE FanInv'
  <2>1. c \in HubClients /\ hub.ev # 0 /\ hub.ev \in Nat
    BY <1>0, <1>9 DEF HubVisit, Fanning, HubLocked
  <2>2. /\ hub' \in Fanning /\ hub'.ev = hub.ev
        /\ hub'.to = NoOne \/ (hub'.to = c /\ client[c].st = "on")
    BY <1>0, <1>9, <2>1 DEF HubVisit, Fanning
  <2> QED
    BY <1>0, <1>9, <2>1, <2>2 DEF HubVisit, FanInv, FanTypes
<1>10. ASSUME HubSend PROVE FanInv'
  <2>1. hub.to \in Clients /\ hub.ev \in Nat
    BY <1>0, <1>10 DEF HubSend, Fanning, HubClients
  <2>2. PICK x \in Connections : client' = [client EXCEPT ![hub.to] = x] /\ x.st = client[hub.to].st
    BY <1>0, <1>10, <2>1, OfferKeeps DEF HubSend
  <2>3. hub' \in Fanning /\ hub'.to = NoOne
    BY <1>0, <1>10 DEF HubSend, Fanning
  <2>4. /\ client' \in [Clients -> Connections]
        /\ \A c \in Clients : client'[c].st = client[c].st
    BY <1>0, <2>1, <2>2
  <2> QED
    BY <1>0, <1>10, <2>3, <2>4, ClientsStay DEF FanTypes, HubSend
<1>11. ASSUME HubDone PROVE FanInv'
  <2>1. HubIdle \in Fanning /\ HubIdle.to = NoOne
    BY DEF HubIdle, Fanning
  <2> QED
    BY <1>0, <1>11, <2>1 DEF HubDone, FanInv, FanTypes
<1>12. ASSUME UNCHANGED <<client, inbox, hub, published>> PROVE FanInv'
  BY <1>12 DEF FanInv, FanTypes
<1>13. ASSUME NEW g \in Groups, BusDrops(g) PROVE FanInv'
  BY <1>2, <1>13 DEF BusDrops
<1>14. ASSUME NotifyTake \/ NotifyListFails PROVE FanInv'
  BY <1>0, <1>2, <1>14 DEF NotifyTake, NotifyListFails
<1>15. ASSUME \/ \E ep \in Endpoints : Deliver(ep) \/ CreateEndpoint(ep)
              \/ AttemptSucceeds \/ AttemptFails \/ NotifyDone \/ RecordDLQFails \/ NotifyCrash
       PROVE  FanInv'
  BY <1>12, <1>15 DEF Deliver, CreateEndpoint, AttemptSucceeds, AttemptFails, NotifyDone,
                      RecordDLQFails, NotifyCrash
<1>16. ASSUME UNCHANGED fanVars PROVE FanInv'
  BY <1>12, <1>16 DEF fanVars
<1> QED
  BY <1>1, <1>3, <1>4, <1>5, <1>6, <1>7, <1>8, <1>9, <1>10, <1>11, <1>13, <1>14, <1>15, <1>16
  DEF FanNext, HubStep, NotifyStep

(* For any connections, replicas and channel capacities: a Publish of the  *)
(* hub never sends on a channel Unsubscribe has closed, although the flag  *)
(* is set, the client removed and the channel closed in three steps of     *)
(* which only the middle one takes the lock.                               *)
THEOREM HubSendsOnOpenChannels == FanSpec => []HubNeverSendsOnClosed
<1>1. FanInit => FanInv
  BY FanInitInv
<1>2. FanInv /\ [FanNext]_fanVars => FanInv'
  BY FanNextInv
<1>3. FanInv => HubNeverSendsOnClosed
  BY DEF FanInv, HubNeverSendsOnClosed
<1> QED
  BY <1>1, <1>2, <1>3, PTL DEF FanSpec

(* What a slow client costs.  What a connection has seen is what it was    *)
(* handed and what waits in its channel: a send puts one event at its end  *)
(* or counts as missed, a receive leaves it as it was.  What a Publish     *)
(* still owes a client of the hub is counted as due already.               *)

Ids == Nat \ {0}

Seen(cl) == cl.got \o cl.chan

(* The order of what was seen and what is still to come.                   *)
Rising(q)     == \A i, j \in DOMAIN q : i < j => q[i] < q[j]
UpTo(q, n)  == \A i \in DOMAIN q : q[i] <= n
Before(q, p)  == \A i \in DOMAIN q, j \in DOMAIN p : q[i] < p[j]
Older(q, e)   == \A i \in DOMAIN q : q[i] < e
After(e, q)   == \A i \in DOMAIN q : e < q[i]
Mine(q, pub, t) == \A i \in DOMAIN q : q[i] \in DOMAIN pub /\ pub[q[i]] = t
\* A ring holds e, or is full of newer ones.
HeldAt(e, k) == (\E j \in DOMAIN k : k[j] = e) \/ (Len(k) = RingCap /\ \A j \in DOMAIN k : e < k[j])
HeldBy(q, k) == \A i \in DOMAIN q : HeldAt(q[i], k)

\* x is q with e at its end.
Grown(q, e, x) ==
  /\ x \in Seq(Ids) /\ Rising(x) /\ Len(x) = Len(q) + 1
  /\ \A i \in DOMAIN x : (i \in DOMAIN q /\ x[i] = q[i]) \/ x[i] = e
  /\ \A i \in DOMAIN q : i \in DOMAIN x /\ x[i] = q[i]
  /\ Len(x) \in DOMAIN x /\ x[Len(x)] = e

LEMMA AppendRises ==
  ASSUME NEW q \in Seq(Ids), NEW e \in Ids, Rising(q), Older(q, e)
  PROVE  Grown(q, e, Append(q, e))
<1> DEFINE x == Append(q, e)
<1>1. /\ x \in Seq(Ids) /\ Len(x) = Len(q) + 1 /\ Len(q) \in Nat
      /\ DOMAIN x = 1..(Len(q) + 1) /\ DOMAIN q = 1..Len(q)
      /\ \A i \in 1..Len(q) : x[i] = q[i]
      /\ x[Len(q) + 1] = e
  BY AppendProperties
<1> HIDE DEF x
<1>2. \A i \in DOMAIN q : q[i] \in Nat
  BY <1>1 DEF Ids
<1>3. Rising(x)
  <2>1. ASSUME NEW i \in DOMAIN x, NEW j \in DOMAIN x, i < j PROVE x[i] < x[j]
    <3>1. PICK m \in Nat : m = Len(q)
      BY <1>1
    <3>2. i \in 1..m /\ (j \in 1..m \/ j = m + 1)
      BY <1>1, <2>1, <3>1
    <3>3. x[i] = q[i] /\ q[i] < e
      BY <1>1, <3>1, <3>2 DEF Older
    <3>4. CASE j \in 1..m
      BY <1>1, <2>1, <3>1, <3>2, <3>4 DEF Rising
    <3>5. CASE j = m + 1
      BY <1>1, <3>1, <3>3, <3>5
    <3> QED
      BY <3>2, <3>4, <3>5
  <2> QED
    BY <2>1 DEF Rising
<1>4. Grown(q, e, x)
  BY <1>1, <1>3 DEF Grown
<1> QED
  BY <1>4 DEF x

LEMMA TailRises ==
  ASSUME NEW q \in Seq(Ids), q # <<>>, Rising(q), NEW x, x = Tail(q), NEW e, e = Head(q)
  PROVE  /\ x \in Seq(Ids) /\ Rising(x) /\ e \in Ids /\ 1 \in DOMAIN q /\ e = q[1] /\ After(e, x)
         /\ \A i \in DOMAIN x : i + 1 \in DOMAIN q /\ x[i] = q[i + 1]
<1>1. /\ x \in Seq(Ids) /\ Len(x) = Len(q) - 1 /\ Len(q) \in Nat \ {0}
      /\ DOMAIN x = 1..(Len(q) - 1) /\ DOMAIN q = 1..Len(q)
      /\ \A i \in 1..(Len(q) - 1) : x[i] = q[i + 1]
      /\ e = q[1]
  BY HeadTailProperties, EmptySeq
<1>2. \A i \in DOMAIN q : q[i] \in Nat /\ q[i] \in Ids
  BY <1>1 DEF Ids
<1>3. \A i \in DOMAIN x : i + 1 \in DOMAIN q /\ x[i] = q[i + 1] /\ 1 < i + 1 /\ i \in Nat
  BY <1>1
<1>4. 1 \in DOMAIN q
  BY <1>1
<1>5. After(e, x)
  BY <1>1, <1>3, <1>4 DEF Rising, After
<1>6. Rising(x)
  <2>1. ASSUME NEW i \in DOMAIN x, NEW j \in DOMAIN x, i < j PROVE x[i] < x[j]
    <3>1. i + 1 < j + 1
      BY <1>3, <2>1
    <3> QED
      BY <1>3, <3>1 DEF Rising
  <2> QED
    BY <2>1 DEF Rising
<1> QED
  BY <1>1, <1>2, <1>3, <1>4, <1>5, <1>6

LEMMA TakeFromSees ==
  ASSUME NEW cl \in Connections, cl.chan # <<>>
  PROVE  /\ Seen(TakeFrom(cl)) = Seen(cl) /\ TakeFrom(cl).due = cl.due /\ TakeFrom(cl).missed = cl.missed
<1>1. PICK g, h : g = cl.got /\ h = cl.chan
  OBVIOUS
<1>2. g \in Seq(Nat) /\ h \in Seq(Nat) /\ h # <<>>
  BY <1>1 DEF Connections
<1>3. PICK t, a, e : t = Tail(h) /\ e = Head(h) /\ a = Append(g, e)
  OBVIOUS
<1>4. /\ t \in Seq(Nat) /\ Len(t) = Len(h) - 1 /\ Len(h) \in Nat \ {0} /\ e \in Nat /\ e = h[1]
      /\ \A i \in 1..Len(t) : t[i] = h[i + 1]
  BY <1>2, <1>3, HeadTailProperties, EmptySeq
<1>5. /\ a \in Seq(Nat) /\ Len(a) = Len(g) + 1 /\ Len(g) \in Nat
      /\ \A i \in 1..Len(g) : a[i] = g[i]
      /\ a[Len(g) + 1] = e
  BY <1>2, <1>3, <1>4, AppendProperties
<1>6. a \o t = g \o h
  <2>1. /\ a \o t \in Seq(Nat) /\ Len(a \o t) = Len(a) + Len(t)
        /\ \A i \in 1..(Len(a) + Len(t)) : (a \o t)[i] = IF i <= Len(a) THEN a[i] ELSE t[i - Len(a)]
    BY <1>4, <1>5, ConcatProperties
  <2>2. /\ g \o h \in Seq(Nat) /\ Len(g \o h) = Len(g) + Len(h)
        /\ \A i \in 1..(Len(g) + Len(h)) : (g \o h)[i] = IF i <= Len(g) THEN g[i] ELSE h[i - Len(g)]
    BY <1>2, ConcatProperties
  <2>3. Len(a) + Len(t) = Len(g) + Len(h)
    BY <1>4, <1>5
  <2>4. ASSUME NEW i \in 1..(Len(g) + Len(h)) PROVE (a \o t)[i] = (g \o h)[i]
    <3>1. PICK m \in Nat, n \in Nat : m = Len(g) /\ n = Len(h)
      BY <1>4, <1>5
    <3>2. i \in 1..(m + n) /\ i \in Int /\ n # 0 /\ Len(a) = m + 1 /\ Len(t) = n - 1
      BY <1>4, <1>5, <3>1
    <3>3. CASE i <= m
      <4>1. i \in 1..m /\ (a \o t)[i] = a[i] /\ (g \o h)[i] = g[i]
        BY <2>1, <2>2, <3>1, <3>2, <3>3
      <4> QED
        BY <1>5, <3>1, <4>1
    <3>4. CASE i = m + 1
      BY <1>4, <1>5, <2>1, <2>2, <3>1, <3>2, <3>4
    <3>5. CASE i > m + 1
      <4>1. PICK j \in 1..(n - 1) : j = i - (m + 1)
        BY <3>2, <3>5
      <4>2. j + 1 = i - m /\ ~(i <= m) /\ ~(i <= m + 1)
        BY <3>2, <3>5, <4>1
      <4>3. (a \o t)[i] = t[j]
        BY <2>1, <2>3, <3>2, <4>1, <4>2
      <4>4. (g \o h)[i] = h[j + 1]
        BY <2>2, <3>1, <4>2
      <4> QED
        BY <1>4, <3>2, <4>3, <4>4
    <3> QED
      BY <3>1, <3>2, <3>3, <3>4, <3>5
  <2>5. PICK u, v : u = a \o t /\ v = g \o h
    OBVIOUS
  <2>6. u \in Seq(Nat) /\ v \in Seq(Nat) /\ Len(u) = Len(v) /\ \A i \in 1..Len(u) : u[i] = v[i]
    BY <2>1, <2>2, <2>3, <2>4, <2>5
  <2> QED
    BY <2>5, <2>6, SeqEqual
<1>7. TakeFrom(cl) = [cl EXCEPT !.chan = t, !.got = a]
  BY <1>1, <1>3 DEF TakeFrom
<1> QED
  BY <1>1, <1>6, <1>7 DEF Seen, Connections

LEMMA SeenIsSeq == ASSUME NEW cl \in Connections PROVE Seen(cl) \in Seq(Nat)
  BY ConcatProperties DEF Seen, Connections

\* A send that never blocks: what is offered is seen next, or missed.
LEMMA OfferSees ==
  ASSUME NEW cl \in Connections, NEW e \in Nat
  PROVE  /\ Offer(cl, e).due = cl.due
         /\ \/ Seen(Offer(cl, e)) = Append(Seen(cl), e) /\ Offer(cl, e).missed = cl.missed
            \/ Seen(Offer(cl, e)) = Seen(cl) /\ Offer(cl, e).missed = cl.missed + 1
<1>1. PICK g, h : g = cl.got /\ h = cl.chan
  OBVIOUS
<1>2. g \in Seq(Nat) /\ h \in Seq(Nat)
  BY <1>1 DEF Connections
<1>3. PICK a, z : a = Append(h, e) /\ z = cl.missed + 1
  OBVIOUS
<1>4. g \o a = Append(g \o h, e)
  <2>1. /\ a \in Seq(Nat) /\ Len(a) = Len(h) + 1 /\ Len(h) \in Nat
        /\ \A i \in 1..Len(h) : a[i] = h[i]
        /\ a[Len(h) + 1] = e
    BY <1>2, <1>3, AppendProperties
  <2>2. /\ g \o h \in Seq(Nat) /\ Len(g \o h) = Len(g) + Len(h) /\ Len(g) \in Nat
        /\ \A i \in 1..(Len(g) + Len(h)) : (g \o h)[i] = IF i <= Len(g) THEN g[i] ELSE h[i - Len(g)]
    BY <1>2, ConcatProperties
  <2>3. /\ g \o a \in Seq(Nat) /\ Len(g \o a) = Len(g) + Len(a)
        /\ \A i \in 1..(Len(g) + Len(a)) : (g \o a)[i] = IF i <= Len(g) THEN g[i] ELSE a[i - Len(g)]
    BY <1>2, <2>1, ConcatProperties
  <2>4. PICK y : y = g \o h
    OBVIOUS
  <2>5. /\ Append(y, e) \in Seq(Nat) /\ Len(Append(y, e)) = Len(y) + 1
        /\ \A i \in 1..Len(y) : Append(y, e)[i] = y[i]
        /\ Append(y, e)[Len(y) + 1] = e
    BY <2>2, <2>4, AppendProperties
  <2>6. ASSUME NEW i \in 1..(Len(g) + Len(h) + 1) PROVE (g \o a)[i] = Append(y, e)[i]
    <3>1. PICK m \in Nat, n \in Nat : m = Len(g) /\ n = Len(h)
      BY <2>1, <2>2
    <3>2. i \in 1..(m + n + 1) /\ i \in Int /\ Len(a) = n + 1 /\ Len(y) = m + n
      BY <2>1, <2>2, <2>4, <3>1
    <3>3. CASE i <= m
      BY <2>2, <2>3, <2>4, <2>5, <3>1, <3>2, <3>3
    <3>4. CASE i = m + n + 1
      <4>1. (g \o a)[i] = a[i - m] /\ i - m = n + 1
        BY <2>3, <3>1, <3>2, <3>4
      <4> QED
        BY <2>1, <2>5, <3>1, <3>2, <3>4, <4>1
    <3>5. CASE i > m /\ i # m + n + 1
      <4>1. PICK j \in 1..n : j = i - m
        BY <3>2, <3>5
      <4>2. i \in 1..(m + n) /\ i \in 1..(m + (n + 1)) /\ ~(i <= m)
        BY <3>2, <3>5
      <4>3. (g \o a)[i] = a[j]
        BY <2>3, <3>1, <3>2, <4>1, <4>2
      <4>4. y[i] = h[j]
        BY <2>2, <2>4, <3>1, <4>1, <4>2
      <4> QED
        BY <2>1, <2>5, <3>1, <3>2, <4>2, <4>3, <4>4
    <3> QED
      BY <3>1, <3>2, <3>3, <3>4, <3>5
  <2>7. Len(g \o a) = Len(g) + Len(h) + 1 /\ Len(Append(y, e)) = Len(g) + Len(h) + 1
    BY <2>1, <2>2, <2>3, <2>4, <2>5
  <2> QED
    BY <2>3, <2>4, <2>5, <2>6, <2>7, SeqEqual
<1>5. Offer(cl, e) = IF Len(h) < ChanCap THEN [cl EXCEPT !.chan = a] ELSE [cl EXCEPT !.missed = z]
  BY <1>1, <1>3 DEF Offer
<1>6. CASE Len(h) < ChanCap
  BY <1>1, <1>4, <1>5, <1>6 DEF Seen, Connections
<1>7. CASE ~(Len(h) < ChanCap)
  BY <1>1, <1>3, <1>5, <1>7 DEF Seen, Connections
<1> QED
  BY <1>6, <1>7

LEMMA CapIsNat == RingCap \in Nat /\ MaxLimit \in Nat /\ MaxLimit # 0
  BY FanoutAssumption, Zenon

\* Ring.Append keeps the newest RingCap, in order; what is not kept has a full
\* ring of newer ones before it.
LEMMA KeptHolds ==
  ASSUME NEW k \in Seq(Ids), NEW e \in Ids, Rising(k), Older(k, e), Len(k) <= RingCap,
         NEW x, x = Kept(Append(k, e))
  PROVE  /\ x \in Seq(Ids) /\ Rising(x) /\ Len(x) <= RingCap
         /\ \A i \in DOMAIN x : (\E j \in DOMAIN k : x[i] = k[j]) \/ x[i] = e
         /\ HeldBy(k, x) /\ HeldAt(e, x)
         /\ Len(k) = RingCap => Len(x) = RingCap
<1>1. PICK y : y = Append(k, e)
  OBVIOUS
<1>2. /\ y \in Seq(Ids) /\ Rising(y) /\ Len(y) = Len(k) + 1 /\ Len(k) \in Nat
      /\ DOMAIN y = 1..(Len(k) + 1) /\ DOMAIN k = 1..Len(k)
      /\ \A i \in DOMAIN y : (i \in DOMAIN k /\ y[i] = k[i]) \/ y[i] = e
      /\ \A i \in DOMAIN k : i \in DOMAIN y /\ y[i] = k[i]
      /\ Len(y) \in DOMAIN y /\ y[Len(y)] = e
  <2>1. DOMAIN k = 1..Len(k) /\ Len(k) \in Nat
    BY <1>1, AppendProperties
  <2>2. Grown(k, e, y)
    BY <1>1, AppendRises
  <2>3. y \in Seq(Ids) /\ DOMAIN y = 1..(Len(k) + 1)
    BY <2>1, <2>2, LenProperties DEF Grown
  <2> QED
    BY <2>1, <2>2, <2>3 DEF Grown
<1>3. PICK n \in Nat : n = Len(k) /\ Len(y) = n + 1 /\ n <= RingCap
  BY <1>2
<1>4. CASE ~(Len(y) > RingCap)
  <2>1. x = y
    BY <1>1, <1>4 DEF Kept
  <2>2. Len(x) <= RingCap
    BY <1>2, <1>4, <2>1, CapIsNat
  <2>3. ASSUME NEW i \in DOMAIN k PROVE HeldAt(k[i], x)
    BY <1>2, <2>1 DEF HeldAt
  <2>4. HeldAt(e, x)
    BY <1>2, <2>1 DEF HeldAt
  <2>5. Len(k) # RingCap
    BY <1>3, <1>4, CapIsNat
  <2> QED
    BY <1>2, <2>1, <2>2, <2>3, <2>4, <2>5 DEF HeldBy
<1>5. CASE Len(y) > RingCap
  <2>1. n = RingCap /\ Len(y) = n + 1 /\ Len(y) - RingCap + 1 = 2
    BY <1>3, <1>5, CapIsNat
  <2>2. x = SubSeq(y, 2, n + 1)
    BY <1>1, <1>5, <2>1 DEF Kept
  <2>3. x \in Seq(Ids) /\ Len(x) = n /\ DOMAIN x = 1..n /\ \A i \in 1..n : x[i] = y[i + 1]
    <3>1. \A i \in 2..(n + 1) : y[i] \in Ids
      <4>1. \A i \in 1..(n + 1) : y[i] \in Ids
        BY <1>2, <1>3, ElementOfSeq
      <4> QED
        BY <4>1
    <3>2. /\ SubSeq(y, 2, n + 1) \in Seq(Ids)
          /\ Len(SubSeq(y, 2, n + 1)) = IF 2 <= n + 1 THEN (n + 1) - 2 + 1 ELSE 0
          /\ \A i \in 1..((n + 1) - 2 + 1) : SubSeq(y, 2, n + 1)[i] = y[2 + i - 1]
      BY <1>2, <2>1, <3>1, SubSeqProperties
    <3>3. Len(x) = n
      BY <2>2, <3>2
    <3>4. ASSUME NEW i \in 1..n PROVE x[i] = y[i + 1]
      <4>1. i \in 1..((n + 1) - 2 + 1) /\ 2 + i - 1 = i + 1
        OBVIOUS
      <4> QED
        BY <2>2, <3>2, <4>1
    <3>5. x \in Seq(Ids)
      BY <2>2, <3>2
    <3> QED
      BY <3>3, <3>4, <3>5
  <2>4. \A i \in DOMAIN y : y[i] \in Nat
    BY <1>2, ElementOfSeq DEF Ids
  <2>5. \A i \in 1..n : i + 1 \in DOMAIN y
    BY <1>2, <1>3
  <2>6. Rising(x)
    <3>1. ASSUME NEW i \in 1..n, NEW j \in 1..n, i < j PROVE x[i] < x[j]
      <4>1. i + 1 < j + 1 /\ i + 1 \in DOMAIN y /\ j + 1 \in DOMAIN y
        BY <2>5, <3>1
      <4> QED
        BY <1>2, <2>3, <4>1 DEF Rising
    <3> QED
      BY <2>3, <3>1 DEF Rising
  <2>7. ASSUME NEW i \in DOMAIN k
        PROVE  HeldAt(k[i], x)
    <3>1. i \in 1..n /\ i \in DOMAIN y /\ y[i] = k[i]
      BY <1>2, <1>3
    <3>2. CASE i = 1
      <4>1. ASSUME NEW j \in 1..n PROVE k[i] < x[j]
        <5>1. 1 < j + 1 /\ j + 1 \in DOMAIN y /\ 1 \in DOMAIN y
          BY <2>5, <3>1, <3>2
        <5> QED
          BY <1>2, <2>3, <3>1, <3>2, <5>1 DEF Rising
      <4> QED
        BY <2>1, <2>3, <4>1 DEF HeldAt
    <3>3. CASE i # 1
      <4>1. PICK j \in 1..n : j + 1 = i
        BY <3>1, <3>3
      <4> QED
        BY <2>3, <3>1, <4>1 DEF HeldAt
    <3> QED
      BY <3>2, <3>3
  <2>8. ASSUME NEW i \in DOMAIN x PROVE (\E j \in DOMAIN k : x[i] = k[j]) \/ x[i] = e
    <3>1. x[i] = y[i + 1] /\ i + 1 \in DOMAIN y
      BY <2>3, <2>5
    <3> QED
      BY <1>2, <3>1
  <2>9. HeldAt(e, x)
    <3>1. CASE n = 0
      BY <2>1, <2>3, <3>1 DEF HeldAt
    <3>2. CASE n # 0
      <4>1. n \in 1..n
        BY <3>2
      <4>2. x[n] = y[n + 1] /\ y[n + 1] = e
        BY <1>2, <2>1, <2>3, <4>1
      <4> QED
        BY <2>3, <4>1, <4>2 DEF HeldAt
    <3> QED
      BY <3>1, <3>2
  <2>10. Len(x) <= RingCap
    BY <2>1, <2>3
  <2> QED
    BY <2>1, <2>3, <2>6, <2>7, <2>8, <2>9, <2>10 DEF HeldBy
<1> QED
  BY <1>4, <1>5

(* Each connection is fed by the queue of its service; all that the queue  *)
(* still holds, and the event a Publish is at, is newer than what it saw.  *)
Feed(c) == IF c \in SseClients THEN "event-service" ELSE "realtime-hub"

SeenOK(s, q, n) == s \in Seq(Ids) /\ Rising(s) /\ UpTo(s, n) /\ Before(s, q)

Owed(c, h, pub) == h.to = c \/ (c \in h.todo /\ ClientTenant[c] = pub[h.ev])

HubConnOK(c, cl, h, pub) ==
  /\ c \in h.todo \/ h.to = c => Older(Seen(cl), h.ev)
  /\ cl.st = "on" => cl.due = Len(Seen(cl)) + cl.missed + (IF Owed(c, h, pub) THEN 1 ELSE 0)

SseConnOK(c, cl, pub, k) ==
  /\ Mine(Seen(cl), pub, ClientTenant[c]) /\ HeldBy(Seen(cl), k)
  /\ cl.st = "on" => cl.due = Len(Seen(cl)) + cl.missed

Pristine(cl) == cl.st = "new" => Seen(cl) = <<>> /\ cl.due = 0 /\ cl.missed = 0

ConnOK(c, cl, h, pub, q, ks) ==
  /\ SeenOK(Seen(cl), q, Len(pub)) /\ Pristine(cl)
  /\ c \in HubClients => HubConnOK(c, cl, h, pub)
  /\ c \in SseClients => SseConnOK(c, cl, pub, ks[Home[c]])

QueueOK(q, n) == q \in Seq(Ids) /\ Rising(q) /\ UpTo(q, n)

HubOK(h, n, q) ==
  /\ h.ev <= n /\ After(h.ev, q) /\ h.to \notin h.todo
  /\ h.ev = 0 => h.todo = {} /\ h.to = NoOne

RingOK(k, q, n) == SeenOK(k, q, n) /\ Len(k) <= RingCap

BusInv   == (\A g \in Groups : QueueOK(inbox[g], Len(published))) /\ Len(published) <= Cardinality(Events)
HubInv   == HubOK(hub, Len(published), inbox["realtime-hub"])
RingsInv == ring \in [Replicas -> Seq(Ids)] /\ \A r \in Replicas : RingOK(ring[r], inbox["event-service"], Len(published))
ConnsInv == \A c \in Clients : ConnOK(c, client[c], hub, published, inbox[Feed(c)], ring)

CostInv == FanInv /\ BusInv /\ HubInv /\ RingsInv /\ ConnsInv

LEMMA SomeGroups == "event-service" \in Groups /\ "realtime-hub" \in Groups /\ \A c : Feed(c) \in Groups
  BY DEF Groups, Feed

LEMMA NoOneIsNoClient == NoOne \notin Clients /\ HubClients \subseteq Clients /\ SseClients \subseteq Clients
                /\ SseClients \cap HubClients = {}
  BY FanoutAssumption, Zenon DEF NoOne, HubClients

\* What comes before an event of q comes before what is left of q.
Thinner(x, q) == x \in Seq(Ids) /\ Rising(x) /\ \A i \in DOMAIN x : \E j \in DOMAIN q : x[i] = q[j]

LEMMA ThinnerTail ==
  ASSUME NEW q \in Seq(Ids), q # <<>>, Rising(q), NEW n \in Nat, UpTo(q, n)
  PROVE  /\ Thinner(Tail(q), q) /\ Head(q) \in Ids /\ Head(q) <= n /\ After(Head(q), Tail(q))
         /\ \A s : Before(s, q) => Older(s, Head(q))
<1>1. PICK x, e : x = Tail(q) /\ e = Head(q)
  OBVIOUS
<1>2. /\ x \in Seq(Ids) /\ Rising(x) /\ e \in Ids /\ 1 \in DOMAIN q /\ e = q[1] /\ After(e, x)
      /\ \A i \in DOMAIN x : i + 1 \in DOMAIN q /\ x[i] = q[i + 1]
  BY <1>1, TailRises
<1>3. Thinner(x, q)
  BY <1>2 DEF Thinner
<1>4. e <= n
  BY <1>2 DEF UpTo
<1>5. ASSUME NEW s, Before(s, q) PROVE Older(s, e)
  BY <1>2, <1>5 DEF Before, Older
<1> QED
  BY <1>1, <1>2, <1>3, <1>4, <1>5

LEMMA ThinnerKeeps ==
  ASSUME NEW q, NEW x, Thinner(x, q)
  PROVE  /\ \A n : UpTo(q, n) => QueueOK(x, n)
         /\ \A e : After(e, q) => After(e, x)
         /\ \A s : Before(s, q) => Before(s, x)
         /\ \A s, n : SeenOK(s, q, n) => SeenOK(s, x, n)
<1>1. ASSUME NEW n, UpTo(q, n) PROVE QueueOK(x, n)
  BY <1>1 DEF Thinner, UpTo, QueueOK
<1>2. ASSUME NEW e, After(e, q) PROVE After(e, x)
  BY <1>2 DEF Thinner, After
<1>3. ASSUME NEW s, Before(s, q) PROVE Before(s, x)
  BY <1>3 DEF Thinner, Before
<1> QED
  BY <1>1, <1>2, <1>3 DEF SeenOK

LEMMA ThinnerSame == ASSUME NEW q \in Seq(Ids), Rising(q) PROVE Thinner(q, q)
  BY DEF Thinner

\* The bus hands out or drops copies; nobody else moves.
LEMMA BusMoves ==
  ASSUME CostInv, FanInv', \A g \in Groups : Thinner(inbox'[g], inbox[g]),
         UNCHANGED <<published, ring, client, hub>>
  PROVE  CostInv'
<1>1. BusInv'
  BY ThinnerKeeps DEF CostInv, BusInv, QueueOK
<1>2. HubInv'
  BY SomeGroups, ThinnerKeeps DEF CostInv, HubInv, HubOK
<1>3. RingsInv'
  <2>1. \A k, n : RingOK(k, inbox["event-service"], n) => RingOK(k, inbox'["event-service"], n)
    BY SomeGroups, ThinnerKeeps DEF RingOK
  <2> QED
    BY <2>1 DEF CostInv, RingsInv
<1>4. ConnsInv'
  <2>1. ASSUME NEW c \in Clients PROVE ConnOK(c, client[c], hub, published, inbox'[Feed(c)], ring)
    BY SomeGroups, ThinnerKeeps DEF CostInv, ConnsInv, ConnOK
  <2> QED
    BY <2>1 DEF ConnsInv
<1> QED
  BY <1>1, <1>2, <1>3, <1>4 DEF CostInv

\* One connection changes its state, or hands on an event of its channel.
LEMMA ConnMoves ==
  ASSUME CostInv, FanInv', NEW c \in Clients, NEW x \in Connections, client' = [client EXCEPT ![c] = x],
         Seen(x) = Seen(client[c]), x.due = client[c].due, x.missed = client[c].missed, x.st # "new",
         x.st = "on" => client[c].st = "on" \/ (client[c].st = "new" /\ (c \in HubClients => hub.ev = 0)),
         UNCHANGED <<inbox, published, ring, hub>>
  PROVE  CostInv'
<1>1. BusInv' /\ HubInv' /\ RingsInv'
  BY DEF CostInv, BusInv, HubInv, RingsInv
<1>2. client'[c] = x /\ \A d \in Clients \ {c} : client'[d] = client[d]
  BY DEF CostInv, FanInv, FanTypes
<1>3. ASSUME NEW d \in Clients PROVE ConnOK(d, client'[d], hub, published, inbox[Feed(d)], ring)
  <2>1. ConnOK(d, client[d], hub, published, inbox[Feed(d)], ring)
    BY DEF CostInv, ConnsInv
  <2>2. CASE d # c
    BY <1>2, <2>1, <2>2
  <2>3. CASE d = c
    <3>1. SeenOK(Seen(x), inbox[Feed(d)], Len(published)) /\ Pristine(x)
      BY <2>1, <2>3 DEF ConnOK, Pristine
    <3>2. x.st = "on" => client[c].st = "on" \/ (Seen(x) = <<>> /\ x.due = 0 /\ x.missed = 0)
      BY <2>1, <2>3 DEF ConnOK, Pristine
    <3>3. ASSUME c \in HubClients PROVE HubConnOK(c, x, hub, published)
      <4>1. HubConnOK(c, client[c], hub, published)
        BY <2>1, <2>3, <3>3 DEF ConnOK
      <4>2. hub.ev = 0 => ~Owed(c, hub, published)
        BY NoOneIsNoClient DEF CostInv, HubInv, HubOK, Owed
      <4> QED
        BY <3>2, <3>3, <4>1, <4>2, EmptySeq DEF HubConnOK
    <3>4. ASSUME c \in SseClients PROVE SseConnOK(c, x, published, ring[Home[c]])
      <4>1. SseConnOK(c, client[c], published, ring[Home[c]])
        BY <2>1, <2>3, <3>4 DEF ConnOK
      <4> QED
        BY <3>2, <4>1, EmptySeq DEF SseConnOK
    <3> QED
      BY <1>2, <2>3, <3>1, <3>3, <3>4 DEF ConnOK
  <2> QED
    BY <2>2, <2>3
<1>4. ConnsInv'
  BY <1>3 DEF ConnsInv
<1> QED
  BY <1>1, <1>4 DEF CostInv

LEMMA EventsCounted == Cardinality(Events) \in Nat
<1>1. IsFiniteSet(Events)
  BY FanoutAssumption, Zenon
<1> QED
  BY <1>1, FS_CardinalityType

LEMMA CostInitInv == FanInit => CostInv
<1> SUFFICES ASSUME FanInit PROVE CostInv
  OBVIOUS
<1>1. FanInv
  BY FanInitInv
<1>2. published = <<>> /\ Len(published) = 0 /\ Len(published) <= Cardinality(Events)
  BY EventsCounted, EmptySeq DEF FanInit
<1>3. \A n : QueueOK(<<>>, n) /\ RingOK(<<>>, <<>>, n) /\ SeenOK(<<>>, <<>>, n)
  BY CapIsNat, EmptySeq DEF QueueOK, RingOK, SeenOK, Rising, UpTo, Before
<1>4. BusInv
  BY <1>2, <1>3 DEF FanInit, BusInv
<1>5. HubInv
  BY <1>2, SomeGroups, EmptySeq DEF FanInit, HubInv, HubOK, HubIdle, After
<1>6. RingsInv
  BY <1>2, <1>3, SomeGroups, EmptySeq DEF FanInit, RingsInv
<1>7. ASSUME NEW c \in Clients PROVE ConnOK(c, client[c], hub, published, inbox[Feed(c)], ring)
  <2>1. client[c] = NewClient /\ hub = HubIdle /\ inbox[Feed(c)] = <<>>
    BY SomeGroups DEF FanInit
  <2>2. Seen(NewClient) = <<>> /\ NewClient.due = 0 /\ NewClient.missed = 0 /\ NewClient.st = "new"
    <3>1. <<>> \o <<>> = <<>>
      BY EmptySeq, ConcatProperties
    <3> QED
      BY <3>1 DEF Seen, NewClient
  <2>3. SeenOK(Seen(NewClient), <<>>, Len(published)) /\ Pristine(NewClient)
    BY <1>3, <2>2 DEF Pristine
  <2>4. HubConnOK(c, NewClient, HubIdle, published)
    BY <2>2, NoOneIsNoClient DEF HubConnOK, HubIdle
  <2>5. SseConnOK(c, NewClient, published, ring[Home[c]])
    BY <2>2, EmptySeq DEF SseConnOK, Mine, HeldBy
  <2> QED
    BY <2>1, <2>3, <2>4, <2>5 DEF ConnOK
<1> QED
  BY <1>1, <1>4, <1>5, <1>6, <1>7 DEF CostInv, ConnsInv

LEMMA PublishKeeps == ASSUME CostInv, FanInv', NEW t \in Tenants, PublishEvent(t) PROVE CostInv'
<1>1. PICK n \in Nat : n = Len(published) /\ n < Cardinality(Events) /\ published \in Seq(Tenants)
  BY DEF CostInv, FanInv, FanTypes, PublishEvent
<1>2. /\ Len(published') = n + 1 /\ n + 1 \in Ids /\ DOMAIN published = 1..n /\ DOMAIN published' = 1..(n + 1)
      /\ \A i \in 1..n : published'[i] = published[i]
  BY <1>1, AppendProperties DEF PublishEvent, Ids
<1>3. \A q : UpTo(q, n) /\ q \in Seq(Ids) => UpTo(q, n + 1) /\ Older(q, n + 1)
  <2>1. ASSUME NEW q \in Seq(Ids), UpTo(q, n) PROVE UpTo(q, n + 1) /\ Older(q, n + 1)
    <3>1. \A i \in DOMAIN q : q[i] \in Nat
      BY ElementOfSeq DEF Ids
    <3> QED
      BY <2>1, <3>1 DEF UpTo, Older
  <2> QED
    BY <2>1
<1>4. \A g \in Groups : QueueOK(inbox[g], n)
  BY <1>1 DEF CostInv, BusInv
<1>5. ASSUME NEW g \in Groups
      PROVE  /\ QueueOK(inbox'[g], n + 1)
             /\ \A i \in DOMAIN inbox'[g] : (i \in DOMAIN inbox[g] /\ inbox'[g][i] = inbox[g][i]) \/ inbox'[g][i] = n + 1
  <2>1. CASE inbox'[g] = inbox[g]
    BY <1>3, <1>4, <2>1 DEF QueueOK
  <2>2. CASE inbox'[g] = Append(inbox[g], n + 1)
    <3>1. Grown(inbox[g], n + 1, inbox'[g])
      BY <1>2, <1>3, <1>4, <2>2, AppendRises DEF QueueOK
    <3>2. UpTo(inbox'[g], n + 1)
      <4>1. UpTo(inbox[g], n + 1)
        BY <1>3, <1>4 DEF QueueOK
      <4>2. n + 1 <= n + 1
        OBVIOUS
      <4> QED
        BY <3>1, <4>1, <4>2 DEF Grown, UpTo
    <3> QED
      BY <3>1, <3>2 DEF Grown, QueueOK
  <2> QED
    BY <1>2, <2>1, <2>2 DEF PublishEvent
<1>6. ASSUME NEW g \in Groups, NEW s, SeenOK(s, inbox[g], n) PROVE SeenOK(s, inbox'[g], n + 1)
  <2>1. Before(s, inbox'[g])
    BY <1>3, <1>5, <1>6 DEF SeenOK, Before, Older
  <2> QED
    BY <1>3, <1>6, <2>1 DEF SeenOK
<1>7. BusInv'
  <2>1. n + 1 <= Cardinality(Events)
    BY <1>1, EventsCounted
  <2> QED
    BY <1>2, <1>5, <2>1 DEF BusInv
<1>8. hub.ev <= n /\ hub.ev \in Nat /\ HubOK(hub, n, inbox["realtime-hub"])
  BY <1>1 DEF CostInv, HubInv, HubOK, FanInv, FanTypes, Fanning
<1>9. HubInv'
  <2>1. After(hub.ev, inbox'["realtime-hub"])
    BY <1>5, <1>8, SomeGroups DEF HubOK, After
  <2>2. HubOK(hub, n + 1, inbox'["realtime-hub"])
    BY <1>8, <2>1 DEF HubOK
  <2> QED
    BY <1>2, <2>2 DEF HubInv, PublishEvent
<1>10. RingsInv'
  <2>1. ASSUME NEW r \in Replicas PROVE RingOK(ring[r], inbox'["event-service"], n + 1)
    BY <1>1, <1>6, SomeGroups DEF CostInv, RingsInv, RingOK
  <2> QED
    BY <1>2, <2>1 DEF CostInv, RingsInv, PublishEvent
<1>11. ASSUME NEW c \in Clients PROVE ConnOK(c, client[c], hub, published', inbox'[Feed(c)], ring)
  <2>1. ConnOK(c, client[c], hub, published, inbox[Feed(c)], ring)
    BY DEF CostInv, ConnsInv
  <2>2. SeenOK(Seen(client[c]), inbox'[Feed(c)], Len(published')) /\ Pristine(client[c])
    BY <1>1, <1>2, <1>6, <2>1, SomeGroups DEF ConnOK
  <2>3. Owed(c, hub, published') = Owed(c, hub, published)
    <3>1. c \in hub.todo => hub.ev \in 1..n
      BY <1>8 DEF HubOK
    <3> QED
      BY <1>2, <3>1 DEF Owed
  <2>4. c \in HubClients => HubConnOK(c, client[c], hub, published')
    BY <2>1, <2>3 DEF ConnOK, HubConnOK
  <2>5. c \in SseClients => SseConnOK(c, client[c], published', ring[Home[c]])
    BY <1>2, <2>1 DEF ConnOK, SseConnOK, Mine
  <2> QED
    BY <2>2, <2>4, <2>5 DEF ConnOK
<1>12. ConnsInv'
  BY <1>11 DEF ConnsInv, PublishEvent
<1> QED
  BY <1>7, <1>9, <1>10, <1>12 DEF CostInv

\* What the head of a queue is to those who have not seen it yet.
LEMMA HandedOut ==
  ASSUME CostInv, NEW g \in Groups, inbox[g] # <<>>, inbox' = [inbox EXCEPT ![g] = Tail(@)]
  PROVE  /\ Head(inbox[g]) \in Ids /\ Head(inbox[g]) <= Len(published)
         /\ inbox'[g] = Tail(inbox[g]) /\ After(Head(inbox[g]), inbox'[g])
         /\ \A s : Before(s, inbox[g]) => Older(s, Head(inbox[g]))
         /\ \A f \in Groups : Thinner(inbox'[f], inbox[f])
<1>1. inbox \in [Groups -> Seq(Ids)] /\ published \in Seq(Tenants)
  BY DEF CostInv, FanInv, FanTypes, Ids
<1>2. \A f \in Groups : QueueOK(inbox[f], Len(published))
  BY DEF CostInv, BusInv
<1>3. inbox'[g] = Tail(inbox[g]) /\ \A f \in Groups \ {g} : inbox'[f] = inbox[f]
  BY <1>1
<1>4. PICK n \in Nat : n = Len(published)
  BY <1>1
<1>5. /\ Thinner(Tail(inbox[g]), inbox[g]) /\ Head(inbox[g]) \in Ids /\ Head(inbox[g]) <= n
      /\ After(Head(inbox[g]), Tail(inbox[g])) /\ \A s : Before(s, inbox[g]) => Older(s, Head(inbox[g]))
  BY <1>2, <1>4, ThinnerTail DEF QueueOK
<1>6. \A f \in Groups \ {g} : Thinner(inbox'[f], inbox[f])
  BY <1>2, <1>3, ThinnerSame DEF QueueOK
<1> QED
  BY <1>3, <1>4, <1>5, <1>6

\* y holds what s holds, and maybe e.
Gained(s, e, y) == \A i \in DOMAIN y : y[i] = e \/ \E j \in DOMAIN s : y[i] = s[j]

LEMMA OfferedOK ==
  ASSUME NEW cl \in Connections, NEW e \in Ids, NEW n \in Nat, NEW q, SeenOK(Seen(cl), q, n),
         Older(Seen(cl), e), e <= n, After(e, q), NEW x, x = Offer(cl, e)
  PROVE  /\ SeenOK(Seen(x), q, n) /\ Gained(Seen(cl), e, Seen(x)) /\ x.due = cl.due
         /\ Len(Seen(x)) + x.missed = Len(Seen(cl)) + cl.missed + 1
         /\ x \in Connections /\ x.st = cl.st
<1>1. PICK s, y : s = Seen(cl) /\ y = Seen(x)
  OBVIOUS
<1>2. e \in Nat /\ s \in Seq(Ids) /\ Rising(s) /\ Older(s, e) /\ Before(s, q) /\ UpTo(s, n)
  BY <1>1 DEF Ids, SeenOK
<1>3. x.due = cl.due /\ x \in Connections /\ x.st = cl.st
  BY <1>2, OfferKeeps, OfferSees
<1>4. Len(s) \in Nat /\ cl.missed \in Nat
  BY <1>2 DEF Connections
<1>5. CASE y = Append(s, e) /\ x.missed = cl.missed
  <2>1. Grown(s, e, y)
    BY <1>2, <1>5, AppendRises
  <2>2. UpTo(y, n) /\ Before(y, q)
    BY <1>2, <2>1 DEF Grown, UpTo, Before, After
  <2>3. SeenOK(y, q, n) /\ Gained(s, e, y)
    BY <2>1, <2>2 DEF Grown, SeenOK, Gained
  <2>4. Len(y) = Len(s) + 1
    BY <2>1 DEF Grown
  <2>5. Len(y) + x.missed = Len(s) + cl.missed + 1
    BY <1>4, <1>5, <2>4
  <2> QED
    BY <1>1, <1>3, <2>3, <2>5
<1>6. CASE y = s /\ x.missed = cl.missed + 1
  <2>1. Gained(s, e, y)
    BY <1>6 DEF Gained
  <2>2. Len(y) + x.missed = Len(s) + cl.missed + 1
    BY <1>4, <1>6
  <2>3. SeenOK(y, q, n)
    BY <1>1, <1>6
  <2> QED
    BY <1>1, <1>3, <2>1, <2>2, <2>3
<1> QED
  BY <1>1, <1>2, <1>5, <1>6, OfferSees

\* What was held stays held when the ring takes e, and so does e.
LEMMA HeldKeeps ==
  ASSUME NEW k \in Seq(Ids), NEW e \in Ids, Rising(k), Older(k, e), Len(k) <= RingCap,
         NEW x, x = Kept(Append(k, e)), NEW s \in Seq(Ids), HeldBy(s, k), Older(s, e)
  PROVE  HeldBy(s, x) /\ \A y : Gained(s, e, y) => HeldBy(y, x)
<1>1. /\ \A i \in DOMAIN x : (\E j \in DOMAIN k : x[i] = k[j]) \/ x[i] = e
      /\ HeldBy(k, x) /\ HeldAt(e, x)
      /\ Len(k) = RingCap => Len(x) = RingCap
  BY KeptHolds
<1>2. ASSUME NEW i \in DOMAIN s PROVE HeldAt(s[i], x)
  <2>1. CASE \E j \in DOMAIN k : k[j] = s[i]
    BY <1>1, <2>1 DEF HeldBy
  <2>2. CASE Len(k) = RingCap /\ \A j \in DOMAIN k : s[i] < k[j]
    <3>1. s[i] < e
      BY DEF Older
    <3>2. \A j \in DOMAIN x : s[i] < x[j]
      BY <1>1, <2>2, <3>1
    <3> QED
      BY <1>1, <2>2, <3>2 DEF HeldAt
  <2> QED
    BY <2>1, <2>2 DEF HeldBy, HeldAt
<1>3. ASSUME NEW y, Gained(s, e, y) PROVE HeldBy(y, x)
  BY <1>1, <1>2, <1>3 DEF Gained, HeldBy
<1> QED
  BY <1>2, <1>3 DEF HeldBy

LEMMA HomeIsReplica == \A c \in SseClients : Home[c] \in Replicas
<1>1. Home \in [SseClients -> Replicas]
  BY FanoutAssumption, Zenon
<1> QED
  BY <1>1

LEMMA RingAppendKeeps == ASSUME CostInv, FanInv', NEW r \in Replicas, RingAppend(r) PROVE CostInv'
<1> DEFINE q == inbox["event-service"]
<1>1. PICK e : e = Head(q)
  OBVIOUS
<1>2. PICK n \in Nat : n = Len(published) /\ published \in Seq(Tenants) /\ DOMAIN published = 1..n
  BY DEF CostInv, FanInv, FanTypes
<1>3. /\ e \in Ids /\ e <= n /\ After(e, inbox'["event-service"])
      /\ \A s : Before(s, q) => Older(s, e)
      /\ \A f \in Groups : Thinner(inbox'[f], inbox[f])
  BY <1>1, <1>2, SomeGroups, HandedOut DEF RingAppend
<1>4. /\ ring' = [ring EXCEPT ![r] = Kept(Append(@, e))] /\ client' = FanOut(r, e)
      /\ UNCHANGED <<published, hub>>
  BY <1>1 DEF RingAppend
<1>5. BusInv'
  BY <1>3, <1>4, ThinnerKeeps DEF CostInv, BusInv, QueueOK
<1>6. HubInv'
  BY <1>3, <1>4, SomeGroups, ThinnerKeeps DEF CostInv, HubInv, HubOK
<1>7. /\ ring \in [Replicas -> Seq(Ids)]
      /\ \A p \in Replicas : RingOK(ring[p], q, n)
  BY <1>2 DEF CostInv, RingsInv
<1>8. \A p \in Replicas : /\ ring[p] \in Seq(Ids) /\ Rising(ring[p]) /\ Older(ring[p], e)
                          /\ Len(ring[p]) <= RingCap /\ UpTo(ring[p], n)
  BY <1>3, <1>7 DEF RingOK, SeenOK
<1>9. PICK x : x = Kept(Append(ring[r], e))
  OBVIOUS
<1>10. /\ x \in Seq(Ids) /\ Rising(x) /\ Len(x) <= RingCap
       /\ \A i \in DOMAIN x : (\E j \in DOMAIN ring[r] : x[i] = ring[r][j]) \/ x[i] = e
  BY <1>3, <1>8, <1>9, KeptHolds
<1>11. ring' = [ring EXCEPT ![r] = x]
  BY <1>4, <1>9
<1>12. RingOK(x, inbox'["event-service"], n)
  <2>1. UpTo(x, n)
    BY <1>3, <1>8, <1>10 DEF UpTo
  <2>2. Before(ring[r], inbox'["event-service"])
    BY <1>3, <1>7, SomeGroups, ThinnerKeeps DEF RingOK, SeenOK
  <2>3. Before(x, inbox'["event-service"])
    BY <1>3, <1>10, <2>2 DEF Before, After
  <2> QED
    BY <1>10, <2>1, <2>3 DEF RingOK, SeenOK
<1>13. RingsInv'
  <2>1. ring' \in [Replicas -> Seq(Ids)]
    BY <1>7, <1>10, <1>11
  <2>2. ASSUME NEW p \in Replicas PROVE RingOK(ring'[p], inbox'["event-service"], n)
    <3>1. CASE p = r
      BY <1>7, <1>11, <1>12, <3>1
    <3>2. CASE p # r
      <4>1. ring'[p] = ring[p]
        BY <1>7, <1>11, <3>2
      <4>2. SeenOK(ring[p], inbox'["event-service"], n)
        BY <1>3, <1>7, SomeGroups, ThinnerKeeps DEF RingOK
      <4> QED
        BY <1>8, <4>1, <4>2 DEF RingOK
    <3> QED
      BY <3>1, <3>2
  <2> QED
    BY <1>2, <1>4, <2>1, <2>2 DEF RingsInv
<1>14. ASSUME NEW p \in Replicas, NEW s \in Seq(Ids), HeldBy(s, ring[p]), Older(s, e)
       PROVE  HeldBy(s, ring'[p]) /\ (p = r => \A y : Gained(s, e, y) => HeldBy(y, ring'[p]))
  <2>1. CASE p = r
    <3>1. HeldBy(s, x) /\ \A y : Gained(s, e, y) => HeldBy(y, x)
      BY <1>3, <1>8, <1>9, <1>14, <2>1, HeldKeeps
    <3> QED
      BY <1>7, <1>11, <2>1, <3>1
  <2>2. CASE p # r
    BY <1>7, <1>11, <1>14, <2>2
  <2> QED
    BY <2>1, <2>2
<1>15. ASSUME NEW c \in Clients PROVE ConnOK(c, client'[c], hub, published, inbox'[Feed(c)], ring')
  <2>1. ConnOK(c, client[c], hub, published, inbox[Feed(c)], ring) /\ client[c] \in Connections
    BY DEF CostInv, ConnsInv, FanInv, FanTypes
  <2>2. SeenOK(Seen(client[c]), inbox'[Feed(c)], n) /\ Pristine(client[c])
    BY <1>2, <1>3, <2>1, SomeGroups, ThinnerKeeps DEF ConnOK
  <2>3. CASE c \notin SseClients
    <3>1. client'[c] = client[c]
      BY <1>4, <2>3 DEF FanOut
    <3> QED
      BY <1>2, <2>1, <2>2, <2>3, <3>1 DEF ConnOK
  <2>4. CASE c \in SseClients
    <3>1. c \notin HubClients /\ Home[c] \in Replicas /\ Feed(c) = "event-service"
      BY <2>4, HomeIsReplica DEF HubClients, Feed
    <3>2. SseConnOK(c, client[c], published, ring[Home[c]])
      BY <2>1, <2>4 DEF ConnOK
    <3>3. PICK s : s = Seen(client[c])
      OBVIOUS
    <3>4. s \in Seq(Ids) /\ Older(s, e) /\ HeldBy(s, ring[Home[c]]) /\ Mine(s, published, ClientTenant[c])
      BY <1>3, <2>1, <3>1, <3>2, <3>3 DEF ConnOK, SeenOK, SseConnOK
    <3>5. CASE client'[c] = client[c]
      <4>1. HeldBy(s, ring'[Home[c]])
        BY <1>14, <3>1, <3>4
      <4>2. SseConnOK(c, client[c], published, ring'[Home[c]])
        BY <3>2, <3>3, <4>1 DEF SseConnOK
      <4> QED
        BY <1>2, <2>2, <3>1, <3>5, <4>2 DEF ConnOK
    <3>6. CASE client[c].st = "on" /\ Home[c] = r /\ Wants(c, e) /\ client'[c] = [Offer(client[c], e) EXCEPT !.due = @ + 1]
      <4>1. PICK o, z : o = Offer(client[c], e) /\ z = client'[c]
        OBVIOUS
      <4>2. /\ SeenOK(Seen(o), inbox'["event-service"], n) /\ Gained(s, e, Seen(o)) /\ o.due = client[c].due
            /\ Len(Seen(o)) + o.missed = Len(s) + client[c].missed + 1
            /\ o \in Connections /\ o.st = client[c].st
        BY <1>2, <1>3, <2>1, <2>2, <3>1, <3>3, <3>4, <4>1, OfferedOK
      <4>3. PICK d \in Nat : d = client[c].due /\ d + 1 \in Nat
        BY <2>1 DEF Connections
      <4>4. z = [o EXCEPT !.due = d + 1]
        BY <3>6, <4>1, <4>2, <4>3
      <4>5. z.due = d + 1 /\ z.missed = o.missed /\ z.st = "on" /\ Seen(z) = Seen(o)
        BY <3>6, <4>2, <4>4 DEF Connections, Seen
      <4>6. HeldBy(Seen(o), ring'[Home[c]])
        BY <1>14, <3>1, <3>4, <3>6, <4>2
      <4>7. Mine(Seen(o), published, ClientTenant[c])
        <5>1. e \in DOMAIN published /\ published[e] = ClientTenant[c]
          BY <1>2, <1>3, <3>6 DEF Ids, Wants, TenantOf
        <5> QED
          BY <3>4, <4>2, <5>1 DEF Mine, Gained
      <4>8. d = Len(s) + client[c].missed
        BY <3>2, <3>3, <3>6, <4>3 DEF SseConnOK
      <4>9. z.due = Len(Seen(z)) + z.missed
        BY <4>2, <4>5, <4>8
      <4>10. SseConnOK(c, z, published, ring'[Home[c]])
        BY <4>5, <4>6, <4>7, <4>9 DEF SseConnOK
      <4>11. Pristine(z)
        BY <4>5 DEF Pristine
      <4> QED
        BY <1>2, <3>1, <4>1, <4>2, <4>5, <4>10, <4>11 DEF ConnOK
    <3> QED
      BY <1>4, <3>5, <3>6 DEF FanOut
  <2> QED
    BY <2>3, <2>4
<1> QED
  BY <1>4, <1>5, <1>6, <1>13, <1>15 DEF CostInv, ConnsInv

LEMMA HubPublishKeeps == ASSUME CostInv, FanInv', HubPublish PROVE CostInv'
<1> DEFINE q == inbox["realtime-hub"]
<1>1. PICK e : e = Head(q)
  OBVIOUS
<1>2. PICK n \in Nat : n = Len(published)
  BY DEF CostInv, FanInv, FanTypes
<1>3. /\ e \in Ids /\ e <= n /\ After(e, inbox'["realtime-hub"])
      /\ \A s : Before(s, q) => Older(s, e)
      /\ \A f \in Groups : Thinner(inbox'[f], inbox[f])
  BY <1>1, <1>2, SomeGroups, HandedOut DEF HubPublish
<1>4. PICK M \in SUBSET HubClients : /\ hub' = [ev |-> e, todo |-> M, to |-> NoOne]
                                     /\ \A c \in HubClients : client[c].st = "on" => c \in M
  BY <1>1 DEF HubPublish
<1>5. hub'.ev = e /\ hub'.todo = M /\ hub'.to = NoOne /\ UNCHANGED <<published, ring>>
  BY <1>4 DEF HubPublish
<1>6. BusInv'
  BY <1>3, <1>5, ThinnerKeeps DEF CostInv, BusInv, QueueOK
<1>7. HubInv'
  BY <1>2, <1>3, <1>5, NoOneIsNoClient DEF HubInv, HubOK, Ids
<1>8. RingsInv'
  <2>1. \A k, m : RingOK(k, inbox["event-service"], m) => RingOK(k, inbox'["event-service"], m)
    BY <1>3, SomeGroups, ThinnerKeeps DEF RingOK
  <2> QED
    BY <1>5, <2>1 DEF CostInv, RingsInv
<1>9. ASSUME NEW c \in Clients PROVE ConnOK(c, client'[c], hub', published, inbox'[Feed(c)], ring)
  <2>1. ConnOK(c, client[c], hub, published, inbox[Feed(c)], ring) /\ client[c] \in Connections
    BY DEF CostInv, ConnsInv, FanInv, FanTypes
  <2>2. SeenOK(Seen(client[c]), inbox'[Feed(c)], n) /\ Pristine(client[c])
    BY <1>2, <1>3, <2>1, SomeGroups, ThinnerKeeps DEF ConnOK
  <2>3. CASE c \notin HubClients
    <3>1. client'[c] = client[c]
      BY <2>3 DEF HubPublish
    <3> QED
      BY <1>2, <2>1, <2>2, <2>3, <3>1 DEF ConnOK
  <2>4. CASE c \in HubClients
    <3>1. c \notin SseClients /\ Feed(c) = "realtime-hub"
      BY <2>4 DEF HubClients, Feed
    <3>2. Older(Seen(client[c]), e)
      BY <1>3, <2>1, <3>1 DEF ConnOK, SeenOK
    <3>3. ~Owed(c, hub, published)
      BY NoOneIsNoClient DEF CostInv, HubInv, HubOK, HubPublish, HubLocked, Owed
    <3>4. HubConnOK(c, client[c], hub, published)
      BY <2>1, <2>4 DEF ConnOK
    <3>5. CASE client[c].st = "on" /\ Wants(c, e)
      <4>1. PICK d \in Nat : d = client[c].due /\ d + 1 \in Nat
        BY <2>1 DEF Connections
      <4>2. PICK z : z = client'[c]
        OBVIOUS
      <4>3. z = [client[c] EXCEPT !.due = d + 1]
        BY <1>1, <2>4, <3>5, <4>1, <4>2 DEF HubPublish
      <4>4. z.st = "on" /\ z.due = d + 1 /\ z.missed = client[c].missed /\ Seen(z) = Seen(client[c])
        BY <2>1, <3>5, <4>3 DEF Connections, Seen
      <4>5. Owed(c, hub', published)
        BY <1>4, <1>5, <2>4, <3>5 DEF Owed, Wants, TenantOf
      <4>6. d = Len(Seen(client[c])) + client[c].missed + 0
        BY <3>3, <3>4, <3>5, <4>1 DEF HubConnOK
      <4>7. Len(Seen(client[c])) \in Nat /\ client[c].missed \in Nat
        BY <2>1, SeenIsSeq DEF Connections
      <4>8. z.due = Len(Seen(z)) + z.missed + 1
        BY <4>1, <4>4, <4>6, <4>7
      <4>9. HubConnOK(c, z, hub', published)
        BY <1>5, <3>2, <4>4, <4>5, <4>8 DEF HubConnOK
      <4>10. Pristine(z)
        BY <4>4 DEF Pristine
      <4> QED
        BY <1>2, <2>2, <3>1, <4>2, <4>4, <4>9, <4>10 DEF ConnOK
    <3>6. CASE ~(client[c].st = "on" /\ Wants(c, e))
      <4>1. client'[c] = client[c]
        BY <1>1, <3>6 DEF HubPublish
      <4>2. client[c].st = "on" => ~Owed(c, hub', published)
        BY <1>5, <3>6, NoOneIsNoClient DEF Owed, Wants, TenantOf
      <4>3. HubConnOK(c, client[c], hub', published)
        BY <1>5, <3>2, <3>3, <3>4, <4>2 DEF HubConnOK
      <4> QED
        BY <1>2, <2>2, <3>1, <4>1, <4>3 DEF ConnOK
    <3> QED
      BY <3>5, <3>6
  <2> QED
    BY <2>3, <2>4
<1> QED
  BY <1>5, <1>6, <1>7, <1>8, <1>9 DEF CostInv, ConnsInv

\* The read lock's holder goes on: what it still owes each client is the same.
LEMMA HubMoves ==
  ASSUME CostInv, FanInv', UNCHANGED <<published, inbox, ring, client>>,
         HubOK(hub', Len(published), inbox["realtime-hub"]),
         \A c \in HubClients : /\ client[c].st = "on" => (Owed(c, hub', published) <=> Owed(c, hub, published))
                               /\ c \in hub'.todo \/ hub'.to = c => hub'.ev = hub.ev /\ (c \in hub.todo \/ hub.to = c)
  PROVE  CostInv'
<1>1. BusInv' /\ HubInv' /\ RingsInv'
  BY DEF CostInv, BusInv, HubInv, RingsInv
<1>2. ASSUME NEW c \in Clients PROVE ConnOK(c, client[c], hub', published, inbox[Feed(c)], ring)
  <2>1. ConnOK(c, client[c], hub, published, inbox[Feed(c)], ring)
    BY DEF CostInv, ConnsInv
  <2>2. c \in HubClients => HubConnOK(c, client[c], hub', published)
    BY <2>1 DEF ConnOK, HubConnOK
  <2> QED
    BY <2>1, <2>2 DEF ConnOK
<1> QED
  BY <1>1, <1>2 DEF CostInv, ConnsInv

LEMMA HubVisitKeeps == ASSUME CostInv, FanInv', NEW c \in Clients, HubVisit(c) PROVE CostInv'
<1>1. hub \in Fanning /\ HubOK(hub, Len(published), inbox["realtime-hub"])
  BY DEF CostInv, HubInv, FanInv, FanTypes
<1>2. /\ c \in hub.todo /\ hub.to = NoOne /\ hub.ev # 0 /\ c # NoOne /\ c \in HubClients
      /\ hub'.ev = hub.ev /\ hub'.todo = hub.todo \ {c}
      /\ hub'.to = IF client[c].st = "on" /\ Wants(c, hub.ev) THEN c ELSE NoOne
  BY <1>1, NoOneIsNoClient DEF HubVisit, HubLocked, Fanning
<1>3. HubOK(hub', Len(published), inbox["realtime-hub"])
  BY <1>1, <1>2 DEF HubOK
<1>4. ASSUME NEW d \in HubClients
      PROVE  /\ client[d].st = "on" => (Owed(d, hub', published) <=> Owed(d, hub, published))
             /\ d \in hub'.todo \/ hub'.to = d => hub'.ev = hub.ev /\ (d \in hub.todo \/ hub.to = d)
  <2>1. d # NoOne
    BY NoOneIsNoClient
  <2>2. CASE d = c
    BY <1>2, <2>1, <2>2 DEF Owed, Wants, TenantOf
  <2>3. CASE d # c
    BY <1>2, <2>1, <2>3 DEF Owed
  <2> QED
    BY <2>2, <2>3
<1> QED
  BY <1>3, <1>4, HubMoves DEF HubVisit

LEMMA HubDoneKeeps == ASSUME CostInv, FanInv', HubDone PROVE CostInv'
<1>1. /\ HubOK(hub, Len(published), inbox["realtime-hub"]) /\ published \in Seq(Tenants)
      /\ inbox["realtime-hub"] \in Seq(Ids)
  BY SomeGroups DEF CostInv, HubInv, BusInv, QueueOK, FanInv, FanTypes
<1>2. hub.todo = {} /\ hub.to = NoOne /\ hub'.ev = 0 /\ hub'.todo = {} /\ hub'.to = NoOne
  BY DEF HubDone, HubIdle
<1>3. \A i \in DOMAIN inbox["realtime-hub"] : 0 < inbox["realtime-hub"][i]
  <2>1. \A i \in DOMAIN inbox["realtime-hub"] : inbox["realtime-hub"][i] \in Ids
    BY <1>1, ElementOfSeq
  <2> QED
    BY <2>1 DEF Ids
<1>4. HubOK(hub', Len(published), inbox["realtime-hub"])
  BY <1>1, <1>2, <1>3 DEF HubOK, After
<1>5. \A d \in HubClients : ~Owed(d, hub', published) /\ ~Owed(d, hub, published) /\ d # NoOne
  BY <1>2, NoOneIsNoClient DEF Owed
<1> QED
  BY <1>2, <1>4, <1>5, HubMoves DEF HubDone

LEMMA HubSendKeeps == ASSUME CostInv, FanInv', HubSend PROVE CostInv'
<1>1. PICK c : c = hub.to
  OBVIOUS
<1>2. PICK e, n : e = hub.ev /\ n = Len(published)
  OBVIOUS
<1>3. hub \in Fanning /\ HubOK(hub, n, inbox["realtime-hub"]) /\ n \in Nat
  BY <1>2 DEF CostInv, HubInv, FanInv, FanTypes
<1>4. /\ c # NoOne /\ c \in HubClients /\ c \in Clients /\ c \notin SseClients /\ Feed(c) = "realtime-hub"
      /\ e \in Ids /\ e <= n /\ c \notin hub.todo /\ client[c].st \in {"on", "marked"}
  BY <1>1, <1>2, <1>3 DEF HubSend, Fanning, HubClients, Feed, HubOK, CostInv, FanInv, Ids
<1>5. hub'.ev = e /\ hub'.todo = hub.todo /\ hub'.to = NoOne /\ UNCHANGED <<published, inbox, ring>>
  BY <1>2, <1>3 DEF HubSend, Fanning
<1>6. PICK z : z = Offer(client[c], e)
  OBVIOUS
<1>7. client'[c] = z /\ \A d \in Clients \ {c} : client'[d] = client[d]
  BY <1>1, <1>2, <1>4, <1>6 DEF HubSend, CostInv, FanInv, FanTypes
<1>8. BusInv' /\ RingsInv'
  BY <1>5 DEF CostInv, BusInv, RingsInv
<1>9. HubInv'
  <2>1. NoOne \notin hub.todo /\ e # 0 /\ After(e, inbox["realtime-hub"])
    BY <1>2, <1>3, <1>4, NoOneIsNoClient DEF Fanning, HubOK, Ids
  <2>2. HubOK(hub', n, inbox["realtime-hub"])
    BY <1>4, <1>5, <2>1 DEF HubOK
  <2> QED
    BY <1>2, <1>5, <2>2 DEF HubInv
<1>10. ASSUME NEW d \in Clients PROVE ConnOK(d, client'[d], hub', published, inbox[Feed(d)], ring)
  <2>1. ConnOK(d, client[d], hub, published, inbox[Feed(d)], ring) /\ client[d] \in Connections
    BY DEF CostInv, ConnsInv, FanInv, FanTypes
  <2>2. CASE d # c
    <3>1. d # NoOne
      BY NoOneIsNoClient
    <3>2. Owed(d, hub', published) <=> Owed(d, hub, published)
      BY <1>1, <1>2, <1>5, <2>2, <3>1 DEF Owed
    <3>3. d \in HubClients => HubConnOK(d, client[d], hub', published)
      BY <1>2, <1>5, <2>1, <3>1, <3>2 DEF ConnOK, HubConnOK
    <3> QED
      BY <1>7, <2>1, <2>2, <3>3 DEF ConnOK
  <2>3. CASE d = c
    <3>1. HubConnOK(c, client[c], hub, published) /\ SeenOK(Seen(client[c]), inbox["realtime-hub"], n)
      BY <1>2, <1>4, <2>1, <2>3 DEF ConnOK
    <3>2. Older(Seen(client[c]), e) /\ After(e, inbox["realtime-hub"])
      BY <1>1, <1>2, <1>3, <3>1 DEF HubConnOK, HubOK
    <3>3. /\ SeenOK(Seen(z), inbox["realtime-hub"], n) /\ z.due = client[c].due
          /\ Len(Seen(z)) + z.missed = Len(Seen(client[c])) + client[c].missed + 1
          /\ z \in Connections /\ z.st = client[c].st
      BY <1>3, <1>4, <1>6, <2>1, <2>3, <3>1, <3>2, OfferedOK
    <3>4. Owed(c, hub, published) /\ ~Owed(c, hub', published)
      BY <1>1, <1>4, <1>5 DEF Owed
    <3>5. z.st = "on" => z.due = Len(Seen(z)) + z.missed + 0
      <4>1. Len(Seen(z)) \in Nat /\ z.missed \in Nat
        BY <3>3, SeenIsSeq DEF Connections
      <4>2. z.st = "on" => client[c].due = Len(Seen(client[c])) + client[c].missed + 1
        BY <3>1, <3>3, <3>4 DEF HubConnOK
      <4> QED
        BY <3>3, <4>1, <4>2
    <3>6. HubConnOK(c, z, hub', published)
      BY <1>4, <1>5, <3>4, <3>5 DEF HubConnOK
    <3>7. Pristine(z)
      BY <1>4, <3>3 DEF Pristine
    <3> QED
      BY <1>2, <1>4, <1>7, <2>3, <3>3, <3>6, <3>7 DEF ConnOK
  <2> QED
    BY <2>2, <2>3
<1> QED
  BY <1>5, <1>8, <1>9, <1>10 DEF CostInv, ConnsInv

LEMMA CostNextInv == CostInv /\ [FanNext]_fanVars => CostInv'
<1> SUFFICES ASSUME CostInv, [FanNext]_fanVars PROVE CostInv'
  OBVIOUS
<1>0. FanInv'
  BY FanNextInv DEF CostInv
<1>1. ASSUME NEW t \in Tenants, PublishEvent(t) PROVE CostInv'
  BY <1>0, <1>1, PublishKeeps
<1>2. ASSUME NEW g \in Groups, inbox[g] # <<>>, inbox' = [inbox EXCEPT ![g] = Tail(@)],
             UNCHANGED <<published, ring, client, hub>>
      PROVE  CostInv'
  BY <1>0, <1>2, HandedOut, BusMoves
<1>3. ASSUME NEW c \in Clients, SseReceive(c) PROVE CostInv'
  <2>1. client[c] \in Connections /\ client[c].chan # <<>> /\ client[c].st = "on"
    BY <1>3 DEF CostInv, FanInv, FanTypes, SseReceive
  <2>2. PICK x \in Connections : /\ x = TakeFrom(client[c]) /\ x.st = "on" /\ Seen(x) = Seen(client[c])
                                 /\ x.due = client[c].due /\ x.missed = client[c].missed
    BY <2>1, TakeFromKeeps, TakeFromSees
  <2> QED
    BY <1>0, <1>3, <2>1, <2>2, ConnMoves DEF SseReceive
<1>4. ASSUME NEW c \in Clients, NEW written \in BOOLEAN, HubReceive(c, written) PROVE CostInv'
  <2>1. client[c] \in Connections /\ client[c].chan # <<>> /\ client[c].st = "on"
    BY <1>4 DEF CostInv, FanInv, FanTypes, HubReceive
  <2>2. PICK x \in Connections : /\ x = TakeFrom(client[c]) /\ x.st = "on" /\ Seen(x) = Seen(client[c])
                                 /\ x.due = client[c].due /\ x.missed = client[c].missed
    BY <2>1, TakeFromKeeps, TakeFromSees
  <2>3. PICK y \in Connections : /\ y.st \in {"on", "marked"} /\ Seen(y) = Seen(x) /\ y.due = x.due /\ y.missed = x.missed
                                 /\ client' = [client EXCEPT ![c] = y]
    <3>1. CASE written
      BY <1>4, <2>2, <3>1 DEF HubReceive
    <3>2. CASE ~written
      <4>1. PICK y : y = [x EXCEPT !.st = "marked"]
        OBVIOUS
      <4>2. y \in Connections /\ y.st = "marked" /\ Seen(y) = Seen(x) /\ y.due = x.due /\ y.missed = x.missed
        BY <4>1 DEF Connections, ClientStates, Seen
      <4> QED
        BY <1>4, <2>2, <3>2, <4>1, <4>2 DEF HubReceive
    <3> QED
      BY <3>1, <3>2
  <2> QED
    BY <1>0, <1>4, <2>1, <2>2, <2>3, ConnMoves DEF HubReceive
<1>5. ASSUME NEW c \in Clients,
             SseSubscribe(c) \/ SseCancel(c) \/ HubSubscribe(c) \/ Mark(c) \/ RemoveFromMap(c) \/ CloseChannel(c)
      PROVE  CostInv'
  <2>1. PICK s \in ClientStates :
          /\ client' = [client EXCEPT ![c].st = s] /\ s # "new"
          /\ s = "on" => client[c].st = "new" /\ (c \in HubClients => hub.ev = 0)
    BY <1>5 DEF SseSubscribe, SseCancel, HubSubscribe, Mark, RemoveFromMap, CloseChannel, ClientStates, HubLocked, HubClients
  <2>2. client[c] \in Connections
    BY DEF CostInv, FanInv, FanTypes
  <2>3. PICK x : x = [client[c] EXCEPT !.st = s]
    OBVIOUS
  <2>4. /\ x \in Connections /\ x.st = s /\ Seen(x) = Seen(client[c]) /\ x.due = client[c].due
        /\ x.missed = client[c].missed
    BY <2>2, <2>3 DEF Connections, Seen
  <2>5. UNCHANGED <<inbox, published, ring, hub>>
    BY <1>5 DEF SseSubscribe, SseCancel, HubSubscribe, Mark, RemoveFromMap, CloseChannel
  <2> QED
    BY <1>0, <2>1, <2>3, <2>4, <2>5, ConnMoves
<1>6. ASSUME NEW r \in Replicas, RingAppend(r) PROVE CostInv'
  BY <1>0, <1>6, RingAppendKeeps
<1>7. ASSUME HubPublish PROVE CostInv'
  BY <1>0, <1>7, HubPublishKeeps
<1>8. ASSUME NEW c \in Clients, HubVisit(c) PROVE CostInv'
  BY <1>0, <1>8, HubVisitKeeps
<1>9. ASSUME HubSend PROVE CostInv'
  BY <1>0, <1>9, HubSendKeeps
<1>10. ASSUME HubDone PROVE CostInv'
  BY <1>0, <1>10, HubDoneKeeps
<1>11. ASSUME UNCHANGED <<published, inbox, ring, client, hub>> PROVE CostInv'
  BY <1>0, <1>11 DEF CostInv, BusInv, HubInv, RingsInv, ConnsInv
<1>12. ASSUME NEW g \in Groups, BusDrops(g) PROVE CostInv'
  BY <1>2, <1>12 DEF BusDrops
<1>13. ASSUME NotifyTake \/ NotifyListFails PROVE CostInv'
  BY <1>2, <1>13 DEF NotifyTake, NotifyListFails, Groups
<1>14. ASSUME \/ \E ep \in Endpoints : Deliver(ep) \/ CreateEndpoint(ep)
              \/ AttemptSucceeds \/ AttemptFails \/ NotifyDone \/ RecordDLQFails \/ NotifyCrash
       PROVE  CostInv'
  BY <1>11, <1>14 DEF Deliver, CreateEndpoint, AttemptSucceeds, AttemptFails, NotifyDone,
                      RecordDLQFails, NotifyCrash
<1>15. ASSUME UNCHANGED fanVars PROVE CostInv'
  BY <1>11, <1>15 DEF fanVars
<1> QED
  BY <1>1, <1>3, <1>4, <1>5, <1>6, <1>7, <1>8, <1>9, <1>10, <1>12, <1>13, <1>14, <1>15
  DEF FanNext, HubStep, NotifyStep

\* What a ring holds, a search finds, or enough newer ones are before it.
LEMMA HeldIsFound ==
  ASSUME NEW r, NEW t, NEW e \in Events, ring[r] \in Seq(Ids), HeldAt(e, ring[r]), TenantOf(e) = t
  PROVE  StillFound(r, t, e)
<1>1. CASE Len(ring[r]) = RingCap /\ \A j \in DOMAIN ring[r] : e < ring[r][j]
  BY <1>1 DEF StillFound
<1>2. CASE \E j \in DOMAIN ring[r] : ring[r][j] = e
  <2>1. PICK j \in DOMAIN ring[r] : ring[r][j] = e
    BY <1>2
  <2>2. PICK m \in Nat : m = Cardinality(Newer(r, t, j))
    <3>1. IsFiniteSet(1 .. Len(ring[r])) /\ DOMAIN ring[r] = 1 .. Len(ring[r])
      BY FS_Interval
    <3>2. Newer(r, t, j) \subseteq 1 .. Len(ring[r])
      BY <3>1 DEF Newer
    <3> QED
      BY <3>1, <3>2, FS_Subset, FS_CardinalityType
  <2>3. CASE m >= MaxLimit
    BY <2>1, <2>2, <2>3 DEF StillFound
  <2>4. CASE m < MaxLimit
    <3>1. e \in List(r, t, MaxLimit)
      BY <2>1, <2>2, <2>4 DEF List
    <3>2. Search(r, t, Events, MaxLimit) = List(r, t, MaxLimit) \cap Events
      BY CapIsNat DEF Search
    <3> QED
      BY <3>1, <3>2 DEF StillFound
  <2> QED
    BY <2>2, <2>3, <2>4, CapIsNat
<1> QED
  BY <1>1, <1>2 DEF HeldAt

LEMMA CostIsEnough == CostInv => SlowClientsCostOnlyThemselves
<1> SUFFICES ASSUME CostInv, NEW c \in Clients
             PROVE  /\ \A i \in 1..(Len(Seen(client[c])) - 1) : Seen(client[c])[i] < Seen(client[c])[i + 1]
                    /\ client[c].st = "on" /\ ~HubLocked => client[c].due = Len(Seen(client[c])) + client[c].missed
                    /\ c \in SseClients => \A e \in ToSet(Seen(client[c])) : StillFound(Home[c], ClientTenant[c], e)
  BY DEF SlowClientsCostOnlyThemselves, Seen
<1> DEFINE s == Seen(client[c])
<1>1. ConnOK(c, client[c], hub, published, inbox[Feed(c)], ring) /\ client[c] \in Connections
  BY DEF CostInv, ConnsInv, FanInv, FanTypes
<1>2. s \in Seq(Ids) /\ Rising(s) /\ UpTo(s, Len(published)) /\ Len(s) \in Nat /\ client[c].missed \in Nat
  BY <1>1 DEF ConnOK, SeenOK, Connections
<1>3. \A i \in 1..(Len(s) - 1) : s[i] < s[i + 1]
  <2> HIDE DEF s
  <2>1. \A i \in 1..(Len(s) - 1) : i \in DOMAIN s /\ i + 1 \in DOMAIN s /\ i < i + 1
    BY <1>2, LenProperties
  <2> QED
    BY <1>2, <2>1 DEF Rising
<1>4. ASSUME client[c].st = "on", ~HubLocked PROVE client[c].due = Len(s) + client[c].missed
  <2>1. CASE c \in SseClients
    BY <1>1, <1>4, <2>1 DEF ConnOK, SseConnOK
  <2>2. CASE c \notin SseClients
    <3>1. c \in HubClients /\ ~Owed(c, hub, published)
      BY <1>4, <2>2, NoOneIsNoClient DEF HubClients, HubLocked, CostInv, HubInv, HubOK, Owed
    <3>2. client[c].due = Len(s) + client[c].missed + 0
      BY <1>1, <1>4, <3>1 DEF ConnOK, HubConnOK
    <3> QED
      BY <1>2, <3>2
  <2> QED
    BY <2>1, <2>2
<1>5. ASSUME c \in SseClients, NEW e \in ToSet(s) PROVE StillFound(Home[c], ClientTenant[c], e)
  <2>1. SseConnOK(c, client[c], published, ring[Home[c]])
    BY <1>1, <1>5 DEF ConnOK
  <2>2. PICK i \in DOMAIN s : e = s[i]
    BY <1>5 DEF ToSet
  <2>3. HeldAt(e, ring[Home[c]]) /\ TenantOf(e) = ClientTenant[c]
    BY <2>1, <2>2 DEF SseConnOK, HeldBy, Mine, TenantOf
  <2>4. ring[Home[c]] \in Seq(Ids)
    BY <1>5, HomeIsReplica DEF CostInv, RingsInv
  <2>5. e \in Events
    <3>1. e \in Ids /\ e <= Len(published)
      BY <1>2, <2>2, ElementOfSeq DEF UpTo
    <3>2. Len(published) <= Cardinality(Events) /\ Len(published) \in Nat
      BY DEF CostInv, BusInv, FanInv, FanTypes
    <3>3. Events = 1..Cardinality(Events)
      BY FanoutAssumption, Zenon
    <3>4. e \in 1..Cardinality(Events)
      BY <3>1, <3>2, EventsCounted DEF Ids
    <3> QED
      BY <3>3, <3>4
  <2> QED
    BY <2>3, <2>4, <2>5, HeldIsFound
<1> QED
  BY <1>3, <1>4, <1>5

(* For any connections, replicas, tenants and capacities: an event handled *)
(* while a client was connected is in its hands, in its channel, or was    *)
(* dropped because its own channel was full, whatever the others do; the   *)
(* events reach it in publication order; and what an SSE client was pushed *)
(* a search on its replica still finds, until the ring or the limit of a   *)
(* search is full of newer ones.                                           *)
THEOREM SlowClientsPayAlone == FanSpec => []SlowClientsCostOnlyThemselves
<1>1. FanInit => CostInv
  BY CostInitInv
<1>2. CostInv /\ [FanNext]_fanVars => CostInv'
  BY CostNextInv
<1>3. CostInv => SlowClientsCostOnlyThemselves
  BY CostIsEnough
<1> QED
  BY <1>1, <1>2, <1>3, PTL DEF FanSpec

-----------------------------------------------------------------------------
(* Sampling.  The budgets hold because the budgeter of a start has been    *)
(* charged for every sample that is queued and for the one about to be,    *)
(* and was below a limit the policy had when it was last charged.  Starts  *)
(* that are over keep what they had.                                       *)

Tasks      == [id : PolicyIds, limit : Limits]
Handlings  == [todo : Seq(Tasks), class : Labels \cup {""}, charged : 0 .. MaxDays]
SampleRows == [policy : PolicyIds, class : Labels, charged : 1 .. MaxDays, at : 1 .. MaxDays,
               by : Samplers, start : Nat, status : {"queued", "labeled"}]
Budgeters  == [PolicyIds \X (1 .. MaxDays) -> [Labels -> Nat]]

\* What a handler has listed was in the policy's row once.
ListedWas(h) ==
  /\ \A i \in 1 .. Len(h.todo) : h.todo[i].limit \in given[h.todo[i].id]
  /\ h.todo # << >> => h.class \in Labels
  /\ h.charged # 0 => h.todo # << >>

SamplingTypes ==
  /\ given \in [PolicyIds -> SUBSET Limits]
  /\ IsFiniteSet(DOMAIN policies)
  /\ DOMAIN policies \subseteq PolicyIds /\ \A p \in DOMAIN policies : policies[p].limit \in given[p]
  /\ samples \in Seq(SampleRows)
  /\ \A i \in 1 .. Len(samples) : samples[i].start <= launches[samples[i].by]
  /\ spent \in [Samplers -> Budgeters]
  /\ handling \in [Samplers -> Handlings] /\ \A r \in Samplers : ListedWas(handling[r])
  /\ today \in 1 .. MaxDays
  /\ launches \in [Samplers -> Nat]

\* The budgeter was charged for what is queued and for what is about to be.
Pending(r, p, C, d) ==
  IF handling[r].charged = d /\ Policy(r).id = p /\ handling[r].class \in C THEN 1 ELSE 0

Charged(r, p, d) ==
  /\ Cardinality(Queued(p, r, launches[r], Labels, d)) + Pending(r, p, Labels, d) <= SumFunction(spent[r][<<p, d>>])
  /\ \A c \in Labels :
       Cardinality(Queued(p, r, launches[r], {c}, d)) + Pending(r, p, {c}, d) <= spent[r][<<p, d>>][c]

ShareOf(l) == IF l.div = {} THEN l.budget ELSE l.budget \div Cardinality(l.div)

\* A budgeter was within a limit the policy had when it was last charged.
Within(r, p, d) ==
  (\A l \in given[p] : l.budget > 0) =>
    /\ SumFunction(spent[r][<<p, d>>]) > 0 => \E l \in given[p] : SumFunction(spent[r][<<p, d>>]) <= l.budget
    /\ \A c \in Labels : spent[r][<<p, d>>][c] > 0 => \E l \in given[p] : spent[r][<<p, d>>][c] <= ShareOf(l)

\* BudgetPerStart of one policy, start and day.
BudgetAt(p, r, s, d) ==
  (\A l \in given[p] : l.budget > 0) =>
    /\ Cardinality(Queued(p, r, s, Labels, d)) > 0 =>
         \E l \in given[p] : Cardinality(Queued(p, r, s, Labels, d)) <= l.budget
    /\ \A c \in Labels : Cardinality(Queued(p, r, s, {c}, d)) > 0 =>
         \E l \in given[p] : Cardinality(Queued(p, r, s, {c}, d)) <= ShareOf(l)

SamplingInv ==
  /\ SamplingTypes
  /\ \A r \in Samplers, p \in PolicyIds, d \in 1 .. MaxDays :
       Charged(r, p, d) /\ Within(r, p, d)
  /\ \A r \in Samplers, p \in PolicyIds, d \in 1 .. MaxDays, s \in Nat :
       s < launches[r] => BudgetAt(p, r, s, d)

LEMMA QueuedFinite ==
  ASSUME SamplingTypes, NEW p, NEW r, NEW s, NEW C, NEW d
  PROVE  /\ IsFiniteSet(Queued(p, r, s, C, d)) /\ Cardinality(Queued(p, r, s, C, d)) \in Nat
         /\ Queued(p, r, s, C, d) \subseteq 1 .. Len(samples)
<1>1. Len(samples) \in Nat /\ DOMAIN samples = 1 .. Len(samples)
  BY DEF SamplingTypes
<1>2. IsFiniteSet(1 .. Len(samples))
  BY <1>1, FS_Interval
<1>3. Queued(p, r, s, C, d) \subseteq 1 .. Len(samples)
  BY <1>1 DEF Queued
<1>4. IsFiniteSet(Queued(p, r, s, C, d))
  BY <1>2, <1>3, FS_Subset
<1> QED BY <1>3, <1>4, FS_CardinalityType

LEMMA LimitsAreNumbers ==
  ASSUME NEW l \in Limits
  PROVE  l.budget \in Nat /\ (l.budget > 0 => ShareOf(l) \in Nat)
         /\ (l.div # {} => ShareOf(l) = l.budget \div Cardinality(l.div))
<1>1. l.budget \in Nat /\ l.div \subseteq Labels
  BY SamplingAssumption
<1>2. IsFiniteSet(l.div)
  BY <1>1, SamplingAssumption, FS_Subset
<1>3. Cardinality(l.div) \in Nat /\ (Cardinality(l.div) = 0 <=> l.div = {})
  BY <1>2, FS_CardinalityType, FS_EmptySet
<1>4. CASE l.div = {}
  BY <1>1, <1>4 DEF ShareOf
<1>5. CASE l.div # {}
  <2>1. PICK n \in Nat \ {0} : n = Cardinality(l.div)
    BY <1>3, <1>5
  <2>2. l.budget \div n \in Nat
    BY <1>1
  <2> QED BY <1>1, <1>5, <2>1, <2>2 DEF ShareOf
<1> QED BY <1>4, <1>5

LEMMA SpentIsNumbers ==
  ASSUME SamplingTypes, NEW r \in Samplers, NEW p \in PolicyIds, NEW d \in 1 .. MaxDays
  PROVE  spent[r][<<p, d>>] \in [Labels -> Nat] /\ SumFunction(spent[r][<<p, d>>]) \in Nat
<1>1. spent[r] \in Budgeters
  BY DEF SamplingTypes
<1>2. <<p, d>> \in PolicyIds \X (1 .. MaxDays)
  OBVIOUS
<1>3. spent[r][<<p, d>>] \in [Labels -> Nat]
  BY <1>1, <1>2 DEF Budgeters
<1>4. DOMAIN spent[r][<<p, d>>] = Labels /\ IsFiniteSet(Labels)
  BY <1>3, SamplingAssumption
<1> QED BY <1>3, <1>4, SumNat DEF SumFunction

\* The start a replica is in keeps to its budgets.
LEMMA CurrentBudget ==
  ASSUME SamplingInv, NEW r \in Samplers, NEW p \in PolicyIds, NEW d \in 1 .. MaxDays
  PROVE  BudgetAt(p, r, launches[r], d)
<1>1. SamplingTypes /\ Charged(r, p, d) /\ Within(r, p, d)
  BY DEF SamplingInv
<1>2. \A C : Cardinality(Queued(p, r, launches[r], C, d)) \in Nat
  BY <1>1, QueuedFinite
<1>3. given[p] \subseteq Limits /\ spent[r][<<p, d>>] \in [Labels -> Nat]
  BY <1>1, SpentIsNumbers DEF SamplingTypes
<1>4. SumFunction(spent[r][<<p, d>>]) \in Nat
  BY <1>1, SpentIsNumbers
<1>5. ASSUME \A l \in given[p] : l.budget > 0, Cardinality(Queued(p, r, launches[r], Labels, d)) > 0
      PROVE  \E l \in given[p] : Cardinality(Queued(p, r, launches[r], Labels, d)) <= l.budget
  <2>1. Cardinality(Queued(p, r, launches[r], Labels, d)) <= SumFunction(spent[r][<<p, d>>])
    BY <1>1, <1>2, <1>4 DEF Charged, Pending
  <2>2. PICK l \in given[p] : SumFunction(spent[r][<<p, d>>]) <= l.budget
    BY <1>1, <1>2, <1>4, <1>5, <2>1 DEF Within
  <2>3. l.budget \in Nat
    BY <1>3, LimitsAreNumbers
  <2> QED BY <1>2, <1>4, <2>1, <2>2, <2>3
<1>6. ASSUME \A l \in given[p] : l.budget > 0, NEW c \in Labels,
             Cardinality(Queued(p, r, launches[r], {c}, d)) > 0
      PROVE  \E l \in given[p] : Cardinality(Queued(p, r, launches[r], {c}, d)) <= ShareOf(l)
  <2>0. spent[r][<<p, d>>][c] \in Nat
    BY <1>3
  <2>1. Cardinality(Queued(p, r, launches[r], {c}, d)) <= spent[r][<<p, d>>][c]
    BY <1>1, <1>2, <2>0 DEF Charged, Pending
  <2>2. PICK l \in given[p] : spent[r][<<p, d>>][c] <= ShareOf(l)
    BY <1>1, <1>2, <1>6, <2>0, <2>1 DEF Within
  <2>3. ShareOf(l) \in Nat
    BY <1>3, <1>6, LimitsAreNumbers
  <2> QED BY <1>2, <2>0, <2>1, <2>2, <2>3
<1> QED BY <1>5, <1>6 DEF BudgetAt

LEMMA InvImplies == SamplingInv => BudgetPerStart
<1> SUFFICES ASSUME SamplingInv, NEW p \in PolicyIds, NEW r \in Samplers, NEW s \in 1 .. MaxLaunches,
                    NEW d \in 1 .. MaxDays
             PROVE  BudgetAt(p, r, s, d)
  BY ZenonT(60) DEF BudgetPerStart, BudgetAt, ShareOf, NoMoreThanSome
<1>0. s \in Nat /\ launches[r] \in Nat /\ SamplingTypes
  BY SamplingAssumption DEF SamplingInv, SamplingTypes
<1>1. CASE s < launches[r]
  BY <1>0, <1>1 DEF SamplingInv
<1>2. CASE s = launches[r]
  BY <1>2, CurrentBudget
<1>3. CASE s > launches[r]
  <2>1. ASSUME NEW C, NEW i \in Queued(p, r, s, C, d) PROVE FALSE
    <3>1. i \in 1 .. Len(samples) /\ samples[i].by = r /\ samples[i].start = s
      BY <1>0, QueuedFinite DEF Queued
    <3>2. s <= launches[r]
      BY <1>0, <3>1 DEF SamplingTypes
    <3> QED BY <1>0, <1>3, <3>2
  <2>2. \A C : Queued(p, r, s, C, d) = {}
    BY <2>1
  <2> QED BY <2>2, FS_EmptySet DEF BudgetAt
<1> QED BY <1>0, <1>1, <1>2, <1>3

\* Nothing is charged or queued and no process starts.
LEMMA Steady ==
  ASSUME SamplingInv, SamplingTypes', spent' = spent, launches' = launches,
         \A p, r, s, C, d : Queued(p, r, s, C, d)' = Queued(p, r, s, C, d),
         \A p \in PolicyIds : given[p] \subseteq given'[p],
         \A r \in Samplers : handling'[r].charged = 0 \/ handling'[r] = handling[r]
  PROVE  SamplingInv'
<1>1. ASSUME NEW r \in Samplers, NEW p \in PolicyIds, NEW d \in 1 .. MaxDays
      PROVE  Charged(r, p, d)' /\ Within(r, p, d)'
  <2>1. Charged(r, p, d) /\ Within(r, p, d) /\ SamplingTypes
    BY DEF SamplingInv
  <2>2. ASSUME NEW C PROVE Pending(r, p, C, d)' = 0 \/ Pending(r, p, C, d)' = Pending(r, p, C, d)
    BY SamplingAssumption DEF Pending, Policy
  <2>3. spent[r][<<p, d>>] \in [Labels -> Nat] /\ SumFunction(spent[r][<<p, d>>]) \in Nat
    BY <2>1, SpentIsNumbers
  <2>4. \A C : Cardinality(Queued(p, r, launches[r], C, d)) \in Nat /\ Pending(r, p, C, d) \in {0, 1}
    BY <2>1, QueuedFinite DEF Pending
  <2>5. Charged(r, p, d)'
    <3>1. Cardinality(Queued(p, r, launches[r], Labels, d)') + Pending(r, p, Labels, d)' <= SumFunction(spent[r][<<p, d>>])
      BY <2>1, <2>2, <2>3, <2>4 DEF Charged
    <3>2. ASSUME NEW c \in Labels
          PROVE  Cardinality(Queued(p, r, launches[r], {c}, d)') + Pending(r, p, {c}, d)' <= spent[r][<<p, d>>][c]
      <4>1. Cardinality(Queued(p, r, launches[r], {c}, d)) + Pending(r, p, {c}, d) <= spent[r][<<p, d>>][c]
        BY <2>1 DEF Charged
      <4>2. spent[r][<<p, d>>][c] \in Nat
        BY <2>3
      <4> QED BY <2>2, <2>4, <4>1, <4>2
    <3> QED BY <3>1, <3>2 DEF Charged
  <2>6. Within(r, p, d)'
    BY <2>1 DEF Within
  <2> QED BY <2>5, <2>6
<1>2. ASSUME NEW r \in Samplers, NEW p \in PolicyIds, NEW d \in 1 .. MaxDays, NEW s \in Nat,
             s < launches[r]
      PROVE  BudgetAt(p, r, s, d)'
  <2>1. BudgetAt(p, r, s, d)
    BY <1>2 DEF SamplingInv
  <2> QED BY <2>1 DEF BudgetAt
<1> QED BY <1>1, <1>2 DEF SamplingInv

LEMMA FreshHandling ==
  ASSUME NEW t \in Seq(Tasks), NEW c \in Labels, NEW n \in 0 .. MaxDays
  PROVE  [todo |-> t, class |-> c, charged |-> n] \in Handlings
<1> DEFINE T == Seq(Tasks)
<1>1. t \in T /\ c \in Labels \cup {""}
  OBVIOUS
<1> HIDE DEF T
<1>2. [todo |-> t, class |-> c, charged |-> n] \in [todo : T, class : Labels \cup {""}, charged : 0 .. MaxDays]
  BY <1>1
<1> QED BY <1>2 DEF T, Handlings

LEMMA HandlingIs ==
  ASSUME NEW h \in Handlings
  PROVE  /\ h = [todo |-> h.todo, class |-> h.class, charged |-> h.charged]
         /\ h.todo \in Seq(Tasks) /\ h.charged \in 0 .. MaxDays
<1> DEFINE T == Seq(Tasks)
<1>1. h \in [todo : T, class : Labels \cup {""}, charged : 0 .. MaxDays]
  BY DEF Handlings
<1> HIDE DEF T
<1>2. h = [todo |-> h.todo, class |-> h.class, charged |-> h.charged] /\ h.todo \in T /\ h.charged \in 0 .. MaxDays
  BY <1>1
<1> QED BY <1>2 DEF T

LEMMA DaysAreNumbers == MaxDays \in Nat \ {0} /\ 0 \in 0 .. MaxDays
<1>1. MaxDays \in Nat \ {0}
  BY SamplingAssumption, Zenon
<1> QED BY <1>1

LEMMA UpsertKeeps ==
  ASSUME SamplingInv, NEW p \in PolicyIds, NEW m \in Models, NEW l \in Limits, UpsertPolicy(p, Row(m, l))
  PROVE  SamplingInv'
<1>1. /\ policies' = [q \in DOMAIN policies \cup {p} |-> IF q = p THEN Row(m, l) ELSE policies[q]]
      /\ given' = [given EXCEPT ![p] = @ \cup {l}]
      /\ UNCHANGED <<samples, spent, handling, today, launches>>
  BY DEF UpsertPolicy, Row
<1>2. SamplingTypes /\ given \in [PolicyIds -> SUBSET Limits]
  BY DEF SamplingInv, SamplingTypes
<1>3. given' \in [PolicyIds -> SUBSET Limits] /\ \A q \in PolicyIds : given[q] \subseteq given'[q]
  BY <1>1, <1>2
<1>4. /\ DOMAIN policies' \subseteq PolicyIds /\ IsFiniteSet(DOMAIN policies')
      /\ \A q \in DOMAIN policies' : policies'[q].limit \in given'[q]
  <2>1. DOMAIN policies' = DOMAIN policies \cup {p} /\ IsFiniteSet(DOMAIN policies)
    BY <1>1, <1>2 DEF SamplingTypes
  <2>2. IsFiniteSet(DOMAIN policies')
    BY <2>1, FS_AddElement
  <2>3. policies'[p].limit = l /\ l \in given'[p]
    BY <1>1, <1>2, <2>1 DEF Row
  <2> QED BY <1>1, <1>2, <1>3, <2>1, <2>2, <2>3 DEF SamplingTypes
<1>5. \A r \in Samplers : ListedWas(handling[r])'
  <2> SUFFICES ASSUME NEW r \in Samplers PROVE ListedWas(handling[r])'
    OBVIOUS
  <2>1. ListedWas(handling[r]) /\ handling[r] \in Handlings /\ handling'[r] = handling[r]
    BY <1>1, <1>2 DEF SamplingTypes
  <2>2. PICK t \in Seq(Tasks) : t = handling[r].todo
    <3>1. handling[r].todo \in Seq(Tasks)
      BY <2>1 DEF Handlings
    <3> QED BY <3>1, Zenon
  <2>3. ASSUME NEW i \in 1 .. Len(t) PROVE t[i].limit \in given'[t[i].id]
    <3>1. t[i] \in Tasks /\ t[i].limit \in given[t[i].id]
      BY <2>1, <2>2 DEF ListedWas
    <3>2. t[i].id \in PolicyIds
      BY <3>1 DEF Tasks
    <3> QED BY <1>3, <3>1, <3>2
  <2> QED BY <2>1, <2>2, <2>3 DEF ListedWas
<1>6. SamplingTypes'
  BY <1>1, <1>2, <1>3, <1>4, <1>5 DEF SamplingTypes
<1>7. \A q, r, s, C, d : Queued(q, r, s, C, d)' = Queued(q, r, s, C, d)
  BY <1>1 DEF Queued
<1> QED BY <1>1, <1>3, <1>6, <1>7, Steady

LEMMA ListKeeps ==
  ASSUME SamplingInv, NEW r \in Samplers, NEW m \in Models, NEW c \in Labels, ListPolicies(r, m, c)
  PROVE  SamplingInv'
<1> DEFINE Own == {p \in DOMAIN policies : policies[p].model = m}
<1>1. SamplingTypes
  BY DEF SamplingInv
<1>2. PICK list \in {<<>>} \cup SetToSeqs(Own) :
        handling' = [handling EXCEPT ![r] =
             [todo |-> [i \in DOMAIN list |-> [id |-> list[i], limit |-> policies[list[i]].limit]],
              class |-> c, charged |-> 0]]
  BY DEF ListPolicies
<1>3. PICK n \in Nat : DOMAIN list = 1 .. n /\ \A i \in 1 .. n : list[i] \in Own
  <2>1. IsFiniteSet(Own)
    BY <1>1, FS_Subset DEF SamplingTypes
  <2>2. Cardinality(Own) \in Nat
    BY <2>1, FS_CardinalityType
  <2>3. CASE list = << >>
    <3>1. DOMAIN list = 1 .. 0 /\ 0 \in Nat
      BY <2>3
    <3>2. \A i \in 1 .. 0 : list[i] \in Own
      OBVIOUS
    <3> QED BY <3>1, <3>2
  <2>4. CASE list \in SetToSeqs(Own)
    <3>1. DOMAIN list = 1 .. Cardinality(Own) /\ \A i \in 1 .. Cardinality(Own) : list[i] \in Own
      BY <2>4 DEF SetToSeqs
    <3> QED BY <2>2, <3>1
  <2> QED BY <1>2, <2>3, <2>4
<1>4. PICK t \in Seq(Tasks) :
        /\ t = [i \in DOMAIN list |-> [id |-> list[i], limit |-> policies[list[i]].limit]]
        /\ \A i \in 1 .. Len(t) : t[i].limit \in given[t[i].id]
  <2> DEFINE u == [i \in DOMAIN list |-> [id |-> list[i], limit |-> policies[list[i]].limit]]
  <2>1. ASSUME NEW i \in 1 .. n PROVE u[i] \in Tasks /\ u[i].limit \in given[u[i].id]
    <3>1. list[i] \in PolicyIds /\ policies[list[i]].limit \in given[list[i]] /\ given[list[i]] \subseteq Limits
      BY <1>1, <1>3 DEF SamplingTypes
    <3>2. u[i] = [id |-> list[i], limit |-> policies[list[i]].limit]
      BY <1>3
    <3> QED BY <3>1, <3>2 DEF Tasks
  <2>2. DOMAIN u = 1 .. n
    BY <1>3
  <2> HIDE DEF u
  <2>3. u \in [1 .. n -> Tasks]
    <3>1. u = [i \in 1 .. n |-> u[i]]
      BY <2>2 DEF u
    <3> QED BY <2>1, <3>1
  <2>4. u \in Seq(Tasks) /\ Len(u) = n
    BY <2>3
  <2>5. \A i \in 1 .. Len(u) : u[i].limit \in given[u[i].id]
    BY <2>1, <2>4
  <2> QED BY <2>4, <2>5, Zenon DEF u
<1>5. PICK h \in Handlings : h = [todo |-> t, class |-> c, charged |-> 0]
  BY DaysAreNumbers, FreshHandling
<1>6. /\ handling' = [handling EXCEPT ![r] = h] /\ h.charged = 0 /\ h.todo = t /\ h.class = c
      /\ UNCHANGED <<policies, samples, spent, today, launches, given>>
  BY <1>2, <1>4, <1>5 DEF ListPolicies
<1>7. SamplingTypes'
  BY <1>1, <1>4, <1>6 DEF SamplingTypes, ListedWas
<1>8. \A q \in Samplers : handling'[q].charged = 0 \/ handling'[q] = handling[q]
  BY <1>1, <1>6 DEF SamplingTypes
<1>9. \A q, w, s, C, d : Queued(q, w, s, C, d)' = Queued(q, w, s, C, d)
  BY <1>6 DEF Queued
<1> QED BY <1>6, <1>7, <1>8, <1>9, Steady

\* The handler goes on to the next policy it has listed.
LEMMA GoesOn ==
  ASSUME SamplingTypes, NEW r \in Samplers, handling[r].todo # << >>
  PROVE  /\ NextPolicy(r) \in Handlings /\ ListedWas(NextPolicy(r)) /\ NextPolicy(r).charged = 0
         /\ Policy(r) \in Tasks /\ Policy(r).limit \in given[Policy(r).id]
<1>1. PICK h \in Handlings : h = handling[r] /\ ListedWas(h)
  BY DEF SamplingTypes
<1>2. PICK t \in Seq(Tasks) : t = h.todo
  <2>1. h.todo \in Seq(Tasks)
    BY DEF Handlings
  <2> QED BY <2>1, Zenon
<1>3. t # << >> /\ h.class \in Labels /\ \A i \in 1 .. Len(t) : t[i].limit \in given[t[i].id]
  BY <1>1, <1>2 DEF ListedWas
<1>4. Head(t) \in Tasks /\ Head(t) = t[1] /\ Len(t) \in Nat /\ Len(t) >= 1
  BY <1>3
<1>5. PICK u : /\ u \in Seq(Tasks) /\ u = Tail(t) /\ Len(u) = Len(t) - 1
              /\ \A i \in 1 .. Len(u) : u[i] = t[i + 1]
  <2>1. /\ Tail(t) \in Seq(Tasks) /\ Len(Tail(t)) = Len(t) - 1
        /\ \A i \in 1 .. Len(Tail(t)) : Tail(t)[i] = t[i + 1]
    BY <1>3, HeadTailProperties
  <2> QED BY <2>1, Zenon
<1>6. \A i \in 1 .. Len(u) : u[i].limit \in given[u[i].id]
  BY <1>3, <1>4, <1>5
<1>7. NextPolicy(r) = [h EXCEPT !.todo = u, !.charged = 0]
  BY <1>1, <1>2, <1>5 DEF NextPolicy
<1>8. [h EXCEPT !.todo = u, !.charged = 0] = [todo |-> u, class |-> h.class, charged |-> 0]
  <2> DEFINE T == Seq(Tasks)
             N == 0 .. MaxDays
             L == Labels \cup {""}
  <2>1. h \in [todo : T, class : L, charged : N] /\ u \in T /\ 0 \in N
    BY <1>5, DaysAreNumbers DEF Handlings
  <2> HIDE DEF T, N, L
  <2>2. PICK m \in [todo : T, class : L, charged : N] : m = [h EXCEPT !.todo = u, !.charged = 0]
    BY <2>1
  <2>3. m.todo = u /\ m.class = h.class /\ m.charged = 0
    BY <2>1, <2>2
  <2> QED BY <2>2, <2>3
<1>9. PICK g : g = NextPolicy(r) /\ g.todo = u /\ g.class = h.class /\ g.charged = 0
  BY <1>7, <1>8
<1>10. g \in Handlings
  <2>1. [todo |-> u, class |-> h.class, charged |-> 0] \in Handlings
    BY <1>3, <1>5, DaysAreNumbers, FreshHandling
  <2> QED BY <1>7, <1>8, <1>9, <2>1
<1>11. ListedWas(g)
  BY <1>3, <1>6, <1>9 DEF ListedWas
<1>12. Policy(r) = t[1] /\ Policy(r) \in Tasks
  BY <1>1, <1>2, <1>4 DEF Policy
<1> QED BY <1>3, <1>4, <1>9, <1>10, <1>11, <1>12

LEMMA RejectKeeps ==
  ASSUME SamplingInv, NEW r \in Samplers, handling[r].todo # << >>,
         handling' = [handling EXCEPT ![r] = NextPolicy(r)],
         UNCHANGED <<policies, samples, spent, today, launches, given>>
  PROVE  SamplingInv'
<1>1. SamplingTypes
  BY DEF SamplingInv
<1>2. PICK g \in Handlings : g = NextPolicy(r) /\ ListedWas(g) /\ g.charged = 0
  BY <1>1, GoesOn
<1>3. SamplingTypes'
  BY <1>1, <1>2 DEF SamplingTypes, ListedWas
<1>4. \A q \in Samplers : handling'[q].charged = 0 \/ handling'[q] = handling[q]
  BY <1>1, <1>2 DEF SamplingTypes
<1>5. \A q, w, s, C, d : Queued(q, w, s, C, d)' = Queued(q, w, s, C, d)
  BY DEF Queued
<1>6. spent' = spent /\ launches' = launches /\ given' = given
  OBVIOUS
<1> QED BY <1>3, <1>4, <1>5, <1>6, Steady

LEMMA LabelKeeps ==
  ASSUME SamplingInv, NEW i \in DOMAIN samples, MarkLabeled(i)
  PROVE  SamplingInv'
<1>1. SamplingTypes /\ samples \in Seq(SampleRows)
  BY DEF SamplingInv, SamplingTypes
<1>2. /\ samples' = [samples EXCEPT ![i].status = "labeled"]
      /\ UNCHANGED <<policies, spent, handling, today, launches, given>>
  BY DEF MarkLabeled
<1>3. PICK q \in Seq(SampleRows) : q = samples
  BY <1>1
<1>4. PICK x \in SampleRows : x = [q[i] EXCEPT !.status = "labeled"]
  <2>1. q[i] \in SampleRows
    BY <1>3
  <2> QED BY <2>1 DEF SampleRows
<1>5. /\ samples' = [q EXCEPT ![i] = x]
      /\ x.policy = q[i].policy /\ x.class = q[i].class /\ x.by = q[i].by
      /\ x.start = q[i].start /\ x.charged = q[i].charged
  <2>1. q[i] \in SampleRows
    BY <1>3
  <2> QED BY <1>2, <1>3, <1>4, <2>1 DEF SampleRows
<1>6. /\ samples' \in Seq(SampleRows) /\ Len(samples') = Len(samples) /\ DOMAIN samples' = DOMAIN samples
      /\ \A j \in DOMAIN samples :
           /\ samples'[j].policy = samples[j].policy /\ samples'[j].class = samples[j].class
           /\ samples'[j].by = samples[j].by /\ samples'[j].start = samples[j].start
           /\ samples'[j].charged = samples[j].charged
  <2>1. i \in 1 .. Len(q) /\ DOMAIN q = 1 .. Len(q)
    BY <1>3
  <2>2. [q EXCEPT ![i] = x] \in Seq(SampleRows) /\ Len([q EXCEPT ![i] = x]) = Len(q)
    BY <2>1
  <2> QED BY <1>3, <1>5, <2>1, <2>2
<1>7. \A p, r, s, C, d : Queued(p, r, s, C, d)' = Queued(p, r, s, C, d)
  BY <1>6 DEF Queued
<1>8. \A j \in 1 .. Len(samples') : samples'[j].start <= launches[samples'[j].by]
  <2>1. DOMAIN samples = 1 .. Len(samples)
    BY <1>1
  <2> QED BY <1>1, <1>6, <2>1 DEF SamplingTypes
<1>9. SamplingTypes'
  BY <1>1, <1>2, <1>6, <1>8 DEF SamplingTypes, ListedWas
<1> QED BY <1>2, <1>7, <1>9, Steady

\* A class is not charged more often than all of them.
LEMMA PartOfSum ==
  ASSUME NEW f \in [Labels -> Nat], NEW c \in Labels
  PROVE  f[c] <= SumFunction(f) /\ SumFunction([f EXCEPT ![c] = @ + 1]) = SumFunction(f) + 1
<1>0. IsFiniteSet(Labels) /\ DOMAIN f = Labels /\ IsFiniteSet(Labels \ {c})
  BY SamplingAssumption, FS_Subset
<1>1. PICK g \in [Labels -> Nat] : g = [f EXCEPT ![c] = @ + 1] /\ DOMAIN g = Labels
  <2>1. PICK n \in Nat : n = f[c] + 1
    OBVIOUS
  <2>2. [f EXCEPT ![c] = n] \in [Labels -> Nat] /\ DOMAIN [f EXCEPT ![c] = n] = Labels
    OBVIOUS
  <2>3. [f EXCEPT ![c] = @ + 1] = [f EXCEPT ![c] = n]
    BY <2>1
  <2> QED BY <2>2, <2>3, Zenon
<1>2. g[c] = f[c] + 1 /\ \A x \in Labels \ {c} : g[x] = f[x]
  BY <1>1
<1>3. /\ SumFunctionOnSet(f, Labels) = f[c] + SumFunctionOnSet(f, Labels \ {c})
      /\ SumFunctionOnSet(g, Labels) = g[c] + SumFunctionOnSet(g, Labels \ {c})
  BY <1>0, SumTake
<1>4. SumFunctionOnSet(g, Labels \ {c}) = SumFunctionOnSet(f, Labels \ {c})
  <2> DEFINE R == Labels \ {c}
  <2>1. IsFiniteSet(R) /\ (\A x \in R : f[x] \in Int) /\ \A x \in R : g[x] = f[x]
    BY <1>0, <1>2
  <2> HIDE DEF R
  <2>2. SumFunctionOnSet(g, R) = SumFunctionOnSet(f, R)
    BY <2>1, SumSame
  <2> QED BY <2>2 DEF R
<1>5. SumFunctionOnSet(f, Labels \ {c}) \in Nat
  <2> DEFINE R == Labels \ {c}
  <2>1. IsFiniteSet(R) /\ (\A x \in R : f[x] \in Nat)
    BY <1>0
  <2> HIDE DEF R
  <2>2. SumFunctionOnSet(f, R) \in Nat
    BY <2>1, SumNat
  <2> QED BY <2>2 DEF R
<1>6. f[c] \in Nat
  OBVIOUS
<1>7. SumFunction(f) = SumFunctionOnSet(f, Labels) /\ SumFunction(g) = SumFunctionOnSet(g, Labels)
  BY <1>0, <1>1 DEF SumFunction
<1> QED BY <1>1, <1>2, <1>3, <1>4, <1>5, <1>6, <1>7

LEMMA ChargeKeeps ==
  ASSUME SamplingInv, NEW r \in Samplers, Charge(r)
  PROVE  SamplingInv'
<1>1. SamplingTypes /\ today \in 1 .. MaxDays /\ handling[r] \in Handlings
  BY DEF SamplingInv, SamplingTypes
<1>2. /\ handling[r].todo # << >> /\ handling[r].charged = 0
      /\ Try(Policy(r).limit, Spent(r), handling[r].class)
      /\ spent' = [spent EXCEPT ![r][<<Policy(r).id, today>>][handling[r].class] = @ + 1]
      /\ handling' = [handling EXCEPT ![r].charged = today]
      /\ UNCHANGED <<policies, samples, today, launches, given>>
  BY DEF Charge
<1>3. Policy(r) \in Tasks /\ Policy(r).limit \in given[Policy(r).id]
  BY <1>1, <1>2, GoesOn
<1>4. PICK p \in PolicyIds, l \in Limits, d \in 1 .. MaxDays, c \in Labels :
        p = Policy(r).id /\ l = Policy(r).limit /\ l \in given[p] /\ d = today /\ c = handling[r].class
  <2>1. handling[r].class \in Labels
    BY <1>1, <1>2 DEF SamplingTypes, ListedWas
  <2> QED BY <1>1, <1>3, <2>1 DEF Tasks
<1>5. PICK f \in [Labels -> Nat] : f = spent[r][<<p, d>>] /\ SumFunction(f) \in Nat
  BY <1>1, SpentIsNumbers
<1>6. PICK g \in [Labels -> Nat] :
        /\ g = [f EXCEPT ![c] = @ + 1] /\ g[c] = f[c] + 1 /\ f[c] \in Nat
        /\ \A x \in Labels \ {c} : g[x] = f[x]
  <2>1. PICK n \in Nat : n = f[c] + 1
    OBVIOUS
  <2>2. PICK g \in [Labels -> Nat] : g = [f EXCEPT ![c] = n]
    <3>1. [f EXCEPT ![c] = n] \in [Labels -> Nat]
      OBVIOUS
    <3> QED BY <3>1, Zenon
  <2>3. g = [f EXCEPT ![c] = @ + 1]
    BY <2>1, <2>2
  <2>4. g[c] = f[c] + 1 /\ f[c] \in Nat /\ \A x \in Labels \ {c} : g[x] = f[x]
    BY <2>1, <2>2
  <2> QED BY <2>3, <2>4, Zenon
<1>7. SumFunction(g) = SumFunction(f) + 1 /\ f[c] <= SumFunction(f)
  BY <1>6, PartOfSum
<1>8. PICK h \in Handlings :
        /\ h = [handling[r] EXCEPT !.charged = d] /\ h.charged = d /\ h.todo = handling[r].todo
        /\ h.class = c
  <2>1. handling[r].todo \in Seq(Tasks) /\ d \in 0 .. MaxDays
    BY <1>1, HandlingIs
  <2>2. [handling[r] EXCEPT !.charged = d] = [todo |-> handling[r].todo, class |-> c, charged |-> d]
    <3> DEFINE T == Seq(Tasks)
               N == 0 .. MaxDays
               L == Labels \cup {""}
    <3>1. PICK k \in [todo : T, class : L, charged : N] : k = handling[r]
      BY <1>1 DEF Handlings
    <3>2. d \in N
      BY <2>1
    <3> HIDE DEF T, N, L
    <3>3. PICK m \in [todo : T, class : L, charged : N] : m = [k EXCEPT !.charged = d]
      BY <3>2
    <3>4. m.todo = k.todo /\ m.class = c /\ m.charged = d
      BY <1>4, <3>1, <3>3
    <3> QED BY <3>1, <3>3, <3>4
  <2>3. [todo |-> handling[r].todo, class |-> c, charged |-> d] \in Handlings
    BY <2>1, FreshHandling
  <2> QED BY <2>2, <2>3
<1>9. handling' = [handling EXCEPT ![r] = h] /\ handling \in [Samplers -> Handlings]
  BY <1>1, <1>2, <1>4, <1>8 DEF SamplingTypes
<1>10. PICK b \in Budgeters : b = [spent[r] EXCEPT ![<<p, d>>] = g] /\ spent' = [spent EXCEPT ![r] = b]
  <2>1. spent[r] \in Budgeters /\ spent \in [Samplers -> Budgeters] /\ <<p, d>> \in PolicyIds \X (1 .. MaxDays)
    BY <1>1 DEF SamplingTypes
  <2>2. [spent[r] EXCEPT ![<<p, d>>] = g] \in Budgeters
    BY <2>1 DEF Budgeters
  <2>3. spent' = [spent EXCEPT ![r] = [spent[r] EXCEPT ![<<p, d>>] = g]]
    BY <1>2, <1>4, <1>5, <1>6, <2>1
  <2> QED BY <2>2, <2>3
<1>11. SamplingTypes'
  <2>1. ListedWas(handling[r])
    BY <1>1 DEF SamplingTypes
  <2>2. ListedWas(h)
    BY <1>2, <1>4, <1>8, <2>1 DEF ListedWas
  <2>3. spent' \in [Samplers -> Budgeters]
    BY <1>1, <1>10 DEF SamplingTypes
  <2>4. handling' \in [Samplers -> Handlings]
    BY <1>9
  <2>5. ASSUME NEW w \in Samplers PROVE ListedWas(handling[w])'
    <3>1. ListedWas(handling[w])
      BY <1>1 DEF SamplingTypes
    <3>2. handling'[w] = IF w = r THEN h ELSE handling[w]
      BY <1>9
    <3> QED BY <1>2, <2>2, <3>1, <3>2 DEF ListedWas
  <2> QED BY <1>1, <1>2, <2>3, <2>4, <2>5 DEF SamplingTypes
<1>12. \A q, w, s, C, e : Queued(q, w, s, C, e)' = Queued(q, w, s, C, e)
  BY <1>2 DEF Queued
<1>13. /\ spent'[r][<<p, d>>] = g
       /\ \A w \in Samplers, q \in PolicyIds, e \in 1 .. MaxDays :
            w # r \/ q # p \/ e # d => spent'[w][<<q, e>>] = spent[w][<<q, e>>]
  <2>1. spent[r] \in Budgeters /\ spent \in [Samplers -> Budgeters]
    BY <1>1 DEF SamplingTypes
  <2>2. DOMAIN spent[r] = PolicyIds \X (1 .. MaxDays)
    BY <2>1 DEF Budgeters
  <2>3. spent'[r] = b /\ \A w \in Samplers \ {r} : spent'[w] = spent[w]
    BY <1>10, <2>1
  <2>4. b[<<p, d>>] = g
    BY <1>10, <2>2
  <2>5. \A q \in PolicyIds, e \in 1 .. MaxDays : q # p \/ e # d => b[<<q, e>>] = spent[r][<<q, e>>]
    BY <1>10, <2>2
  <2> QED BY <2>3, <2>4, <2>5
<1>14. ASSUME NEW w \in Samplers, NEW q \in PolicyIds, NEW e \in 1 .. MaxDays, w # r \/ q # p \/ e # d
       PROVE  Charged(w, q, e)' /\ Within(w, q, e)'
  <2>1. Charged(w, q, e) /\ Within(w, q, e) /\ spent'[w][<<q, e>>] = spent[w][<<q, e>>]
    BY <1>13, <1>14 DEF SamplingInv
  <2>2. spent[w][<<q, e>>] \in [Labels -> Nat] /\ SumFunction(spent[w][<<q, e>>]) \in Nat
    BY <1>1, SpentIsNumbers
  <2>3. ASSUME NEW C PROVE Pending(w, q, C, e)' = 0 \/ Pending(w, q, C, e)' = Pending(w, q, C, e)
    <3>1. CASE w # r
      BY <1>9, <3>1 DEF Pending, Policy
    <3>2. CASE w = r
      <4>1. handling'[r] = h /\ Policy(r)' = Policy(r)
        BY <1>8, <1>9 DEF Policy
      <4> QED BY <1>4, <1>8, <1>14, <3>2, <4>1 DEF Pending
    <3> QED BY <3>1, <3>2
  <2>4. \A C : Cardinality(Queued(q, w, launches[w], C, e)) \in Nat /\ Pending(w, q, C, e) \in {0, 1}
    BY <1>1, QueuedFinite DEF Pending
  <2>5. Charged(w, q, e)'
    <3>1. Cardinality(Queued(q, w, launches[w], Labels, e)) + Pending(w, q, Labels, e)' <= SumFunction(spent[w][<<q, e>>])
      BY <2>1, <2>2, <2>3, <2>4 DEF Charged
    <3>2. ASSUME NEW x \in Labels
          PROVE  Cardinality(Queued(q, w, launches[w], {x}, e)) + Pending(w, q, {x}, e)' <= spent[w][<<q, e>>][x]
      <4>1. Cardinality(Queued(q, w, launches[w], {x}, e)) + Pending(w, q, {x}, e) <= spent[w][<<q, e>>][x]
        BY <2>1 DEF Charged
      <4>2. spent[w][<<q, e>>][x] \in Nat
        BY <2>2
      <4> QED BY <2>3, <2>4, <4>1, <4>2
    <3>3. \A C : Cardinality(Queued(q, w, launches[w], C, e))' = Cardinality(Queued(q, w, launches[w], C, e))
      BY <1>2, <1>12
    <3> QED BY <2>1, <3>1, <3>2, <3>3 DEF Charged
  <2>6. Within(w, q, e)'
    BY <1>2, <2>1 DEF Within
  <2> QED BY <2>5, <2>6
<1>15. Charged(r, p, d)'
  <2>1. Charged(r, p, d)
    BY DEF SamplingInv
  <2>2. \A C : Pending(r, p, C, d) = 0
    BY <1>2 DEF Pending
  <2>3. \A C : Pending(r, p, C, d)' = IF c \in C THEN 1 ELSE 0
    <3>1. handling'[r] = h /\ Policy(r)' = Policy(r)
      BY <1>8, <1>9 DEF Policy
    <3> QED BY <1>4, <1>8, <3>1 DEF Pending
  <2>4. \A C : Cardinality(Queued(p, r, launches[r], C, d)) \in Nat
    BY <1>1, QueuedFinite
  <2>5. \A C : Cardinality(Queued(p, r, launches[r], C, d))' = Cardinality(Queued(p, r, launches[r], C, d))
    BY <1>2, <1>12
  <2>6. Cardinality(Queued(p, r, launches[r], Labels, d)) <= SumFunction(f)
    BY <1>5, <2>1, <2>2, <2>4 DEF Charged
  <2>7. \A x \in Labels : Cardinality(Queued(p, r, launches[r], {x}, d)) <= f[x]
    BY <1>5, <2>1, <2>2, <2>4 DEF Charged
  <2>8. Cardinality(Queued(p, r, launches[r], Labels, d)) + 1 <= SumFunction(g)
    BY <1>5, <1>7, <2>4, <2>6
  <2>9. ASSUME NEW x \in Labels
        PROVE  Cardinality(Queued(p, r, launches[r], {x}, d)) + (IF c \in {x} THEN 1 ELSE 0) <= g[x]
    <3>1. CASE x = c
      BY <1>6, <2>4, <2>7, <3>1
    <3>2. CASE x # c
      BY <1>6, <2>4, <2>7, <3>2
    <3> QED BY <3>1, <3>2
  <2> QED BY <1>13, <2>3, <2>5, <2>8, <2>9 DEF Charged
<1>16. Within(r, p, d)'
  <2> SUFFICES ASSUME \A k \in given[p] : k.budget > 0
               PROVE  /\ SumFunction(g) > 0 => \E k \in given[p] : SumFunction(g) <= k.budget
                      /\ \A x \in Labels : g[x] > 0 => \E k \in given[p] : g[x] <= ShareOf(k)
    BY <1>2, <1>13 DEF Within
  <2>1. l.budget \in Nat /\ l.budget > 0 /\ ShareOf(l) \in Nat
    BY <1>4, LimitsAreNumbers
  <2>2. SumFunction(g) <= l.budget
    <3>1. SumFunction(f) < l.budget
      BY <1>2, <1>4, <1>5, <2>1 DEF Try, Spent
    <3> QED BY <1>5, <1>7, <2>1, <3>1
  <2>3. g[c] <= ShareOf(l)
    <3>1. CASE l.div = {}
      <4>1. ShareOf(l) = l.budget
        BY <3>1 DEF ShareOf
      <4> QED BY <1>5, <1>6, <1>7, <2>1, <2>2, <4>1
    <3>2. CASE l.div # {}
      <4>1. ShareOf(l) = l.budget \div Cardinality(l.div)
        BY <3>2 DEF ShareOf
      <4>2. f[c] < ShareOf(l)
        BY <1>2, <1>4, <1>5, <2>1, <3>2, <4>1 DEF Try, Spent
      <4> QED BY <1>6, <2>1, <4>2
    <3> QED BY <3>1, <3>2
  <2>4. Within(r, p, d)
    BY DEF SamplingInv
  <2>5. ASSUME NEW x \in Labels, g[x] > 0 PROVE \E k \in given[p] : g[x] <= ShareOf(k)
    <3>1. CASE x = c
      BY <1>4, <2>3, <3>1
    <3>2. CASE x # c
      BY <1>5, <1>6, <2>4, <2>5, <3>2 DEF Within
    <3> QED BY <3>1, <3>2
  <2> QED BY <1>4, <2>2, <2>5
<1>17. ASSUME NEW w \in Samplers, NEW q \in PolicyIds, NEW e \in 1 .. MaxDays, NEW s \in Nat, s < launches[w]
       PROVE  BudgetAt(q, w, s, e)'
  <2>1. BudgetAt(q, w, s, e)
    BY <1>17 DEF SamplingInv
  <2> QED BY <1>2, <1>12, <2>1 DEF BudgetAt
<1> QED BY <1>2, <1>11, <1>14, <1>15, <1>16, <1>17 DEF SamplingInv

LEMMA NothingSpent == ASSUME NEW z, z = [c \in Labels |-> 0] PROVE SumFunction(z) = 0
<1>1. DOMAIN z = Labels /\ IsFiniteSet(Labels) /\ \A c \in Labels : z[c] = 0
  BY SamplingAssumption
<1>2. Additive([T \in SUBSET Labels |-> 0], z, Labels)
  BY <1>1 DEF Additive
<1>3. SumFunctionOnSet(z, Labels) = [T \in SUBSET Labels |-> 0][Labels]
  BY <1>1, <1>2, SumIs
<1> QED BY <1>1, <1>3 DEF SumFunction

\* No detection, no policy.
LEMMA IdleHandling == NoDetection \in Handlings /\ NoDetection.charged = 0 /\ NoDetection.todo = << >>
<1>1. PICK e \in Seq(Tasks) : e = << >>
  <2>1. << >> \in Seq(Tasks)
    OBVIOUS
  <2> QED BY <2>1, Zenon
<1> DEFINE T == Seq(Tasks)
<1>2. e \in T
  OBVIOUS
<1> HIDE DEF T
<1>3. [todo |-> e, class |-> "", charged |-> 0] \in [todo : T, class : Labels \cup {""}, charged : 0 .. MaxDays]
  BY <1>2, DaysAreNumbers
<1>4. NoDetection = [todo |-> e, class |-> "", charged |-> 0]
  BY <1>1 DEF NoDetection
<1> QED BY <1>3, <1>4 DEF T, Handlings, NoDetection

\* A restart begins with nothing charged, nothing queued and nothing listed.
LEMMA RestartKeeps ==
  ASSUME SamplingInv, NEW r \in Samplers, Restart(r)
  PROVE  SamplingInv'
<1>1. SamplingTypes /\ launches \in [Samplers -> Nat]
  BY DEF SamplingInv, SamplingTypes
<1>2. /\ launches' = [launches EXCEPT ![r] = @ + 1] /\ spent' = [spent EXCEPT ![r] = Unspent]
      /\ handling' = [handling EXCEPT ![r] = NoDetection]
      /\ UNCHANGED <<policies, samples, today, given>>
  BY DEF Restart
<1>3. PICK n \in Nat : n = launches[r] + 1
  BY <1>1
<1>4. launches' = [launches EXCEPT ![r] = n] /\ launches' \in [Samplers -> Nat]
  <2>1. launches' = [launches EXCEPT ![r] = n]
    BY <1>2, <1>3
  <2> QED BY <1>1, <2>1
<1>5. launches'[r] = n /\ \A w \in Samplers \ {r} : launches'[w] = launches[w]
  BY <1>1, <1>4
<1>6. Unspent \in Budgeters /\ \A k \in PolicyIds \X (1 .. MaxDays) : Unspent[k] = [c \in Labels |-> 0]
  BY DEF Unspent, Budgeters
<1>7. NoDetection \in Handlings /\ ListedWas(NoDetection)' /\ NoDetection.charged = 0
  <2>1. Len(<< >>) = 0
    OBVIOUS
  <2>2. ListedWas(NoDetection)'
    BY <2>1, IdleHandling DEF ListedWas
  <2> QED BY <2>2, IdleHandling
<1>8. SamplingTypes'
  <2>1. spent' \in [Samplers -> Budgeters] /\ handling' \in [Samplers -> Handlings]
    BY <1>1, <1>2, <1>6, <1>7 DEF SamplingTypes
  <2>2. ASSUME NEW w \in Samplers PROVE ListedWas(handling[w])'
    <3>1. ListedWas(handling[w])
      BY <1>1 DEF SamplingTypes
    <3>2. CASE w = r
      <4>1. handling'[r] = NoDetection
        BY <1>1, <1>2 DEF SamplingTypes
      <4> QED BY <1>7, <3>2, <4>1
    <3>3. CASE w # r
      <4>1. handling'[w] = handling[w]
        BY <1>1, <1>2, <3>3 DEF SamplingTypes
      <4> QED BY <1>2, <3>1, <4>1 DEF ListedWas
    <3> QED BY <3>2, <3>3
  <2>3. \A i \in 1 .. Len(samples) : samples[i].start <= launches'[samples[i].by]
    <3> SUFFICES ASSUME NEW i \in 1 .. Len(samples) PROVE samples[i].start <= launches'[samples[i].by]
      OBVIOUS
    <3>1. PICK x \in SampleRows : x = samples[i]
      BY <1>1 DEF SamplingTypes
    <3>2. x.start \in Nat /\ x.by \in Samplers /\ x.start <= launches[x.by]
      BY <1>1, <3>1 DEF SampleRows, SamplingTypes
    <3> QED BY <1>1, <1>3, <1>5, <3>1, <3>2
  <2> QED BY <1>1, <1>2, <1>4, <2>1, <2>2, <2>3 DEF SamplingTypes
<1>9. \A q, w, s, C, e : Queued(q, w, s, C, e)' = Queued(q, w, s, C, e)
  BY <1>2 DEF Queued
<1>10. \A q, C, e : Queued(q, r, n, C, e) = {}
  <2> SUFFICES ASSUME NEW q, NEW C, NEW e, NEW i \in Queued(q, r, n, C, e) PROVE FALSE
    OBVIOUS
  <2>1. i \in 1 .. Len(samples) /\ samples[i].by = r /\ samples[i].start = n
    BY <1>1, QueuedFinite DEF Queued
  <2>2. n <= launches[r] /\ launches[r] \in Nat
    BY <1>1, <2>1 DEF SamplingTypes
  <2> QED BY <1>3, <2>2
<1>11. ASSUME NEW q \in PolicyIds, NEW e \in 1 .. MaxDays PROVE Charged(r, q, e)' /\ Within(r, q, e)'
  <2>1. <<q, e>> \in PolicyIds \X (1 .. MaxDays)
    OBVIOUS
  <2>2. PICK z : z = spent'[r][<<q, e>>] /\ z = [c \in Labels |-> 0]
    BY <1>1, <1>2, <1>6, <2>1 DEF SamplingTypes
  <2>3. SumFunction(z) = 0
    BY <2>2, NothingSpent
  <2>4. \A C : Pending(r, q, C, e)' = 0
    <3>1. handling'[r] = NoDetection /\ e # 0
      BY <1>1, <1>2 DEF SamplingTypes
    <3> QED BY <1>7, <3>1 DEF Pending
  <2>5. \A C : Cardinality(Queued(q, r, launches[r], C, e))' = 0
    <3>1. \A C : Queued(q, r, n, C, e)' = {}
      BY <1>9, <1>10
    <3>2. \A C : Queued(q, r, launches[r], C, e)' = {}
      BY <1>5, <3>1 DEF Queued
    <3> QED BY <3>2, FS_EmptySet
  <2>6. \A c \in Labels : z[c] = 0
    BY <2>2
  <2> QED BY <2>2, <2>3, <2>4, <2>5, <2>6 DEF Charged, Within
<1>12. ASSUME NEW w \in Samplers \ {r}, NEW q \in PolicyIds, NEW e \in 1 .. MaxDays
       PROVE Charged(w, q, e)' /\ Within(w, q, e)'
  <2>1. Charged(w, q, e) /\ Within(w, q, e)
    BY DEF SamplingInv
  <2>2. spent'[w] = spent[w] /\ handling'[w] = handling[w] /\ launches'[w] = launches[w]
    BY <1>1, <1>2, <1>5 DEF SamplingTypes
  <2>3. \A C : Pending(w, q, C, e)' = Pending(w, q, C, e)
    BY <2>2 DEF Pending, Policy
  <2>4. \A C : Cardinality(Queued(q, w, launches[w], C, e))' = Cardinality(Queued(q, w, launches[w], C, e))
    BY <1>2, <2>2 DEF Queued
  <2>5. Charged(w, q, e)'
    BY <2>1, <2>2, <2>3, <2>4 DEF Charged
  <2>6. Within(w, q, e)'
    BY <1>2, <2>1, <2>2 DEF Within
  <2> QED BY <2>5, <2>6
<1>13. ASSUME NEW w \in Samplers, NEW q \in PolicyIds, NEW e \in 1 .. MaxDays, NEW s \in Nat, s < launches'[w]
       PROVE  BudgetAt(q, w, s, e)'
  <2>1. BudgetAt(q, w, s, e)
    <3>1. CASE s < launches[w]
      BY <3>1 DEF SamplingInv
    <3>2. CASE ~(s < launches[w])
      <4>1. s = launches[w]
        <5>1. launches[w] \in Nat
          BY <1>1
        <5> QED BY <1>3, <1>5, <1>13, <3>2, <5>1
      <4> QED BY <4>1, CurrentBudget
    <3> QED BY <3>1, <3>2
  <2> QED BY <1>2, <1>9, <2>1 DEF BudgetAt
<1> QED BY <1>8, <1>11, <1>12, <1>13 DEF SamplingInv

\* A sample queued was charged: what was pending is queued now.
LEMMA InsertKeeps ==
  ASSUME SamplingInv, NEW r \in Samplers, InsertSample(r)
  PROVE  SamplingInv'
<1>1. SamplingTypes /\ handling[r] \in Handlings /\ ListedWas(handling[r]) /\ today \in 1 .. MaxDays
  BY DEF SamplingInv, SamplingTypes
<1>2. /\ handling[r].charged # 0 /\ handling' = [handling EXCEPT ![r] = NextPolicy(r)]
      /\ UNCHANGED <<policies, spent, today, launches, given>>
      /\ \/ samples' = Append(samples,
              [policy |-> Policy(r).id, class |-> handling[r].class, charged |-> handling[r].charged,
               at |-> today, by |-> r, start |-> launches[r], status |-> "queued"])
         \/ UNCHANGED samples
  BY DEF InsertSample
<1>3. handling[r].todo # << >> /\ handling[r].class \in Labels
  BY <1>1, <1>2 DEF ListedWas
<1>4. CASE UNCHANGED samples
  BY <1>2, <1>3, <1>4, RejectKeeps
<1>5. CASE ~ UNCHANGED samples
  <2>1. PICK p \in PolicyIds, c \in Labels, d \in 1 .. MaxDays, n \in Nat, a \in 1 .. MaxDays :
          p = Policy(r).id /\ c = handling[r].class /\ d = handling[r].charged /\ n = launches[r] /\ a = today
    <3>1. Policy(r).id \in PolicyIds
      BY <1>1, <1>3, GoesOn DEF Tasks
    <3>2. handling[r].charged \in 0 .. MaxDays
      BY <1>1, HandlingIs
    <3>3. handling[r].charged \in 1 .. MaxDays
      BY <1>2, <3>2
    <3>4. launches[r] \in Nat
      BY <1>1 DEF SamplingTypes
    <3> QED BY <1>1, <1>3, <3>1, <3>3, <3>4
  <2>2. PICK x \in SampleRows :
          /\ x = [policy |-> p, class |-> c, charged |-> d, at |-> a, by |-> r, start |-> n, status |-> "queued"]
          /\ x.policy = p /\ x.class = c /\ x.charged = d /\ x.by = r /\ x.start = n
    <3>1. [policy |-> p, class |-> c, charged |-> d, at |-> a, by |-> r, start |-> n, status |-> "queued"] \in SampleRows
      BY DEF SampleRows
    <3> QED BY <3>1
  <2>3. samples' = Append(samples, x)
    BY <1>2, <1>5, <2>1, <2>2
  <2>4. PICK q \in Seq(SampleRows) : q = samples
    BY <1>1 DEF SamplingTypes
  <2>5. PICK k \in Nat : k = Len(q) /\ k + 1 \in Nat
    OBVIOUS
  <2>6. /\ samples' \in Seq(SampleRows) /\ Len(samples') = k + 1
        /\ DOMAIN samples = 1 .. k /\ DOMAIN samples' = 1 .. k + 1
        /\ samples'[k + 1] = x /\ \A i \in 1 .. k : samples'[i] = samples[i]
    BY <2>3, <2>4, <2>5, AppendProperties
  <2>7. PICK g \in Handlings : g = NextPolicy(r) /\ ListedWas(g) /\ g.charged = 0
    BY <1>1, <1>3, GoesOn
  <2>8. SamplingTypes'
    <3>1. handling' \in [Samplers -> Handlings] /\ \A w \in Samplers : ListedWas(handling[w])'
      BY <1>1, <1>2, <2>7 DEF SamplingTypes, ListedWas
    <3>2. \A i \in 1 .. k + 1 : samples'[i].start <= launches[samples'[i].by]
      <4>1. \A i \in 1 .. k : samples[i].start <= launches[samples[i].by]
        BY <1>1, <2>4, <2>5 DEF SamplingTypes
      <4>2. x.start <= launches[x.by]
        BY <2>1, <2>2
      <4>3. \A i \in 1 .. k + 1 : i \in 1 .. k \/ i = k + 1
        OBVIOUS
      <4> QED BY <2>6, <4>1, <4>2, <4>3
    <3> QED BY <1>1, <1>2, <2>6, <3>1, <3>2 DEF SamplingTypes
  <2>9. ASSUME NEW w, NEW o, NEW s, NEW C, NEW e, ~(o = p /\ w = r /\ s = n /\ e = d /\ c \in C)
        PROVE  Queued(o, w, s, C, e)' = Queued(o, w, s, C, e)
    <3>1. \A i \in 1 .. k + 1 : i \in 1 .. k \/ i = k + 1
      OBVIOUS
    <3>2. 1 .. k \subseteq 1 .. k + 1 /\ k + 1 \in 1 .. k + 1
      OBVIOUS
    <3> QED BY <2>2, <2>6, <2>9, <3>1, <3>2 DEF Queued
  <2>10. ASSUME NEW C, c \in C
         PROVE  Cardinality(Queued(p, r, n, C, d)') = Cardinality(Queued(p, r, n, C, d)) + 1
    <3>1. \A i \in 1 .. k + 1 : i \in 1 .. k \/ i = k + 1
      OBVIOUS
    <3>2. 1 .. k \subseteq 1 .. k + 1 /\ k + 1 \in 1 .. k + 1 /\ k + 1 \notin 1 .. k
      OBVIOUS
    <3>3. Queued(p, r, n, C, d)' = Queued(p, r, n, C, d) \cup {k + 1}
      BY <2>2, <2>6, <2>10, <3>1, <3>2 DEF Queued
    <3>4. k + 1 \notin Queued(p, r, n, C, d)
      BY <2>6, <3>2 DEF Queued
    <3>5. IsFiniteSet(Queued(p, r, n, C, d))
      BY <1>1, QueuedFinite
    <3> QED BY <3>3, <3>4, <3>5, FS_AddElement
  <2>11. handling'[r].charged = 0 /\ \A w \in Samplers \ {r} : handling'[w] = handling[w]
    BY <1>1, <1>2, <2>7 DEF SamplingTypes
  <2>12. ASSUME NEW w \in Samplers, NEW o \in PolicyIds, NEW e \in 1 .. MaxDays, NEW C
         PROVE  /\ Cardinality(Queued(o, w, launches[w], C, e)') \in Nat /\ Pending(w, o, C, e)' \in {0, 1}
                /\ Cardinality(Queued(o, w, launches[w], C, e)') + Pending(w, o, C, e)'
                     <= Cardinality(Queued(o, w, launches[w], C, e)) + Pending(w, o, C, e)
    <3>1. Cardinality(Queued(o, w, launches[w], C, e)) \in Nat /\ Pending(w, o, C, e) \in {0, 1}
      BY <1>1, QueuedFinite DEF Pending
    <3>2. Pending(w, o, C, e)' = 0 \/ (w # r /\ Pending(w, o, C, e)' = Pending(w, o, C, e))
      <4>1. CASE w = r
        BY <2>11, <4>1 DEF Pending
      <4>2. CASE w # r
        BY <2>11, <4>2 DEF Pending, Policy
      <4> QED BY <4>1, <4>2
    <3>3. CASE o = p /\ w = r /\ e = d /\ c \in C
      <4>1. Pending(w, o, C, e) = 1
        BY <2>1, <3>3 DEF Pending
      <4>2. Cardinality(Queued(o, w, launches[w], C, e)') = Cardinality(Queued(o, w, launches[w], C, e)) + 1
        <5>1. Cardinality(Queued(p, r, n, C, d)') = Cardinality(Queued(p, r, n, C, d)) + 1
          BY <2>10, <3>3
        <5>2. Queued(o, w, launches[w], C, e)' = Queued(p, r, n, C, d)'
          BY <1>2, <2>1, <3>3 DEF Queued
        <5>3. Queued(o, w, launches[w], C, e) = Queued(p, r, n, C, d)
          BY <2>1, <3>3
        <5> QED BY <5>1, <5>2, <5>3
      <4> QED BY <3>1, <3>2, <3>3, <4>1, <4>2
    <3>4. CASE ~(o = p /\ w = r /\ e = d /\ c \in C)
      <4>1. Queued(o, w, launches[w], C, e)' = Queued(o, w, launches[w], C, e)
        <5>1. PICK s : s = launches[w]
          OBVIOUS
        <5>2. Queued(o, w, s, C, e)' = Queued(o, w, s, C, e)
          BY <2>9, <3>4
        <5>3. Queued(o, w, launches[w], C, e)' = Queued(o, w, s, C, e)'
          BY <1>2, <5>1 DEF Queued
        <5> QED BY <5>1, <5>2, <5>3
      <4> QED BY <3>1, <3>2, <4>1
    <3> QED BY <3>3, <3>4
  <2>13. ASSUME NEW w \in Samplers, NEW o \in PolicyIds, NEW e \in 1 .. MaxDays
         PROVE  Charged(w, o, e)' /\ Within(w, o, e)'
    <3>1. Charged(w, o, e) /\ Within(w, o, e)
      BY DEF SamplingInv
    <3>2. spent[w][<<o, e>>] \in [Labels -> Nat] /\ SumFunction(spent[w][<<o, e>>]) \in Nat
      BY <1>1, SpentIsNumbers
    <3>3. \A C : Cardinality(Queued(o, w, launches[w], C, e)) \in Nat /\ Pending(w, o, C, e) \in {0, 1}
      BY <1>1, QueuedFinite DEF Pending
    <3>4. Cardinality(Queued(o, w, launches[w], Labels, e)') + Pending(w, o, Labels, e)' <= SumFunction(spent[w][<<o, e>>])
      <4>1. Cardinality(Queued(o, w, launches[w], Labels, e)) + Pending(w, o, Labels, e) <= SumFunction(spent[w][<<o, e>>])
        BY <3>1 DEF Charged
      <4>2. /\ Cardinality(Queued(o, w, launches[w], Labels, e)') \in Nat /\ Pending(w, o, Labels, e)' \in {0, 1}
            /\ Cardinality(Queued(o, w, launches[w], Labels, e)') + Pending(w, o, Labels, e)'
                 <= Cardinality(Queued(o, w, launches[w], Labels, e)) + Pending(w, o, Labels, e)
        BY <2>12, Zenon
      <4> QED BY <3>2, <3>3, <4>1, <4>2, SMTT(30)
    <3>5. ASSUME NEW y \in Labels
          PROVE  Cardinality(Queued(o, w, launches[w], {y}, e)') + Pending(w, o, {y}, e)' <= spent[w][<<o, e>>][y]
      <4>1. Cardinality(Queued(o, w, launches[w], {y}, e)) + Pending(w, o, {y}, e) <= spent[w][<<o, e>>][y]
        BY <3>1 DEF Charged
      <4>2. spent[w][<<o, e>>][y] \in Nat
        BY <3>2
      <4> QED BY <2>12, <3>3, <4>1, <4>2
    <3>6. Within(w, o, e)'
      BY <1>2, <3>1 DEF Within
    <3>7. Charged(w, o, e)'
      BY <1>2, <3>4, <3>5 DEF Charged
    <3> QED BY <3>6, <3>7
  <2>14. ASSUME NEW w \in Samplers, NEW o \in PolicyIds, NEW e \in 1 .. MaxDays, NEW s \in Nat, s < launches[w]
         PROVE  BudgetAt(o, w, s, e)'
    <3>1. BudgetAt(o, w, s, e)
      BY <2>14 DEF SamplingInv
    <3>2. ~(w = r /\ s = n)
      BY <2>1, <2>14
    <3>3. \A C : Queued(o, w, s, C, e)' = Queued(o, w, s, C, e)
      BY <2>9, <3>2
    <3> QED BY <1>2, <3>1, <3>3 DEF BudgetAt
  <2> QED BY <1>2, <2>8, <2>13, <2>14 DEF SamplingInv
<1> QED BY <1>4, <1>5

LEMMA SamplingStarts == SamplingInit => SamplingInv
<1> SUFFICES ASSUME SamplingInit PROVE SamplingInv
  OBVIOUS
<1>1. /\ policies = << >> /\ samples = << >> /\ spent = [r \in Samplers |-> Unspent]
      /\ handling = [r \in Samplers |-> NoDetection] /\ today = 1
      /\ launches = [r \in Samplers |-> 1] /\ given = [p \in PolicyIds |-> {}]
  BY DEF SamplingInit
<1>2. Unspent \in Budgeters /\ \A k \in PolicyIds \X (1 .. MaxDays) : Unspent[k] = [c \in Labels |-> 0]
  BY DEF Unspent, Budgeters
<1>3. DOMAIN << >> = {} /\ Len(<< >>) = 0 /\ << >> \in Seq(SampleRows)
  OBVIOUS
<1>4. SamplingTypes
  <2>1. ListedWas(NoDetection)
    BY <1>3, IdleHandling DEF ListedWas
  <2>2. today \in 1 .. MaxDays
    BY <1>1, DaysAreNumbers
  <2>3. IsFiniteSet({})
    BY FS_EmptySet
  <2>4. spent \in [Samplers -> Budgeters] /\ handling \in [Samplers -> Handlings] /\ launches \in [Samplers -> Nat]
    BY <1>1, <1>2, IdleHandling
  <2>5. DOMAIN policies = {} /\ Len(samples) = 0 /\ samples \in Seq(SampleRows)
    BY <1>1, <1>3
  <2> QED BY <1>1, <2>1, <2>2, <2>3, <2>4, <2>5 DEF SamplingTypes
<1>5. \A p, r, s, C, d : Queued(p, r, s, C, d) = {}
  BY <1>1, <1>3 DEF Queued
<1>6. ASSUME NEW r \in Samplers, NEW p \in PolicyIds, NEW d \in 1 .. MaxDays
      PROVE  Charged(r, p, d) /\ Within(r, p, d)
  <2>1. <<p, d>> \in PolicyIds \X (1 .. MaxDays)
    OBVIOUS
  <2>2. PICK z : z = spent[r][<<p, d>>] /\ z = [c \in Labels |-> 0]
    BY <1>1, <1>2, <2>1
  <2>3. SumFunction(z) = 0 /\ \A c \in Labels : z[c] = 0
    BY <2>2, NothingSpent
  <2>4. \A C : Pending(r, p, C, d) = 0 /\ Cardinality(Queued(p, r, launches[r], C, d)) = 0
    <3>1. handling[r].charged = 0 /\ d # 0
      BY <1>1, IdleHandling
    <3> QED BY <1>5, <3>1, FS_EmptySet DEF Pending
  <2> QED BY <2>2, <2>3, <2>4 DEF Charged, Within
<1>7. \A p, r, s, d : BudgetAt(p, r, s, d)
  BY <1>5, FS_EmptySet DEF BudgetAt
<1> QED BY <1>4, <1>6, <1>7 DEF SamplingInv

LEMMA SamplingStep == SamplingInv /\ [SamplingNext]_samplingVars => SamplingInv'
<1> SUFFICES ASSUME SamplingInv, [SamplingNext]_samplingVars PROVE SamplingInv'
  OBVIOUS
<1>1. CASE \E p \in PolicyIds, m \in Models, l \in Limits : UpsertPolicy(p, Row(m, l))
  BY <1>1, UpsertKeeps
<1>2. CASE \E r \in Samplers, m \in Models, c \in Labels : ListPolicies(r, m, c)
  BY <1>2, ListKeeps
<1>3. CASE \E r \in Samplers : RejectSample(r)
  BY <1>3, RejectKeeps DEF RejectSample
<1>4. CASE \E r \in Samplers : Charge(r)
  BY <1>4, ChargeKeeps
<1>5. CASE \E r \in Samplers : InsertSample(r)
  BY <1>5, InsertKeeps
<1>6. CASE \E r \in Samplers : Restart(r)
  BY <1>6, RestartKeeps
<1>7. CASE \E i \in DOMAIN samples : MarkLabeled(i)
  BY <1>7, LabelKeeps
<1>8. CASE Midnight \/ UNCHANGED samplingVars
  <2>1. UNCHANGED <<policies, samples, spent, handling, launches, given>> /\ SamplingTypes
    BY <1>8 DEF Midnight, samplingVars, SamplingInv
  <2>2. today' \in 1 .. MaxDays
    BY <1>8, <2>1, DaysAreNumbers DEF Midnight, samplingVars, SamplingTypes
  <2>3. SamplingTypes'
    BY <2>1, <2>2 DEF SamplingTypes, ListedWas
  <2>4. \A p, r, s, C, d : Queued(p, r, s, C, d)' = Queued(p, r, s, C, d)
    BY <2>1 DEF Queued
  <2> QED BY <2>1, <2>3, <2>4, Steady
<1> QED BY <1>1, <1>2, <1>3, <1>4, <1>5, <1>6, <1>7, <1>8 DEF SamplingNext

\* What a daily budget is worth (Budgeter.Try and the handler of
\* active-learning-service): between two starts of a replica no day is charged
\* with more samples than the largest budget the policy ever had, and no class
\* with more than the largest share, however policies are changed, inserts
\* fail, midnight passes or the replicas are restarted.
THEOREM BudgetsHoldPerStart == SamplingSpec => []BudgetPerStart
<1>1. SamplingInit => SamplingInv
  BY SamplingStarts
<1>2. SamplingInv /\ [SamplingNext]_samplingVars => SamplingInv'
  BY SamplingStep
<1>3. SamplingInv => BudgetPerStart
  BY InvImplies
<1> QED BY <1>1, <1>2, <1>3, PTL DEF SamplingSpec

-----------------------------------------------------------------------------
(* DriftWindow.  A signal is right because the snapshot it is judged by    *)
(* was, and that because every bucket counts what was seen in its second,  *)
(* and what is in no bucket is older than the window reaches back.         *)

Sightings == [by : Detectors, model : Watched, at : Nat]
Signals   == [by : Detectors, model : Watched, samples : Nat, min : Nat, at : Nat, width : Nat, from : Nat, upto : Nat]

\* What r saw of k at second s, or at t - w and later.
Saw(r, k, s) == {j \in born[r] + 1 .. Len(seen) : seen[j].by = r /\ seen[j].model = k /\ seen[j].at = s}
Since(r, k, from, upto, w, t) ==
  {j \in from + 1 .. upto : seen[j].by = r /\ seen[j].model = k /\ seen[j].at + w >= t}

\* A bucket counts what was seen in its second, and what is not in a bucket is old.
RollOK(r, k, x) ==
  /\ x = [width |-> x.width, buckets |-> x.buckets] /\ x.width \in Nat
  /\ IsFiniteSet(DOMAIN x.buckets) /\ DOMAIN x.buckets \subseteq Nat
  /\ \A s \in DOMAIN x.buckets : x.buckets[s] = Cardinality(Saw(r, k, s))
  /\ \A s \in Nat \ DOMAIN x.buckets : s + x.width >= second => Saw(r, k, s) = {}

WindowsOK(r) ==
  /\ DOMAIN windows[r] \subseteq Watched
  /\ \A k \in DOMAIN windows[r] : RollOK(r, k, windows[r][k])
  /\ \A k \in Watched \ DOMAIN windows[r] : \A s \in Nat : Saw(r, k, s) = {}

\* A snapshot counts what the window reached back to when it was taken.
SnapOK(r, k, e, w) ==
  /\ e.at \in Nat /\ e.upto \in Nat /\ e.upto <= Len(seen) /\ e.samples \in Nat
  /\ e.samples = Cardinality(Since(r, k, born[r], e.upto, w, e.at))

EvalOK(r) ==
  /\ DOMAIN eval[r] \subseteq DOMAIN windows[r]
  /\ \A k \in DOMAIN eval[r] : SnapOK(r, k, eval[r][k], windows[r][k].width)

SignalOK(d) ==
  /\ d.upto <= Len(seen) /\ d.samples >= d.min
  /\ d.samples = Cardinality(Since(d.by, d.model, d.from, d.upto, d.width, d.at))

DriftTypes ==
  /\ second \in Nat
  /\ limits \in [Watched -> Seq(DriftLimits)]
  /\ seen \in Seq(Sightings) /\ drifts \in Seq(Signals)
  /\ DOMAIN windows = Detectors /\ DOMAIN eval = Detectors
  /\ born \in [Detectors -> Nat] /\ \A r \in Detectors : born[r] <= Len(seen)

DriftInv ==
  /\ DriftTypes
  /\ \A r \in Detectors : WindowsOK(r) /\ EvalOK(r)
  /\ \A i \in 1 .. Len(drifts) : SignalOK(drifts[i])

LEMMA InvIsEnough == DriftInv => SignalsRestOnTheWindow
<1> SUFFICES ASSUME DriftInv, NEW i \in DOMAIN drifts
             PROVE  /\ drifts[i].samples = Cardinality(Since(drifts[i].by, drifts[i].model, drifts[i].from,
                                                            drifts[i].upto, drifts[i].width, drifts[i].at))
                    /\ drifts[i].samples >= drifts[i].min
  BY DEF SignalsRestOnTheWindow, Since
<1>1. i \in 1 .. Len(drifts)
  BY DEF DriftInv, DriftTypes
<1> QED BY <1>1 DEF DriftInv, SignalOK

LEMMA OtherBuckets ==
  ASSUME NEW w, NEW b, NEW g
  PROVE  [[width |-> w, buckets |-> b] EXCEPT !.buckets = g] = [width |-> w, buckets |-> g]
<1>1. PICK x \in [width : {w}, buckets : {b, g}] : x = [width |-> w, buckets |-> b]
  OBVIOUS
<1>2. PICK y \in [width : {w}, buckets : {b, g}] : y = [x EXCEPT !.buckets = g]
  OBVIOUS
<1>3. y.width = w /\ y.buckets = g
  BY <1>2
<1>4. y = [width |-> w, buckets |-> g]
  BY <1>3
<1> QED BY <1>1, <1>2, <1>4

\* What was seen stays seen.
LEMMA StillSeen ==
  ASSUME DriftTypes, NEW x \in Sightings, seen' = Append(seen, x),
         NEW r, NEW k, NEW from \in Nat, NEW upto \in Nat, upto <= Len(seen), NEW w, NEW t
  PROVE  Since(r, k, from, upto, w, t)' = Since(r, k, from, upto, w, t)
<1>1. PICK q \in Seq(Sightings) : q = seen
  BY DEF DriftTypes
<1>2. \A j \in 1 .. Len(q) : Append(q, x)[j] = q[j]
  BY AppendProperties
<1>3. \A j \in from + 1 .. upto : j \in 1 .. Len(q)
  BY <1>1
<1>4. \A j \in from + 1 .. upto : seen'[j] = seen[j]
  BY <1>1, <1>2, <1>3
<1> QED BY <1>4 DEF Since

LEMMA SawFinite ==
  ASSUME DriftTypes, NEW r \in Detectors, NEW k, NEW s
  PROVE  IsFiniteSet(Saw(r, k, s)) /\ Cardinality(Saw(r, k, s)) \in Nat
<1>1. IsFiniteSet(born[r] + 1 .. Len(seen))
  BY FS_Interval DEF DriftTypes
<1> QED BY <1>1, FS_Subset, FS_CardinalityType DEF Saw

\* What a pruned window counts.
LEMMA PrunedCounts ==
  ASSUME DriftTypes, NEW r \in Detectors, NEW k, NEW x, RollOK(r, k, x)
  PROVE  SumFunction(Prune(x).buckets) = Cardinality(Since(r, k, born[r], Len(seen), x.width, second))
<1> DEFINE I == {j \in born[r] + 1 .. Len(seen) : seen[j].by = r /\ seen[j].model = k}
           P == {s \in DOMAIN x.buckets : s + x.width >= second}
           at == [j \in I |-> seen[j].at]
           f == Restrict(x.buckets, P)
<1>1. IsFiniteSet(I) /\ IsFiniteSet(P)
  <2>1. IsFiniteSet(born[r] + 1 .. Len(seen))
    BY FS_Interval DEF DriftTypes
  <2>2. I \subseteq born[r] + 1 .. Len(seen) /\ P \subseteq DOMAIN x.buckets
    OBVIOUS
  <2> QED BY <2>1, <2>2, FS_Subset DEF RollOK
<1>2. Prune(x).buckets = f
  <2>1. PICK w, b : x = [width |-> w, buckets |-> b]
    BY DEF RollOK
  <2> QED BY <2>1 DEF Prune
<1>3. \A s \in P : f[s] = Cardinality(Into(I, at, {s}))
  <2> SUFFICES ASSUME NEW s \in P PROVE f[s] = Cardinality(Into(I, at, {s}))
    OBVIOUS
  <2>1. Into(I, at, {s}) = Saw(r, k, s)
    BY DEF Saw, Into
  <2>2. f[s] = x.buckets[s]
    BY DEF Restrict
  <2> QED BY <2>1, <2>2 DEF RollOK
<1>4. DOMAIN f = P
  BY DEF Restrict
<1>5. Into(I, at, P) = Since(r, k, born[r], Len(seen), x.width, second)
  <2>1. ASSUME NEW j \in I PROVE at[j] \in P <=> seen[j].at + x.width >= second
    <3>1. seen[j].at \in Nat /\ at[j] = seen[j].at /\ j \in Saw(r, k, seen[j].at)
      <4>1. seen[j] \in Sightings
        BY DEF DriftTypes
      <4> QED BY <4>1 DEF Saw, Sightings
    <3> QED BY <3>1 DEF RollOK
  <2>2. \A j : j \in Since(r, k, born[r], Len(seen), x.width, second) <=> j \in I /\ seen[j].at + x.width >= second
    BY DEF Since
  <2> QED BY <2>1, <2>2 DEF Into
<1> HIDE DEF I, P, at, f
<1>6. SumFunctionOnSet(f, P) = Cardinality(Into(I, at, P))
  BY <1>1, <1>3, SumCounts
<1> QED BY <1>2, <1>4, <1>5, <1>6 DEF SumFunction

\* A window that is pruned is still right.
LEMMA PrunedIsOK ==
  ASSUME DriftTypes, NEW r \in Detectors, NEW k, NEW x, RollOK(r, k, x)
  PROVE  RollOK(r, k, Prune(x)) /\ Prune(x).width = x.width
<1> DEFINE P == {s \in DOMAIN x.buckets : s + x.width >= second}
<1>1. PICK w, b : x = [width |-> w, buckets |-> b]
  BY DEF RollOK
<1>2. PICK y : y = Prune(x) /\ y = [width |-> w, buckets |-> Restrict(b, P)]
  <2>1. x.width = w /\ x.buckets = b
    BY <1>1
  <2>2. Prune(x) = [x EXCEPT !.buckets = Restrict(b, P)]
    BY <2>1 DEF Prune
  <2> HIDE DEF P
  <2>3. [x EXCEPT !.buckets = Restrict(b, P)] = [width |-> w, buckets |-> Restrict(b, P)]
    BY <1>1, OtherBuckets, Zenon
  <2> QED BY <2>2, <2>3, Zenon
<1>3. y.width = x.width /\ DOMAIN y.buckets = P /\ \A s \in P : y.buckets[s] = x.buckets[s]
  BY <1>1, <1>2 DEF Restrict
<1>4. IsFiniteSet(P) /\ P \subseteq Nat
  <2>1. P \subseteq DOMAIN x.buckets
    OBVIOUS
  <2> QED BY <2>1, FS_Subset DEF RollOK
<1>5. y = [width |-> y.width, buckets |-> y.buckets]
  BY <1>2
<1>6. RollOK(r, k, y)
  BY <1>3, <1>4, <1>5 DEF RollOK
<1> QED BY <1>2, <1>3, <1>6

\* Nothing is seen, no window and no snapshot changes, no process starts.
LEMMA DriftSteady ==
  ASSUME DriftInv, DriftTypes', UNCHANGED <<windows, eval, drifts, seen, born>>, second' \in Nat, second' >= second
  PROVE  DriftInv'
<1>1. DriftTypes
  BY DEF DriftInv
<1>2. \A r, k, s : Saw(r, k, s)' = Saw(r, k, s)
  BY DEF Saw
<1>3. \A r, k, from, upto, w, t : Since(r, k, from, upto, w, t)' = Since(r, k, from, upto, w, t)
  BY DEF Since
<1>4. ASSUME NEW r \in Detectors PROVE WindowsOK(r)' /\ EvalOK(r)'
  <2>1. WindowsOK(r) /\ EvalOK(r)
    BY DEF DriftInv
  <2>2. ASSUME NEW k \in DOMAIN windows[r] PROVE RollOK(r, k, windows[r][k])'
    <3>1. RollOK(r, k, windows[r][k])
      BY <2>1 DEF WindowsOK
    <3>2. \A s \in Nat : s + windows[r][k].width >= second' => s + windows[r][k].width >= second
      BY <1>1, <3>1 DEF RollOK, DriftTypes
    <3> QED BY <1>2, <3>1, <3>2 DEF RollOK
  <2>3. WindowsOK(r)'
    BY <1>2, <2>1, <2>2 DEF WindowsOK
  <2>4. EvalOK(r)'
    BY <1>3, <2>1 DEF EvalOK, SnapOK
  <2> QED BY <2>3, <2>4
<1>5. \A i \in 1 .. Len(drifts) : SignalOK(drifts[i])'
  BY <1>3 DEF DriftInv, SignalOK
<1> QED BY <1>4, <1>5 DEF DriftInv

LEMMA LimitsKeep ==
  ASSUME DriftInv, NEW k \in Watched, NEW l \in DriftLimits, UpsertLimits(k, l)
  PROVE  DriftInv'
<1>1. DriftTypes
  BY DEF DriftInv
<1>2. PICK i \in 1 .. Len(limits[k]) + 1 :
        limits' = [limits EXCEPT ![k] = [j \in DOMAIN limits[k] \cup {i} |-> IF j = i THEN l ELSE limits[k][j]]]
  BY DEF UpsertLimits
<1>3. PICK q \in Seq(DriftLimits) : q = limits[k]
  BY <1>1 DEF DriftTypes
<1>4. PICK p \in Seq(DriftLimits) : p = [j \in DOMAIN q \cup {i} |-> IF j = i THEN l ELSE q[j]]
  <2>1. PICK n \in Nat : n = Len(q) /\ DOMAIN q = 1 .. n
    OBVIOUS
  <2>2. PICK m \in Nat : DOMAIN q \cup {i} = 1 .. m
    <3>1. CASE i \in 1 .. n
      BY <2>1, <3>1
    <3>2. CASE i = n + 1
      <4>1. n + 1 \in Nat /\ (1 .. n) \cup {n + 1} = 1 .. n + 1
        OBVIOUS
      <4> QED BY <2>1, <3>2, <4>1
    <3> QED BY <1>2, <1>3, <2>1, <3>1, <3>2
  <2> DEFINE u == [j \in DOMAIN q \cup {i} |-> IF j = i THEN l ELSE q[j]]
  <2>3. u \in [1 .. m -> DriftLimits]
    <3>1. \A j \in 1 .. m : j = i \/ j \in 1 .. n
      BY <2>1, <2>2
    <3>2. \A j \in 1 .. n : q[j] \in DriftLimits
      BY <2>1
    <3> QED BY <2>1, <2>2, <3>1, <3>2
  <2> HIDE DEF u
  <2>4. u \in Seq(DriftLimits)
    BY <2>3
  <2> QED BY <2>4, Zenon DEF u
<1>5. limits' = [limits EXCEPT ![k] = p] /\ UNCHANGED <<second, windows, eval, drifts, seen, born>>
  BY <1>2, <1>3, <1>4 DEF UpsertLimits
<1>6. DriftTypes'
  <2>1. limits \in [Watched -> Seq(DriftLimits)]
    BY <1>1 DEF DriftTypes
  <2> DEFINE L == Seq(DriftLimits)
  <2>2. limits \in [Watched -> L] /\ p \in L
    BY <2>1
  <2> HIDE DEF L
  <2>3. limits' \in [Watched -> L]
    BY <1>5, <2>2
  <2> QED BY <1>1, <1>5, <2>3 DEF DriftTypes, L
<1>7. second' \in Nat /\ second' >= second
  BY <1>1, <1>5 DEF DriftTypes
<1> QED BY <1>5, <1>6, <1>7, DriftSteady

\* A replica forgets one snapshot.
LEMMA JudgedIs ==
  ASSUME DriftTypes, NEW r \in Detectors, NEW k, Judged(r, k)
  PROVE  /\ DOMAIN eval' = Detectors /\ \A q \in Detectors \ {r} : eval'[q] = eval[q]
         /\ DOMAIN eval'[r] = DOMAIN eval[r] \ {k} /\ \A m \in DOMAIN eval[r] \ {k} : eval'[r][m] = eval[r][m]
<1>1. DOMAIN eval = Detectors
  BY DEF DriftTypes
<1>2. eval' = [eval EXCEPT ![r] = [m \in DOMAIN eval[r] \ {k} |-> eval[r][m]]]
  BY DEF Judged, Restrict
<1> QED BY <1>1, <1>2

LEMMA JudgedKeeps ==
  ASSUME DriftInv, NEW r \in Detectors, NEW k, Judged(r, k), UNCHANGED <<second, limits, windows, seen, born>>,
         drifts' \in Seq(Signals),
         \A i \in 1 .. Len(drifts') : SignalOK(drifts'[i])
  PROVE  DriftInv'
<1>1. DriftTypes
  BY DEF DriftInv
<1>2. DriftTypes'
  BY <1>1, JudgedIs DEF DriftTypes
<1>3. \A q, m, from, upto, w, t : Since(q, m, from, upto, w, t)' = Since(q, m, from, upto, w, t)
  BY DEF Since
<1>4. \A q, m, s : Saw(q, m, s)' = Saw(q, m, s)
  BY DEF Saw
<1>5. ASSUME NEW q \in Detectors PROVE WindowsOK(q)' /\ EvalOK(q)'
  <2>1. WindowsOK(q) /\ EvalOK(q)
    BY DEF DriftInv
  <2>2. WindowsOK(q)'
    BY <1>4, <2>1 DEF WindowsOK, RollOK
  <2>3. DOMAIN eval'[q] \subseteq DOMAIN eval[q] /\ \A m \in DOMAIN eval'[q] : eval'[q][m] = eval[q][m]
    <3>1. CASE q = r
      BY <1>1, <3>1, JudgedIs
    <3>2. CASE q # r
      BY <1>1, <3>2, JudgedIs
    <3> QED BY <3>1, <3>2
  <2>4. EvalOK(q)'
    BY <1>3, <2>1, <2>3 DEF EvalOK, SnapOK
  <2> QED BY <2>2, <2>4
<1>6. \A i \in 1 .. Len(drifts') : SignalOK(drifts[i])'
  BY <1>3 DEF SignalOK
<1> QED BY <1>2, <1>5, <1>6 DEF DriftInv

LEMMA SignalsKeep ==
  ASSUME DriftInv, NEW r \in Detectors, NEW k \in Watched, EvalSignals(r, k)
  PROVE  DriftInv'
<1>1. DriftTypes /\ EvalOK(r) /\ WindowsOK(r)
  BY DEF DriftInv
<1>2. PICK l \in FirstPolicies(k) :
        /\ eval[r][k].samples >= l.min
        /\ drifts' = Append(drifts, [by |-> r, model |-> k, samples |-> eval[r][k].samples, min |-> l.min,
                                     at |-> eval[r][k].at, width |-> windows[r][k].width, from |-> born[r],
                                     upto |-> eval[r][k].upto])
  BY DEF EvalSignals
<1>3. k \in DOMAIN eval[r] /\ Judged(r, k) /\ UNCHANGED <<second, limits, windows, seen, born>>
  BY DEF EvalSignals
<1>4. l.min \in Nat
  <2>1. l \in DriftLimits
    BY <1>1 DEF FirstPolicies, DriftTypes
  <2> QED BY <2>1, DriftAssumption
<1>5. PICK c \in Nat, t \in Nat, u \in Nat, w \in Nat, b \in Nat, min \in Nat :
        /\ c = eval[r][k].samples /\ t = eval[r][k].at /\ u = eval[r][k].upto /\ w = windows[r][k].width
        /\ b = born[r] /\ min = l.min
  <2>1. SnapOK(r, k, eval[r][k], windows[r][k].width)
    BY <1>1, <1>3 DEF EvalOK
  <2>2. windows[r][k].width \in Nat
    BY <1>1, <1>3 DEF EvalOK, WindowsOK, RollOK
  <2>3. born[r] \in Nat
    BY <1>1 DEF DriftTypes
  <2> QED BY <1>4, <2>1, <2>2, <2>3 DEF SnapOK
<1>6. c = Cardinality(Since(r, k, b, u, w, t)) /\ u <= Len(seen) /\ c >= min
  BY <1>1, <1>2, <1>3, <1>5 DEF EvalOK, SnapOK
<1>7. PICK d \in Signals :
        /\ d = [by |-> r, model |-> k, samples |-> c, min |-> min, at |-> t, width |-> w, from |-> b, upto |-> u]
        /\ SignalOK(d)
  <2>1. PICK d \in Signals :
          d = [by |-> r, model |-> k, samples |-> c, min |-> min, at |-> t, width |-> w, from |-> b, upto |-> u]
    BY DEF Signals
  <2>2. SignalOK(d)
    BY <1>6, <2>1 DEF SignalOK
  <2> QED BY <2>1, <2>2
<1>8. drifts' = Append(drifts, d)
  BY <1>2, <1>5, <1>7
<1>9. PICK q \in Seq(Signals) : q = drifts
  BY <1>1 DEF DriftTypes
<1>10. /\ drifts' \in Seq(Signals) /\ Len(drifts') = Len(q) + 1 /\ Len(q) \in Nat
       /\ drifts'[Len(q) + 1] = d /\ \A i \in 1 .. Len(q) : drifts'[i] = q[i]
  BY <1>8, <1>9, AppendProperties
<1>11. ASSUME NEW i \in 1 .. Len(drifts') PROVE SignalOK(drifts'[i])
  <2>1. CASE i = Len(q) + 1
    BY <1>7, <1>10, <2>1
  <2>2. CASE i \in 1 .. Len(q)
    BY <1>9, <1>10, <2>2 DEF DriftInv
  <2> QED BY <1>10, <2>1, <2>2
<1> QED BY <1>3, <1>10, <1>11, JudgedKeeps

\* The window a detection goes into.
LEMMA RollIsOK ==
  ASSUME DriftInv, NEW r \in Detectors, NEW k \in Watched, NEW width \in Widths(k)
  PROVE  RollOK(r, k, GetRoll(r, k, width))
<1>1. DriftTypes /\ WindowsOK(r)
  BY DEF DriftInv
<1>2. CASE k \in DOMAIN windows[r]
  BY <1>1, <1>2 DEF WindowsOK, GetRoll
<1>3. CASE k \notin DOMAIN windows[r]
  <2>1. width \in Nat
    <3>1. \A l \in FirstPolicies(k) : l.width \in Nat
      <4>1. FirstPolicies(k) \subseteq DriftLimits
        BY <1>1 DEF FirstPolicies, DriftTypes
      <4> QED BY <4>1, DriftAssumption
    <3> QED BY <3>1, DriftAssumption DEF Widths
  <2>2. PICK x : x = [width |-> width, buckets |-> << >>] /\ x = GetRoll(r, k, width)
    BY <1>3 DEF GetRoll
  <2>3. x.width = width /\ DOMAIN x.buckets = {} /\ x = [width |-> x.width, buckets |-> x.buckets]
    BY <2>2
  <2>4. \A s \in Nat : Saw(r, k, s) = {}
    BY <1>1, <1>3 DEF WindowsOK
  <2>5. IsFiniteSet({})
    BY FS_EmptySet
  <2> QED BY <2>1, <2>2, <2>3, <2>4, <2>5 DEF RollOK
<1> QED BY <1>2, <1>3

\* One more in the bucket of this second.
LEMMA BumpIs ==
  ASSUME NEW b
  PROVE  /\ DOMAIN Bump(b) = DOMAIN b \cup {second}
         /\ Bump(b)[second] = IF second \in DOMAIN b THEN b[second] + 1 ELSE 1
         /\ \A s \in DOMAIN b \ {second} : Bump(b)[s] = b[s]
BY DEF Bump

LEMMA ObserveKeeps ==
  ASSUME DriftInv, NEW r \in Detectors, NEW k \in Watched, Observe(r, k)
  PROVE  DriftInv'
<1>1. DriftTypes /\ second \in Nat
  BY DEF DriftInv, DriftTypes
<1>2. PICK width \in Widths(k) :
        windows' = [windows EXCEPT ![r] = [m \in DOMAIN windows[r] \cup {k} |->
           IF m = k THEN [GetRoll(r, k, width) EXCEPT !.buckets = Bump(GetRoll(r, k, width).buckets)] ELSE windows[r][m]]]
  BY DEF Observe
<1>3. seen' = Append(seen, [by |-> r, model |-> k, at |-> second]) /\ UNCHANGED <<second, limits, eval, drifts, born>>
  BY DEF Observe
<1>4. PICK x : x = GetRoll(r, k, width) /\ RollOK(r, k, x)
  BY RollIsOK
<1>5. PICK y : /\ y = [x EXCEPT !.buckets = Bump(x.buckets)]
               /\ y = [width |-> y.width, buckets |-> y.buckets]
               /\ y.width = x.width /\ y.buckets = Bump(x.buckets)
  <2>1. PICK w, b : x = [width |-> w, buckets |-> b] /\ w = x.width /\ b = x.buckets
    BY <1>4 DEF RollOK
  <2>2. PICK g : g = Bump(x.buckets)
    OBVIOUS
  <2>3. [x EXCEPT !.buckets = g] = [width |-> w, buckets |-> g]
    BY <2>1, OtherBuckets, Zenon
  <2>4. PICK y : y = [width |-> w, buckets |-> g] /\ y = [x EXCEPT !.buckets = g]
    BY <2>3
  <2> QED BY <2>1, <2>2, <2>4
<1>6. /\ DOMAIN windows' = Detectors /\ \A q \in Detectors \ {r} : windows'[q] = windows[q]
      /\ DOMAIN windows'[r] = DOMAIN windows[r] \cup {k} /\ windows'[r][k] = y
      /\ \A m \in DOMAIN windows[r] \ {k} : windows'[r][m] = windows[r][m]
  <2>1. DOMAIN windows = Detectors
    BY <1>1 DEF DriftTypes
  <2>2. windows' = [windows EXCEPT ![r] = [m \in DOMAIN windows[r] \cup {k} |-> IF m = k THEN y ELSE windows[r][m]]]
    BY <1>2, <1>4, <1>5
  <2> QED BY <2>1, <2>2
<1>7. PICK g \in Sightings : g = [by |-> r, model |-> k, at |-> second] /\ seen' = Append(seen, g)
                             /\ g.by = r /\ g.model = k /\ g.at = second
  <2>1. [by |-> r, model |-> k, at |-> second] \in Sightings
    BY <1>1 DEF Sightings
  <2> QED BY <1>3, <2>1
<1>8. PICK n \in Nat : n = Len(seen) /\ n + 1 \in Nat
  BY <1>1 DEF DriftTypes
<1>9. /\ seen' \in Seq(Sightings) /\ Len(seen') = n + 1 /\ seen'[n + 1] = g
      /\ \A j \in 1 .. n : seen'[j] = seen[j]
  <2>1. PICK q \in Seq(Sightings) : q = seen
    BY <1>1 DEF DriftTypes
  <2> QED BY <1>7, <1>8, <2>1, AppendProperties
<1>10. DriftTypes'
  BY <1>1, <1>3, <1>6, <1>8, <1>9 DEF DriftTypes
<1>11. ASSUME NEW q \in Detectors, NEW m, NEW s
       PROVE  Saw(q, m, s)' = IF q = r /\ m = k /\ s = second THEN Saw(q, m, s) \cup {n + 1} ELSE Saw(q, m, s)
  <2>1. PICK b \in Nat : b = born[q] /\ b = born'[q] /\ b <= n
    BY <1>1, <1>3, <1>8 DEF DriftTypes
  <2>2. /\ \A j \in b + 1 .. n : j \in 1 .. n /\ j \in b + 1 .. n + 1
        /\ \A j \in b + 1 .. n + 1 : j \in b + 1 .. n \/ j = n + 1
        /\ n + 1 \in b + 1 .. n + 1
    BY <2>1
  <2>3. Saw(q, m, s) = {j \in b + 1 .. n : seen[j].by = q /\ seen[j].model = m /\ seen[j].at = s}
    BY <1>8, <2>1 DEF Saw
  <2>4. Saw(q, m, s)' = {j \in b + 1 .. n + 1 : seen'[j].by = q /\ seen'[j].model = m /\ seen'[j].at = s}
    BY <1>9, <2>1 DEF Saw
  <2>5. CASE q = r /\ m = k /\ s = second
    BY <1>7, <1>9, <2>2, <2>3, <2>4, <2>5
  <2>6. CASE ~(q = r /\ m = k /\ s = second)
    BY <1>7, <1>9, <2>2, <2>3, <2>4, <2>6
  <2> QED BY <2>5, <2>6
<1>12. RollOK(r, k, y)'
  <2> DEFINE D == DOMAIN x.buckets
  <2>1. IsFiniteSet(D \cup {second}) /\ D \cup {second} \subseteq Nat /\ DOMAIN y.buckets = D \cup {second}
    <3>1. IsFiniteSet(D) /\ D \subseteq Nat
      BY <1>4 DEF RollOK
    <3>2. IsFiniteSet(D \cup {second})
      BY <3>1, FS_AddElement
    <3>3. DOMAIN y.buckets = D \cup {second}
      BY <1>5, BumpIs
    <3> QED BY <1>1, <3>1, <3>2, <3>3
  <2>2. y.buckets[second] = Cardinality(Saw(r, k, second)')
    <3>1. Saw(r, k, second)' = Saw(r, k, second) \cup {n + 1}
      <4>1. PICK s : s = second /\ s = second'
        BY <1>3
      <4>2. Saw(r, k, s)' = Saw(r, k, s) \cup {n + 1}
        BY <1>11, <4>1
      <4>3. Saw(r, k, second)' = Saw(r, k, s)'
        BY <4>1 DEF Saw
      <4> QED BY <4>1, <4>2, <4>3
    <3>2. IsFiniteSet(Saw(r, k, second)) /\ n + 1 \notin Saw(r, k, second) /\ Cardinality(Saw(r, k, second)) \in Nat
      <4>1. n + 1 \notin born[r] + 1 .. n
        BY <1>1, <1>8 DEF DriftTypes
      <4>2. n + 1 \notin Saw(r, k, second)
        BY <1>8, <4>1 DEF Saw
      <4> QED BY <1>1, <4>2, SawFinite
    <3>3. Cardinality(Saw(r, k, second)') = Cardinality(Saw(r, k, second)) + 1
      BY <3>1, <3>2, FS_AddElement
    <3>4. CASE second \in D
      BY <1>4, <1>5, <3>3, <3>4, BumpIs DEF RollOK
    <3>5. CASE second \notin D
      <4>1. second + x.width >= second /\ x.width \in Nat
        BY <1>1, <1>4 DEF RollOK
      <4>2. Saw(r, k, second) = {}
        BY <1>1, <1>4, <3>5, <4>1 DEF RollOK
      <4>3. Cardinality(Saw(r, k, second)') = 1
        BY <3>3, <4>2, FS_EmptySet
      <4> QED BY <1>5, <3>5, <4>3, BumpIs
    <3> QED BY <3>4, <3>5
  <2>3. ASSUME NEW s \in D \ {second} PROVE y.buckets[s] = Cardinality(Saw(r, k, s)')
    <3>0. y.buckets[s] = x.buckets[s]
      <4>1. PICK b : b = x.buckets /\ y.buckets = Bump(b) /\ s \in DOMAIN b \ {second}
        BY <1>5
      <4>2. Bump(b)[s] = b[s]
        BY <4>1, BumpIs
      <4> QED BY <4>1, <4>2, Zenon
    <3>1. y.buckets[s] = x.buckets[s] /\ x.buckets[s] = Cardinality(Saw(r, k, s))
      BY <1>4, <3>0 DEF RollOK
    <3>2. Saw(r, k, s)' = Saw(r, k, s)
      BY <1>11
    <3> QED BY <3>1, <3>2
  <2>4. ASSUME NEW s \in Nat \ (D \cup {second}), s + x.width >= second PROVE Saw(r, k, s)' = {}
    <3>1. Saw(r, k, s) = {}
      BY <1>4, <2>4 DEF RollOK
    <3> QED BY <1>11, <2>4, <3>1
  <2>5. \A s \in D \cup {second} : y.buckets[s] = Cardinality(Saw(r, k, s)')
    <3>1. PICK s : s = second /\ s = second'
      BY <1>3
    <3>2. Saw(r, k, second)' = Saw(r, k, s)'
      BY <3>1 DEF Saw
    <3>3. y.buckets[s] = Cardinality(Saw(r, k, s)')
      BY <2>2, <3>1, <3>2
    <3> QED BY <2>3, <3>1, <3>3
  <2>6. y.width \in Nat /\ y.width = x.width
    BY <1>4, <1>5 DEF RollOK
  <2> HIDE DEF D
  <2> QED BY <1>3, <1>5, <2>1, <2>4, <2>5, <2>6 DEF RollOK
<1>13. ASSUME NEW q \in Detectors PROVE WindowsOK(q)'
  <2>1. WindowsOK(q)
    BY DEF DriftInv
  <2>2. ASSUME NEW m \in DOMAIN windows[q], q # r \/ m # k PROVE RollOK(q, m, windows[q][m])'
    <3>1. RollOK(q, m, windows[q][m]) /\ windows'[q][m] = windows[q][m]
      BY <1>6, <2>1, <2>2 DEF WindowsOK
    <3>2. PICK z : z = windows[q][m] /\ z = windows'[q][m] /\ RollOK(q, m, z)
      BY <3>1
    <3>3. \A s : Saw(q, m, s)' = Saw(q, m, s)
      BY <1>11, <2>2
    <3>4. RollOK(q, m, z)'
      BY <1>3, <3>2, <3>3 DEF RollOK
    <3> QED BY <3>2, <3>4
  <2>3. CASE q = r
    <3>1. ASSUME NEW m \in DOMAIN windows'[r] PROVE RollOK(r, m, windows[r][m])'
      <4>1. CASE m = k
        BY <1>6, <1>12, <4>1
      <4>2. CASE m # k
        BY <1>6, <2>2, <2>3, <4>2
      <4> QED BY <4>1, <4>2
    <3>2. ASSUME NEW m \in Watched \ DOMAIN windows'[r], NEW s \in Nat PROVE Saw(r, m, s)' = {}
      <4>1. m # k /\ m \in Watched \ DOMAIN windows[r]
        BY <1>6
      <4>2. Saw(r, m, s) = {}
        BY <2>1, <2>3, <4>1 DEF WindowsOK
      <4> QED BY <1>11, <4>1, <4>2
    <3> QED BY <1>6, <2>1, <2>3, <3>1, <3>2 DEF WindowsOK
  <2>4. CASE q # r
    <3>1. windows'[q] = windows[q]
      BY <1>6, <2>4
    <3>2. \A m, s : Saw(q, m, s)' = Saw(q, m, s)
      BY <1>11, <2>4
    <3> QED BY <2>1, <2>2, <2>4, <3>1, <3>2 DEF WindowsOK
  <2> QED BY <2>3, <2>4
<1>14. ASSUME NEW q \in Detectors PROVE EvalOK(q)'
  <2>1. EvalOK(q) /\ eval'[q] = eval[q] /\ born'[q] = born[q] /\ born[q] \in Nat
    BY <1>1, <1>3 DEF DriftInv, DriftTypes
  <2>2. DOMAIN windows[q] \subseteq DOMAIN windows'[q]
    BY <1>6
  <2>3. ASSUME NEW m \in DOMAIN eval[q] PROVE SnapOK(q, m, eval[q][m], windows[q][m].width)'
    <3>1. SnapOK(q, m, eval[q][m], windows[q][m].width) /\ m \in DOMAIN windows[q]
      BY <2>1 DEF EvalOK
    <3>2. windows'[q][m].width = windows[q][m].width
      <4>1. CASE q = r /\ m = k
        <5>1. x = windows[r][k]
          BY <1>4, <3>1, <4>1 DEF GetRoll
        <5> QED BY <1>5, <1>6, <4>1, <5>1
      <4>2. CASE ~(q = r /\ m = k)
        BY <1>6, <3>1, <4>2
      <4> QED BY <4>1, <4>2
    <3>3. PICK e, w, b : e = eval[q][m] /\ w = windows[q][m].width /\ b = born[q]
      OBVIOUS
    <3>4. /\ e.at \in Nat /\ e.upto \in Nat /\ e.upto <= n /\ e.samples \in Nat
          /\ e.samples = Cardinality(Since(q, m, b, e.upto, w, e.at)) /\ b \in Nat
      BY <1>8, <2>1, <3>1, <3>3 DEF SnapOK
    <3>5. Since(q, m, b, e.upto, w, e.at)' = Since(q, m, b, e.upto, w, e.at)
      BY <1>1, <1>7, <1>8, <3>4, StillSeen
    <3>6. SnapOK(q, m, e, w)'
      BY <1>8, <1>9, <2>1, <3>3, <3>4, <3>5 DEF SnapOK
    <3> QED BY <2>1, <3>2, <3>3, <3>6
  <2> QED BY <2>1, <2>2, <2>3 DEF EvalOK
<1>15. ASSUME NEW i \in 1 .. Len(drifts) PROVE SignalOK(drifts[i])'
  <2>1. PICK d \in Signals : d = drifts[i] /\ d = drifts'[i] /\ SignalOK(d)
    BY <1>1, <1>3 DEF DriftTypes, DriftInv
  <2>2. d.from \in Nat /\ d.upto \in Nat /\ d.upto <= n
    BY <1>8, <2>1 DEF Signals, SignalOK
  <2>3. Since(d.by, d.model, d.from, d.upto, d.width, d.at)' = Since(d.by, d.model, d.from, d.upto, d.width, d.at)
    BY <1>1, <1>7, <1>8, <2>2, StillSeen
  <2>4. SignalOK(d)'
    BY <1>8, <1>9, <2>1, <2>2, <2>3 DEF SignalOK
  <2> QED BY <2>1, <2>4
<1> QED BY <1>3, <1>10, <1>13, <1>14, <1>15 DEF DriftInv

LEMMA SnapshotKeeps ==
  ASSUME DriftInv, NEW r \in Detectors, EvalSnapshot(r)
  PROVE  DriftInv'
<1>1. DriftTypes /\ WindowsOK(r) /\ second \in Nat /\ born[r] \in Nat /\ Len(seen) \in Nat
  BY DEF DriftInv, DriftTypes
<1>2. /\ windows' = [windows EXCEPT ![r] = [k \in DOMAIN windows[r] |-> Prune(windows[r][k])]]
      /\ eval' = [eval EXCEPT ![r] = [k \in DOMAIN windows[r] |->
            [samples |-> SumFunction(Prune(windows[r][k]).buckets), at |-> second, upto |-> Len(seen)]]]
      /\ UNCHANGED <<second, limits, drifts, seen, born>>
  BY DEF EvalSnapshot
<1>3. /\ DOMAIN windows' = Detectors /\ \A q \in Detectors \ {r} : windows'[q] = windows[q]
      /\ DOMAIN windows'[r] = DOMAIN windows[r]
      /\ \A k \in DOMAIN windows[r] : windows'[r][k] = Prune(windows[r][k])
  BY <1>1, <1>2 DEF DriftTypes
<1>4. /\ DOMAIN eval' = Detectors /\ \A q \in Detectors \ {r} : eval'[q] = eval[q]
      /\ DOMAIN eval'[r] = DOMAIN windows[r]
      /\ \A k \in DOMAIN windows[r] : eval'[r][k] =
           [samples |-> SumFunction(Prune(windows[r][k]).buckets), at |-> second, upto |-> Len(seen)]
  BY <1>1, <1>2 DEF DriftTypes
<1>5. DriftTypes'
  BY <1>1, <1>2, <1>3, <1>4 DEF DriftTypes
<1>6. \A q, m, from, upto, w, t : Since(q, m, from, upto, w, t)' = Since(q, m, from, upto, w, t)
  BY <1>2 DEF Since
<1>7. \A q, m, s : Saw(q, m, s)' = Saw(q, m, s)
  BY <1>2 DEF Saw
<1>8. ASSUME NEW q \in Detectors \ {r} PROVE WindowsOK(q)' /\ EvalOK(q)'
  <2>1. WindowsOK(q) /\ EvalOK(q) /\ windows'[q] = windows[q] /\ eval'[q] = eval[q]
    BY <1>3, <1>4 DEF DriftInv
  <2>2. WindowsOK(q)'
    BY <1>2, <1>7, <2>1 DEF WindowsOK, RollOK
  <2>3. EvalOK(q)'
    BY <1>2, <1>6, <2>1 DEF EvalOK, SnapOK
  <2> QED BY <2>2, <2>3
<1>9. ASSUME NEW k \in DOMAIN windows[r]
      PROVE  RollOK(r, k, windows[r][k])' /\ SnapOK(r, k, eval[r][k], windows[r][k].width)'
  <2>1. PICK x : x = windows[r][k] /\ RollOK(r, k, x)
    BY <1>1 DEF WindowsOK
  <2>2. PICK y : y = Prune(x) /\ RollOK(r, k, y) /\ y.width = x.width
                 /\ SumFunction(y.buckets) = Cardinality(Since(r, k, born[r], Len(seen), x.width, second))
    BY <1>1, <2>1, PrunedIsOK, PrunedCounts
  <2>3. windows'[r][k] = y
    BY <1>3, <2>1, <2>2
  <2>4. RollOK(r, k, y)'
    BY <1>2, <1>7, <2>2 DEF RollOK
  <2>5. PICK e : e = eval'[r][k] /\ e.samples = SumFunction(y.buckets) /\ e.at = second /\ e.upto = Len(seen)
    BY <1>4, <2>1, <2>2
  <2>6. PICK b, u, t, w : b = born[r] /\ u = Len(seen) /\ t = second /\ w = x.width /\ b \in Nat /\ u \in Nat /\ t \in Nat
    BY <1>1
  <2>7. e.samples = Cardinality(Since(r, k, b, u, w, t))
    BY <2>2, <2>5, <2>6
  <2>8. e.samples \in Nat
    <3>1. Since(r, k, b, u, w, t) \subseteq b + 1 .. u
      BY DEF Since
    <3>2. IsFiniteSet(b + 1 .. u)
      <4>1. b + 1 \in Int /\ u \in Int
        BY <2>6
      <4> QED BY <4>1, FS_Interval
    <3> QED BY <2>7, <3>1, <3>2, FS_Subset, FS_CardinalityType
  <2>9. Since(r, k, b, u, w, t)' = Since(r, k, b, u, w, t)
    BY <1>6
  <2>10. SnapOK(r, k, e, w)'
    BY <1>2, <2>5, <2>6, <2>7, <2>8, <2>9 DEF SnapOK
  <2> QED BY <2>2, <2>3, <2>4, <2>5, <2>6, <2>10
<1>10. WindowsOK(r)' /\ EvalOK(r)'
  <2>1. WindowsOK(r)'
    BY <1>1, <1>3, <1>7, <1>9 DEF WindowsOK
  <2>2. EvalOK(r)'
    BY <1>3, <1>4, <1>9 DEF EvalOK
  <2> QED BY <2>1, <2>2
<1>11. \A i \in 1 .. Len(drifts) : SignalOK(drifts[i])'
  BY <1>2, <1>6 DEF DriftInv, SignalOK
<1> QED BY <1>2, <1>5, <1>8, <1>10, <1>11 DEF DriftInv

LEMMA DetectorRestartKeeps ==
  ASSUME DriftInv, NEW r \in Detectors, DetectorRestart(r)
  PROVE  DriftInv'
<1>1. DriftTypes /\ Len(seen) \in Nat /\ DOMAIN windows = Detectors /\ DOMAIN eval = Detectors /\ born \in [Detectors -> Nat]
  BY DEF DriftInv, DriftTypes
<1>2. /\ windows' = [windows EXCEPT ![r] = << >>] /\ eval' = [eval EXCEPT ![r] = << >>]
      /\ born' = [born EXCEPT ![r] = Len(seen)] /\ UNCHANGED <<second, limits, drifts, seen>>
  BY DEF DetectorRestart
<1>3. DOMAIN windows'[r] = {} /\ DOMAIN eval'[r] = {} /\ born'[r] = Len(seen)
  BY <1>1, <1>2
<1>4. \A q \in Detectors \ {r} : windows'[q] = windows[q] /\ eval'[q] = eval[q] /\ born'[q] = born[q]
  BY <1>1, <1>2
<1>5. DriftTypes'
  <2>1. DOMAIN windows' = Detectors /\ DOMAIN eval' = Detectors /\ born' \in [Detectors -> Nat]
    BY <1>1, <1>2
  <2>2. \A q \in Detectors : born'[q] <= Len(seen)
    BY <1>1, <1>3, <1>4 DEF DriftTypes
  <2> QED BY <1>1, <1>2, <2>1, <2>2 DEF DriftTypes
<1>6. \A q, m, from, upto, w, t : Since(q, m, from, upto, w, t)' = Since(q, m, from, upto, w, t)
  BY <1>2 DEF Since
<1>7. ASSUME NEW q \in Detectors \ {r} PROVE WindowsOK(q)' /\ EvalOK(q)'
  <2>1. WindowsOK(q) /\ EvalOK(q)
    BY DEF DriftInv
  <2>2. \A m, s : Saw(q, m, s)' = Saw(q, m, s)
    BY <1>2, <1>4 DEF Saw
  <2>3. WindowsOK(q)'
    BY <1>2, <1>4, <2>1, <2>2 DEF WindowsOK, RollOK
  <2>4. EvalOK(q)'
    BY <1>2, <1>4, <1>6, <2>1 DEF EvalOK, SnapOK
  <2> QED BY <2>3, <2>4
<1>8. WindowsOK(r)' /\ EvalOK(r)'
  <2>1. \A m, s : Saw(r, m, s)' = {}
    <3>1. Len(seen) + 1 .. Len(seen) = {}
      BY <1>1
    <3> QED BY <1>2, <1>3, <3>1 DEF Saw
  <2> QED BY <1>3, <2>1 DEF WindowsOK, EvalOK
<1>9. \A i \in 1 .. Len(drifts) : SignalOK(drifts[i])'
  BY <1>2, <1>6 DEF DriftInv, SignalOK
<1> QED BY <1>2, <1>5, <1>7, <1>8, <1>9 DEF DriftInv

LEMMA DriftInitInv == DriftInit => DriftInv
<1> SUFFICES ASSUME DriftInit PROVE DriftInv
  OBVIOUS
<1>1. /\ second = 0 /\ limits = [k \in Watched |-> << >>] /\ windows = [r \in Detectors |-> << >>]
      /\ eval = [r \in Detectors |-> << >>] /\ drifts = << >> /\ seen = << >> /\ born = [r \in Detectors |-> 0]
  BY DEF DriftInit
<1>2. Len(<< >>) = 0 /\ DOMAIN << >> = {} /\ << >> \in Seq(Sightings) /\ << >> \in Seq(Signals) /\ << >> \in Seq(DriftLimits)
  OBVIOUS
<1>3. DriftTypes
  BY <1>1, <1>2 DEF DriftTypes
<1>4. \A r \in Detectors : \A k, s : Saw(r, k, s) = {}
  <2>1. 0 + 1 .. 0 = {}
    OBVIOUS
  <2> QED BY <1>1, <1>2, <2>1 DEF Saw
<1>5. \A r \in Detectors : WindowsOK(r) /\ EvalOK(r)
  BY <1>1, <1>2, <1>4 DEF WindowsOK, EvalOK
<1>6. 1 .. Len(drifts) = {}
  BY <1>1, <1>2
<1> QED BY <1>3, <1>5, <1>6 DEF DriftInv

LEMMA DriftNextInv == DriftInv /\ [DriftNext]_driftVars => DriftInv'
<1> SUFFICES ASSUME DriftInv, [DriftNext]_driftVars PROVE DriftInv'
  OBVIOUS
<1>1. DriftTypes
  BY DEF DriftInv
<1>2. CASE \E k \in Watched, l \in DriftLimits : UpsertLimits(k, l)
  BY <1>2, LimitsKeep
<1>3. CASE \E r \in Detectors : EvalSnapshot(r)
  BY <1>3, SnapshotKeeps
<1>4. CASE \E r \in Detectors : DetectorRestart(r)
  BY <1>4, DetectorRestartKeeps
<1>5. CASE \E r \in Detectors, k \in Watched : Observe(r, k)
  BY <1>5, ObserveKeeps
<1>6. CASE \E r \in Detectors, k \in Watched : EvalNothing(r, k)
  <2>1. PICK r \in Detectors, k \in Watched : EvalNothing(r, k)
    BY <1>6
  <2>2. Judged(r, k) /\ UNCHANGED <<second, limits, windows, seen, born>> /\ drifts' = drifts
    BY <2>1 DEF EvalNothing
  <2>3. drifts' \in Seq(Signals) /\ \A i \in 1 .. Len(drifts') : SignalOK(drifts'[i])
    BY <1>1, <2>2 DEF DriftInv, DriftTypes
  <2> QED BY <2>2, <2>3, JudgedKeeps
<1>7. CASE \E r \in Detectors, k \in Watched : EvalSignals(r, k)
  BY <1>7, SignalsKeep
<1>8. CASE SecondPasses \/ (\E k \in Watched : UpsertReference(k)) \/ UNCHANGED driftVars
  <2>1. UNCHANGED <<limits, windows, eval, drifts, seen, born>> /\ second' \in Nat /\ second' >= second
    BY <1>1, <1>8 DEF SecondPasses, UpsertReference, driftVars, DriftTypes
  <2>2. DriftTypes'
    BY <1>1, <2>1 DEF DriftTypes
  <2> QED BY <2>1, <2>2, DriftSteady
<1> QED BY <1>2, <1>3, <1>4, <1>5, <1>6, <1>7, <1>8 DEF DriftNext

\* A drift signal rests on detections (Rolling, evalAll of
\* drift-detection-service): its sample count is what the process observed of
\* this model, since it started, in the window up to the snapshot, for any
\* replicas, models, widths and order of requests, evaluations and restarts,
\* and it reaches the minimum it was judged by.
THEOREM SignalsRest == DriftSpec => []SignalsRestOnTheWindow
<1>1. DriftInit => DriftInv
  BY DriftInitInv
<1>2. DriftInv /\ [DriftNext]_driftVars => DriftInv'
  BY DriftNextInv
<1>3. DriftInv => SignalsRestOnTheWindow
  BY InvIsEnough
<1> QED BY <1>1, <1>2, <1>3, PTL DEF DriftSpec
-----------------------------------------------------------------------------
(* RuleEngine.  A rule that has its id to itself keeps its states to       *)
(* itself: what Apply makes of one is what that rule alone makes of it,    *)
(* and collection can only forget it.  The state it keeps for a track is   *)
(* then bounded by what the engine has been shown of that track.           *)

\* b is a, but for the states of some ids.
OnlyIds(a, b, ids) == DOMAIN b = DOMAIN a /\ \A k \in DOMAIN a : k[1] \notin ids => b[k] = a[k]

LEMMA SetTouches ==
  ASSUME NEW st, NEW i, NEW j, NEW s PROVE OnlyIds(st, Set(st, <<i, j>>, s), {i})
BY DEF OnlyIds, Set

LEMMA QuietTouches ==
  ASSUME NEW st, NEW ids PROVE OnlyIds(st, Quiet(st).st, ids)
BY DEF OnlyIds, Quiet

LEMMA SimpleTouches ==
  ASSUME NEW r, NEW d, NEW st PROVE OnlyIds(st, EvalSimple(r, d, st).st, {r.id})
<1>1. OnlyIds(st, EvalDwell(r, d, st).st, {r.id})
  <2> DEFINE e == EvalDwell(r, d, st)
  <2>1. e.st = st \/ \E s : e.st = Set(st, <<r.id, d.track>>, s)
    BY DEF EvalDwell, Quiet, Fire
  <2> QED BY <2>1, SetTouches DEF OnlyIds
<1>2. OnlyIds(st, EvalLineCross(r, d, st).st, {r.id})
  <2> DEFINE e == EvalLineCross(r, d, st)
  <2>1. e.st = st \/ \E s : e.st = Set(st, <<r.id, d.track>>, s)
    BY DEF EvalLineCross, Quiet, Fire
  <2> QED BY <2>1, SetTouches DEF OnlyIds
<1>3. OnlyIds(st, EvalAbandoned(r, d, st).st, {r.id})
  <2> DEFINE e == EvalAbandoned(r, d, st)
  <2>1. e.st = st \/ \E s : e.st = Set(st, <<r.id, d.track>>, s)
    BY DEF EvalAbandoned, Quiet, Fire
  <2> QED BY <2>1, SetTouches DEF OnlyIds
<1>4. OnlyIds(st, EvalRate(r, d, st).st, {r.id})
  <2> DEFINE e == EvalRate(r, d, st)
  <2>1. e.st = st \/ \E s : e.st = Set(st, <<r.id, d.stream>>, s)
    BY DEF EvalRate, Quiet, Fire
  <2> QED BY <2>1, SetTouches DEF OnlyIds
<1>5. OnlyIds(st, Quiet(st).st, {r.id})
  BY QuietTouches
<1> QED BY <1>1, <1>2, <1>3, <1>4, <1>5 DEF EvalSimple

\* f is what the recursion of RulesRun (PartsRun) gives for the first n.
RulesTo(f, d, st, n) ==
  /\ f = [i \in 0 .. n |-> IF i = 0 THEN st ELSE EvalRule(RuleSet[i], d, f[i - 1]).st]

PartsTo(f, r, d, st, n) ==
  /\ f = [i \in 0 .. n |-> IF i = 0 THEN st ELSE EvalSimple(r.parts[i], d, f[i - 1]).st]

LEMMA RulesExtend ==
  ASSUME NEW d, NEW st, NEW n \in Nat PROVE \E f : RulesTo(f, d, st, n)
<1> DEFINE S == {i \in 0 .. n : \E f : RulesTo(f, d, st, i)}
<1>1. 0 \in S
  <2>1. RulesTo([i \in 0 .. 0 |-> st], d, st, 0)
    BY DEF RulesTo
  <2> QED BY <2>1
<1>2. ASSUME NEW m \in 1 .. n, m - 1 \in S PROVE m \in S
  <2>1. PICK f : RulesTo(f, d, st, m - 1)
    BY <1>2
  <2> DEFINE x == EvalRule(RuleSet[m], d, f[m - 1]).st
             g == [i \in 0 .. m |-> IF i = m THEN x ELSE f[i]]
  <2>2. \A i \in 0 .. m - 1 : f[i] = IF i = 0 THEN st ELSE EvalRule(RuleSet[i], d, f[i - 1]).st
    BY <2>1 DEF RulesTo
  <2>3. m # 0 /\ m - 1 \in 0 .. m /\ m - 1 # m
    OBVIOUS
  <2>4. g[m - 1] = f[m - 1]
    BY <2>3
  <2>5. ASSUME NEW i \in 0 .. m PROVE g[i] = IF i = 0 THEN st ELSE EvalRule(RuleSet[i], d, g[i - 1]).st
    <3>1. CASE i = m
      BY <2>3, <2>4, <3>1
    <3>2. CASE i # m /\ i # 0
      <4>1. i \in 0 .. m - 1 /\ i - 1 \in 0 .. m /\ i - 1 # m
        BY <3>2
      <4>2. g[i] = f[i] /\ g[i - 1] = f[i - 1]
        BY <4>1, <3>2
      <4> HIDE DEF g
      <4> QED BY <2>2, <3>2, <4>1, <4>2
    <3>3. CASE i = 0
      BY <2>2, <2>3, <3>3
    <3> QED BY <3>1, <3>2, <3>3
  <2>6. RulesTo(g, d, st, m)
    <3>1. g = [i \in 0 .. m |-> g[i]]
      OBVIOUS
    <3> HIDE DEF g
    <3>2. [i \in 0 .. m |-> g[i]] = [i \in 0 .. m |-> IF i = 0 THEN st ELSE EvalRule(RuleSet[i], d, g[i - 1]).st]
      BY <2>5
    <3> QED BY <3>1, <3>2 DEF RulesTo
  <2> QED BY <2>6
<1> HIDE DEF S
<1>3. 0 .. n \subseteq S
  BY <1>1, <1>2, Positions0
<1> QED BY <1>3 DEF S

LEMMA RulesRunIs ==
  ASSUME NEW d, NEW st, NEW run, run = RulesRun(d, st)
  PROVE  run[0] = st /\ \A i \in 1 .. Len(RuleSet) : run[i] = EvalRule(RuleSet[i], d, run[i - 1]).st
<1> DEFINE n == Len(RuleSet)
<1>1. n \in Nat
  BY RuleAssumption DEF IsList
<1>2. PICK f : RulesTo(f, d, st, n)
  BY <1>1, RulesExtend
<1>3. run = CHOOSE g : RulesTo(g, d, st, n)
  BY DEF RulesRun, RulesTo
<1>4. RulesTo(run, d, st, n)
  BY <1>2, <1>3
<1> QED BY <1>1, <1>4 DEF RulesTo

LEMMA PartsExtend ==
  ASSUME NEW r, NEW d, NEW st, NEW n \in Nat PROVE \E f : PartsTo(f, r, d, st, n)
<1> DEFINE S == {i \in 0 .. n : \E f : PartsTo(f, r, d, st, i)}
<1>1. 0 \in S
  <2>1. PartsTo([i \in 0 .. 0 |-> st], r, d, st, 0)
    BY DEF PartsTo
  <2> QED BY <2>1
<1>2. ASSUME NEW m \in 1 .. n, m - 1 \in S PROVE m \in S
  <2>1. PICK f : PartsTo(f, r, d, st, m - 1)
    BY <1>2
  <2> DEFINE x == EvalSimple(r.parts[m], d, f[m - 1]).st
             g == [i \in 0 .. m |-> IF i = m THEN x ELSE f[i]]
  <2>2. \A i \in 0 .. m - 1 : f[i] = IF i = 0 THEN st ELSE EvalSimple(r.parts[i], d, f[i - 1]).st
    BY <2>1 DEF PartsTo
  <2>3. m # 0 /\ m - 1 \in 0 .. m /\ m - 1 # m
    OBVIOUS
  <2>4. g[m - 1] = f[m - 1]
    BY <2>3
  <2>5. ASSUME NEW i \in 0 .. m PROVE g[i] = IF i = 0 THEN st ELSE EvalSimple(r.parts[i], d, g[i - 1]).st
    <3>1. CASE i = m
      BY <2>3, <2>4, <3>1
    <3>2. CASE i # m /\ i # 0
      <4>1. i \in 0 .. m - 1 /\ i - 1 \in 0 .. m /\ i - 1 # m
        BY <3>2
      <4>2. g[i] = f[i] /\ g[i - 1] = f[i - 1]
        BY <4>1, <3>2
      <4> HIDE DEF g
      <4> QED BY <2>2, <3>2, <4>1, <4>2
    <3>3. CASE i = 0
      BY <2>2, <2>3, <3>3
    <3> QED BY <3>1, <3>2, <3>3
  <2>6. PartsTo(g, r, d, st, m)
    <3>1. g = [i \in 0 .. m |-> g[i]]
      OBVIOUS
    <3> HIDE DEF g
    <3>2. [i \in 0 .. m |-> g[i]] = [i \in 0 .. m |-> IF i = 0 THEN st ELSE EvalSimple(r.parts[i], d, g[i - 1]).st]
      BY <2>5
    <3> QED BY <3>1, <3>2 DEF PartsTo
  <2> QED BY <2>6
<1> HIDE DEF S
<1>3. 0 .. n \subseteq S
  BY <1>1, <1>2, Positions0
<1> QED BY <1>3 DEF S

LEMMA PartsRunIs ==
  ASSUME NEW r, IsList(r.parts), NEW d, NEW st, NEW run, run = PartsRun(r, d, st)
  PROVE  run[0] = st /\ \A i \in 1 .. Len(r.parts) : run[i] = EvalSimple(r.parts[i], d, run[i - 1]).st
<1> DEFINE n == Len(r.parts)
<1>1. n \in Nat
  BY DEF IsList
<1>2. PICK f : PartsTo(f, r, d, st, n)
  BY <1>1, PartsExtend
<1>3. run = CHOOSE g : PartsTo(g, r, d, st, n)
  BY DEF PartsRun, PartsTo
<1>4. PartsTo(run, r, d, st, n)
  BY <1>2, <1>3
<1> QED BY <1>1, <1>4 DEF PartsTo

\* A composition touches its own state and those of its parts.
LEMMA PartsTouch ==
  ASSUME NEW r, IsList(r.parts), NEW d, NEW st
  PROVE  OnlyIds(st, PartsRun(r, d, st)[Len(r.parts)], IdsOf(r))
<1>1. PICK run : run = PartsRun(r, d, st)
  OBVIOUS
<1> DEFINE n == Len(r.parts)
           S == {i \in 0 .. n : OnlyIds(st, run[i], IdsOf(r))}
<1>2. n \in Nat /\ DOMAIN r.parts = 1 .. n
  BY DEF IsList
<1>3. run[0] = st /\ \A i \in 1 .. n : run[i] = EvalSimple(r.parts[i], d, run[i - 1]).st
  BY <1>1, PartsRunIs
<1>4. 0 \in S
  BY <1>2, <1>3 DEF OnlyIds
<1>5. ASSUME NEW i \in 1 .. n, i - 1 \in S PROVE i \in S
  <2>1. OnlyIds(st, run[i - 1], IdsOf(r))
    BY <1>5
  <2>2. OnlyIds(run[i - 1], run[i], {r.parts[i].id})
    BY <1>3, SimpleTouches
  <2>3. r.parts[i].id \in IdsOf(r)
    BY <1>2 DEF IdsOf
  <2>4. OnlyIds(st, run[i], IdsOf(r))
    BY <2>1, <2>2, <2>3 DEF OnlyIds
  <2> QED BY <1>2, <2>4
<1> HIDE DEF S
<1>6. 0 .. n \subseteq S
  BY <1>2, <1>4, <1>5, Positions0
<1>7. n \in S
  BY <1>2, <1>6
<1> QED BY <1>1, <1>7 DEF S

LEMMA RuleTouches ==
  ASSUME NEW r, IsList(r.parts), NEW d, NEW st
  PROVE  OnlyIds(st, EvalRule(r, d, st).st, IdsOf(r))
<1>1. r.id \in IdsOf(r)
  BY DEF IdsOf
<1>2. OnlyIds(st, EvalSimple(r, d, st).st, IdsOf(r))
  BY <1>1, SimpleTouches DEF OnlyIds
<1>3. OnlyIds(st, EvalComposite(r, d, st).st, IdsOf(r))
  <2>1. PICK after : after = PartsRun(r, d, st)[Len(r.parts)]
    OBVIOUS
  <2>2. OnlyIds(st, after, IdsOf(r))
    BY <2>1, PartsTouch
  <2>3. EvalComposite(r, d, st).st = after \/ \E s : EvalComposite(r, d, st).st = Set(after, <<r.id, d.stream>>, s)
    BY <2>1 DEF EvalComposite, Quiet, Fire
  <2> QED BY <1>1, <2>2, <2>3, SetTouches DEF OnlyIds
<1> QED BY <1>2, <1>3 DEF EvalRule

\* A state that belongs to one rule is what that rule makes of it.
LEMMA OwnState ==
  ASSUME NEW i \in DOMAIN RuleSet, OwnId(i), NEW d, NEW st, NEW run, run = RulesRun(d, st)
  PROVE  /\ DOMAIN run[i - 1] = DOMAIN st /\ DOMAIN run[Len(RuleSet)] = DOMAIN st
         /\ \A k \in DOMAIN st : k[1] = RuleSet[i].id =>
              run[i - 1][k] = st[k] /\ run[Len(RuleSet)][k] = EvalRule(RuleSet[i], d, run[i - 1]).st[k]
<1> DEFINE n == Len(RuleSet)
           mine == {RuleSet[i].id}
           Now(j) == IF j < i THEN st ELSE run[i]
           S == {j \in 0 .. n : /\ DOMAIN run[j] = DOMAIN st
                                /\ \A k \in DOMAIN st : k[1] = RuleSet[i].id => run[j][k] = Now(j)[k]}
<1>1. /\ n \in Nat /\ DOMAIN RuleSet = 1 .. n /\ i \in 1 .. n
      /\ \A j \in 1 .. n : IsList(RuleSet[j].parts)
  BY RuleAssumption DEF IsList
<1>2. run[0] = st /\ \A j \in 1 .. n : run[j] = EvalRule(RuleSet[j], d, run[j - 1]).st
  BY RulesRunIs
<1>3. 0 \in S
  BY <1>1, <1>2
<1>4. ASSUME NEW j \in 1 .. n, j - 1 \in S PROVE j \in S
  <2>1. OnlyIds(run[j - 1], run[j], IdsOf(RuleSet[j]))
    BY <1>1, <1>2, RuleTouches
  <2>2. DOMAIN run[j - 1] = DOMAIN st /\ DOMAIN run[j] = DOMAIN st
    BY <1>4, <2>1 DEF OnlyIds
  <2>3. ASSUME NEW k \in DOMAIN st, k[1] = RuleSet[i].id PROVE run[j][k] = Now(j)[k]
    <3>1. CASE j = i
      BY <3>1
    <3>2. CASE j # i
      <4>1. RuleSet[i].id \notin IdsOf(RuleSet[j])
        BY <1>1, <3>2 DEF OwnId
      <4>2. run[j][k] = run[j - 1][k]
        BY <2>1, <2>2, <2>3, <4>1 DEF OnlyIds
      <4>3. run[j - 1][k] = Now(j - 1)[k]
        BY <1>4, <2>3
      <4>4. Now(j - 1) = Now(j)
        BY <1>1, <3>2
      <4> QED BY <4>2, <4>3, <4>4
    <3> QED BY <3>1, <3>2
  <2> QED BY <1>1, <2>2, <2>3
<1> HIDE DEF S
<1>5. 0 .. n \subseteq S
  BY <1>1, <1>3, <1>4, Positions0
<1>6. i - 1 \in S /\ n \in S /\ i - 1 < i /\ ~(n < i)
  BY <1>1, <1>5
<1> QED BY <1>1, <1>2, <1>6 DEF S

\* An alert of a rule that has its id alone is its own.
LEMMA OwnAlert ==
  ASSUME NEW i \in DOMAIN RuleSet, OwnId(i), NEW d, NEW st, NEW run, run = RulesRun(d, st)
  PROVE  RuleSet[i].id \in Apply(d, st).ids <=> EvalRule(RuleSet[i], d, run[i - 1]).fires
<1>1. Apply(d, st).ids = {RuleSet[j].id : j \in {m \in DOMAIN RuleSet : EvalRule(RuleSet[m], d, run[m - 1]).fires}}
  BY DEF Apply
<1>2. \A j \in DOMAIN RuleSet : RuleSet[j].id = RuleSet[i].id => j = i
  BY DEF OwnId, IdsOf
<1> QED BY <1>1, <1>2

SeenPlaces == {p.place : p \in Positions}

DwellStates == [kind : {"state"}, enteredAt : Nat, lastFired : Nat, prevSide : {0},
                stableSince : {Never}, stablePlace : {Never}, hits : {{}}]

StillStates == [kind : {"state"}, enteredAt : {Never}, lastFired : Nat, prevSide : {0},
                stableSince : Nat, stablePlace : SeenPlaces, hits : {{}}]

\* The state s of a dwell rule, for a track in the zone since entered, that
\* last fired at before, clk being the last capture time of its stream.
DwellOK(r, s, entered, before, clk) ==
  \/ s = Absent
  \/ /\ s \in DwellStates /\ r.zone
     /\ entered # Never /\ entered <= s.enteredAt /\ s.enteredAt <= clk
     /\ IF s.lastFired = Never THEN before <= s.enteredAt ELSE before = s.lastFired

\* The state s of an abandoned rule, for a track at a place since then.
StillOK(s, where, since) ==
  \/ s = Absent
  \/ s \in StillStates /\ since # Never /\ s.stablePlace = where /\ since <= s.stableSince

LEMMA Entering ==
  ASSUME NEW n \in Nat
  PROVE  [Fresh EXCEPT !.enteredAt = n] = [kind |-> "state", enteredAt |-> n, lastFired |-> Never, prevSide |-> 0,
                                           stableSince |-> Never, stablePlace |-> Never, hits |-> {}]
BY DEF Fresh

LEMMA Anchoring ==
  ASSUME NEW n, NEW p
  PROVE  [Fresh EXCEPT !.stableSince = n, !.stablePlace = p]
           = [kind |-> "state", enteredAt |-> Never, lastFired |-> Never, prevSide |-> 0,
              stableSince |-> n, stablePlace |-> p, hits |-> {}]
<1>1. PICK y : y = [Fresh EXCEPT !.stableSince = n]
  OBVIOUS
<1>2. y = [kind |-> "state", enteredAt |-> Never, lastFired |-> Never, prevSide |-> 0,
           stableSince |-> n, stablePlace |-> Never, hits |-> {}]
  BY <1>1 DEF Fresh
<1>3. [y EXCEPT !.stablePlace = p]
           = [kind |-> "state", enteredAt |-> Never, lastFired |-> Never, prevSide |-> 0,
              stableSince |-> n, stablePlace |-> p, hits |-> {}]
  BY <1>2
<1>4. [Fresh EXCEPT !.stableSince = n, !.stablePlace = p] = [y EXCEPT !.stablePlace = p]
  BY <1>1
<1> QED BY <1>3, <1>4

\* Firing keeps the rest of a state.
LEMMA FiringDwell ==
  ASSUME NEW s \in DwellStates, NEW n \in Nat, NEW x, x = [s EXCEPT !.lastFired = n]
  PROVE  x \in DwellStates /\ x.enteredAt = s.enteredAt /\ x.lastFired = n
BY DEF DwellStates

LEMMA FiringStill ==
  ASSUME NEW s \in StillStates, NEW n \in Nat, NEW x, x = [s EXCEPT !.lastFired = n]
  PROVE  x \in StillStates /\ x.stableSince = s.stableSince /\ x.stablePlace = s.stablePlace
BY DEF StillStates

LEMMA Moving ==
  ASSUME NEW s \in StillStates, NEW n \in Nat, NEW place \in SeenPlaces,
         NEW x, x = [s EXCEPT !.stableSince = n, !.stablePlace = place]
  PROVE  x \in StillStates /\ x.stableSince = n /\ x.stablePlace = place
BY DEF StillStates

\* One detection under a dwell rule.
LEMMA DwellStep ==
  ASSUME NEW r, r.dwell \in Int, r.cooldown \in Int, NEW d, d.track # NoTrack, NEW st,
         <<r.id, d.track>> \in DOMAIN st,
         NEW clk \in Nat, d.at \in Nat, clk < d.at,
         NEW before \in Nat, before <= clk, NEW entered \in Nat, entered <= clk,
         DwellOK(r, st[<<r.id, d.track>>], entered, before, clk),
         NEW then, then = IF ~d.pos.zone THEN Never ELSE IF entered = Never THEN d.at ELSE entered
  PROVE  /\ DwellOK(r, EvalDwell(r, d, st).st[<<r.id, d.track>>], then,
                    IF EvalDwell(r, d, st).fires THEN d.at ELSE before, d.at)
         /\ EvalDwell(r, d, st).fires =>
              /\ then # Never /\ d.at - then >= r.dwell
              /\ before # Never => d.at - before >= IF r.cooldown < r.dwell THEN r.cooldown ELSE r.dwell
<1> DEFINE k == <<r.id, d.track>>
           e == EvalDwell(r, d, st)
<1>1. PICK s : s = st[k]
  OBVIOUS
<1>2. CASE ~r.zone
  <2>1. e.st = st /\ e.fires = FALSE
    BY <1>2 DEF EvalDwell, Quiet
  <2>2. s = Absent
    BY <1>1, <1>2 DEF DwellOK
  <2> QED BY <1>1, <2>1, <2>2 DEF DwellOK
<1>3. CASE r.zone /\ ~d.pos.zone
  <2>1. e.st = Set(st, k, Absent) /\ e.fires = FALSE
    BY <1>3 DEF EvalDwell, Quiet
  <2>2. e.st[k] = Absent
    BY <2>1 DEF Set
  <2> QED BY <2>1, <2>2 DEF DwellOK
<1>4. CASE r.zone /\ d.pos.zone /\ s = Absent
  <2>1. PICK x : x = [Fresh EXCEPT !.enteredAt = d.at] /\ x \in DwellStates /\ x.enteredAt = d.at /\ x.lastFired = Never
    <3>1. PICK n, x : n \in Nat /\ n = d.at /\ x = [Fresh EXCEPT !.enteredAt = n]
      OBVIOUS
    <3>2. x = [kind |-> "state", enteredAt |-> n, lastFired |-> Never, prevSide |-> 0,
               stableSince |-> Never, stablePlace |-> Never, hits |-> {}]
      BY <3>1, Entering
    <3>3. n \in Nat
      BY <3>1
    <3>4. x \in DwellStates /\ x.enteredAt = n /\ x.lastFired = Never
      BY <3>2, <3>3 DEF DwellStates, Never
    <3> QED BY <3>1, <3>4
  <2>2. e.st = Set(st, k, x) /\ e.fires = FALSE
    BY <1>1, <1>4, <2>1 DEF EvalDwell, Quiet
  <2>3. e.st[k] = x
    BY <2>2 DEF Set
  <2>4. then # Never /\ then <= d.at
    BY <1>4 DEF Never
  <2> HIDE DEF e
  <2>5. DwellOK(r, x, then, before, d.at)
    BY <1>4, <2>1, <2>4 DEF DwellOK
  <2> QED BY <2>2, <2>3, <2>5 DEF e
<1>5. CASE r.zone /\ d.pos.zone /\ s # Absent
  <2>1. /\ s \in DwellStates /\ entered # Never /\ entered <= s.enteredAt /\ s.enteredAt <= clk
        /\ IF s.lastFired = Never THEN before <= s.enteredAt ELSE before = s.lastFired
    BY <1>1, <1>5 DEF DwellOK
  <2>2. then = entered /\ s.enteredAt \in Nat /\ s.lastFired \in Nat
    BY <1>5, <2>1 DEF DwellStates
  <2>3. CASE CooldownActive(s, r, d.at) \/ d.at - s.enteredAt < r.dwell
    <3>1. e.st = st /\ e.fires = FALSE
      BY <1>1, <1>5, <2>3 DEF EvalDwell, Quiet
    <3> QED BY <1>1, <1>5, <2>1, <2>2, <3>1 DEF DwellOK
  <2>4. CASE ~(CooldownActive(s, r, d.at) \/ d.at - s.enteredAt < r.dwell)
    <3>1. PICK x : x = [s EXCEPT !.lastFired = d.at] /\ x \in DwellStates /\ x.enteredAt = s.enteredAt /\ x.lastFired = d.at
      <4>1. PICK n, x : n \in Nat /\ n = d.at /\ x = [s EXCEPT !.lastFired = n]
        OBVIOUS
      <4>2. x \in DwellStates /\ x.enteredAt = s.enteredAt /\ x.lastFired = n
        BY <2>1, <4>1, FiringDwell
      <4> QED BY <4>1, <4>2
    <3>2. e.st = Set(st, k, x) /\ e.fires = TRUE
      BY <1>1, <1>5, <2>4, <3>1 DEF EvalDwell, Fire
    <3>3. e.st[k] = x
      BY <3>2 DEF Set
    <3>4. d.at - s.enteredAt >= r.dwell /\ (s.lastFired = Never \/ d.at - s.lastFired >= r.cooldown)
      BY <2>2, <2>4 DEF CooldownActive
    <3> HIDE DEF e
    <3>5. then # Never /\ d.at - then >= r.dwell
      BY <2>1, <2>2, <3>4
    <3>6. before # Never => d.at - before >= IF r.cooldown < r.dwell THEN r.cooldown ELSE r.dwell
      BY <2>1, <2>2, <3>4
    <3>7. d.at # Never
      BY DEF Never
    <3>8. DwellOK(r, x, then, d.at, d.at)
      BY <1>5, <2>1, <2>2, <3>1, <3>7 DEF DwellOK
    <3> QED BY <3>2, <3>3, <3>5, <3>6, <3>8 DEF e
  <2> QED BY <2>3, <2>4
<1> QED BY <1>2, <1>3, <1>4, <1>5

\* One detection under an abandoned rule.
LEMMA StillStep ==
  ASSUME NEW r, r.stale \in Int, NEW d, d.track # NoTrack, d.pos \in Positions, NEW st,
         <<r.id, d.track>> \in DOMAIN st,
         d.at \in Nat, NEW where, NEW since \in Nat, since < d.at,
         StillOK(st[<<r.id, d.track>>], where, since),
         NEW then, then = IF where = d.pos.place /\ since # Never THEN since ELSE d.at
  PROVE  /\ r.stale # 0 => StillOK(EvalAbandoned(r, d, st).st[<<r.id, d.track>>], d.pos.place, then)
         /\ r.stale = 0 => EvalAbandoned(r, d, st) = Quiet(st)
         /\ EvalAbandoned(r, d, st).fires => d.at - then >= r.stale
<1> DEFINE k == <<r.id, d.track>>
           e == EvalAbandoned(r, d, st)
           Anchored(x) == [x EXCEPT !.stableSince = d.at, !.stablePlace = d.pos.place]
<1>1. PICK s : s = st[k]
  OBVIOUS
<1>2. CASE r.stale = 0
  BY <1>2 DEF EvalAbandoned, Quiet
<1>3. then \in Nat /\ then # Never /\ then <= d.at
  BY DEF Never
<1>4. CASE r.stale # 0 /\ s = Absent
  <2>1. PICK x : x = Anchored(Fresh) /\ x \in StillStates /\ x.stableSince = d.at /\ x.stablePlace = d.pos.place
    <3>1. PICK n, q, x : n \in Nat /\ q \in Positions /\ n = d.at /\ q = d.pos /\ x = Anchored(Fresh)
      OBVIOUS
    <3>2. x = [kind |-> "state", enteredAt |-> Never, lastFired |-> Never, prevSide |-> 0,
               stableSince |-> n, stablePlace |-> q.place, hits |-> {}]
      BY <3>1, Anchoring
    <3>3. n \in Nat /\ q.place \in SeenPlaces
      BY <3>1 DEF SeenPlaces
    <3>4. x \in StillStates /\ x.stableSince = n /\ x.stablePlace = q.place
      BY <3>2, <3>3 DEF StillStates, Never
    <3> QED BY <3>1, <3>4
  <2>2. e.st = Set(st, k, x) /\ e.fires = FALSE
    BY <1>1, <1>4, <2>1 DEF EvalAbandoned, Quiet
  <2>3. e.st[k] = x
    BY <2>2 DEF Set
  <2> QED BY <1>3, <1>4, <2>1, <2>2, <2>3 DEF StillOK
<1>5. CASE r.stale # 0 /\ s # Absent
  <2>1. s \in StillStates /\ since # Never /\ s.stablePlace = where /\ since <= s.stableSince /\ s.stableSince \in Nat
    BY <1>1, <1>5 DEF StillOK, StillStates
  <2>2. CASE s.stablePlace # d.pos.place
    <3>1. PICK x : x = Anchored(s) /\ x \in StillStates /\ x.stableSince = d.at /\ x.stablePlace = d.pos.place
      <4>1. PICK n, place, x :
              n \in Nat /\ place \in SeenPlaces /\ n = d.at /\ place = d.pos.place /\ x = [s EXCEPT !.stableSince = n, !.stablePlace = place]
        BY DEF SeenPlaces
      <4>2. x \in StillStates /\ x.stableSince = n /\ x.stablePlace = place
        BY <2>1, <4>1 DEF StillStates
      <4> QED BY <4>1, <4>2
    <3>2. e.st = Set(st, k, x) /\ e.fires = FALSE
      BY <1>1, <1>5, <2>2, <3>1 DEF EvalAbandoned, Quiet
    <3>3. e.st[k] = x
      BY <3>2 DEF Set
    <3> QED BY <1>3, <1>5, <3>1, <3>2, <3>3 DEF StillOK
  <2>3. CASE s.stablePlace = d.pos.place /\ (CooldownActive(s, r, d.at) \/ d.at - s.stableSince < r.stale)
    <3>1. e.st = st /\ e.fires = FALSE
      BY <1>1, <1>5, <2>3 DEF EvalAbandoned, Quiet
    <3> QED BY <1>1, <1>5, <2>1, <2>3, <3>1 DEF StillOK
  <2>4. CASE s.stablePlace = d.pos.place /\ ~(CooldownActive(s, r, d.at) \/ d.at - s.stableSince < r.stale)
    <3>1. PICK x : x = [s EXCEPT !.lastFired = d.at] /\ x \in StillStates
                   /\ x.stableSince = s.stableSince /\ x.stablePlace = s.stablePlace
      BY <2>1, FiringStill
    <3>2. e.st = Set(st, k, x) /\ e.fires = TRUE
      BY <1>1, <1>5, <2>4, <3>1 DEF EvalAbandoned, Fire
    <3>3. e.st[k] = x
      BY <3>2 DEF Set
    <3>4. then = since /\ d.at - s.stableSince >= r.stale
      BY <2>1, <2>4
    <3>5. d.at - then >= r.stale /\ StillOK(x, d.pos.place, then)
      BY <2>1, <2>4, <3>1, <3>4 DEF StillOK
    <3> QED BY <1>5, <3>2, <3>3, <3>5
  <2> QED BY <2>2, <2>3, <2>4
<1> QED BY <1>2, <1>4, <1>5

\* What a rule knows of a track, and what the engine has been shown of it.
Knows(r, s, entered, before, where, since, clk) ==
  /\ r.kind = "spatial.dwell" => DwellOK(r, s, entered, before, clk)
  /\ r.kind = "temporal.abandoned" => StillOK(s, where, since) /\ (r.stale = 0 => s = Absent)

LEMMA KnowsAbsent ==
  ASSUME NEW r, NEW entered, NEW before, NEW where, NEW since, NEW clk
  PROVE  Knows(r, Absent, entered, before, where, since, clk)
BY DEF Knows, DwellOK, StillOK

LEMMA KnowsLater ==
  ASSUME NEW r, NEW s, NEW entered, NEW before, NEW where, NEW since, NEW clk \in Nat, NEW now \in Nat,
         clk <= now, Knows(r, s, entered, before, where, since, clk)
  PROVE  Knows(r, s, entered, before, where, since, now)
<1>1. DwellOK(r, s, entered, before, clk) => DwellOK(r, s, entered, before, now)
  <2>1. s \in DwellStates => s.enteredAt \in Nat
    BY DEF DwellStates
  <2> QED BY <2>1 DEF DwellOK
<1> QED BY <1>1 DEF Knows

\* What a detection of the track itself does to it.
LEMMA RuleStep ==
  ASSUME NEW i \in DOMAIN RuleSet, NEW r, r = RuleSet[i], NEW d, d.track # NoTrack, d.pos \in Positions, NEW st,
         NEW k, k = <<r.id, d.track>>, k \in DOMAIN st,
         NEW clk \in Nat, d.at \in Nat, clk < d.at,
         NEW before \in Nat, before <= clk, NEW entered \in Nat, entered <= clk,
         NEW where, NEW since \in Nat, since <= clk,
         Knows(r, st[k], entered, before, where, since, clk),
         NEW zone, zone = IF ~d.pos.zone THEN Never ELSE IF entered = Never THEN d.at ELSE entered,
         NEW stood, stood = IF where = d.pos.place /\ since # Never THEN since ELSE d.at,
         NEW e, e = EvalRule(r, d, st)
  PROVE  /\ Knows(r, e.st[k], zone, IF e.fires THEN d.at ELSE before, d.pos.place, stood, d.at)
         /\ e.fires /\ r.kind = "spatial.dwell" =>
              /\ zone # Never /\ d.at - zone >= r.dwell
              /\ before # Never => d.at - before >= IF r.cooldown < r.dwell THEN r.cooldown ELSE r.dwell
         /\ e.fires /\ r.kind = "temporal.abandoned" => d.at - stood >= r.stale
<1>1. r.dwell \in Int /\ r.cooldown \in Int /\ r.stale \in Int
  BY RuleAssumption
<1>2. CASE r.kind = "spatial.dwell"
  <2>1. e = EvalDwell(r, d, st)
    BY <1>2 DEF EvalRule, EvalSimple
  <2>2. DwellOK(r, st[k], entered, before, clk)
    BY <1>2 DEF Knows
  <2>3. /\ DwellOK(r, EvalDwell(r, d, st).st[k], zone,
                   IF EvalDwell(r, d, st).fires THEN d.at ELSE before, d.at)
        /\ EvalDwell(r, d, st).fires =>
              /\ zone # Never /\ d.at - zone >= r.dwell
              /\ before # Never => d.at - before >= IF r.cooldown < r.dwell THEN r.cooldown ELSE r.dwell
    BY <1>1, <2>2, DwellStep
  <2> QED BY <1>2, <2>1, <2>3 DEF Knows
<1>3. CASE r.kind = "temporal.abandoned"
  <2>1. e = EvalAbandoned(r, d, st)
    BY <1>3 DEF EvalRule, EvalSimple
  <2>2. StillOK(st[k], where, since) /\ since < d.at
    BY <1>3 DEF Knows
  <2>3. /\ r.stale # 0 => StillOK(EvalAbandoned(r, d, st).st[k], d.pos.place, stood)
        /\ r.stale = 0 => EvalAbandoned(r, d, st) = Quiet(st)
        /\ EvalAbandoned(r, d, st).fires => d.at - stood >= r.stale
    BY <1>1, <2>2, StillStep
  <2>4. CASE r.stale = 0
    <3>1. e.st[k] = Absent
      BY <1>3, <2>1, <2>3, <2>4 DEF Knows, Quiet
    <3> QED BY <1>3, <2>1, <2>3, <3>1, KnowsAbsent
  <2> QED BY <1>3, <2>1, <2>3, <2>4 DEF Knows
<1>4. CASE r.kind # "spatial.dwell" /\ r.kind # "temporal.abandoned"
  BY <1>4 DEF Knows
<1> QED BY <1>2, <1>3, <1>4

\* A detection of another track, or of none, leaves the state alone.
LEMMA OthersStep ==
  ASSUME NEW r, r.kind \in {"spatial.dwell", "temporal.abandoned"}, NEW d, NEW st, NEW t, <<r.id, t>> \in DOMAIN st, t # d.track
  PROVE  /\ EvalRule(r, d, st).st[<<r.id, t>>] = st[<<r.id, t>>]
         /\ d.track = NoTrack => ~EvalRule(r, d, st).fires
<1>1. CASE r.kind = "spatial.dwell"
  <2>1. EvalRule(r, d, st) = EvalDwell(r, d, st)
    BY <1>1 DEF EvalRule, EvalSimple
  <2>2. EvalDwell(r, d, st).st = st \/ \E s : EvalDwell(r, d, st).st = Set(st, <<r.id, d.track>>, s)
    BY DEF EvalDwell, Quiet, Fire
  <2>3. d.track = NoTrack => ~EvalDwell(r, d, st).fires
    BY DEF EvalDwell, Quiet
  <2> QED BY <2>1, <2>2, <2>3 DEF Set
<1>2. CASE r.kind = "temporal.abandoned"
  <2>1. EvalRule(r, d, st) = EvalAbandoned(r, d, st)
    BY <1>2 DEF EvalRule, EvalSimple
  <2>2. EvalAbandoned(r, d, st).st = st \/ \E s : EvalAbandoned(r, d, st).st = Set(st, <<r.id, d.track>>, s)
    BY DEF EvalAbandoned, Quiet, Fire
  <2>3. d.track = NoTrack => ~EvalAbandoned(r, d, st).fires
    BY DEF EvalAbandoned, Quiet
  <2> QED BY <2>1, <2>2, <2>3 DEF Set
<1> QED BY <1>1, <1>2

RuleTyped ==
  /\ clock \in [Streams -> Nat] /\ DOMAIN states = StateKeys
  /\ inZone \in [Tracks -> Nat]
  /\ DOMAIN inPlace = Tracks /\ \A t \in Tracks : inPlace[t].since \in Nat
  /\ last \in [RuleIds \X Tracks -> Nat]

SeenBefore ==
  \A t \in Tracks : /\ inZone[t] <= clock[StreamOf[t]] /\ inPlace[t].since <= clock[StreamOf[t]]
                    /\ \A i \in RuleIds : last[<<i, t>>] <= clock[StreamOf[t]]

StatesKept ==
  \A i \in DOMAIN RuleSet, t \in Tracks : OwnId(i) =>
      Knows(RuleSet[i], states[<<RuleSet[i].id, t>>], inZone[t], last[<<RuleSet[i].id, t>>],
           inPlace[t].place, inPlace[t].since, clock[StreamOf[t]])

RuleInv == RuleTyped /\ SeenBefore /\ StatesKept /\ AlertsAreEarned

LEMMA Collected ==
  ASSUME NEW st, NEW now, NEW k \in StateKeys
  PROVE  GcLocked(st, now)[k] \in {Absent, st[k]}
BY DEF GcLocked

LEMMA TrackKeys ==
  ASSUME NEW i \in DOMAIN RuleSet, NEW t \in Tracks
  PROVE  RuleSet[i].id \in RuleIds /\ <<RuleSet[i].id, t>> \in StateKeys
BY DEF RuleIds, IdsOf, StateKeys

LEMMA ADetection ==
  ASSUME NEW d \in Detections
  PROVE  /\ d.at \in Nat \ {0}
         /\ d.track # NoTrack => d.track \in Tracks /\ d.pos \in Positions /\ d.stream = StreamOf[d.track]
         /\ d.track = NoTrack => d.stream \in Streams
         /\ d.stream \in Streams
BY RuleAssumption DEF Detections

\* What an alert of the rule r at a time must find.
Earned(r, at, zone, before, stood) ==
  /\ r.kind = "spatial.dwell" =>
       /\ zone # Never /\ at - zone >= r.dwell
       /\ before # Never => at - before >= IF r.cooldown < r.dwell THEN r.cooldown ELSE r.dwell
  /\ r.kind = "temporal.abandoned" => at - stood >= r.stale

\* Times of the past of a stream.
Past(clk, before, entered, since) ==
  /\ clk \in Nat /\ before \in Nat /\ entered \in Nat /\ since \in Nat
  /\ before <= clk /\ entered <= clk /\ since <= clk

ZoneThen(d, entered) == IF ~d.pos.zone THEN Never ELSE IF entered = Never THEN d.at ELSE entered
PlaceThen(d, where, since) == IF where = d.pos.place /\ since # Never THEN since ELSE d.at
Lately(fires, d, before) == IF fires THEN d.at ELSE before

\* One detection of another track, for one rule that has its id alone.
LEMMA DetectOther ==
  ASSUME NEW i \in DOMAIN RuleSet, OwnId(i), NEW r, r = RuleSet[i], NEW t \in Tracks, NEW d \in Detections,
         NEW st, DOMAIN st = StateKeys, NEW clk \in Nat, NEW now \in Nat, clk <= now, d.track # t,
         NEW before, NEW entered, NEW where, NEW since,
         Knows(r, st[<<r.id, t>>], entered, before, where, since, clk)
  PROVE  Knows(r, Apply(d, st).st[<<r.id, t>>], entered, before, where, since, now)
<1>0. PICK a : a = Apply(d, st)
  OBVIOUS
<1> DEFINE k == <<r.id, t>>
<1>1. PICK run : run = RulesRun(d, st)
  OBVIOUS
<1>2. PICK u, v : u = run[i - 1] /\ v = run[Len(RuleSet)]
  OBVIOUS
<1>3. PICK e : e = EvalRule(r, d, u)
  OBVIOUS
<1>4. k \in StateKeys
  BY TrackKeys
<1>5. DOMAIN u = StateKeys /\ u[k] = st[k] /\ v[k] = e.st[k]
  <2>1. k[1] = r.id
    OBVIOUS
  <2> HIDE DEF k
  <2> QED BY <1>1, <1>2, <1>3, <1>4, <2>1, OwnState
<1>6. a.st[k] \in {Absent, v[k]}
  <2>1. a.st = GcLocked(v, d.at)
    BY <1>0, <1>1, <1>2 DEF Apply
  <2> QED BY <1>4, <2>1, Collected
<1>7. Knows(r, v[k], entered, before, where, since, clk)
  <2>1. CASE r.kind \in {"spatial.dwell", "temporal.abandoned"}
    <3>1. e.st[k] = u[k]
      BY <1>3, <1>4, <1>5, <2>1, OthersStep
    <3> QED BY <1>5, <3>1
  <2>2. CASE r.kind \notin {"spatial.dwell", "temporal.abandoned"}
    BY <2>2 DEF Knows
  <2> QED BY <2>1, <2>2
<1>8. Knows(r, v[k], entered, before, where, since, now)
  BY <1>7, KnowsLater
<1> QED BY <1>0, <1>6, <1>8, KnowsAbsent

\* One detection of a track, for one rule that has its id alone.
LEMMA DetectOwn ==
  ASSUME NEW i \in DOMAIN RuleSet, OwnId(i), NEW r, r = RuleSet[i], NEW t \in Tracks, NEW d \in Detections,
         NEW st, DOMAIN st = StateKeys, NEW a, a = Apply(d, st), d.track = t,
         NEW clk, clk < d.at, NEW before, NEW entered, NEW where, NEW since, Past(clk, before, entered, since),
         Knows(r, st[<<r.id, t>>], entered, before, where, since, clk)
  PROVE  /\ Knows(r, a.st[<<r.id, t>>], ZoneThen(d, entered), Lately(r.id \in a.ids, d, before),
                 d.pos.place, PlaceThen(d, where, since), d.at)
         /\ r.id \in a.ids => Earned(r, d.at, ZoneThen(d, entered), before, PlaceThen(d, where, since))
<1> DEFINE k == <<r.id, t>>
<1>1. PICK run : run = RulesRun(d, st)
  OBVIOUS
<1>2. PICK u, v : u = run[i - 1] /\ v = run[Len(RuleSet)]
  OBVIOUS
<1>3. PICK e : e = EvalRule(r, d, u)
  OBVIOUS
<1>4. k \in StateKeys
  BY TrackKeys
<1>5. DOMAIN u = StateKeys /\ u[k] = st[k] /\ v[k] = e.st[k]
  <2>1. k[1] = r.id
    OBVIOUS
  <2> HIDE DEF k
  <2> QED BY <1>1, <1>2, <1>3, <1>4, <2>1, OwnState
<1>6. r.id \in a.ids <=> e.fires
  BY <1>1, <1>2, <1>3, OwnAlert
<1>7. a.st[k] \in {Absent, v[k]}
  <2>1. a.st = GcLocked(v, d.at)
    BY <1>1, <1>2 DEF Apply
  <2> QED BY <1>4, <2>1, Collected
<1>8. /\ d.track # NoTrack /\ d.pos \in Positions /\ d.at \in Nat
  BY ADetection, RuleAssumption
<1>9. <<r.id, d.track>> = k
  OBVIOUS
<1> HIDE DEF k
<1>10. k \in DOMAIN u /\ Knows(r, u[k], entered, before, where, since, clk)
  BY <1>4, <1>5 DEF k
<1>11. PICK zone, stood : zone = ZoneThen(d, entered) /\ stood = PlaceThen(d, where, since)
  OBVIOUS
<1>12. /\ zone = IF ~d.pos.zone THEN Never ELSE IF entered = Never THEN d.at ELSE entered
       /\ stood = IF where = d.pos.place /\ since # Never THEN since ELSE d.at
  BY <1>11 DEF ZoneThen, PlaceThen
<1>13. /\ clk \in Nat /\ before \in Nat /\ entered \in Nat /\ since \in Nat
       /\ before <= clk /\ entered <= clk /\ since <= clk
  BY DEF Past
<1>14. /\ Knows(r, e.st[k], zone, IF e.fires THEN d.at ELSE before, d.pos.place, stood, d.at)
       /\ e.fires /\ r.kind = "spatial.dwell" =>
             /\ zone # Never /\ d.at - zone >= r.dwell
             /\ before # Never => d.at - before >= IF r.cooldown < r.dwell THEN r.cooldown ELSE r.dwell
       /\ e.fires /\ r.kind = "temporal.abandoned" => d.at - stood >= r.stale
  BY <1>3, <1>8, <1>9, <1>10, <1>12, <1>13, RuleStep
<1>15. Knows(r, e.st[k], zone, Lately(r.id \in a.ids, d, before), d.pos.place, stood, d.at)
  BY <1>6, <1>14 DEF Lately
<1>16. Knows(r, a.st[k], zone, Lately(r.id \in a.ids, d, before), d.pos.place, stood, d.at)
  BY <1>5, <1>7, <1>15, KnowsAbsent
<1>17. r.id \in a.ids => Earned(r, d.at, zone, before, stood)
  BY <1>6, <1>14 DEF Earned
<1> QED BY <1>11, <1>16, <1>17 DEF k

LEMMA Untracked ==
  ASSUME NEW i \in DOMAIN RuleSet, OwnId(i), RuleSet[i].kind \in {"spatial.dwell", "temporal.abandoned"},
         NEW d, d.track = NoTrack, NEW st
  PROVE  RuleSet[i].id \notin Apply(d, st).ids
<1>1. PICK run : run = RulesRun(d, st)
  OBVIOUS
<1>2. \A u : ~EvalDwell(RuleSet[i], d, u).fires /\ ~EvalAbandoned(RuleSet[i], d, u).fires
  BY DEF EvalDwell, EvalAbandoned, Quiet
<1>3. ~EvalRule(RuleSet[i], d, run[i - 1]).fires
  BY <1>2 DEF EvalRule, EvalSimple
<1> QED BY <1>1, <1>3, OwnAlert

LEMMA RuleInvInit == RuleInit => RuleInv
<1> SUFFICES ASSUME RuleInit PROVE RuleInv
  OBVIOUS
<1>1. RuleTyped
  BY DEF RuleInit, RuleTyped, Never
<1>2. SeenBefore
  BY RuleAssumption DEF RuleInit, SeenBefore, Never
<1>3. StatesKept
  <2> SUFFICES ASSUME NEW i \in DOMAIN RuleSet, NEW t \in Tracks
               PROVE  states[<<RuleSet[i].id, t>>] = Absent
    BY KnowsAbsent DEF StatesKept
  <2>1. <<RuleSet[i].id, t>> \in StateKeys
    BY TrackKeys
  <2> QED BY <2>1 DEF RuleInit
<1>4. AlertsAreEarned
  BY DEF RuleInit, AlertsAreEarned
<1> QED BY <1>1, <1>2, <1>3, <1>4 DEF RuleInv

LEMMA ReloadInv == RuleInv /\ Reload => RuleInv'
<1> SUFFICES ASSUME RuleInv, Reload PROVE RuleInv'
  OBVIOUS
<1>1. RuleTyped' /\ SeenBefore'
  BY DEF RuleInv, Reload, RuleTyped, SeenBefore
<1>2. StatesKept'
  <2> SUFFICES ASSUME NEW i \in DOMAIN RuleSet, NEW t \in Tracks
               PROVE  states'[<<RuleSet[i].id, t>>] = Absent
    BY KnowsAbsent DEF StatesKept
  <2>1. <<RuleSet[i].id, t>> \in StateKeys
    BY TrackKeys
  <2> QED BY <2>1 DEF Reload
<1>3. AlertsAreEarned'
  BY DEF RuleInv, Reload, AlertsAreEarned
<1> QED BY <1>1, <1>2, <1>3 DEF RuleInv

LEMMA DetectInv ==
  ASSUME RuleInv, NEW d \in Detections, d.at > clock[d.stream], Detect(d)
  PROVE  RuleInv'
<1>1. PICK a : a = Apply(d, states)
  OBVIOUS
<1>2. d.at \in Nat /\ d.stream \in Streams
  BY ADetection
<1>3. clock' = [clock EXCEPT ![d.stream] = d.at] /\ states' = a.st
  BY <1>1 DEF Detect
<1>4. /\ d.track = NoTrack => UNCHANGED <<inZone, inPlace, last>>
      /\ d.track # NoTrack =>
           /\ inZone' = [inZone EXCEPT ![d.track] = ZoneSince(d)]
           /\ inPlace' = [inPlace EXCEPT ![d.track] = [place |-> d.pos.place, since |-> PlaceSince(d)]]
           /\ last' = [k \in RuleIds \X Tracks |-> IF k[2] = d.track /\ k[1] \in a.ids THEN d.at ELSE last[k]]
  BY <1>1 DEF Detect
<1>5. d.track # NoTrack => d.track \in Tracks /\ d.pos \in Positions /\ d.stream = StreamOf[d.track]
  BY ADetection
<1>6. d.track \in Tracks => ZoneSince(d) \in Nat /\ PlaceSince(d) \in Nat /\ ZoneSince(d) <= d.at /\ PlaceSince(d) <= d.at
  BY <1>2, <1>5, RuleAssumption DEF RuleInv, RuleTyped, SeenBefore, ZoneSince, PlaceSince, Never
<1>7. RuleTyped'
  <2>1. clock' \in [Streams -> Nat]
    BY <1>2, <1>3 DEF RuleInv, RuleTyped
  <2>2. DOMAIN states' = StateKeys
    BY <1>1, <1>3 DEF Apply, GcLocked
  <2>3. inZone' \in [Tracks -> Nat] /\ last' \in [RuleIds \X Tracks -> Nat]
    BY <1>2, <1>4, <1>5, <1>6 DEF RuleInv, RuleTyped
  <2>4. DOMAIN inPlace' = Tracks /\ \A t \in Tracks : inPlace'[t].since \in Nat
    BY <1>4, <1>5, <1>6 DEF RuleInv, RuleTyped
  <2> QED BY <2>1, <2>2, <2>3, <2>4 DEF RuleTyped
<1>8. \A t \in Tracks : /\ StreamOf[t] \in Streams /\ clock[StreamOf[t]] \in Nat
                        /\ clock'[StreamOf[t]] = IF d.stream = StreamOf[t] THEN d.at ELSE clock[StreamOf[t]]
                        /\ clock[StreamOf[t]] <= clock'[StreamOf[t]]
  BY <1>2, <1>3, RuleAssumption DEF RuleInv, RuleTyped
<1>9. \A t \in Tracks, i \in RuleIds :
        last'[<<i, t>>] = IF t = d.track /\ i \in a.ids THEN d.at ELSE last[<<i, t>>]
  BY <1>4, <1>5, RuleAssumption
<1>10. \A t \in Tracks :
        /\ inZone'[t] = IF t = d.track THEN ZoneSince(d) ELSE inZone[t]
        /\ inPlace'[t] = IF t = d.track THEN [place |-> d.pos.place, since |-> PlaceSince(d)] ELSE inPlace[t]
  BY <1>4, <1>5, RuleAssumption DEF RuleInv, RuleTyped
<1>11. SeenBefore'
  <2> SUFFICES ASSUME NEW t \in Tracks
               PROVE  /\ inZone'[t] <= clock'[StreamOf[t]] /\ inPlace'[t].since <= clock'[StreamOf[t]]
                      /\ \A i \in RuleIds : last'[<<i, t>>] <= clock'[StreamOf[t]]
    BY DEF SeenBefore
  <2>1. t = d.track => clock'[StreamOf[t]] = d.at
    BY <1>5, <1>8, RuleAssumption
  <2>2. /\ inZone[t] \in Nat /\ inPlace[t].since \in Nat /\ \A i \in RuleIds : last[<<i, t>>] \in Nat
        /\ inZone[t] <= clock[StreamOf[t]] /\ inPlace[t].since <= clock[StreamOf[t]]
        /\ \A i \in RuleIds : last[<<i, t>>] <= clock[StreamOf[t]]
    BY DEF RuleInv, RuleTyped, SeenBefore
  <2>3. inZone'[t] <= clock'[StreamOf[t]] /\ inPlace'[t].since <= clock'[StreamOf[t]]
    BY <1>2, <1>6, <1>8, <1>10, <2>1, <2>2
  <2>4. ASSUME NEW i \in RuleIds PROVE last'[<<i, t>>] <= clock'[StreamOf[t]]
    BY <1>2, <1>8, <1>9, <2>1, <2>2
  <2> QED BY <2>3, <2>4
<1>12. ASSUME NEW i \in DOMAIN RuleSet, OwnId(i), NEW t \in Tracks
       PROVE  /\ Knows(RuleSet[i], states'[<<RuleSet[i].id, t>>], inZone'[t], last'[<<RuleSet[i].id, t>>],
                      inPlace'[t].place, inPlace'[t].since, clock'[StreamOf[t]])
              /\ d.track = t /\ RuleSet[i].id \in a.ids =>
                   Earned(RuleSet[i], d.at, ZoneSince(d), last[<<RuleSet[i].id, t>>], PlaceSince(d))
  <2>1. PICK r, clk, now : /\ r = RuleSet[i] /\ clk = clock[StreamOf[t]] /\ now = clock'[StreamOf[t]]
                           /\ clk \in Nat /\ now \in Nat /\ clk <= now
    <3>1. clock[StreamOf[t]] \in Nat /\ clock'[StreamOf[t]] \in Nat /\ clock[StreamOf[t]] <= clock'[StreamOf[t]]
      BY <1>2, <1>8
    <3> QED BY <3>1
  <2>2. r.id \in RuleIds
    BY <2>1, TrackKeys
  <2>3. PICK before, entered, where, since :
          before = last[<<r.id, t>>] /\ entered = inZone[t] /\ where = inPlace[t].place /\ since = inPlace[t].since
    OBVIOUS
  <2>4. Past(clk, before, entered, since)
    BY <2>1, <2>2, <2>3 DEF RuleInv, RuleTyped, SeenBefore, Past
  <2>5. Knows(r, states[<<r.id, t>>], entered, before, where, since, clk)
    BY <1>12, <2>1, <2>3 DEF RuleInv, StatesKept
  <2>6. PICK st : st = states /\ DOMAIN st = StateKeys
    BY DEF RuleInv, RuleTyped
  <2>7. a = Apply(d, st) /\ Knows(r, st[<<r.id, t>>], entered, before, where, since, clk)
    BY <1>1, <2>5, <2>6
  <2>8. last'[<<r.id, t>>] = IF t = d.track /\ r.id \in a.ids THEN d.at ELSE before
    BY <1>9, <2>2, <2>3
  <2>9. CASE d.track = t
    <3>1. clk < d.at /\ now = d.at
      BY <1>5, <1>8, <2>1, <2>9, RuleAssumption
    <3>2. /\ Knows(r, a.st[<<r.id, t>>], ZoneThen(d, entered), Lately(r.id \in a.ids, d, before),
                  d.pos.place, PlaceThen(d, where, since), d.at)
          /\ r.id \in a.ids => Earned(r, d.at, ZoneThen(d, entered), before, PlaceThen(d, where, since))
      BY <1>12, <2>1, <2>4, <2>6, <2>7, <2>9, <3>1, DetectOwn
    <3>3. ZoneThen(d, entered) = ZoneSince(d) /\ PlaceThen(d, where, since) = PlaceSince(d)
      BY <2>3, <2>9 DEF ZoneSince, PlaceSince, ZoneThen, PlaceThen
    <3>4. inZone'[t] = ZoneSince(d) /\ inPlace'[t].place = d.pos.place /\ inPlace'[t].since = PlaceSince(d)
      BY <1>10, <2>9
    <3>5. last'[<<r.id, t>>] = Lately(r.id \in a.ids, d, before)
      BY <2>8, <2>9 DEF Lately
    <3> QED BY <1>3, <2>1, <2>3, <3>1, <3>2, <3>3, <3>4, <3>5
  <2>10. CASE d.track # t
    <3>1. Knows(r, Apply(d, st).st[<<r.id, t>>], entered, before, where, since, now)
      BY <1>12, <2>1, <2>6, <2>7, <2>10, DetectOther
    <3>2. inZone'[t] = entered /\ inPlace'[t].place = where /\ inPlace'[t].since = since
      BY <1>10, <2>3, <2>10
    <3> QED BY <1>3, <2>1, <2>3, <2>7, <2>8, <2>10, <3>1, <3>2
  <2> QED BY <2>9, <2>10
<1>13. StatesKept'
  BY <1>12 DEF StatesKept
<1>14. AlertsAreEarned'
  <2> SUFFICES ASSUME NEW i \in DOMAIN RuleSet, OwnId(i), RuleSet[i].id \in fired'.ids,
                      RuleSet[i].kind \in {"spatial.dwell", "temporal.abandoned"}
               PROVE  /\ RuleSet[i].kind = "spatial.dwell" =>
                           /\ fired'.since # Never /\ fired'.at - fired'.since >= RuleSet[i].dwell
                           /\ fired'.prev[RuleSet[i].id] # Never =>
                                fired'.at - fired'.prev[RuleSet[i].id]
                                  >= (IF RuleSet[i].cooldown < RuleSet[i].dwell THEN RuleSet[i].cooldown ELSE RuleSet[i].dwell)
                      /\ RuleSet[i].kind = "temporal.abandoned" => fired'.at - fired'.still >= RuleSet[i].stale
    BY DEF AlertsAreEarned
  <2>1. fired'.ids = a.ids /\ fired'.at = d.at
    BY <1>1 DEF Detect
  <2>2. d.track # NoTrack
    BY <1>1, <2>1, Untracked
  <2>3. /\ fired'.since = ZoneSince(d) /\ fired'.still = PlaceSince(d)
        /\ fired'.prev = [j \in RuleIds |-> last[<<j, d.track>>]]
    BY <2>2 DEF Detect
  <2>4. fired'.prev[RuleSet[i].id] = last[<<RuleSet[i].id, d.track>>]
    BY <1>5, <2>2, <2>3, TrackKeys
  <2>5. Earned(RuleSet[i], d.at, ZoneSince(d), last[<<RuleSet[i].id, d.track>>], PlaceSince(d))
    BY <1>5, <1>12, <2>1, <2>2
  <2> QED BY <2>1, <2>3, <2>4, <2>5 DEF Earned
<1> QED BY <1>7, <1>11, <1>13, <1>14 DEF RuleInv

\* Only seen tracks alert: a dwell rule fires after Dwell in the zone, not
\* again within the shorter of Dwell and Cooldown, an abandoned rule after
\* Stale in one place, whatever the other rules, tracks and reloads do.
THEOREM AlertsEarned == RuleSpec => []AlertsAreEarned
<1>1. RuleInv /\ [RuleNext]_ruleVars => RuleInv'
  <2> SUFFICES ASSUME RuleInv, [RuleNext]_ruleVars PROVE RuleInv'
    OBVIOUS
  <2>1. CASE \E d \in Detections : d.at > clock[d.stream] /\ Detect(d)
    BY <2>1, DetectInv
  <2>2. CASE Reload
    BY <2>2, ReloadInv
  <2>3. CASE UNCHANGED ruleVars
    <3>1. RuleTyped' /\ SeenBefore'
      BY <2>3 DEF RuleInv, RuleTyped, SeenBefore, ruleVars
    <3>2. StatesKept' /\ AlertsAreEarned'
      BY <2>3 DEF RuleInv, StatesKept, AlertsAreEarned, ruleVars
    <3> QED BY <3>1, <3>2 DEF RuleInv
  <2> QED BY <2>1, <2>2, <2>3 DEF RuleNext
<1>2. RuleInv => AlertsAreEarned
  BY DEF RuleInv
<1> QED BY RuleInvInit, <1>1, <1>2, PTL DEF RuleSpec

=============================================================================
