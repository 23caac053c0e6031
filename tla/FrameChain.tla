----------------------------- MODULE FrameChain -----------------------------
(***************************************************************************)
(* pkg/dataplane: Pipeline.Run wires the operators of one stream into a    *)
(* chain of bounded channels.  Around each operator run two forwarders     *)
(* that count frames for the metrics, one from chans[i] to instr, one from *)
(* outwrap to chans[i+1]; neither looks at ctx.  When an operator returns, *)
(* its goroutine closes outwrap, waits for the second forwarder, closes    *)
(* chans[i+1] and leaves the wait group.  dataplane-runner cancels ctx on  *)
(* a stop command and then closes the source.                              *)
(*                                                                         *)
(* Frames are their sequence numbers; what the operators do to a frame is  *)
(* in Dwell and FrameRing.  A receive on a select that could also see      *)
(* ctx.Done may be taken after the cancellation, as in Go.                 *)
(***************************************************************************)
EXTENDS Integers, Sequences, FiniteSets, SequencesExt

CONSTANTS Ops,         \* the kinds of the operators, the ingest first
          BufferSize,
          Frames,      \* IngestConfig.Total
          Step,        \* SourceFPS / TargetFPS of the sampler
          MaxUnsent    \* errors of the bus (bound)

ASSUME ChainAssumption ==
    /\ Ops \in Seq({"ingest", "sampler", "detect", "tracker", "rule", "redact", "emit"})
    /\ Len(Ops) > 0 /\ Ops[1] = "ingest"
    /\ BufferSize \in Nat \ {0} /\ Frames \in Nat \ {0} /\ Step \in Nat \ {0}
    /\ MaxUnsent \in Nat

VARIABLES chans,    \* chans[i], the channel before operator i, and one behind the last
          instr,    \* instr[i], what operator i reads
          outwrap,  \* outwrap[i], what it writes
          fwd,      \* the frame each of the two forwarders of i holds
          ops,      \* the operator's goroutine: its state and the frame in hand
          taken,    \* frames operator i has received (the sampler's counter)
          produced, \* frames the ingest has made
          cancelled,
          kept,     \* frames the last operator before emit passes on
          emitted,  \* frames emit has published the events of
          unsent,   \* frames it passed on although Publish had failed
          tail      \* the goroutine that drains the last channel has ended

chainVars == <<chans, instr, outwrap, fwd, ops, taken, produced, cancelled, kept, emitted, unsent, tail>>

N == Len(Ops)
NoFrame == 0
Channel == [buf |-> << >>, closed |-> FALSE]
CanSend(c) == Len(c.buf) < BufferSize
RunDry(c) == c.closed /\ c.buf = << >>
Sent(c, f) == [c EXCEPT !.buf = Append(@, f)]
Received(c) == [c EXCEPT !.buf = Tail(@)]

ChainInit ==
    /\ chans = [i \in 1..N + 1 |-> Channel]
    /\ instr = [i \in 1..N |-> Channel]
    /\ outwrap = [i \in 1..N |-> Channel]
    /\ fwd = [i \in 1..N |-> [in |-> NoFrame, out |-> NoFrame]]
    /\ ops = [i \in 1..N |-> [st |-> "running", frame |-> NoFrame]]
    /\ taken = [i \in 1..N |-> 0]
    /\ produced = 0
    /\ cancelled = FALSE
    /\ kept = << >> /\ emitted = << >> /\ unsent = {}
    /\ tail = FALSE

-----------------------------------------------------------------------------
(* for env := range in { instr <- env }                                    *)
ForwardIn(i) ==
    /\ \/ /\ fwd[i].in = NoFrame /\ chans[i].buf # << >>
          /\ fwd' = [fwd EXCEPT ![i].in = Head(chans[i].buf)]
          /\ chans' = [chans EXCEPT ![i] = Received(@)]
          /\ UNCHANGED instr
       \/ /\ fwd[i].in # NoFrame /\ CanSend(instr[i])
          /\ instr' = [instr EXCEPT ![i] = Sent(@, fwd[i].in)]
          /\ fwd' = [fwd EXCEPT ![i].in = NoFrame]
          /\ UNCHANGED chans
       \/ /\ fwd[i].in = NoFrame /\ RunDry(chans[i]) /\ ~instr[i].closed
          /\ instr' = [instr EXCEPT ![i].closed = TRUE]
          /\ UNCHANGED <<fwd, chans>>
    /\ UNCHANGED <<outwrap, ops, taken, produced, cancelled, kept, emitted, unsent, tail>>

(* for env := range outwrap { out <- env }                                 *)
ForwardOut(i) ==
    /\ \/ /\ fwd[i].out = NoFrame /\ outwrap[i].buf # << >>
          /\ fwd' = [fwd EXCEPT ![i].out = Head(outwrap[i].buf)]
          /\ outwrap' = [outwrap EXCEPT ![i] = Received(@)]
          /\ UNCHANGED chans
       \/ /\ fwd[i].out # NoFrame /\ CanSend(chans[i + 1])
          /\ chans' = [chans EXCEPT ![i + 1] = Sent(@, fwd[i].out)]
          /\ fwd' = [fwd EXCEPT ![i].out = NoFrame]
          /\ UNCHANGED outwrap
    /\ UNCHANGED <<instr, ops, taken, produced, cancelled, kept, emitted, unsent, tail>>

(* Operator i has returned from Run with nothing more to send.             *)
Returns(i) == ops' = [ops EXCEPT ![i] = [st |-> "returned", frame |-> NoFrame]]
Holding(i) == ops[i].st = "running" /\ ops[i].frame # NoFrame
Waiting(i) == ops[i].st = "running" /\ ops[i].frame = NoFrame

(* A tick of the ingest: the payload goes to the ring, the descriptor on.  *)
Produce(i) ==
    /\ Ops[i] = "ingest" /\ Waiting(i) /\ produced < Frames
    /\ produced' = produced + 1
    /\ ops' = [ops EXCEPT ![i].frame = produced + 1]
    /\ UNCHANGED <<chans, instr, outwrap, fwd, taken, cancelled, kept, emitted, unsent, tail>>

Exhausted(i) ==
    /\ Ops[i] = "ingest" /\ Waiting(i) /\ produced >= Frames
    /\ Returns(i)
    /\ UNCHANGED <<chans, instr, outwrap, fwd, taken, produced, cancelled, kept, emitted, unsent, tail>>

(* The other operators: what a received frame turns into.  The sampler     *)
(* passes every Step-th; detect skips a frame whose payload or inference   *)
(* failed; tracker, rule, redact and emit pass everything.                 *)
Outcomes(i, f) ==
    CASE Ops[i] = "sampler" -> IF taken[i] % Step = 0 THEN {f} ELSE {NoFrame}
      [] Ops[i] = "detect"  -> {f, NoFrame}
      [] OTHER              -> {f}

(* emit publishes the event of a frame before it passes the frame on.  An  *)
(* error of the bus is logged, and the frame passed on all the same.       *)
Published(i, f) ==
    \/ Ops[i] # "emit" /\ UNCHANGED <<emitted, unsent>>
    \/ Ops[i] = "emit" /\ emitted' = Append(emitted, f) /\ UNCHANGED unsent
    \/ Ops[i] = "emit" /\ Cardinality(unsent) < MaxUnsent
           /\ unsent' = unsent \cup {f} /\ UNCHANGED emitted

Take(i) ==
    /\ Ops[i] # "ingest" /\ Waiting(i) /\ instr[i].buf # << >>
    /\ \E f \in Outcomes(i, Head(instr[i].buf)) :
           /\ ops' = [ops EXCEPT ![i].frame = f]
           /\ kept' = IF i = N - 1 /\ f # NoFrame THEN Append(kept, f) ELSE kept
           /\ Published(i, f)
    /\ instr' = [instr EXCEPT ![i] = Received(@)]
    /\ taken' = [taken EXCEPT ![i] = @ + 1]
    /\ UNCHANGED <<chans, outwrap, fwd, produced, cancelled, tail>>

(* ErrUpstreamClosed, the normal end of the stream.                        *)
UpstreamClosed(i) ==
    /\ Ops[i] # "ingest" /\ Waiting(i) /\ RunDry(instr[i])
    /\ Returns(i)
    /\ UNCHANGED <<chans, instr, outwrap, fwd, taken, produced, cancelled, kept, emitted, unsent, tail>>

Send(i) ==
    /\ Holding(i) /\ CanSend(outwrap[i])
    /\ outwrap' = [outwrap EXCEPT ![i] = Sent(@, ops[i].frame)]
    /\ ops' = [ops EXCEPT ![i].frame = NoFrame]
    /\ UNCHANGED <<chans, instr, fwd, taken, produced, cancelled, kept, emitted, unsent, tail>>

(* ctx.Done in either select: the frame in hand is gone.                   *)
Abort(i) ==
    /\ cancelled /\ ops[i].st = "running"
    /\ Returns(i)
    /\ UNCHANGED <<chans, instr, outwrap, fwd, taken, produced, cancelled, kept, emitted, unsent, tail>>

CloseOutput(i) ==
    /\ ops[i].st = "returned"
    /\ outwrap' = [outwrap EXCEPT ![i].closed = TRUE]
    /\ ops' = [ops EXCEPT ![i].st = "closing"]
    /\ UNCHANGED <<chans, instr, fwd, taken, produced, cancelled, kept, emitted, unsent, tail>>

(* Mutant: <-done is forgotten. *)
LeaveEarly(i) ==
    /\ ops[i].st = "closing"
    /\ chans' = [chans EXCEPT ![i + 1].closed = TRUE]
    /\ ops' = [ops EXCEPT ![i].st = "done"]
    /\ UNCHANGED <<instr, outwrap, fwd, taken, produced, cancelled, kept, emitted, unsent, tail>>

(* <-done, then the deferred close(chans[i+1]) and wg.Done.                *)
Leave(i) ==
    /\ ops[i].st = "closing" /\ RunDry(outwrap[i]) /\ fwd[i].out = NoFrame
    /\ chans' = [chans EXCEPT ![i + 1].closed = TRUE]
    /\ ops' = [ops EXCEPT ![i].st = "done"]
    /\ UNCHANGED <<instr, outwrap, fwd, taken, produced, cancelled, kept, emitted, unsent, tail>>

(* for range chans[len(p.Operators)]                                       *)
DrainTail ==
    /\ \/ /\ chans[N + 1].buf # << >>
          /\ chans' = [chans EXCEPT ![N + 1] = Received(@)]
          /\ UNCHANGED tail
       \/ /\ RunDry(chans[N + 1]) /\ ~tail
          /\ tail' = TRUE
          /\ UNCHANGED chans
    /\ UNCHANGED <<instr, outwrap, fwd, ops, taken, produced, cancelled, kept, emitted, unsent>>

(* The runner's stop: cancel(), and the goroutine that closes the source.  *)
Cancel ==
    /\ ~cancelled
    /\ cancelled' = TRUE
    /\ UNCHANGED <<chans, instr, outwrap, fwd, ops, taken, produced, kept, emitted, unsent, tail>>

CloseSource ==
    /\ cancelled /\ ~chans[1].closed
    /\ chans' = [chans EXCEPT ![1].closed = TRUE]
    /\ UNCHANGED <<instr, outwrap, fwd, ops, taken, produced, cancelled, kept, emitted, unsent, tail>>

Goroutine(i) ==
    \/ ForwardIn(i) \/ ForwardOut(i)
    \/ Produce(i) \/ Exhausted(i)
    \/ Take(i) \/ Send(i) \/ UpstreamClosed(i)
    \/ Abort(i) \/ CloseOutput(i) \/ Leave(i)

Run == (\E i \in 1..N : Goroutine(i)) \/ DrainTail \/ CloseSource

ChainNext == Run \/ Cancel

(* The Go scheduler runs a goroutine that can run.  No step can be undone, *)
(* so it is enough that some goroutine runs while one can.                 *)
ChainFairness == WF_chainVars(Run)

ChainSpec == ChainInit /\ [][ChainNext]_chainVars /\ ChainFairness

-----------------------------------------------------------------------------
(* wait() returns when every operator and the tail have left the group.    *)
Waited == tail /\ \A i \in 1..N : ops[i].st = "done"

(* A stream that ends by itself ends clean: once begun, and unless it is   *)
(* cancelled, wait() returns, and of the frames that were kept each was    *)
(* handed to the bus once: those it took are published in order, although  *)
(* each operator closes its output while frames are still in two channels  *)
(* and two forwarders behind it.  Those it refused are gone: emit logs the *)
(* error and nothing tries again.                                          *)
StreamEndsClean ==
    (produced > 0) ~>
        (cancelled \/ (Waited /\ emitted = SelectSeq(kept, LAMBDA f : f \notin unsent)))

(* runtime.go: wait "blocks until every operator exits or ctx is           *)
(* canceled".                                                              *)
WaitReturns == cancelled ~> Waited

=============================================================================
