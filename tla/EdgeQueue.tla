------------------------------ MODULE EdgeQueue ------------------------------
(***************************************************************************)
(* The edge gateway's store-and-forward queue                              *)
(* (services/edge-gateway/internal/queue/queue.go) with the forwarder that *)
(* drains it to the core bus (cmd/edge-gateway/main.go) and the NATS       *)
(* connection one drain opens (pkg/bus/nats.go).                           *)
(*                                                                         *)
(* Every Queue method runs under q.mu, so Put, Peek and AckThrough are     *)
(* single steps; Drain holds the lock only inside Peek and AckThrough, so  *)
(* the 2 s ticker and any number of POST /v1/queue:flush requests drain    *)
(* concurrently.  A message is a model value with a payload size; a queue  *)
(* file is what replay() tells apart: the declared data length and the     *)
(* number of bytes that reached the file.                                  *)
(***************************************************************************)
EXTENDS Integers, FiniteSets, Functions

CONSTANTS
  Msgs,       \* payloads POSTed to /v1/forward
  Size,       \* Size[m]: len(data) of payload m
  SubjectLen, \* len(subject), the same for all payloads
  Drainers,   \* concurrent FlushNow calls: the ticker and operator flushes
  MaxItems,   \* AEGIS_QUEUE_MAX_ITEMS
  MaxBytes,   \* AEGIS_QUEUE_MAX_BYTES
  BatchSize,  \* the 64 of Drain's Peek(64)
  MaxFaults   \* bound on crashes, disk errors, link drops and aborted drains

ASSUME EdgeQueueAssumption ==
  /\ Size \in [Msgs -> Nat]
  /\ SubjectLen \in Nat \ {0} /\ SubjectLen < 65530
  /\ MaxItems \in Nat \ {0}
  /\ MaxBytes \in Nat
  /\ BatchSize \in Nat \ {0}
  /\ MaxFaults \in Nat

VARIABLES
  disk,      \* the files of q.dir: seq -> [msg, len, body]
  items,     \* q.items, which is ordered by seq: seq -> [msg, len, whole]
  next,      \* q.next
  curBytes,  \* q.curBytes
  up,        \* the process runs
  pc,        \* per FlushNow call: where it is
  batch,     \* ... Drain's batch, what is left of it: seq -> item
  lastAck,   \* ... Drain's lastAck
  link,      \* ... its NATS connection is established
  buf,       \* ... that connection's outbound buffer
  core,      \* deliveries that reached the core bus
  accepted,  \* history: [msg, seq] answered 202 Accepted
  evicted,   \* history: payloads removed by dropExcessLocked
  published, \* history: payloads handed to nc.Publish, which returned nil
  faults

queue   == <<disk, items, next, curBytes>>
drains  == <<pc, batch, lastAck, link, buf>>
history == <<accepted, evicted, published>>
vars    == <<queue, up, drains, core, history, faults>>

Seqs      == Nat \ {0}
Files     == [msg : Msgs, len : Nat, body : Nat]
ItemSet   == [msg : Msgs, len : Nat, whole : BOOLEAN]
HeaderLen == 6 + SubjectLen            \* u16 + subject + u32
NoItems   == [s \in {} |-> 0]

Bytes(its) == SumFunction([s \in DOMAIN its |-> its[s].len])

-----------------------------------------------------------------------------
(* replay(): which files are queued again, and as what.                    *)

U16(n) == n % 65536

\* body[6+sl : 6+sl+uint16(dl)], all three sums computed in uint16.
SliceLo    == U16(HeaderLen)
SliceHi(f) == U16(SliceLo + U16(f.len))

\* os.ReadFile returns a slice of capacity max(512, size+1); slicing past the
\* capacity, or with low > high, panics.
ReadCap(f)  == IF f.body + 1 > 512 THEN f.body + 1 ELSE 512

\* Mutant: the length guard counts the data as missing.
SkippedWhenComplete(f) == f.body <= HeaderLen + f.len
Skipped(f)  == f.body < HeaderLen
Panics(f)   == ~Skipped(f) /\ (SliceHi(f) < SliceLo \/ SliceHi(f) > ReadCap(f))
Whole(f)    == f.body = HeaderLen + f.len
Replayed(f) == [msg |-> f.msg, len |-> SliceHi(f) - SliceLo,
                whole |-> Whole(f) /\ SliceHi(f) - SliceLo = f.len]

ReplayedSeqs == {s \in DOMAIN disk : ~Skipped(disk[s])}

\* Mutant: replay() does not carry q.next over the restart.
NextNotRestored(n) == n = 0
IsReplayNext(n) == /\ n \in ReplayedSeqs \cup {0}
                   /\ \A s \in ReplayedSeqs : s <= n

-----------------------------------------------------------------------------
(* Queue.Put, reached from POST /v1/forward and /v1/forward:batch.         *)

FileOf(m, b) == [msg |-> m, len |-> Size[m], body |-> b]
ItemOf(m)    == [msg |-> m, len |-> Size[m], whole |-> TRUE]

\* Where a failing write can stop, as replay() tells the outcomes apart.
Cuts(m) == {0, HeaderLen, HeaderLen + Size[m]}

\* dropExcessLocked: the oldest items go until both caps hold.
DropsThrough(its, bytes, k) ==
  LET Gone(j) == {s \in DOMAIN its : s <= j}
      Fits(j) == /\ Cardinality(DOMAIN its \ Gone(j)) <= MaxItems
                 /\ bytes - Bytes(Restrict(its, Gone(j))) <= MaxBytes
  IN  Fits(k) /\ \A j \in DOMAIN its \cup {0} : j < k => ~Fits(j)

\* The list with a new item at its end.
WithItem(m) == [s \in DOMAIN items \cup {next + 1} |->
                  IF s = next + 1 THEN ItemOf(m) ELSE items[s]]

Put(m) ==
  LET seq   == next + 1
      its   == WithItem(m)
      bytes == curBytes + Size[m]
  IN
  /\ up
  /\ m \notin {a.msg : a \in accepted}
  /\ seq \notin DOMAIN disk                       \* O_EXCL
  /\ \E k \in DOMAIN its \cup {0} :
       LET gone == {s \in DOMAIN its : s <= k} IN
       /\ DropsThrough(its, bytes, k)
       /\ items' = Restrict(its, DOMAIN its \ gone)
       /\ curBytes' = bytes - Bytes(Restrict(its, gone))
       /\ disk' = [s \in (DOMAIN disk \cup {seq}) \ gone |->
                     IF s = seq THEN FileOf(m, HeaderLen + Size[m]) ELSE disk[s]]
       /\ evicted' = evicted \cup {its[s].msg : s \in gone}
  /\ next' = seq
  /\ accepted' = accepted \cup {[msg |-> m, seq |-> seq]}
  /\ UNCHANGED <<up, drains, core, published, faults>>

RolledBack(n) == n - 1

\* persist() got as far as b bytes of a new file.
Persisted(m, b) ==
  /\ up
  /\ m \notin {a.msg : a \in accepted}
  /\ next + 1 \notin DOMAIN disk
  /\ disk' = [s \in DOMAIN disk \cup {next + 1} |->
                IF s = next + 1 THEN FileOf(m, b) ELSE disk[s]]

\* persist() fails after OpenFile: next is rolled back, the file stays.
PutFails(m, b) ==
  /\ Persisted(m, b)
  /\ faults < MaxFaults
  /\ next' = RolledBack(next + 1)
  /\ faults' = faults + 1
  /\ UNCHANGED <<items, curBytes, up, drains, core, history>>

-----------------------------------------------------------------------------
(* FlushNow: Connect, then Queue.Drain, then Close.                        *)

StartFlush(d) ==
  /\ up
  /\ pc[d] = "idle"
  /\ pc' = [pc EXCEPT ![d] = "peek"]
  /\ link' = [link EXCEPT ![d] = TRUE]
  /\ UNCHANGED <<queue, up, batch, lastAck, buf, core, history, faults>>

\* The n oldest queued items.
Oldest(n) == {s \in DOMAIN items :
                Cardinality({t \in DOMAIN items : t < s}) < n}

Peek(d) ==
  /\ pc[d] = "peek"
  /\ DOMAIN items # {}
  /\ pc' = [pc EXCEPT ![d] = "publish"]
  /\ batch' = [batch EXCEPT ![d] = Restrict(items, Oldest(BatchSize))]
  /\ lastAck' = [lastAck EXCEPT ![d] = 0]
  /\ UNCHANGED <<queue, up, link, buf, core, history, faults>>

\* The oldest item left in the batch goes to NATSConn.Publish, which puts it in
\* the client's outbound buffer; the message carries Subject and Data, not Seq.
Publish(d) ==
  /\ pc[d] = "publish"
  /\ \E s \in DOMAIN batch[d] :
       /\ \A t \in DOMAIN batch[d] : s <= t
       /\ batch' = [batch EXCEPT ![d] = Restrict(@, DOMAIN @ \ {s})]
       /\ lastAck' = [lastAck EXCEPT ![d] = s]
       /\ buf' = [buf EXCEPT ![d] = @ \cup {batch[d][s]}]
       /\ published' = published \cup {batch[d][s].msg}
  /\ UNCHANGED <<queue, up, pc, link, core, accepted, evicted, faults>>

\* AckThrough: every queued item with seq <= upTo goes, and its file.
\* Mutant: the binary search is off by one.
AckedOneTooMany(upTo) == {s \in DOMAIN items : s <= upTo + 1}
AckedSeqs(upTo) == {s \in DOMAIN items : s <= upTo}

\* Mutant: the acknowledged bytes are not given back.
AckKeepsBytes(upTo) ==
  LET gone == AckedSeqs(upTo) IN
  /\ items' = Restrict(items, DOMAIN items \ gone)
  /\ disk' = Restrict(disk, DOMAIN disk \ gone)
  /\ UNCHANGED <<curBytes, next>>

AckThrough(upTo) ==
  LET gone == AckedSeqs(upTo) IN
  /\ items' = Restrict(items, DOMAIN items \ gone)
  /\ disk' = Restrict(disk, DOMAIN disk \ gone)
  /\ curBytes' = curBytes - Bytes(Restrict(items, gone))
  /\ UNCHANGED next

AckBatch(d) ==
  /\ pc[d] = "publish"
  /\ DOMAIN batch[d] = {}
  /\ AckThrough(lastAck[d])
  /\ pc' = [pc EXCEPT ![d] = "peek"]
  /\ UNCHANGED <<up, batch, lastAck, link, buf, core, history, faults>>

\* nc.Close(): what is buffered reaches the core only over a live link.
Close(d) ==
  /\ core' = core \cup (IF link[d] THEN buf[d] ELSE {})
  /\ pc' = [pc EXCEPT ![d] = "idle"]
  /\ batch' = [batch EXCEPT ![d] = NoItems]
  /\ lastAck' = [lastAck EXCEPT ![d] = 0]
  /\ link' = [link EXCEPT ![d] = FALSE]
  /\ buf' = [buf EXCEPT ![d] = {}]

FlushDone(d) ==
  /\ pc[d] = "peek"
  /\ DOMAIN items = {}
  /\ Close(d)
  /\ UNCHANGED <<queue, up, history, faults>>

\* Publish fails or the context is cancelled: ack what was published, stop.
FlushAborts(d) ==
  /\ pc[d] = "publish"
  /\ DOMAIN batch[d] # {}
  /\ faults < MaxFaults
  /\ AckThrough(lastAck[d])
  /\ Close(d)
  /\ faults' = faults + 1
  /\ UNCHANGED <<up, history>>

-----------------------------------------------------------------------------
(* The environment: the NATS client's flusher, the link, the process.      *)

LinkFlush(d) ==
  /\ link[d]
  /\ buf[d] # {}
  /\ core' = core \cup buf[d]
  /\ buf' = [buf EXCEPT ![d] = {}]
  /\ UNCHANGED <<queue, up, pc, batch, lastAck, link, history, faults>>

LinkDrop(d) ==
  /\ link[d]
  /\ faults < MaxFaults
  /\ link' = [link EXCEPT ![d] = FALSE]
  /\ faults' = faults + 1
  /\ UNCHANGED <<queue, up, pc, batch, lastAck, buf, core, history>>

\* MaxReconnects(-1): the client reconnects and keeps its buffer.
LinkReconnect(d) ==
  /\ pc[d] # "idle"
  /\ ~link[d]
  /\ link' = [link EXCEPT ![d] = TRUE]
  /\ UNCHANGED <<queue, up, pc, batch, lastAck, buf, core, history, faults>>

NoDrains ==
  /\ pc = [d \in Drainers |-> "idle"]
  /\ batch = [d \in Drainers |-> NoItems]
  /\ lastAck = [d \in Drainers |-> 0]
  /\ link = [d \in Drainers |-> FALSE]
  /\ buf = [d \in Drainers |-> {}]

ProcessDies ==
  /\ up
  /\ faults < MaxFaults
  /\ up' = FALSE
  /\ items' = NoItems
  /\ next' = 0
  /\ curBytes' = 0
  /\ pc' = [d \in Drainers |-> "idle"]
  /\ batch' = [d \in Drainers |-> NoItems]
  /\ lastAck' = [d \in Drainers |-> 0]
  /\ link' = [d \in Drainers |-> FALSE]
  /\ buf' = [d \in Drainers |-> {}]
  /\ faults' = faults + 1
  /\ UNCHANGED <<core, accepted, published>>

Crash == ProcessDies /\ UNCHANGED <<disk, evicted>>

\* The process dies inside Put, before the 202: the file stays as far as it got.
CrashInPut(m, b) == ProcessDies /\ Persisted(m, b) /\ UNCHANGED evicted

\* The process dies inside Put's dropExcessLocked, after the removals up to k
\* and before the 202.
CrashInEviction(m, k) ==
  LET its  == WithItem(m)
      gone == {s \in DOMAIN its : s <= k}
  IN
  /\ ProcessDies
  /\ m \notin {a.msg : a \in accepted}
  /\ next + 1 \notin DOMAIN disk
  /\ k \in DOMAIN its
  /\ \E last \in DOMAIN its :
       k <= last /\ DropsThrough(its, curBytes + Size[m], last)
  /\ disk' = [s \in (DOMAIN disk \cup {next + 1}) \ gone |->
                IF s = next + 1 THEN FileOf(m, HeaderLen + Size[m]) ELSE disk[s]]
  /\ evicted' = evicted \cup {its[s].msg : s \in gone}

\* The process dies inside AckThrough's loop, after the removals up to k.
CrashInAck(d, k) ==
  /\ pc[d] = "publish"
  /\ k \in AckedSeqs(lastAck[d])
  /\ ProcessDies
  /\ disk' = Restrict(disk, DOMAIN disk \ AckedSeqs(k))
  /\ UNCHANGED evicted

\* queue.New: replay() rebuilds the list; a panic leaves the process down.
Boot ==
  /\ ~up
  /\ \A s \in DOMAIN disk : ~Panics(disk[s])
  /\ up' = TRUE
  /\ items' = [s \in ReplayedSeqs |-> Replayed(disk[s])]
  /\ \E n \in ReplayedSeqs \cup {0} : IsReplayNext(n) /\ next' = n
  /\ curBytes' = Bytes(items')
  /\ UNCHANGED <<disk, drains, core, history, faults>>

-----------------------------------------------------------------------------
Init ==
  /\ disk = NoItems
  /\ items = NoItems
  /\ next = 0
  /\ curBytes = 0
  /\ up = TRUE
  /\ NoDrains
  /\ core = {}
  /\ accepted = {}
  /\ evicted = {}
  /\ published = {}
  /\ faults = 0

DrainStep(d) ==
  \/ StartFlush(d)
  \/ Peek(d)
  \/ Publish(d)
  \/ AckBatch(d)
  \/ FlushDone(d)

Next ==
  \/ \E m \in Msgs : Put(m)
  \/ \E m \in Msgs : \E b \in Cuts(m) : PutFails(m, b)
  \/ \E d \in Drainers : DrainStep(d)
  \/ \E d \in Drainers : FlushAborts(d)
  \/ \E d \in Drainers : LinkFlush(d)
  \/ \E d \in Drainers : LinkDrop(d)
  \/ \E d \in Drainers : LinkReconnect(d)
  \/ \E m \in Msgs : \E b \in Cuts(m) : CrashInPut(m, b)
  \/ \E m \in Msgs : \E k \in DOMAIN items \cup {next + 1} : CrashInEviction(m, k)
  \/ \E d \in Drainers : \E k \in DOMAIN items : CrashInAck(d, k)
  \/ Crash
  \/ Boot

Spec == Init /\ [][Next]_vars

\* The ticker goroutine keeps calling FlushNow while the process runs, and the
\* orchestrator restarts a dead pod; producers and the link get no fairness.
FairSpec ==
  /\ Spec
  /\ WF_vars(Boot)
  /\ \A d \in Drainers : WF_vars(DrainStep(d))

-----------------------------------------------------------------------------
(* Properties.                                                             *)

\* The shape of the state; curBytes is pinned down by BytesAccounted.
TypeOK ==
  /\ DOMAIN disk \in SUBSET Seqs
  /\ \A s \in DOMAIN disk : disk[s] \in Files
  /\ DOMAIN items \in SUBSET Seqs
  /\ \A s \in DOMAIN items : items[s] \in ItemSet
  /\ next \in Nat
  /\ up \in BOOLEAN
  /\ pc \in [Drainers -> {"idle", "peek", "publish"}]
  /\ DOMAIN batch = Drainers
  /\ \A d \in Drainers : /\ DOMAIN batch[d] \in SUBSET Seqs
                         /\ \A s \in DOMAIN batch[d] : batch[d][s] \in ItemSet
  /\ lastAck \in [Drainers -> Nat]
  /\ link \in [Drainers -> BOOLEAN]
  /\ buf \in [Drainers -> SUBSET ItemSet]
  /\ core \in SUBSET ItemSet
  /\ accepted \in SUBSET [msg : Msgs, seq : Seqs]
  /\ evicted \in SUBSET Msgs
  /\ published \in SUBSET Msgs
  /\ faults \in Nat

\* A payload answered 202 (Put returned a seq) is never dropped silently: its
\* complete file is still in the queue directory, or the cap evicted it, or it
\* was handed to the bus.  Across crashes, torn writes, concurrent drains.
OnDisk(a) == a.seq \in DOMAIN disk /\ disk[a.seq].msg = a.msg /\ Whole(disk[a.seq])

NoSilentLoss ==
  \A a \in accepted :
    OnDisk(a) \/ a.msg \in evicted \/ a.msg \in published

\* q.curBytes, kept by increments in Put, AckThrough, replay and
\* dropExcessLocked, is the size of what is queued.
BytesAccounted == up => curBytes = Bytes(items)

\* While the gateway runs, every queued item has its file, and a file that is
\* not queued (left by a failed persist or skipped by replay) is ahead of
\* q.next: it never hides behind acknowledged sequence numbers.
MemoryMatchesDisk ==
  up => /\ DOMAIN items \subseteq DOMAIN disk
        /\ \A s \in DOMAIN disk \ DOMAIN items : s > next
        /\ \A s \in DOMAIN items : s <= next

\* A torn write of a payload that does not fit behind its header into the 512
\* bytes ReadFile allocates, or a length that wraps, makes replay panic: the
\* process is down and every restart dies on the same file.
BootLoop == ~up /\ \E s \in DOMAIN disk : Panics(disk[s])

\* Every accepted payload is eventually handed to the bus or evicted: the
\* ticker's drain gets to it in spite of crashes, torn writes, failed Puts and
\* aborted drains.  The one way out is a gateway that can never boot again,
\* with the payload in a directory nobody reads (queue.go:199).
EventuallyForwarded ==
  \A m \in Msgs :
    m \in {a.msg : a \in accepted} ~> m \in evicted \cup published \/ BootLoop

-----------------------------------------------------------------------------
(* What the comments of queue.go promise and the code does not keep.       *)

InTransit == UNION {buf[d] : d \in Drainers}

\* queue.go:6 "at-least-once delivery": an accepted payload that is gone from
\* the queue reached the core, or still can over a connection that is open,
\* and it is the payload that was accepted, all of it.
AtLeastOnce ==
  \A a \in accepted :
    \/ OnDisk(a)
    \/ a.msg \in evicted
    \/ \E i \in core \cup InTransit : i.msg = a.msg /\ i.whole
=============================================================================
