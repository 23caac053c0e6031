--------------------------- MODULE EdgeQueueProofs ---------------------------
(***************************************************************************)
(* EdgeQueue, for every set of payloads and drainers, every size and cap:  *)
(* the state keeps its shape, memory and disk agree, no payload that was   *)
(* answered 202 disappears without being evicted or published, and         *)
(* curBytes is the size of what is queued.                                 *)
(***************************************************************************)
EXTENDS EdgeQueue, SetSums

\* A queued item is the message of its file; a dead process holds none.
ItemsAreFiles ==
  /\ IsFiniteSet(DOMAIN disk)
  /\ IsFiniteSet(DOMAIN items)
  /\ \A s \in DOMAIN items : items[s].msg = disk[s].msg
  /\ ~up => DOMAIN items = {} /\ \A d \in Drainers : pc[d] = "idle"

\* What a drain may acknowledge: everything up to lastAck was published, and
\* whatever is queued below a batch element is in the batch too.
DrainSound(d) ==
  pc[d] = "publish" =>
    /\ lastAck[d] <= next
    /\ \A s \in DOMAIN batch[d] : s <= next
    /\ \A t \in DOMAIN items : t <= lastAck[d] => items[t].msg \in published
    /\ \A t \in DOMAIN items : \A s \in DOMAIN batch[d] :
         t <= s => \/ items[t].msg \in published
                   \/ t \in DOMAIN batch[d] /\ batch[d][t].msg = items[t].msg

\* A file replay() skips is newer than every file it reads, and a readable file
\* that is not queued is the one a failed persist() left at next + 1: no Put
\* gets past it.
DiskShape ==
  /\ \A s, t \in DOMAIN disk : Skipped(disk[s]) /\ ~Skipped(disk[t]) => t < s
  /\ \A s \in DOMAIN items : ~Skipped(disk[s])
  /\ up => \A s \in DOMAIN disk \ DOMAIN items : ~Skipped(disk[s]) => s = next + 1

IInv ==
  /\ TypeOK
  /\ MemoryMatchesDisk
  /\ ItemsAreFiles
  /\ \A d \in Drainers : DrainSound(d)
  /\ DiskShape
  /\ NoSilentLoss

-----------------------------------------------------------------------------
\* What the proofs use of the constants.
LEMMA ConstantFacts ==
  /\ \A m \in Msgs : Size[m] \in Nat
  /\ HeaderLen \in Nat /\ HeaderLen > 0
  /\ BatchSize \in Nat
<1>1. \A m \in Msgs : Size[m] \in Nat
  BY EdgeQueueAssumption
<1>2. SubjectLen \in Nat
  BY EdgeQueueAssumption
<1>3. HeaderLen \in Nat /\ HeaderLen > 0
  BY <1>2 DEF HeaderLen
<1>4. BatchSize \in Nat
  BY EdgeQueueAssumption
<1>5. QED
  BY <1>1, <1>3, <1>4

\* Restrict (Functions) keeps the values of the elements it keeps.
LEMMA RestrictFacts ==
  ASSUME NEW f, NEW S
  PROVE  /\ DOMAIN Restrict(f, S) = S
         /\ \A x \in S : Restrict(f, S)[x] = f[x]
BY DEF Restrict

\* replay()'s slice has a natural length unless it panics.
LEMMA ReplayedType ==
  ASSUME NEW f \in Files, ~Panics(f), ~Skipped(f)
  PROVE  Replayed(f) \in ItemSet /\ Replayed(f).msg = f.msg
<1>1. SliceLo \in Nat /\ SliceHi(f) \in Nat
  <2>1. HeaderLen \in Nat /\ f.len \in Nat
    BY ConstantFacts DEF Files
  <2>2. \A n \in Nat : U16(n) \in Nat
    BY DEF U16
  <2>3. SliceLo \in Nat /\ U16(f.len) \in Nat
    BY <2>1, <2>2 DEF SliceLo
  <2>4. QED
    BY <2>2, <2>3 DEF SliceHi
<1>2. SliceHi(f) - SliceLo \in Nat
  BY <1>1 DEF Panics
<1>3. QED
  BY <1>2 DEF Replayed, ItemSet, Files, Whole

LEMMA InitIInv == Init => IInv
<1> SUFFICES ASSUME Init PROVE IInv
  OBVIOUS
<1>1. DOMAIN NoItems = {}
  BY DEF NoItems
<1>2. TypeOK
  <2>1. /\ pc \in [Drainers -> {"idle", "peek", "publish"}]
        /\ lastAck \in [Drainers -> Nat]
        /\ link \in [Drainers -> BOOLEAN]
        /\ buf \in [Drainers -> SUBSET ItemSet]
    BY DEF Init, NoDrains
  <2>2. DOMAIN batch = Drainers /\ \A d \in Drainers : DOMAIN batch[d] = {}
    BY <1>1 DEF Init, NoDrains
  <2>3. DOMAIN disk = {} /\ DOMAIN items = {} /\ next = 0 /\ faults = 0 /\ up \in BOOLEAN
    BY <1>1 DEF Init
  <2>4. core = {} /\ accepted = {} /\ evicted = {} /\ published = {}
    BY DEF Init
  <2>5. QED
    BY <2>1, <2>2, <2>3, <2>4 DEF TypeOK
<1>3. MemoryMatchesDisk /\ ItemsAreFiles /\ DiskShape
  BY <1>1, FS_EmptySet DEF Init, NoDrains, MemoryMatchesDisk, ItemsAreFiles, DiskShape
<1>4. (\A d \in Drainers : DrainSound(d)) /\ NoSilentLoss
  BY <1>1 DEF Init, NoDrains, DrainSound, NoSilentLoss
<1>5. QED
  BY <1>2, <1>3, <1>4 DEF IInv

-----------------------------------------------------------------------------
\* Put: the new sequence number is ahead of every batch and every ack.
LEMMA PutStep ==
  ASSUME IInv, NEW m \in Msgs, Put(m)
  PROVE  IInv'
<1> DEFINE seq  == next + 1
           its  == [s \in DOMAIN items \cup {seq} |->
                      IF s = seq THEN ItemOf(m) ELSE items[s]]
           gone(k) == {s \in DOMAIN its : s <= k}
<1>1. PICK k \in DOMAIN its \cup {0} :
        /\ items' = Restrict(its, DOMAIN its \ gone(k))
        /\ disk' = [s \in (DOMAIN disk \cup {seq}) \ gone(k) |->
                      IF s = seq THEN FileOf(m, HeaderLen + Size[m]) ELSE disk[s]]
        /\ evicted' = evicted \cup {its[s].msg : s \in gone(k)}
  BY DEF Put, WithItem
<1>2. /\ up /\ up' /\ next' = seq /\ seq \notin DOMAIN disk
      /\ accepted' = accepted \cup {[msg |-> m, seq |-> seq]}
      /\ UNCHANGED <<up, pc, batch, lastAck, link, buf, core, published, faults>>
  BY DEF Put, drains
<1>3. TypeOK /\ MemoryMatchesDisk /\ ItemsAreFiles /\ NoSilentLoss
  BY DEF IInv
<1>4. /\ seq \in Seqs /\ next \in Nat /\ DOMAIN items \in SUBSET Seqs
      /\ DOMAIN disk \in SUBSET Seqs
      /\ \A s \in DOMAIN items : s < seq /\ s \in DOMAIN disk
  BY <1>2, <1>3 DEF TypeOK, MemoryMatchesDisk, Seqs
<1>5. /\ DOMAIN its = DOMAIN items \cup {seq}
      /\ its[seq] = ItemOf(m)
      /\ \A s \in DOMAIN items : its[s] = items[s]
  BY <1>4
<1>6. /\ ItemOf(m) \in ItemSet /\ ItemOf(m).msg = m
      /\ FileOf(m, HeaderLen + Size[m]) \in Files
      /\ FileOf(m, HeaderLen + Size[m]).msg = m
      /\ Whole(FileOf(m, HeaderLen + Size[m]))
  <2>1. Size[m] \in Nat /\ HeaderLen \in Nat
    BY ConstantFacts
  <2>2. QED
    BY <2>1 DEF ItemOf, ItemSet, FileOf, Files, Whole
<1>7. /\ DOMAIN items' = DOMAIN its \ gone(k)
      /\ \A s \in DOMAIN items' : items'[s] = its[s]
  <2> HIDE DEF its, gone
  <2>1. QED
    BY <1>1, RestrictFacts
<1>8. /\ DOMAIN disk' = (DOMAIN disk \cup {seq}) \ gone(k)
      /\ \A s \in DOMAIN disk' : disk'[s] =
           IF s = seq THEN FileOf(m, HeaderLen + Size[m]) ELSE disk[s]
  <2> HIDE DEF its, gone
  <2>1. QED
    BY <1>1
<1>9. \A s \in DOMAIN its : its[s] \in ItemSet
  BY <1>3, <1>5, <1>6 DEF TypeOK
<1> HIDE DEF its
<1>10. TypeOK'
  <2>1. DOMAIN disk' \in SUBSET Seqs /\ \A s \in DOMAIN disk' : disk'[s] \in Files
    BY <1>3, <1>4, <1>6, <1>8 DEF TypeOK
  <2>2. DOMAIN items' \in SUBSET Seqs /\ \A s \in DOMAIN items' : items'[s] \in ItemSet
    BY <1>4, <1>5, <1>7, <1>9
  <2>3. evicted' \in SUBSET Msgs
    BY <1>1, <1>3, <1>9 DEF TypeOK, ItemSet
  <2>4. accepted' \in SUBSET [msg : Msgs, seq : Seqs] /\ next' \in Nat
    BY <1>2, <1>3, <1>4 DEF TypeOK, Seqs
  <2>5. QED
    BY <1>2, <1>3, <2>1, <2>2, <2>3, <2>4 DEF TypeOK
<1>11. MemoryMatchesDisk'
  BY <1>2, <1>3, <1>4, <1>5, <1>7, <1>8 DEF MemoryMatchesDisk, Seqs
<1>12. ItemsAreFiles'
  <2>1. IsFiniteSet(DOMAIN disk \cup {seq}) /\ IsFiniteSet(DOMAIN items \cup {seq})
    BY <1>3, FS_AddElement DEF ItemsAreFiles
  <2>2. IsFiniteSet(DOMAIN disk') /\ IsFiniteSet(DOMAIN items')
    BY <2>1, <1>5, <1>7, <1>8, FS_Subset
  <2>3. \A s \in DOMAIN items' : items'[s].msg = disk'[s].msg
    BY <1>3, <1>4, <1>5, <1>6, <1>7, <1>8 DEF ItemsAreFiles
  <2>4. QED
    BY <1>2, <2>2, <2>3 DEF ItemsAreFiles
<1>13. ASSUME NEW d \in Drainers PROVE DrainSound(d)'
  <2>1. DrainSound(d)
    BY DEF IInv
  <2>2. \A t \in DOMAIN items' : (t \in DOMAIN items /\ items'[t] = items[t]) \/ t = seq
    BY <1>5, <1>7
  <2>3. /\ lastAck[d] \in Nat
        /\ DOMAIN batch[d] \in SUBSET Seqs
    BY <1>3 DEF TypeOK
  <2>4. QED
    BY <1>2, <1>4, <2>1, <2>2, <2>3 DEF DrainSound, Seqs
<1>14. NoSilentLoss'
  <2> SUFFICES ASSUME NEW a \in accepted'
               PROVE  OnDisk(a)' \/ a.msg \in evicted' \/ a.msg \in published'
    BY DEF NoSilentLoss
  <2>1. CASE a \in accepted
    <3>1. OnDisk(a) \/ a.msg \in evicted \/ a.msg \in published
      BY <2>1, <1>3 DEF NoSilentLoss
    <3>2. CASE OnDisk(a) /\ a.seq \notin gone(k)
      BY <3>2, <1>2, <1>8 DEF OnDisk
    <3>3. CASE OnDisk(a) /\ a.seq \in gone(k)
      <4>1. a.seq \in DOMAIN items /\ its[a.seq].msg = disk[a.seq].msg
        BY <3>3, <1>2, <1>3, <1>5 DEF OnDisk, ItemsAreFiles
      <4>2. QED
        BY <4>1, <3>3, <1>1 DEF OnDisk
    <3>4. QED
      BY <3>1, <3>2, <3>3, <1>1, <1>2
  <2>2. CASE a = [msg |-> m, seq |-> seq]
    <3>1. CASE seq \in gone(k)
      BY <3>1, <2>2, <1>1, <1>5, <1>6
    <3>2. CASE seq \notin gone(k)
      BY <3>2, <2>2, <1>6, <1>8 DEF OnDisk, Whole
    <3>3. QED
      BY <3>1, <3>2
  <2>3. QED
    BY <2>1, <2>2, <1>2
<1>15. DiskShape'
  <2>1. DiskShape
    BY DEF IInv
  <2>2. ~Skipped(FileOf(m, HeaderLen + Size[m]))
    BY ConstantFacts DEF Skipped, FileOf
  <2>3. \A s \in DOMAIN disk' : Skipped(disk'[s]) =>
          s \in DOMAIN disk /\ Skipped(disk[s]) /\ s > seq
    BY <2>1, <2>2, <1>2, <1>3, <1>4, <1>8 DEF DiskShape, MemoryMatchesDisk, Seqs
  <2>4. \A s \in DOMAIN disk' : ~Skipped(disk'[s]) =>
          s = seq \/ (s \in DOMAIN disk /\ ~Skipped(disk[s]))
    BY <1>8
  <2>5. \A s, t \in DOMAIN disk' : Skipped(disk'[s]) /\ ~Skipped(disk'[t]) => t < s
    BY <2>1, <2>3, <2>4 DEF DiskShape
  <2>6. \A s \in DOMAIN items' : ~Skipped(disk'[s])
    BY <2>1, <2>2, <1>4, <1>5, <1>7, <1>8 DEF DiskShape
  <2>7. \A s \in DOMAIN disk' \ DOMAIN items' : Skipped(disk'[s])
    BY <2>1, <1>2, <1>4, <1>5, <1>7, <1>8 DEF DiskShape
  <2>8. QED
    BY <2>5, <2>6, <2>7 DEF DiskShape
<1>16. QED
  BY <1>10, <1>11, <1>12, <1>13, <1>14, <1>15 DEF IInv

-----------------------------------------------------------------------------
\* A persist() that fails leaves one file, ahead of next.
LEMMA PutFailsStep ==
  ASSUME IInv, NEW m \in Msgs, NEW b \in Cuts(m), PutFails(m, b)
  PROVE  IInv'
<1>1. /\ up /\ next + 1 \notin DOMAIN disk
      /\ DOMAIN disk' = DOMAIN disk \cup {next + 1}
      /\ disk'[next + 1] = FileOf(m, b)
      /\ \A s \in DOMAIN disk : disk'[s] = disk[s]
      /\ faults' = faults + 1
      /\ UNCHANGED <<items, next, up, pc, batch, lastAck, link, buf, core,
                     accepted, evicted, published>>
  <2>1. next \in Nat
    BY DEF IInv, TypeOK
  <2>2. next' = next
    BY <2>1 DEF PutFails, Persisted, RolledBack
  <2>3. QED
    BY <2>2 DEF PutFails, Persisted, drains, history
<1>2. TypeOK /\ MemoryMatchesDisk /\ ItemsAreFiles /\ NoSilentLoss
  BY DEF IInv
<1>3. FileOf(m, b) \in Files
  BY ConstantFacts DEF Cuts, FileOf, Files
<1>4. next + 1 \in Seqs /\ next \in Nat
  BY <1>2 DEF TypeOK, Seqs
<1>5. TypeOK'
  BY <1>1, <1>2, <1>3, <1>4 DEF TypeOK
<1>6. MemoryMatchesDisk'
  BY <1>1, <1>2, <1>4 DEF MemoryMatchesDisk
<1>7. ItemsAreFiles'
  BY <1>1, <1>2, FS_AddElement DEF ItemsAreFiles, MemoryMatchesDisk
<1>8. ASSUME NEW d \in Drainers PROVE DrainSound(d)'
  BY <1>1 DEF IInv, DrainSound
<1>9. NoSilentLoss'
  BY <1>1, <1>2 DEF NoSilentLoss, OnDisk
<1>10. DiskShape'
  <2>1. DiskShape
    BY DEF IInv
  <2>2. \A s \in DOMAIN disk : ~Skipped(disk[s]) => s < next + 1
    BY <2>1, <1>1, <1>2, <1>4 DEF DiskShape, MemoryMatchesDisk, TypeOK, Seqs
  <2>3. \A s \in DOMAIN disk : Skipped(disk[s]) => s > next + 1
    BY <2>1, <1>1, <1>2, <1>4 DEF DiskShape, MemoryMatchesDisk, TypeOK, Seqs
  <2>4. \A s, t \in DOMAIN disk' : Skipped(disk'[s]) /\ ~Skipped(disk'[t]) => t < s
    BY <2>1, <2>2, <2>3, <1>1 DEF DiskShape
  <2>5. QED
    BY <2>1, <2>4, <1>1, <1>2 DEF DiskShape, MemoryMatchesDisk
<1>11. QED
  BY <1>5, <1>6, <1>7, <1>8, <1>9, <1>10 DEF IInv

\* Steps of a drain, its connection and the link that leave the queue alone and
\* bring no drain into its publish loop.
LEMMA QueueUntouched ==
  ASSUME IInv, NEW d \in Drainers,
         \/ StartFlush(d) \/ FlushDone(d)
         \/ LinkFlush(d) \/ LinkDrop(d) \/ LinkReconnect(d)
  PROVE  IInv'
<1>1. /\ UNCHANGED <<disk, items, next, up, accepted, evicted, published>>
  BY DEF StartFlush, FlushDone, LinkFlush, LinkDrop, LinkReconnect, queue, history
<1>2. TypeOK /\ MemoryMatchesDisk /\ ItemsAreFiles /\ NoSilentLoss
  BY DEF IInv
<1>3. DOMAIN NoItems = {}
  BY DEF NoItems
<1>4. TypeOK'
  <2>1. CASE StartFlush(d)
    BY <2>1, <1>1, <1>2 DEF StartFlush, TypeOK
  <2>2. CASE FlushDone(d)
    BY <2>2, <1>1, <1>2, <1>3 DEF FlushDone, Close, TypeOK
  <2>3. CASE LinkFlush(d)
    BY <2>3, <1>1, <1>2 DEF LinkFlush, TypeOK
  <2>4. CASE LinkDrop(d)
    BY <2>4, <1>1, <1>2 DEF LinkDrop, TypeOK
  <2>5. CASE LinkReconnect(d)
    BY <2>5, <1>1, <1>2 DEF LinkReconnect, TypeOK
  <2>6. QED
    BY <2>1, <2>2, <2>3, <2>4, <2>5
<1>5. MemoryMatchesDisk' /\ NoSilentLoss' /\ DiskShape'
  BY <1>1, <1>2 DEF IInv, MemoryMatchesDisk, NoSilentLoss, OnDisk, DiskShape
<1>6. ItemsAreFiles'
  BY <1>1, <1>2 DEF ItemsAreFiles, TypeOK, StartFlush, FlushDone, Close, LinkFlush,
                    LinkDrop, LinkReconnect
<1>7. ASSUME NEW e \in Drainers PROVE DrainSound(e)'
  <2>1. DrainSound(e)
    BY DEF IInv
  <2>2. pc'[e] = "publish" =>
          pc[e] = "publish" /\ batch'[e] = batch[e] /\ lastAck'[e] = lastAck[e]
    BY <1>2 DEF TypeOK, StartFlush, FlushDone, Close, LinkFlush, LinkDrop, LinkReconnect
  <2>3. QED
    BY <1>1, <2>1, <2>2 DEF DrainSound
<1>8. QED
  BY <1>4, <1>5, <1>6, <1>7 DEF IInv

\* Peek takes an initial segment of the queue.
LEMMA PeekStep ==
  ASSUME IInv, NEW d \in Drainers, Peek(d)
  PROVE  IInv'
<1> DEFINE B == Restrict(items, Oldest(BatchSize))
<1>1. /\ UNCHANGED <<disk, items, next, up, link, buf, core, accepted, evicted,
                     published, faults>>
      /\ pc[d] = "peek"
      /\ pc' = [pc EXCEPT ![d] = "publish"]
      /\ batch' = [batch EXCEPT ![d] = B]
      /\ lastAck' = [lastAck EXCEPT ![d] = 0]
  BY DEF Peek, queue, history
<1>2. TypeOK /\ MemoryMatchesDisk /\ ItemsAreFiles /\ NoSilentLoss
  BY DEF IInv
<1>3. DOMAIN B = Oldest(BatchSize) /\ \A s \in Oldest(BatchSize) : B[s] = items[s]
  BY RestrictFacts
<1> HIDE DEF B
<1>4. Oldest(BatchSize) \subseteq DOMAIN items
  BY DEF Oldest
<1>5. ASSUME NEW t \in DOMAIN items, NEW s \in Oldest(BatchSize), t <= s
      PROVE  t \in Oldest(BatchSize)
  <2> DEFINE Below(x) == {u \in DOMAIN items : u < x}
  <2>1. s \in Nat /\ t \in Nat /\ DOMAIN items \in SUBSET Nat
    BY <1>2, <1>4 DEF TypeOK, Seqs
  <2>2. IsFiniteSet(Below(s)) /\ IsFiniteSet(Below(t))
    BY <1>2, FS_Subset DEF ItemsAreFiles
  <2>3. Below(t) \in SUBSET Below(s)
    BY <1>5, <2>1
  <2>4. Cardinality(Below(t)) <= Cardinality(Below(s))
    BY <2>2, <2>3, FS_Subset
  <2>5. Cardinality(Below(t)) \in Nat /\ Cardinality(Below(s)) \in Nat
    BY <2>2, FS_CardinalityType
  <2>6. Cardinality(Below(s)) < BatchSize
    BY <1>5 DEF Oldest
  <2>7. Cardinality(Below(t)) < BatchSize
    BY <2>4, <2>5, <2>6, ConstantFacts
  <2>8. QED
    BY <2>7 DEF Oldest
<1>6. TypeOK'
  BY <1>1, <1>2, <1>3, <1>4 DEF TypeOK
<1>7. MemoryMatchesDisk' /\ NoSilentLoss' /\ DiskShape'
  BY <1>1, <1>2 DEF IInv, MemoryMatchesDisk, NoSilentLoss, OnDisk, DiskShape
<1>8. up
  BY <1>1, <1>2 DEF ItemsAreFiles
<1>9. ItemsAreFiles'
  BY <1>1, <1>2, <1>8 DEF ItemsAreFiles
<1>10. ASSUME NEW e \in Drainers PROVE DrainSound(e)'
  <2>1. CASE e # d
    BY <2>1, <1>1, <1>2 DEF IInv, DrainSound, TypeOK
  <2>2. CASE e = d
    <3>1. batch'[e] = B /\ lastAck'[e] = 0
      BY <2>2, <1>1, <1>2 DEF TypeOK
    <3>2. \A s \in DOMAIN items : s <= next /\ s \in Nat /\ s > 0
      BY <1>2, <1>8 DEF TypeOK, Seqs, MemoryMatchesDisk
    <3>3. next \in Nat
      BY <1>2 DEF TypeOK
    <3>4. QED
      BY <3>1, <3>2, <3>3, <1>1, <1>3, <1>4, <1>5 DEF DrainSound
  <2>3. QED
    BY <2>1, <2>2
<1>11. QED
  BY <1>6, <1>7, <1>9, <1>10 DEF IInv

\* Publishing the oldest element of the batch extends what may be acknowledged.
LEMMA PublishStep ==
  ASSUME IInv, NEW d \in Drainers, Publish(d)
  PROVE  IInv'
<1> DEFINE B(s) == Restrict(batch[d], DOMAIN batch[d] \ {s})
<1>1. PICK s \in DOMAIN batch[d] :
        /\ \A t \in DOMAIN batch[d] : s <= t
        /\ batch' = [batch EXCEPT ![d] = B(s)]
        /\ lastAck' = [lastAck EXCEPT ![d] = s]
        /\ buf' = [buf EXCEPT ![d] = @ \cup {batch[d][s]}]
        /\ published' = published \cup {batch[d][s].msg}
  BY DEF Publish
<1>2. /\ UNCHANGED <<disk, items, next, up, pc, link, core, accepted, evicted, faults>>
      /\ pc[d] = "publish"
  BY DEF Publish, queue
<1>3. TypeOK /\ MemoryMatchesDisk /\ ItemsAreFiles /\ NoSilentLoss
  BY DEF IInv
<1>4. /\ DOMAIN B(s) = DOMAIN batch[d] \ {s}
      /\ \A t \in DOMAIN B(s) : B(s)[t] = batch[d][t]
  BY RestrictFacts
<1> HIDE DEF B
<1>5. batch[d][s] \in ItemSet /\ batch[d][s].msg \in Msgs /\ s \in Seqs
  BY <1>3 DEF TypeOK, ItemSet
<1>6. TypeOK'
  <2>1. DOMAIN batch' = Drainers /\ lastAck' \in [Drainers -> Nat]
    BY <1>1, <1>3, <1>5 DEF TypeOK, Seqs
  <2>2. \A e \in Drainers : /\ DOMAIN batch'[e] \in SUBSET Seqs
                            /\ \A t \in DOMAIN batch'[e] : batch'[e][t] \in ItemSet
    BY <1>1, <1>3, <1>4 DEF TypeOK
  <2>3. buf' \in [Drainers -> SUBSET ItemSet] /\ published' \in SUBSET Msgs
    BY <1>1, <1>3, <1>5 DEF TypeOK
  <2>4. QED
    BY <1>2, <1>3, <2>1, <2>2, <2>3 DEF TypeOK
<1>7. MemoryMatchesDisk' /\ ItemsAreFiles' /\ NoSilentLoss' /\ DiskShape'
  BY <1>1, <1>2, <1>3 DEF IInv, MemoryMatchesDisk, ItemsAreFiles, NoSilentLoss, OnDisk,
                          DiskShape
<1>8. ASSUME NEW e \in Drainers PROVE DrainSound(e)'
  <2>1. CASE e # d
    BY <2>1, <1>1, <1>2, <1>3 DEF IInv, DrainSound, TypeOK
  <2>2. CASE e = d
    <3>1. batch'[e] = B(s) /\ lastAck'[e] = s
      BY <2>2, <1>1, <1>3 DEF TypeOK
    <3>2. DrainSound(d)
      BY DEF IInv
    <3>3. \A t \in DOMAIN items : t <= s => items[t].msg \in published'
      <4> SUFFICES ASSUME NEW t \in DOMAIN items, t <= s
                   PROVE  items[t].msg \in published'
        OBVIOUS
      <4>1. \/ items[t].msg \in published
            \/ t \in DOMAIN batch[d] /\ batch[d][t].msg = items[t].msg
        BY <3>2, <1>2 DEF DrainSound
      <4>2. t \in DOMAIN batch[d] => t = s
        BY <1>1, <1>3, <1>5 DEF TypeOK, Seqs
      <4>3. QED
        BY <4>1, <4>2, <1>1
    <3>4. \A t \in DOMAIN items : \A u \in DOMAIN B(s) :
            t <= u => \/ items[t].msg \in published'
                      \/ t \in DOMAIN B(s) /\ B(s)[t].msg = items[t].msg
      <4> SUFFICES ASSUME NEW t \in DOMAIN items, NEW u \in DOMAIN B(s), t <= u
                   PROVE  \/ items[t].msg \in published'
                          \/ t \in DOMAIN B(s) /\ B(s)[t].msg = items[t].msg
        OBVIOUS
      <4>1. \/ items[t].msg \in published
            \/ t \in DOMAIN batch[d] /\ batch[d][t].msg = items[t].msg
        BY <3>2, <1>2, <1>4 DEF DrainSound
      <4>2. QED
        BY <4>1, <1>1, <1>4
    <3>5. s <= next /\ \A u \in DOMAIN B(s) : u <= next
      BY <3>2, <1>2, <1>4 DEF DrainSound
    <3>6. QED
      BY <3>1, <3>3, <3>4, <3>5, <1>2 DEF DrainSound
  <2>3. QED
    BY <2>1, <2>2
<1>9. QED
  BY <1>6, <1>7, <1>8 DEF IInv

-----------------------------------------------------------------------------
\* AckThrough(lastAck) removes only items whose message was published.
LEMMA AckStep ==
  ASSUME IInv, NEW d \in Drainers, AckBatch(d) \/ FlushAborts(d)
  PROVE  IInv'
<1> DEFINE gone == AckedSeqs(lastAck[d])
<1>1. /\ pc[d] = "publish"
      /\ items' = Restrict(items, DOMAIN items \ gone)
      /\ disk' = Restrict(disk, DOMAIN disk \ gone)
      /\ UNCHANGED <<next, up, accepted, evicted, published>>
  BY DEF AckBatch, FlushAborts, AckThrough, history
<1>2. /\ DOMAIN items' = DOMAIN items \ gone
      /\ \A s \in DOMAIN items' : items'[s] = items[s]
      /\ DOMAIN disk' = DOMAIN disk \ gone
      /\ \A s \in DOMAIN disk' : disk'[s] = disk[s]
  <2> HIDE DEF gone
  <2>1. QED
    BY <1>1, RestrictFacts
<1>3. TypeOK /\ MemoryMatchesDisk /\ ItemsAreFiles /\ NoSilentLoss /\ DrainSound(d)
  BY DEF IInv
<1>4. gone \subseteq DOMAIN items /\ \A s \in gone : items[s].msg \in published
  BY <1>1, <1>3 DEF AckedSeqs, DrainSound
<1> HIDE DEF gone
<1>5. up
  BY <1>1, <1>3 DEF ItemsAreFiles
<1>6. DOMAIN NoItems = {}
  BY DEF NoItems
<1>7. TypeOK'
  <2>1. /\ DOMAIN disk' \in SUBSET Seqs
        /\ \A s \in DOMAIN disk' : disk'[s] \in Files
        /\ DOMAIN items' \in SUBSET Seqs
        /\ \A s \in DOMAIN items' : items'[s] \in ItemSet
    BY <1>2, <1>3 DEF TypeOK
  <2>2. CASE AckBatch(d)
    BY <2>1, <2>2, <1>1, <1>3 DEF AckBatch, TypeOK
  <2>3. CASE FlushAborts(d)
    <3>1. /\ core' = core \cup (IF link[d] THEN buf[d] ELSE {})
          /\ pc' = [pc EXCEPT ![d] = "idle"]
          /\ batch' = [batch EXCEPT ![d] = NoItems]
          /\ lastAck' = [lastAck EXCEPT ![d] = 0]
          /\ link' = [link EXCEPT ![d] = FALSE]
          /\ buf' = [buf EXCEPT ![d] = {}]
          /\ faults' = faults + 1
      BY <2>3 DEF FlushAborts, Close
    <3>2. core' \in SUBSET ItemSet /\ faults' \in Nat
      BY <3>1, <1>3 DEF TypeOK
    <3>3. /\ pc' \in [Drainers -> {"idle", "peek", "publish"}]
          /\ lastAck' \in [Drainers -> Nat]
          /\ link' \in [Drainers -> BOOLEAN]
          /\ buf' \in [Drainers -> SUBSET ItemSet]
      BY <3>1, <1>3 DEF TypeOK
    <3>4. /\ DOMAIN batch' = Drainers
          /\ \A e \in Drainers : /\ DOMAIN batch'[e] \in SUBSET Seqs
                                 /\ \A s \in DOMAIN batch'[e] : batch'[e][s] \in ItemSet
      BY <3>1, <1>3, <1>6 DEF TypeOK
    <3>5. QED
      BY <2>1, <3>2, <3>3, <3>4, <1>1, <1>3 DEF TypeOK
  <2>4. QED
    BY <2>2, <2>3
<1>8. MemoryMatchesDisk'
  BY <1>1, <1>2, <1>3, <1>4, <1>5 DEF MemoryMatchesDisk
<1>9. ItemsAreFiles'
  <2>1. IsFiniteSet(DOMAIN disk') /\ IsFiniteSet(DOMAIN items')
    BY <1>2, <1>3, FS_Subset DEF ItemsAreFiles
  <2>2. QED
    BY <2>1, <1>1, <1>2, <1>3, <1>5 DEF ItemsAreFiles, MemoryMatchesDisk
<1>10. ASSUME NEW e \in Drainers PROVE DrainSound(e)'
  <2>1. DrainSound(e)
    BY DEF IInv
  <2>2. pc'[e] = "publish" =>
          pc[e] = "publish" /\ batch'[e] = batch[e] /\ lastAck'[e] = lastAck[e]
    BY <1>3 DEF TypeOK, AckBatch, FlushAborts, Close
  <2>3. QED
    BY <2>1, <2>2, <1>1, <1>2 DEF DrainSound
<1>11. NoSilentLoss'
  <2> SUFFICES ASSUME NEW a \in accepted
               PROVE  OnDisk(a)' \/ a.msg \in evicted \/ a.msg \in published
    BY <1>1 DEF NoSilentLoss
  <2>1. OnDisk(a) \/ a.msg \in evicted \/ a.msg \in published
    BY <1>3 DEF NoSilentLoss
  <2>2. CASE OnDisk(a) /\ a.seq \notin gone
    BY <2>2, <1>2 DEF OnDisk
  <2>3. CASE OnDisk(a) /\ a.seq \in gone
    BY <2>3, <1>3, <1>4 DEF OnDisk, ItemsAreFiles
  <2>4. QED
    BY <2>1, <2>2, <2>3
<1>12. DiskShape'
  <2>1. DiskShape
    BY DEF IInv
  <2>2. \A s, t \in DOMAIN disk' : Skipped(disk'[s]) /\ ~Skipped(disk'[t]) => t < s
    BY <2>1, <1>2 DEF DiskShape
  <2>3. \A s \in DOMAIN items' : s \in DOMAIN disk'
    BY <1>2, <1>3, <1>5 DEF MemoryMatchesDisk
  <2>4. \A s \in DOMAIN items' : ~Skipped(disk'[s])
    BY <2>1, <2>3, <1>2 DEF DiskShape
  <2>5. \A s \in DOMAIN disk' \ DOMAIN items' : s \in DOMAIN disk \ DOMAIN items
    BY <1>2, <1>4
  <2>6. \A s \in DOMAIN disk' \ DOMAIN items' : ~Skipped(disk'[s]) => s = next' + 1
    BY <2>1, <2>5, <1>1, <1>2, <1>5 DEF DiskShape
  <2>7. QED
    BY <2>2, <2>4, <2>6 DEF DiskShape
<1>13. QED
  BY <1>7, <1>8, <1>9, <1>10, <1>11, <1>12 DEF IInv

\* A process that died has the shape of the state if the files it left have.
LEMMA DeadType ==
  ASSUME TypeOK, ProcessDies, evicted' \in SUBSET Msgs,
         DOMAIN disk' \in SUBSET Seqs, \A s \in DOMAIN disk' : disk'[s] \in Files
  PROVE  TypeOK'
<1>1. /\ items' = NoItems /\ next' = 0 /\ up' = FALSE /\ faults' = faults + 1
      /\ pc' = [d \in Drainers |-> "idle"]
      /\ batch' = [d \in Drainers |-> NoItems]
      /\ lastAck' = [d \in Drainers |-> 0]
      /\ link' = [d \in Drainers |-> FALSE]
      /\ buf' = [d \in Drainers |-> {}]
      /\ UNCHANGED <<core, accepted, published>>
  BY DEF ProcessDies
<1>2. DOMAIN NoItems = {}
  BY DEF NoItems
<1>3. /\ pc' \in [Drainers -> {"idle", "peek", "publish"}]
      /\ lastAck' \in [Drainers -> Nat]
      /\ link' \in [Drainers -> BOOLEAN]
      /\ buf' \in [Drainers -> SUBSET ItemSet]
  BY <1>1
<1>4. /\ DOMAIN batch' = Drainers
      /\ \A d \in Drainers : DOMAIN batch'[d] = {}
  BY <1>1, <1>2
<1>5. DOMAIN items' = {} /\ next' \in Nat /\ faults' \in Nat
  BY <1>1, <1>2 DEF TypeOK
<1>6. up' \in BOOLEAN
  BY <1>1
<1>7. QED
  BY <1>1, <1>3, <1>4, <1>5, <1>6 DEF TypeOK

\* A crash inside Put leaves one file more, ahead of every file replay() reads.
LEMMA CrashInPutStep ==
  ASSUME IInv, NEW m \in Msgs, NEW b \in Cuts(m), CrashInPut(m, b)
  PROVE  IInv'
<1>1. /\ up /\ next + 1 \notin DOMAIN disk
      /\ DOMAIN disk' = DOMAIN disk \cup {next + 1}
      /\ disk'[next + 1] = FileOf(m, b)
      /\ \A s \in DOMAIN disk : disk'[s] = disk[s]
      /\ ProcessDies
      /\ evicted' = evicted
  BY DEF CrashInPut, Persisted
<1>2. TypeOK /\ MemoryMatchesDisk /\ ItemsAreFiles /\ NoSilentLoss /\ DiskShape
  BY DEF IInv
<1>3. FileOf(m, b) \in Files
  BY ConstantFacts DEF Cuts, FileOf, Files
<1>4. next + 1 \in Seqs /\ next \in Nat
  BY <1>2 DEF TypeOK, Seqs
<1>5. TypeOK'
  <2>1. DOMAIN disk' \in SUBSET Seqs /\ \A s \in DOMAIN disk' : disk'[s] \in Files
    BY <1>1, <1>2, <1>3, <1>4 DEF TypeOK
  <2>2. evicted' \in SUBSET Msgs
    BY <1>1, <1>2 DEF TypeOK
  <2>3. QED
    BY <2>1, <2>2, <1>1, <1>2, DeadType
<1>6. MemoryMatchesDisk'
  BY <1>1 DEF ProcessDies, MemoryMatchesDisk
<1>7. ItemsAreFiles'
  <2>1. IsFiniteSet(DOMAIN disk')
    BY <1>1, <1>2, FS_AddElement DEF ItemsAreFiles
  <2>2. DOMAIN NoItems = {}
    BY DEF NoItems
  <2>3. QED
    BY <2>1, <2>2, <1>1, FS_EmptySet DEF ProcessDies, ItemsAreFiles
<1>8. \A d \in Drainers : DrainSound(d)'
  BY <1>1 DEF ProcessDies, DrainSound
<1>9. NoSilentLoss'
  BY <1>1, <1>2 DEF NoSilentLoss, OnDisk, ProcessDies
<1>10. DiskShape'
  <2>1. \A s \in DOMAIN disk : ~Skipped(disk[s]) => s < next + 1
    BY <1>1, <1>2, <1>4 DEF DiskShape, MemoryMatchesDisk, TypeOK, Seqs
  <2>2. \A s \in DOMAIN disk : Skipped(disk[s]) => s > next + 1
    BY <1>1, <1>2, <1>4 DEF DiskShape, MemoryMatchesDisk, TypeOK, Seqs
  <2>3. \A s, t \in DOMAIN disk' : Skipped(disk'[s]) /\ ~Skipped(disk'[t]) => t < s
    BY <2>1, <2>2, <1>1, <1>2 DEF DiskShape
  <2>4. DOMAIN items' = {} /\ ~up'
    BY <1>1 DEF ProcessDies, NoItems
  <2>5. QED
    BY <2>3, <2>4 DEF DiskShape
<1>11. QED
  BY <1>5, <1>6, <1>7, <1>8, <1>9, <1>10 DEF IInv

\* A crash inside dropExcessLocked leaves the new file, whole, and what was not
\* removed yet; what was removed is evicted.
LEMMA CrashInEvictionStep ==
  ASSUME IInv, NEW m \in Msgs, NEW k, CrashInEviction(m, k)
  PROVE  IInv'
<1> DEFINE seq  == next + 1
           its  == WithItem(m)
           gone == {s \in DOMAIN its : s <= k}
           file == FileOf(m, HeaderLen + Size[m])
<1>1. /\ up /\ seq \notin DOMAIN disk
      /\ disk' = [s \in (DOMAIN disk \cup {seq}) \ gone |->
                    IF s = seq THEN file ELSE disk[s]]
      /\ evicted' = evicted \cup {its[s].msg : s \in gone}
      /\ ProcessDies
  BY DEF CrashInEviction, ProcessDies
<1>2. TypeOK /\ MemoryMatchesDisk /\ ItemsAreFiles /\ NoSilentLoss /\ DiskShape
  BY DEF IInv
<1>3. /\ seq \in Seqs /\ next \in Nat
      /\ \A s \in DOMAIN items : s \in Seqs /\ s < seq /\ s \in DOMAIN disk
  BY <1>1, <1>2 DEF TypeOK, MemoryMatchesDisk, Seqs
<1>4. /\ DOMAIN its = DOMAIN items \cup {seq}
      /\ its[seq] = ItemOf(m)
      /\ \A s \in DOMAIN items : its[s] = items[s]
  BY <1>3 DEF WithItem
<1>5. /\ ItemOf(m) \in ItemSet
      /\ file \in Files
      /\ ~Skipped(file)
  <2>1. Size[m] \in Nat /\ HeaderLen \in Nat
    BY ConstantFacts
  <2>2. QED
    BY <2>1 DEF ItemOf, ItemSet, FileOf, Files, Skipped
<1>6. \A s \in DOMAIN its : its[s].msg \in Msgs
  BY <1>2, <1>4, <1>5 DEF TypeOK, ItemSet
<1> HIDE DEF its, file
<1>7. /\ DOMAIN disk' = (DOMAIN disk \cup {seq}) \ gone
      /\ \A s \in DOMAIN disk' : disk'[s] = IF s = seq THEN file ELSE disk[s]
  <2> HIDE DEF gone
  <2>1. QED
    BY <1>1
<1>8. TypeOK'
  <2>1. DOMAIN disk' \in SUBSET Seqs /\ \A s \in DOMAIN disk' : disk'[s] \in Files
    BY <1>2, <1>3, <1>5, <1>7 DEF TypeOK
  <2>2. evicted' \in SUBSET Msgs
    BY <1>1, <1>2, <1>6 DEF TypeOK
  <2>3. QED
    BY <2>1, <2>2, <1>1, <1>2, DeadType
<1>9. DOMAIN items' = {} /\ ~up'
  BY <1>1 DEF ProcessDies, NoItems
<1>10. MemoryMatchesDisk'
  BY <1>9 DEF MemoryMatchesDisk
<1>11. ItemsAreFiles'
  <2>1. IsFiniteSet(DOMAIN disk \cup {seq})
    BY <1>2, FS_AddElement DEF ItemsAreFiles
  <2>2. IsFiniteSet(DOMAIN disk') /\ IsFiniteSet(DOMAIN items')
    BY <2>1, <1>7, <1>9, FS_Subset, FS_EmptySet
  <2>3. QED
    BY <2>2, <1>1, <1>9 DEF ProcessDies, ItemsAreFiles
<1>12. \A d \in Drainers : DrainSound(d)'
  BY <1>1 DEF ProcessDies, DrainSound
<1>13. NoSilentLoss'
  <2> SUFFICES ASSUME NEW a \in accepted
               PROVE  OnDisk(a)' \/ a.msg \in evicted' \/ a.msg \in published'
    BY <1>1 DEF NoSilentLoss, ProcessDies
  <2>1. OnDisk(a) \/ a.msg \in evicted \/ a.msg \in published
    BY <1>2 DEF NoSilentLoss
  <2>2. CASE OnDisk(a) /\ a.seq \notin gone
    BY <2>2, <1>1, <1>7 DEF OnDisk
  <2>3. CASE OnDisk(a) /\ a.seq \in gone
    <3>1. a.seq \in DOMAIN items /\ its[a.seq].msg = disk[a.seq].msg
      BY <2>3, <1>1, <1>2, <1>4 DEF OnDisk, ItemsAreFiles
    <3>2. QED
      BY <3>1, <2>3, <1>1 DEF OnDisk
  <2>4. QED
    BY <2>1, <2>2, <2>3, <1>1 DEF ProcessDies
<1>14. DiskShape'
  <2>1. \A s \in DOMAIN disk : ~Skipped(disk[s]) => s < seq
    BY <1>1, <1>2, <1>3 DEF DiskShape, MemoryMatchesDisk, TypeOK, Seqs
  <2>2. \A s \in DOMAIN disk : Skipped(disk[s]) => s > seq
    BY <1>1, <1>2, <1>3 DEF DiskShape, MemoryMatchesDisk, TypeOK, Seqs
  <2>3. \A s, t \in DOMAIN disk' : Skipped(disk'[s]) /\ ~Skipped(disk'[t]) => t < s
    BY <2>1, <2>2, <1>2, <1>5, <1>7 DEF DiskShape
  <2>4. QED
    BY <2>3, <1>9 DEF DiskShape
<1>15. QED
  BY <1>8, <1>10, <1>11, <1>12, <1>13, <1>14 DEF IInv

\* A crash keeps the files, except those an interrupted AckThrough removed.
LEMMA CrashStep ==
  ASSUME IInv,
         Crash \/ \E d \in Drainers : \E k \in DOMAIN items : CrashInAck(d, k)
  PROVE  IInv'
<1>1. /\ ProcessDies
      /\ evicted' = evicted
      /\ \E gone \in SUBSET DOMAIN items :
           /\ \A s \in gone : items[s].msg \in published
           /\ DOMAIN disk' = DOMAIN disk \ gone
           /\ \A s \in DOMAIN disk' : disk'[s] = disk[s]
  <2>1. CASE Crash
    <3>1. disk' = disk
      BY <2>1 DEF Crash
    <3>2. /\ {} \in SUBSET DOMAIN items
          /\ \A s \in {} : items[s].msg \in published
          /\ DOMAIN disk' = DOMAIN disk \ {}
          /\ \A s \in DOMAIN disk' : disk'[s] = disk[s]
      BY <3>1
    <3>3. <1>1!3
      BY <3>2
    <3>4. QED
      BY <3>3, <2>1 DEF Crash
  <2>2. ASSUME NEW d \in Drainers, NEW k \in DOMAIN items, CrashInAck(d, k)
        PROVE  <1>1!3
    <3>1. /\ pc[d] = "publish" /\ k \in AckedSeqs(lastAck[d])
          /\ disk' = Restrict(disk, DOMAIN disk \ AckedSeqs(k))
      BY <2>2 DEF CrashInAck
    <3>2. TypeOK /\ DrainSound(d)
      BY DEF IInv
    <3>3. k \in Nat /\ lastAck[d] \in Nat /\ DOMAIN items \in SUBSET Nat
      BY <3>2 DEF TypeOK, Seqs
    <3>4. \A s \in AckedSeqs(k) : s \in DOMAIN items /\ items[s].msg \in published
      BY <3>1, <3>2, <3>3 DEF AckedSeqs, DrainSound
    <3>5. /\ DOMAIN disk' = DOMAIN disk \ AckedSeqs(k)
          /\ \A s \in DOMAIN disk' : disk'[s] = disk[s]
      BY <3>1, RestrictFacts
    <3>6. AckedSeqs(k) \in SUBSET DOMAIN items
      BY <3>4
    <3>7. QED
      BY <3>4, <3>5, <3>6
  <2>3. ProcessDies /\ evicted' = evicted
    BY DEF Crash, CrashInAck
  <2>4. QED
    BY <2>1, <2>2, <2>3
<1>2. PICK gone \in SUBSET DOMAIN items :
           /\ \A s \in gone : items[s].msg \in published
           /\ DOMAIN disk' = DOMAIN disk \ gone
           /\ \A s \in DOMAIN disk' : disk'[s] = disk[s]
  BY <1>1
<1>3. TypeOK /\ ItemsAreFiles /\ NoSilentLoss
  BY DEF IInv
<1>4. DOMAIN NoItems = {}
  BY DEF NoItems
<1>5. TypeOK'
  <2>1. DOMAIN disk' \in SUBSET Seqs /\ \A s \in DOMAIN disk' : disk'[s] \in Files
    BY <1>2, <1>3 DEF TypeOK
  <2>2. evicted' \in SUBSET Msgs
    BY <1>1, <1>3 DEF TypeOK
  <2>3. QED
    BY <2>1, <2>2, <1>1, <1>3, DeadType
<1>6. MemoryMatchesDisk'
  BY <1>1 DEF ProcessDies, MemoryMatchesDisk
<1>7. ItemsAreFiles'
  <2>1. IsFiniteSet(DOMAIN disk')
    BY <1>2, <1>3, FS_Subset DEF ItemsAreFiles
  <2>2. QED
    BY <2>1, <1>1, <1>4, FS_EmptySet DEF ProcessDies, ItemsAreFiles
<1>8. \A d \in Drainers : DrainSound(d)'
  BY <1>1 DEF ProcessDies, DrainSound
<1>9. NoSilentLoss'
  BY <1>1, <1>2, <1>3 DEF NoSilentLoss, OnDisk, ItemsAreFiles, ProcessDies
<1>10. DiskShape'
  BY <1>1, <1>2, <1>4 DEF IInv, DiskShape, ProcessDies
<1>11. QED
  BY <1>5, <1>6, <1>7, <1>8, <1>9, <1>10 DEF IInv

\* replay() queues the files again; what it skips is ahead of next.
LEMMA BootStep ==
  ASSUME IInv, Boot
  PROVE  IInv'
<1>1. /\ ~up /\ up' = TRUE
      /\ \A s \in DOMAIN disk : ~Panics(disk[s])
      /\ items' = [s \in ReplayedSeqs |-> Replayed(disk[s])]
      /\ next' \in ReplayedSeqs \cup {0}
      /\ \A s \in ReplayedSeqs : s <= next'
      /\ UNCHANGED <<disk, pc, batch, lastAck, link, buf, core, accepted,
                     evicted, published, faults>>
  BY DEF Boot, drains, history, IsReplayNext
<1>2. TypeOK /\ ItemsAreFiles /\ NoSilentLoss
  BY DEF IInv
<1>3. \A d \in Drainers : pc[d] = "idle"
  BY <1>1, <1>2 DEF ItemsAreFiles
<1>4. ReplayedSeqs \subseteq DOMAIN disk /\ ReplayedSeqs \subseteq Seqs
  BY <1>2 DEF ReplayedSeqs, TypeOK
<1>5. \A s \in ReplayedSeqs : Replayed(disk[s]) \in ItemSet
                              /\ Replayed(disk[s]).msg = disk[s].msg
  BY <1>1, <1>2, <1>4, ReplayedType DEF ReplayedSeqs, TypeOK
<1>6. TypeOK'
  BY <1>1, <1>2, <1>4, <1>5 DEF TypeOK, Seqs
<1>7. /\ DOMAIN items' = ReplayedSeqs
      /\ \A s \in ReplayedSeqs : items'[s] = Replayed(disk[s])
  BY <1>1
<1>8. MemoryMatchesDisk'
  <2>1. ASSUME NEW s \in DOMAIN disk, s \notin ReplayedSeqs PROVE s > next'
    <3>1. Skipped(disk[s]) /\ s \in Seqs
      BY <2>1, <1>2 DEF ReplayedSeqs, TypeOK
    <3>2. \A t \in ReplayedSeqs : t < s
      BY <3>1, <1>4 DEF IInv, DiskShape, ReplayedSeqs
    <3>3. QED
      BY <3>1, <3>2, <1>1, <1>4 DEF Seqs
  <2>2. QED
    BY <2>1, <1>1, <1>4, <1>7 DEF MemoryMatchesDisk
<1>9. ItemsAreFiles'
  <2>1. IsFiniteSet(ReplayedSeqs)
    BY <1>2, <1>4, FS_Subset DEF ItemsAreFiles
  <2>2. QED
    BY <2>1, <1>1, <1>2, <1>5, <1>7 DEF ItemsAreFiles
<1>10. \A d \in Drainers : DrainSound(d)'
  BY <1>1, <1>3 DEF DrainSound
<1>11. DiskShape' /\ NoSilentLoss'
  BY <1>1, <1>2, <1>7 DEF IInv, DiskShape, ReplayedSeqs, NoSilentLoss, OnDisk
<1>12. QED
  BY <1>6, <1>8, <1>9, <1>10, <1>11 DEF IInv

-----------------------------------------------------------------------------
LEMMA NextIInv == IInv /\ [Next]_vars => IInv'
<1> SUFFICES ASSUME IInv, [Next]_vars PROVE IInv'
  OBVIOUS
<1>1. CASE \E m \in Msgs : Put(m)
  BY <1>1, PutStep
<1>2. CASE \E m \in Msgs : \E b \in Cuts(m) : PutFails(m, b)
  BY <1>2, PutFailsStep
<1>3. CASE \E d \in Drainers : DrainStep(d)
  BY <1>3, QueueUntouched, PeekStep, PublishStep, AckStep DEF DrainStep
<1>4. CASE \E d \in Drainers : FlushAborts(d)
  BY <1>4, AckStep
<1>5. CASE \E d \in Drainers : LinkFlush(d) \/ LinkDrop(d) \/ LinkReconnect(d)
  BY <1>5, QueueUntouched
<1>6. CASE Crash \/ \E d \in Drainers : \E k \in DOMAIN items : CrashInAck(d, k)
  BY <1>6, CrashStep
<1>7. CASE Boot
  BY <1>7, BootStep
<1>10. CASE \E m \in Msgs : \E b \in Cuts(m) : CrashInPut(m, b)
  BY <1>10, CrashInPutStep
<1>11. CASE \E m \in Msgs : \E k \in DOMAIN items \cup {next + 1} : CrashInEviction(m, k)
  BY <1>11, CrashInEvictionStep
<1>8. CASE UNCHANGED vars
  BY <1>8 DEF vars, queue, drains, history, IInv, TypeOK, MemoryMatchesDisk,
              ItemsAreFiles, DrainSound, DiskShape, NoSilentLoss, OnDisk
<1>9. QED
  BY <1>1, <1>2, <1>3, <1>4, <1>5, <1>6, <1>7, <1>8, <1>10, <1>11 DEF Next

\* Every reachable state of queue, drains and disk has its shape.
THEOREM TypeCorrect == Spec => []TypeOK
<1>1. IInv => TypeOK
  BY DEF IInv
<1>2. QED
  BY <1>1, InitIInv, NextIInv, PTL DEF Spec

\* AckThrough, dropExcessLocked, crashes and replay() between them never lose an
\* accepted payload: it is on disk, evicted by the cap, or was published.
THEOREM NothingLostSilently == Spec => []NoSilentLoss
<1>1. IInv => NoSilentLoss
  BY DEF IInv
<1>2. QED
  BY <1>1, InitIInv, NextIInv, PTL DEF Spec

\* The in-memory list and the queue directory agree whenever the gateway runs.
THEOREM ListMatchesDirectory == Spec => []MemoryMatchesDisk
<1>1. IInv => MemoryMatchesDisk
  BY DEF IInv
<1>2. QED
  BY <1>1, InitIInv, NextIInv, PTL DEF Spec

-----------------------------------------------------------------------------
(* curBytes.                                                               *)

\* Bytes depends on the lengths only.
LEMMA BytesSame ==
  ASSUME NEW f, NEW g, DOMAIN g = DOMAIN f, \A s \in DOMAIN f : g[s].len = f[s].len
  PROVE  Bytes(g) = Bytes(f)
<1>1. [s \in DOMAIN g |-> g[s].len] = [s \in DOMAIN f |-> f[s].len]
  OBVIOUS
<1>2. QED
  BY <1>1, Zenon DEF Bytes

\* Bytes of a part of the list, as a sum over the part.
LEMMA BytesOfPart ==
  ASSUME NEW f, IsFiniteSet(DOMAIN f), \A s \in DOMAIN f : f[s].len \in Nat,
         NEW T \in SUBSET DOMAIN f
  PROVE  Bytes(Restrict(f, T)) = SumFunctionOnSet([s \in DOMAIN f |-> f[s].len], T)
<1> DEFINE lens == [s \in DOMAIN f |-> f[s].len]
           r    == Restrict(f, T)
           part == [s \in DOMAIN r |-> r[s].len]
<1>1. DOMAIN r = T /\ \A s \in T : r[s] = f[s]
  BY RestrictFacts
<1> HIDE DEF r
<1>2. DOMAIN part = T /\ \A s \in T : part[s] = lens[s]
  BY <1>1
<1>3. IsFiniteSet(T) /\ \A s \in T : lens[s] \in Int
  BY FS_Subset
<1>4. Bytes(r) = SumFunctionOnSet(part, DOMAIN part)
  BY DEF Bytes, SumFunction
<1> HIDE DEF lens, part
<1>5. SumFunctionOnSet(part, T) = SumFunctionOnSet(lens, T)
  BY <1>2, <1>3, SumSame
<1>6. QED
  BY <1>2, <1>4, <1>5 DEF r, lens

\* What is taken out of the list, and what is left of it.
LEMMA BytesSplit ==
  ASSUME NEW f, IsFiniteSet(DOMAIN f), \A s \in DOMAIN f : f[s].len \in Nat,
         NEW T \in SUBSET DOMAIN f
  PROVE  /\ Bytes(Restrict(f, T)) \in Nat
         /\ Bytes(Restrict(f, DOMAIN f \ T)) \in Nat
         /\ Bytes(f) = Bytes(Restrict(f, T)) + Bytes(Restrict(f, DOMAIN f \ T))
<1> DEFINE S    == DOMAIN f
           lens == [s \in S |-> f[s].len]
<1>1. /\ \A s \in S : lens[s] \in Nat /\ lens[s] \in Int
      /\ T \in SUBSET S /\ S \ T \in SUBSET S
      /\ DOMAIN lens = S
  OBVIOUS
<1>2. /\ Bytes(Restrict(f, T)) = SumFunctionOnSet(lens, T)
      /\ Bytes(Restrict(f, S \ T)) = SumFunctionOnSet(lens, S \ T)
  BY <1>1, BytesOfPart
<1>3. Bytes(f) = SumFunctionOnSet(lens, S)
  BY <1>1 DEF Bytes, SumFunction
<1>4. IsFiniteSet(T) /\ IsFiniteSet(S \ T)
  BY <1>1, FS_Subset
<1> HIDE DEF lens
<1>5. SumFunctionOnSet(lens, S) = SumFunctionOnSet(lens, T) + SumFunctionOnSet(lens, S \ T)
  BY <1>1, SumSplit
<1>6. SumFunctionOnSet(lens, T) \in Nat /\ SumFunctionOnSet(lens, S \ T) \in Nat
  BY <1>1, <1>4, SumNat
<1>7. QED
  BY <1>2, <1>3, <1>5, <1>6

\* The bytes of an empty list, and of a list that grew by one item.
LEMMA BytesEmpty ==
  ASSUME NEW f, DOMAIN f = {}
  PROVE  Bytes(f) = 0
<1>1. DOMAIN [s \in DOMAIN f |-> f[s].len] = {}
  OBVIOUS
<1>2. QED
  BY <1>1, SumEmpty DEF Bytes, SumFunction

LEMMA BytesGrow ==
  ASSUME NEW f, IsFiniteSet(DOMAIN f), \A s \in DOMAIN f : f[s].len \in Nat,
         NEW x \in DOMAIN f,
         NEW g, DOMAIN g = DOMAIN f \ {x}, \A s \in DOMAIN g : g[s] = f[s]
  PROVE  Bytes(g) \in Nat /\ Bytes(f) = Bytes(g) + f[x].len
<1> DEFINE S    == DOMAIN f
           lens == [s \in S |-> f[s].len]
           r    == Restrict(f, S \ {x})
<1>1. /\ \A s \in S : lens[s] \in Nat /\ lens[s] \in Int
      /\ S \ {x} \in SUBSET S /\ {x} \in SUBSET S
      /\ DOMAIN lens = S /\ lens[x] = f[x].len
  OBVIOUS
<1>2. DOMAIN r = S \ {x} /\ \A s \in S \ {x} : r[s] = f[s]
  BY RestrictFacts
<1>3. Bytes(r) = SumFunctionOnSet(lens, S \ {x})
  BY <1>1, BytesOfPart
<1>4. Bytes(f) = SumFunctionOnSet(lens, S)
  BY <1>1 DEF Bytes, SumFunction
<1> HIDE DEF r
<1>5. Bytes(r) = Bytes(g)
  BY <1>2, BytesSame
<1> HIDE DEF lens
<1>6. /\ SumFunctionOnSet(lens, S) = lens[x] + SumFunctionOnSet(lens, S \ {x})
      /\ SumFunctionOnSet(lens, S \ {x}) \in Int
  BY <1>1, SumTake
<1>7. SumFunctionOnSet(lens, S \ {x}) \in Nat
  BY <1>1, FS_Subset, SumNat
<1>8. lens[x] \in Nat
  BY <1>1
<1>9. QED
  BY <1>1, <1>3, <1>4, <1>5, <1>6, <1>7, <1>8

\* Put counts the new item in and what dropExcessLocked removes out.
LEMMA PutBytes ==
  ASSUME IInv, BytesAccounted, NEW m \in Msgs, Put(m)
  PROVE  BytesAccounted'
<1> DEFINE seq  == next + 1
           its  == [s \in DOMAIN items \cup {seq} |->
                      IF s = seq THEN ItemOf(m) ELSE items[s]]
           gone(k) == {s \in DOMAIN its : s <= k}
<1>1. PICK k \in DOMAIN its \cup {0} :
        /\ items' = Restrict(its, DOMAIN its \ gone(k))
        /\ curBytes' = (curBytes + Size[m]) - Bytes(Restrict(its, gone(k)))
  BY Zenon DEF Put, WithItem
<1>2. TypeOK /\ MemoryMatchesDisk /\ ItemsAreFiles /\ up
  BY DEF IInv, Put
<1>3. seq \notin DOMAIN items /\ next \in Nat
  BY <1>2 DEF TypeOK, MemoryMatchesDisk, Seqs
<1>4. /\ DOMAIN its = DOMAIN items \cup {seq}
      /\ its[seq] = ItemOf(m)
      /\ \A s \in DOMAIN items : its[s] = items[s]
  BY <1>3
<1> HIDE DEF its
<1>5. IsFiniteSet(DOMAIN its)
  BY <1>2, <1>4, FS_AddElement DEF ItemsAreFiles
<1>6. ItemOf(m).len = Size[m] /\ Size[m] \in Nat
  BY ConstantFacts DEF ItemOf
<1>7. \A s \in DOMAIN its : its[s].len \in Nat
  BY <1>2, <1>4, <1>6 DEF TypeOK, ItemSet
<1>8. Bytes(items) \in Nat /\ Bytes(its) = Bytes(items) + Size[m]
  <2>1. seq \in DOMAIN its /\ DOMAIN items = DOMAIN its \ {seq}
    BY <1>3, <1>4
  <2>2. \A s \in DOMAIN items : items[s] = its[s]
    BY <1>4
  <2>3. its[seq].len = Size[m]
    BY <1>4, <1>6
  <2> HIDE DEF seq
  <2>4. Bytes(items) \in Nat /\ Bytes(its) = Bytes(items) + its[seq].len
    BY <1>5, <1>7, <2>1, <2>2, BytesGrow
  <2>5. QED
    BY <2>3, <2>4
<1>9. /\ Bytes(Restrict(its, gone(k))) \in Nat
      /\ Bytes(Restrict(its, DOMAIN its \ gone(k))) \in Nat
      /\ Bytes(its) = Bytes(Restrict(its, gone(k))) + Bytes(Restrict(its, DOMAIN its \ gone(k)))
  <2>1. gone(k) \in SUBSET DOMAIN its
    OBVIOUS
  <2> HIDE DEF gone
  <2>2. QED
    BY <1>5, <1>7, <2>1, BytesSplit
<1>10. Bytes(items') = Bytes(Restrict(its, DOMAIN its \ gone(k)))
  BY <1>1
<1>11. curBytes = Bytes(items)
  BY <1>2 DEF BytesAccounted
<1> HIDE DEF gone
<1>12. curBytes' = Bytes(items')
  BY <1>1, <1>6, <1>8, <1>9, <1>10, <1>11
<1>13. QED
  BY <1>12 DEF BytesAccounted, Bytes

\* AckThrough gives back the bytes of what it removes.
LEMMA AckBytes ==
  ASSUME IInv, BytesAccounted, up, up' = up, NEW k, AckThrough(k)
  PROVE  BytesAccounted'
<1> DEFINE gone == AckedSeqs(k)
<1>1. /\ items' = Restrict(items, DOMAIN items \ gone)
      /\ curBytes' = curBytes - Bytes(Restrict(items, gone))
  BY DEF AckThrough
<1>2. /\ IsFiniteSet(DOMAIN items) /\ \A s \in DOMAIN items : items[s].len \in Nat
      /\ gone \in SUBSET DOMAIN items
  BY DEF IInv, ItemsAreFiles, TypeOK, ItemSet, AckedSeqs
<1> HIDE DEF gone
<1>3. /\ Bytes(Restrict(items, gone)) \in Nat
      /\ Bytes(Restrict(items, DOMAIN items \ gone)) \in Nat
      /\ Bytes(items) = Bytes(Restrict(items, gone)) + Bytes(Restrict(items, DOMAIN items \ gone))
  BY <1>2, BytesSplit
<1>4. Bytes(items') = Bytes(Restrict(items, DOMAIN items \ gone))
  BY <1>1
<1>5. curBytes = Bytes(items)
  BY DEF BytesAccounted
<1>6. curBytes' = Bytes(items')
  BY <1>1, <1>3, <1>4, <1>5
<1>7. QED
  BY <1>6 DEF BytesAccounted, Bytes

LEMMA NextBytes == IInv /\ BytesAccounted /\ [Next]_vars => BytesAccounted'
<1> SUFFICES ASSUME IInv, BytesAccounted, [Next]_vars PROVE BytesAccounted'
  OBVIOUS
<1>1. CASE \E m \in Msgs : Put(m)
  BY <1>1, PutBytes
<1>2. CASE \E d \in Drainers : AckBatch(d) \/ FlushAborts(d)
  <2>1. PICK d \in Drainers : AckBatch(d) \/ FlushAborts(d)
    BY <1>2
  <2>2. pc[d] = "publish" /\ up' = up /\ AckThrough(lastAck[d])
    BY <2>1 DEF AckBatch, FlushAborts
  <2>3. up
    BY <2>2 DEF IInv, ItemsAreFiles, TypeOK
  <2>4. QED
    BY <2>2, <2>3, AckBytes
<1>3. CASE ProcessDies
  BY <1>3 DEF ProcessDies, BytesAccounted
<1>4. CASE Boot
  <2>1. curBytes' = Bytes(items')
    BY <1>4 DEF Boot
  <2>2. QED
    BY <2>1 DEF BytesAccounted, Bytes
<1>5. CASE UNCHANGED <<items, curBytes, up>>
  <2>1. Bytes(items') = Bytes(items)
    BY <1>5
  <2>2. QED
    BY <1>5, <2>1 DEF BytesAccounted, Bytes
<1>6. CASE \E m \in Msgs : \E b \in Cuts(m) : PutFails(m, b)
  BY <1>5, <1>6 DEF PutFails
<1>7. CASE \E d \in Drainers : DrainStep(d)
  BY <1>2, <1>5, <1>7 DEF DrainStep, StartFlush, Peek, Publish, FlushDone, queue
<1>8. CASE \E d \in Drainers : LinkFlush(d) \/ LinkDrop(d) \/ LinkReconnect(d)
  BY <1>5, <1>8 DEF LinkFlush, LinkDrop, LinkReconnect, queue
<1>9. CASE UNCHANGED vars
  BY <1>5, <1>9 DEF vars, queue
<1>10. QED
  BY <1>1, <1>2, <1>3, <1>4, <1>6, <1>7, <1>8, <1>9 DEF Next, Crash, CrashInAck, CrashInPut,
                                                               CrashInEviction

\* The counter the byte cap is enforced with never drifts from the list: not
\* through evictions, concurrent acknowledgements, failed writes or restarts.
THEOREM BytesAreAccounted == Spec => []BytesAccounted
<1>1. Init => BytesAccounted
  <2> SUFFICES ASSUME Init PROVE curBytes = Bytes(items)
    BY DEF BytesAccounted
  <2>1. DOMAIN items = {} /\ curBytes = 0
    BY DEF Init, NoItems
  <2>2. QED
    BY <2>1, BytesEmpty
<1>2. QED
  BY <1>1, InitIInv, NextIInv, NextBytes, PTL DEF Spec
=============================================================================
