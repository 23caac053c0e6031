--------------------------- MODULE DataPlaneProofs ---------------------------
(***************************************************************************)
(* The data plane, for any fleet, any requests and any number of calls.    *)
(***************************************************************************)
EXTENDS GpuLedger, FrameRing, ShadowEngine, Dwell, SequenceTheorems, SetSums

-----------------------------------------------------------------------------
(* gpu-scheduler.  The two indexes of the ledger hold the same books; what *)
(* the sums over them need is that they are finite and hold integers.      *)

FleetOK ==
    /\ DOMAIN gpus \subseteq Gpus
    /\ \A g \in DOMAIN gpus : gpus[g].vram \in Int /\ gpus[g].slices \in Int

BooksOK ==
    /\ placed \in Nat
    /\ IsFiniteSet(resv)
    /\ \A r \in resv : r.id \in 1..placed /\ r.vram \in Int /\ r.slices \in Int

\* Ledger.byGPU is Ledger.resv, sorted by GPU.
IndexesAgree ==
    /\ DOMAIN byGPU = DOMAIN gpus
    /\ \A g \in DOMAIN byGPU : byGPU[g] = {r \in resv : r.gpu = g}
    /\ \A r \in resv : r.gpu \in DOMAIN byGPU

LedgerInv == FleetOK /\ BooksOK /\ IndexesAgree

\* Both specifications add up the same way.
LEMMA SameSums ==
    ASSUME NEW rs
    PROVE  A!UsedVRAM(rs) = VRAMOf(rs) /\ A!UsedSlices(rs) = SlicesOf(rs)
BY Zenon DEF VRAMOf, SlicesOf, A!UsedVRAM, A!UsedSlices, SumFunction, SumFunctionOnSet,
   FoldFunctionOnSet, MapThenFoldSet, A!SumFunction, A!SumFunctionOnSet, A!FoldFunctionOnSet,
   A!MapThenFoldSet

\* What FreeVRAM and FreeSlices subtract are numbers.
LEMMA FreeIsNumber ==
    ASSUME LedgerInv, NEW g \in DOMAIN gpus
    PROVE  /\ byGPU[g] = A!On(g)
           /\ FreeVRAM(g) \in Int /\ FreeSlices(g) \in Int
           /\ FreeVRAM(g) = gpus[g].vram - A!UsedVRAM(A!On(g))
           /\ FreeSlices(g) = gpus[g].slices - A!UsedSlices(A!On(g))
<1> DEFINE S  == byGPU[g]
           fv == [r \in S |-> r.vram]
           fs == [r \in S |-> r.slices]
<1>1. S = A!On(g) /\ S \subseteq resv
  BY DEF LedgerInv, IndexesAgree, A!On
<1>2. IsFiniteSet(S) /\ \A r \in S : r.vram \in Int /\ r.slices \in Int
  BY <1>1, FS_Subset DEF LedgerInv, BooksOK
<1>3. /\ DOMAIN fv = S /\ \A r \in S : fv[r] \in Int
      /\ DOMAIN fs = S /\ \A r \in S : fs[r] \in Int
  BY <1>2
<1>4. VRAMOf(S) = SumFunctionOnSet(fv, S) /\ SlicesOf(S) = SumFunctionOnSet(fs, S)
  BY <1>3, Zenon DEF VRAMOf, SlicesOf, SumFunction
<1> HIDE DEF fv, fs, S
<1>5. VRAMOf(S) \in Int /\ SlicesOf(S) \in Int
  BY <1>2, <1>3, <1>4, SumInt
<1>6. gpus[g].vram \in Int /\ gpus[g].slices \in Int
  BY DEF LedgerInv, FleetOK
<1>7. A!UsedVRAM(A!On(g)) = VRAMOf(S) /\ A!UsedSlices(A!On(g)) = SlicesOf(S)
  BY <1>1, SameSums
<1>8. FreeVRAM(g) = gpus[g].vram - VRAMOf(S) /\ FreeSlices(g) = gpus[g].slices - SlicesOf(S)
  BY Zenon DEF FreeVRAM, FreeSlices, S
<1>9. QED
  BY <1>1, <1>5, <1>6, <1>7, <1>8 DEF S

\* A candidate is a GPU with room, as the callers see it.
LEMMA CandidatesHaveRoom ==
    ASSUME LedgerInv, NEW req, NEW g
    PROVE  g \in Candidates(req) <=> A!RoomOn(g, req)
<1>1. CASE g \in DOMAIN gpus
  BY <1>1, FreeIsNumber DEF Candidates, A!RoomOn
<1>2. CASE g \notin DOMAIN gpus
  BY <1>2 DEF Candidates, A!RoomOn
<1>3. QED
  BY <1>1, <1>2

\* The sort has a first element: of the candidates in the preferred group (of
\* all, if there is none) the tightest, of those the one with the least id.
LEMMA PlaceChooses ==
    ASSUME LedgerInv, NEW req \in Requests, Valid(req), Candidates(req) # {}
    PROVE  \E c \in Candidates(req) : \A h \in Candidates(req) \ {c} : Before(req, c, h)
<1> DEFINE cands == Candidates(req)
           pref  == {g \in cands : req.group # NoPref /\ Linked(req, g)}
           top   == IF pref # {} THEN pref ELSE cands
           frees == {FreeVRAM(g) : g \in top}
<1>1. cands \subseteq DOMAIN gpus /\ \A g \in cands : FreeVRAM(g) \in Int /\ FreeVRAM(g) >= req.vram
  BY FreeIsNumber DEF Candidates
<1>2. req.vram \in Int /\ req.vram > 0
  BY LedgerAssumption DEF Valid
<1>3. \A g \in cands : FreeVRAM(g) \in Nat /\ g \in Nat
  <2>1. DOMAIN gpus \subseteq Nat
    BY LedgerAssumption DEF LedgerInv, FleetOK
  <2> HIDE DEF cands
  <2>2. QED
    BY <1>1, <1>2, <2>1
<1>4. top \subseteq cands /\ top # {}
  OBVIOUS
<1>5. PICK m \in frees : \A n \in frees : m <= n
  <2>1. frees \subseteq Nat /\ frees # {}
    BY <1>3, <1>4
  <2> HIDE DEF frees
  <2>2. QED
    BY <2>1, SmallestNumber
<1> DEFINE tight == {g \in top : FreeVRAM(g) = m}
<1>6. tight \subseteq Nat /\ tight # {}
  BY <1>3, <1>4, <1>5
<1>7. PICK c \in tight : \A h \in tight : c <= h
  <2> HIDE DEF tight
  <2>1. QED
    BY <1>6, SmallestNumber
<1>8. c \in cands /\ c \in Nat /\ c \in top /\ FreeVRAM(c) = m
  BY <1>3, <1>4, <1>7
<1>9. ASSUME NEW h \in cands \ {c} PROVE Before(req, c, h)
  <2>1. h \in Nat /\ FreeVRAM(h) \in Nat /\ FreeVRAM(c) \in Nat
    BY <1>3, <1>8
  <2>2. CASE h \in top
    <3>1. m <= FreeVRAM(h)
      BY <1>5, <2>2
    <3>2. FreeVRAM(h) = m => c < h
      BY <2>2, <1>7, <1>8, <2>1
    <3>3. req.group # NoPref => Linked(req, c) = Linked(req, h)
      BY <2>2, <1>8 DEF Linked
    <3> HIDE DEF cands, pref, top, frees, tight
    <3>4. QED
      BY <3>1, <3>2, <3>3, <2>1, <1>8 DEF Before
  <2>3. CASE h \notin top
    <3>1. req.group # NoPref /\ Linked(req, c) /\ ~Linked(req, h)
      BY <2>3, <1>8
    <3>2. Linked(req, c) # Linked(req, h)
      BY <3>1 DEF Linked
    <3> HIDE DEF cands, pref, top, frees, tight
    <3>3. QED
      BY <3>1, <3>2 DEF Before
  <2>4. QED
    BY <2>2, <2>3
<1>10. QED
  BY <1>8, <1>9

\* What Place does, with the GPU it chose.
LEMMA PlaceDoes ==
    ASSUME LedgerInv, NEW req \in Requests, Place(req)
    PROVE  \E g \in Candidates(req) :
             LET r == [id |-> placed + 1, gpu |-> g, vram |-> req.vram, slices |-> req.slices]
             IN /\ resv' = resv \cup {r}
                /\ byGPU' = [byGPU EXCEPT ![g] = @ \cup {r}]
                /\ answer' = [kind |-> "placed", id |-> placed + 1, gpu |-> g]
<1> DEFINE cands == Candidates(req)
           g == CHOOSE c \in cands : \A h \in cands \ {c} : Before(req, c, h)
           r == [id |-> placed + 1, gpu |-> g, vram |-> req.vram, slices |-> req.slices]
<1>1. /\ cands # {}
      /\ resv' = resv \cup {r}
      /\ byGPU' = [byGPU EXCEPT ![g] = @ \cup {r}]
      /\ answer' = [kind |-> "placed", id |-> r.id, gpu |-> g]
      /\ Valid(req)
  BY Zenon DEF Place
<1>2. r.id = placed + 1
  OBVIOUS
<1>3. \E c \in cands : \A h \in cands \ {c} : Before(req, c, h)
  BY <1>1, PlaceChooses
<1>4. g \in cands
  <2> HIDE DEF cands
  <2>1. QED
    BY <1>3
<1> HIDE DEF g, cands
<1>5. QED
  BY <1>1, <1>2, <1>4 DEF cands

LEMMA LedgerInitInv == LedgerInit => LedgerInv
<1> SUFFICES ASSUME LedgerInit PROVE LedgerInv
  OBVIOUS
<1>1. DOMAIN gpus = {} /\ DOMAIN byGPU = {} /\ resv = {} /\ placed = 0
  BY DEF LedgerInit
<1>2. QED
  BY <1>1, FS_EmptySet DEF LedgerInv, FleetOK, BooksOK, IndexesAgree

LEMMA LedgerNextInv == LedgerInv /\ [LedgerNext]_ledgerVars => LedgerInv'
<1> SUFFICES ASSUME LedgerInv, [LedgerNext]_ledgerVars PROVE LedgerInv'
  OBVIOUS
<1>1. ASSUME NEW g \in Gpus, NEW spec \in Specs, RegisterGPU(g, spec) PROVE LedgerInv'
  <2> DEFINE new == [spec EXCEPT !.slices = IF @ <= 0 THEN 1 ELSE @]
  <2>1. new.vram \in Int /\ new.slices \in Int
    BY LedgerAssumption
  <2> HIDE DEF new
  <2>2. /\ DOMAIN gpus' = DOMAIN gpus \cup {g} /\ gpus'[g] = new
        /\ \A h \in DOMAIN gpus \ {g} : gpus'[h] = gpus[h]
        /\ resv' = resv /\ placed' = placed
    BY <1>1 DEF RegisterGPU, Stored, new
  <2>3. FleetOK'
    BY <2>1, <2>2 DEF LedgerInv, FleetOK
  <2>4. /\ DOMAIN byGPU' = DOMAIN byGPU \cup {g}
        /\ \A h \in DOMAIN byGPU : byGPU'[h] = byGPU[h]
        /\ g \notin DOMAIN byGPU => byGPU'[g] = {}
    BY <1>1 DEF RegisterGPU, Stored
  <2>5. g \notin DOMAIN byGPU => {r \in resv : r.gpu = g} = {}
    BY DEF LedgerInv, IndexesAgree
  <2>6. IndexesAgree'
    BY <2>2, <2>4, <2>5 DEF LedgerInv, IndexesAgree
  <2>7. QED
    BY <2>2, <2>3, <2>6 DEF LedgerInv, BooksOK
<1>2. ASSUME NEW req \in Requests, Place(req) PROVE LedgerInv'
  <2>1. PICK g \in Candidates(req) :
             LET r == [id |-> placed + 1, gpu |-> g, vram |-> req.vram, slices |-> req.slices]
             IN /\ resv' = resv \cup {r}
                /\ byGPU' = [byGPU EXCEPT ![g] = @ \cup {r}]
                /\ answer' = [kind |-> "placed", id |-> placed + 1, gpu |-> g]
    BY <1>2, PlaceDoes
  <2> DEFINE r == [id |-> placed + 1, gpu |-> g, vram |-> req.vram, slices |-> req.slices]
  <2>2. resv' = resv \cup {r} /\ byGPU' = [byGPU EXCEPT ![g] = @ \cup {r}]
    BY <2>1
  <2>3. placed' = placed + 1 /\ gpus' = gpus
    BY <1>2 DEF Place
  <2>4. r.id = placed + 1 /\ r.gpu = g /\ r.vram = req.vram /\ r.slices = req.slices
    OBVIOUS
  <2> HIDE DEF r
  <2>5. req.vram \in Int /\ req.slices \in Int
    BY LedgerAssumption
  <2>6. BooksOK'
    <3>1. placed \in Nat /\ placed' \in Nat
      BY <2>3 DEF LedgerInv, BooksOK
    <3>2. IsFiniteSet(resv')
      BY <2>2, FS_AddElement DEF LedgerInv, BooksOK
    <3>3. \A t \in resv : t.id \in 1..placed'
      BY <2>3 DEF LedgerInv, BooksOK
    <3>4. r.id \in 1..placed'
      BY <2>3, <2>4, <3>1
    <3>5. QED
      BY <2>2, <2>4, <2>5, <3>1, <3>2, <3>3, <3>4 DEF LedgerInv, BooksOK
  <2>7. g \in DOMAIN gpus
    BY DEF Candidates
  <2>8. IndexesAgree'
    BY <2>2, <2>3, <2>4, <2>7 DEF LedgerInv, IndexesAgree
  <2>9. QED
    BY <2>3, <2>6, <2>8 DEF LedgerInv, FleetOK
<1>3. ASSUME NEW id \in 1..MaxPlacements, Release(id) PROVE LedgerInv'
  <2>1. /\ resv' = {r \in resv : r.id # id}
        /\ DOMAIN byGPU' = DOMAIN byGPU
        /\ gpus' = gpus /\ placed' = placed
    BY <1>3 DEF Release
  <2>2. ASSUME NEW g \in DOMAIN byGPU PROVE byGPU'[g] = {r \in resv' : r.gpu = g}
    <3>1. byGPU[g] = {r \in resv : r.gpu = g}
      BY DEF LedgerInv, IndexesAgree
    <3>2. byGPU'[g] = IF \E r \in {t \in resv : t.id = id} : r.gpu = g
                      THEN {r \in byGPU[g] : r.id # id} ELSE byGPU[g]
      BY <1>3 DEF Release
    <3>3. QED
      BY <2>1, <3>1, <3>2
  <2>3. IndexesAgree'
    BY <2>1, <2>2 DEF LedgerInv, IndexesAgree
  <2>4. BooksOK'
    BY <2>1, FS_Subset DEF LedgerInv, BooksOK
  <2>5. QED
    BY <2>1, <2>3, <2>4 DEF LedgerInv, FleetOK
<1>4. CASE Reboot
  <2>1. DOMAIN gpus' = {} /\ DOMAIN byGPU' = {} /\ resv' = {} /\ placed' = placed
    BY <1>4 DEF Reboot
  <2>2. QED
    BY <2>1, FS_EmptySet DEF LedgerInv, FleetOK, BooksOK, IndexesAgree
<1>5. CASE UNCHANGED <<gpus, resv, byGPU, placed>>
  BY <1>5 DEF LedgerInv, FleetOK, BooksOK, IndexesAgree
<1>6. QED
  BY <1>1, <1>2, <1>3, <1>4, <1>5 DEF LedgerNext, Unprocessable, NoCapacity, Snapshot, Gauge, ledgerVars

\* Each call of the ledger is a call of the allocator.
LEMMA LedgerStepIsAllocatorStep ==
    LedgerInv /\ [LedgerNext]_ledgerVars => [A!AllocatorNext]_<<gpus, resv, answer>>
<1> SUFFICES ASSUME LedgerInv, [LedgerNext]_ledgerVars
             PROVE  [A!AllocatorNext]_<<gpus, resv, answer>>
  OBVIOUS
<1>1. ASSUME NEW g \in Gpus, NEW spec \in Specs, RegisterGPU(g, spec) PROVE A!AllocatorNext
  <2> DEFINE new == [spec EXCEPT !.slices = IF @ <= 0 THEN 1 ELSE @]
  <2>1. new.vram > 0 /\ new.slices > 0
    BY <1>1, LedgerAssumption DEF RegisterGPU
  <2> HIDE DEF new
  <2>2. /\ DOMAIN gpus' = DOMAIN gpus \cup {g} /\ gpus'[g] = new
        /\ \A h \in DOMAIN gpus \ {g} : gpus'[h] = gpus[h]
        /\ resv' = resv /\ answer'.kind = "installed"
    BY <1>1 DEF RegisterGPU, Stored, new
  <2>3. A!Install(g)
    BY <2>1, <2>2 DEF A!Install
  <2>4. QED
    BY <2>3 DEF A!AllocatorNext
<1>2. ASSUME NEW req \in Requests, Place(req) PROVE A!AllocatorNext
  <2>1. PICK g \in Candidates(req) :
             LET r == [id |-> placed + 1, gpu |-> g, vram |-> req.vram, slices |-> req.slices]
             IN /\ resv' = resv \cup {r}
                /\ byGPU' = [byGPU EXCEPT ![g] = @ \cup {r}]
                /\ answer' = [kind |-> "placed", id |-> placed + 1, gpu |-> g]
    BY <1>2, PlaceDoes
  <2>2. A!RoomOn(g, req)
    BY CandidatesHaveRoom
  <2>3. placed < MaxPlacements /\ gpus' = gpus /\ placed \in Nat /\ MaxPlacements \in Nat
    BY <1>2, LedgerAssumption DEF Place, LedgerInv, BooksOK
  <2>4. placed + 1 \in 1..MaxPlacements
    BY <2>3
  <2>5. \A t \in resv : t.id # placed + 1
    BY <2>3 DEF LedgerInv, BooksOK
  <2>6. g \in Gpus
    BY DEF Candidates, LedgerInv, FleetOK
  <2>7. A!Grant(req, g, placed + 1)
    BY <2>1, <2>2, <2>3, <2>5 DEF A!Grant
  <2>8. QED
    BY <2>4, <2>6, <2>7 DEF A!AllocatorNext
<1>3. ASSUME NEW req \in Requests, NoCapacity(req) PROVE A!AllocatorNext
  <2>1. \A g \in Gpus : ~A!RoomOn(g, req)
    BY <1>3, CandidatesHaveRoom DEF NoCapacity
  <2>2. A!Refuse(req)
    BY <1>3, <2>1 DEF NoCapacity, A!Refuse
  <2>3. QED
    BY <2>2 DEF A!AllocatorNext
<1>4. ASSUME NEW id \in 1..MaxPlacements, Release(id) PROVE A!AllocatorNext
  <2>1. resv' = {r \in resv : r.id # id}
    BY <1>4 DEF Release
  <2>2. A!Return(id)
    BY <1>4, <2>1 DEF Release, NoContent, A!Return
  <2>3. QED
    BY <2>2 DEF A!AllocatorNext
<1>5. ASSUME NEW g \in Gpus, Gauge(g) PROVE A!AllocatorNext
  <2>1. g \in DOMAIN gpus /\ FreeVRAM(g) = gpus[g].vram - A!UsedVRAM(A!On(g))
    BY <1>5, FreeIsNumber DEF Gauge
  <2>2. A!Report
    BY <1>5, <2>1, Zenon DEF Gauge, A!Report
  <2>3. QED
    BY <2>2 DEF A!AllocatorNext
<1>6. CASE Snapshot \/ Unprocessable \/ Reboot
  BY <1>6 DEF Snapshot, Unprocessable, Reboot, A!Report, A!Malformed, A!Forget, A!AllocatorNext
<1>7. CASE UNCHANGED ledgerVars
  BY <1>7 DEF ledgerVars
<1>8. QED
  BY <1>1, <1>2, <1>3, <1>4, <1>5, <1>6, <1>7 DEF LedgerNext

\* gpu-scheduler keeps its promise for any fleet and any sequence of calls: room
\* is granted only where there is room by the reservations in force, refused
\* only when no GPU has any, and what is reported is what is left.
THEOREM LedgerImplements == LedgerSpec => LedgerImplementsAllocator
<1>1. LedgerInit => A!AllocatorInit
  BY DEF LedgerInit, A!AllocatorInit
<1>2. QED
  BY <1>1, LedgerInitInv, LedgerNextInv, LedgerStepIsAllocatorStep, PTL
     DEF LedgerSpec, LedgerImplementsAllocator, A!AllocatorSpec

-----------------------------------------------------------------------------
(* The claim-check ring.  A locator is told from a stale one by its        *)
(* generation; that this tells the right frames apart rests on no payload  *)
(* being written twice: a chain has one Put of the ingest under way, with  *)
(* a sequence number of its own, and redacts only the head of its queue.   *)

Slots     == 0 .. RingCap - 1
Payloads  == Chains \X Nat \X {"raw", "redacted"}
Frames    == [payload : Payloads, loc : [slot : Slots, gen : Nat], at : {"detect", "redact", "sink"}]
Indexes   == {Idle} \cup [st : {"put"}, slot : Slots]
Unused    == [st |-> "unused"]
Started   == [st : {"starting", "live", "ended"}, pipeline : Pipelines, cancelled : BOOLEAN, seq : Nat,
              ingest : Indexes, flight : Seq(Frames), redact : Indexes]
Rings     == [slots : [Slots -> Payloads \cup {Empty}], generation : [Slots -> Nat], next : Nat]

RingTypes ==
  /\ DOMAIN chain = Chains /\ \A c \in Chains : chain[c] \in {Unused} \cup Started
  /\ ring \in {NoRing} \cup Rings
  /\ \A c \in Chains : Live(c) => ring \in Rings
  /\ \A c \in Chains : chain[c].st = "starting" =>
        chain[c].ingest = Idle /\ chain[c].redact = Idle /\ chain[c].flight = << >>
  /\ \A p \in DOMAIN running : running[p] \in Chains /\ chain[running[p]] \in Started

\* A frame of the run, its number not the one being written.
OfChain(x, c, f) ==
  /\ f.payload[1] = c /\ f.payload[2] <= x.seq
  /\ x.ingest # Idle => f.payload[2] < x.seq
  /\ f.at # "sink" => f.payload[3] = "raw"

ReadsOwn(f) ==
  /\ f.loc.gen <= ring.generation[f.loc.slot]
  /\ f.loc.gen = ring.generation[f.loc.slot] <=> ring.slots[f.loc.slot] = f.payload

\* The queue of a run: only its head has been redacted, or is being redacted.
Queued(x, c) ==
  /\ \A j \in 1 .. Len(x.flight) : OfChain(x, c, x.flight[j]) /\ (j > 1 => x.flight[j].at # "sink")
  /\ x.redact # Idle => x.flight # << >> /\ x.flight[1].at = "redact"

RingInv ==
  /\ RingTypes
  /\ \A c \in Chains : Live(c) =>
        /\ Queued(chain[c], c)
        /\ \A j \in 1 .. Len(chain[c].flight) : ReadsOwn(chain[c].flight[j])

\* The write bumps the generation, so every locator of the slot goes stale ...
LEMMA OthersGoStale ==
  ASSUME ring \in Rings, NEW s \in Slots, NEW p \in Payloads, ring' = Put(s, p).ring,
         NEW f \in Frames, ReadsOwn(f), f.payload # p
  PROVE  ReadsOwn(f)'
<1>1. /\ ring'.generation = [ring.generation EXCEPT ![s] = ring.generation[s] + 1]
      /\ ring'.slots = [ring.slots EXCEPT ![s] = p]
  BY DEF Put, Rings
<1>2. f.loc.slot \in Slots /\ f.loc.gen \in Nat
  BY DEF Frames
<1>3. ring.generation \in [Slots -> Nat] /\ DOMAIN ring.slots = Slots
  BY DEF Rings
<1>4. PICK t \in Slots : t = f.loc.slot
  BY <1>2
<1>5. CASE t = s
  BY <1>1, <1>2, <1>3, <1>4, <1>5 DEF ReadsOwn
<1>6. CASE t # s
  BY <1>1, <1>2, <1>3, <1>4, <1>6 DEF ReadsOwn
<1> QED BY <1>5, <1>6

\* ... and the one it returns does not.
LEMMA WrittenIsFresh ==
  ASSUME ring \in Rings, NEW s \in Slots, NEW p \in Payloads, ring' = Put(s, p).ring,
         NEW f \in Frames, f.payload = p, f.loc = Put(s, p).loc
  PROVE  ReadsOwn(f)'
<1>1. /\ ring'.generation = [ring.generation EXCEPT ![s] = ring.generation[s] + 1]
      /\ ring'.slots = [ring.slots EXCEPT ![s] = p]
  BY DEF Put, Rings
<1>2. f.loc = [slot |-> s, gen |-> ring.generation[s] + 1]
  BY DEF Put, Locator
<1>3. f.loc.slot = s /\ f.loc.gen = ring.generation[s] + 1
  BY <1>2
<1>4. ring.generation \in [Slots -> Nat] /\ DOMAIN ring.slots = Slots
  BY DEF Rings
<1> QED BY <1>1, <1>3, <1>4 DEF ReadsOwn

LEMMA PutIsRing ==
  ASSUME ring \in Rings, NEW s \in Slots, NEW p \in Payloads
  PROVE  Put(s, p).ring \in Rings /\ Put(s, p).loc \in [slot : Slots, gen : Nat]
<1>1. PICK g \in Nat : g = ring.generation[s] + 1
  BY DEF Rings
<1>2. PICK gs \in [Slots -> Nat], sl \in [Slots -> Payloads \cup {Empty}] :
        gs = [ring.generation EXCEPT ![s] = g] /\ sl = [ring.slots EXCEPT ![s] = p]
  BY DEF Rings
<1>3. Put(s, p).ring = [ring EXCEPT !.slots = sl, !.generation = gs]
  BY <1>1, <1>2 DEF Put, Rings
<1>4. Put(s, p).loc = [slot |-> s, gen |-> g]
  BY <1>1 DEF Put, Locator
<1>5. [ring EXCEPT !.slots = sl, !.generation = gs] \in Rings
  <2> DEFINE Sl == [Slots -> Payloads \cup {Empty}]
             Gs == [Slots -> Nat]
  <2>1. ring \in [slots : Sl, generation : Gs, next : Nat] /\ sl \in Sl /\ gs \in Gs
    BY DEF Rings
  <2> HIDE DEF Sl, Gs
  <2>2. [ring EXCEPT !.slots = sl, !.generation = gs] \in [slots : Sl, generation : Gs, next : Nat]
    BY <2>1
  <2> QED BY <2>2 DEF Sl, Gs, Rings
<1>6. [slot |-> s, gen |-> g] \in [slot : Slots, gen : Nat]
  OBVIOUS
<1> QED BY <1>3, <1>4, <1>5, <1>6

\* One run changes; the contents of the ring do not.
LEMMA ChainMoves ==
  ASSUME RingInv, NEW c \in Chains, NEW x \in Started, DOMAIN chain' = Chains,
         \A d \in Chains : chain'[d] = IF d = c THEN x ELSE chain[d],
         ring' \in Rings \/ (ring' = ring /\ x.st # "live"),
         \A d \in Chains : Live(d) => ring'.generation = ring.generation /\ ring'.slots = ring.slots,
         x.st = "starting" => x.ingest = Idle /\ x.redact = Idle /\ x.flight = << >>,
         x.st = "live" => Queued(x, c),
         x.st = "live" => \A j \in 1 .. Len(x.flight) :
           \E i \in 1 .. Len(chain[c].flight) :
             /\ Live(c) /\ x.flight[j].payload = chain[c].flight[i].payload
             /\ x.flight[j].loc = chain[c].flight[i].loc,
         \A p \in DOMAIN running' : running'[p] = c \/ (p \in DOMAIN running /\ running'[p] = running[p])
  PROVE  RingInv'
<1>1. RingTypes'
  BY DEF RingInv, RingTypes, Live
<1>2. ASSUME NEW d \in Chains, chain'[d].st = "live"
      PROVE  /\ Queued(chain'[d], d)
             /\ \A j \in 1 .. Len(chain'[d].flight) : ReadsOwn(chain[d].flight[j])' \/ d = c
  BY <1>2, SMTT(30) DEF RingInv, Live, ReadsOwn
<1>3. ASSUME NEW d \in Chains, chain'[d].st = "live", NEW j \in 1 .. Len(chain'[d].flight)
      PROVE  ReadsOwn(chain[d].flight[j])'
  <2>1. CASE d = c
    <3>1. PICK i \in 1 .. Len(chain[c].flight) :
             /\ Live(c) /\ x.flight[j].payload = chain[c].flight[i].payload
             /\ x.flight[j].loc = chain[c].flight[i].loc
      BY <1>3, <2>1
    <3>2. ReadsOwn(chain[c].flight[i]) /\ chain'[d] = x
      BY <2>1, <3>1 DEF RingInv
    <3> QED BY <2>1, <3>1, <3>2 DEF ReadsOwn
  <2>2. CASE d # c
    BY <1>2, <1>3, <2>2
  <2> QED BY <2>1, <2>2
<1> QED BY <1>1, <1>2, <1>3 DEF RingInv, Live

\* One run writes a payload that none of the frames it keeps was written for.
LEMMA ChainWrites ==
  ASSUME RingInv, NEW c \in Chains, Live(c), NEW s \in Slots, NEW p \in Payloads, p[1] = c,
         NEW x \in Started, x.st = "live", Queued(x, c), DOMAIN chain' = Chains,
         \A d \in Chains : chain'[d] = IF d = c THEN x ELSE chain[d],
         ring' = Put(s, p).ring, running' = running,
         \A j \in 1 .. Len(x.flight) :
           \/ x.flight[j].payload = p /\ x.flight[j].loc = Put(s, p).loc
           \/ \E i \in 1 .. Len(chain[c].flight) :
                x.flight[j] = chain[c].flight[i] /\ chain[c].flight[i].payload # p
  PROVE  RingInv'
<1>0. ring \in Rings /\ ring' \in Rings
  BY PutIsRing DEF RingInv, RingTypes
<1>1. RingTypes'
  BY <1>0 DEF RingInv, RingTypes, Live
<1>2. ASSUME NEW d \in Chains, chain'[d].st = "live"
      PROVE  Queued(chain'[d], d)
  BY <1>2 DEF RingInv, Live
<1>3. ASSUME NEW d \in Chains, chain'[d].st = "live", NEW j \in 1 .. Len(chain'[d].flight)
      PROVE  ReadsOwn(chain[d].flight[j])'
  <2>0. chain'[d] \in Started /\ chain'[d].flight \in Seq(Frames)
    <3>1. chain'[d] \in {Unused} \cup Started
      BY <1>1 DEF RingTypes
    <3>2. chain'[d] \in Started
      BY <3>1, <1>3 DEF Unused
    <3> QED BY <3>2 DEF Started
  <2>1. PICK f \in Frames : f = chain'[d].flight[j]
    BY <1>3, <2>0
  <2>2. CASE d = c /\ f.payload = p /\ f.loc = Put(s, p).loc
    BY <1>0, <2>1, <2>2, WrittenIsFresh DEF ReadsOwn
  <2>3. CASE ~(d = c /\ f.payload = p /\ f.loc = Put(s, p).loc)
    <3>1. ReadsOwn(f) /\ f.payload # p
      <4>1. CASE d = c
        BY <1>3, <2>1, <2>3, <4>1 DEF RingInv
      <4>2. CASE d # c
        <5>1. chain'[d] = chain[d] /\ Live(d)
          BY <1>3, <4>2 DEF Live
        <5>2. ReadsOwn(f) /\ OfChain(chain[d], d, f)
          BY <1>3, <2>1, <5>1 DEF RingInv, Queued
        <5> QED BY <4>2, <5>2 DEF OfChain
      <4> QED BY <4>1, <4>2
    <3> QED BY <1>0, <2>1, <3>1, OthersGoStale DEF ReadsOwn
  <2> QED BY <2>2, <2>3
<1> QED BY <1>1, <1>2, <1>3 DEF RingInv, Live

\* A queue without one of its frames, and with one of them marked.
LEMMA DropsAt ==
  ASSUME NEW S, NEW q \in Seq(S), NEW j \in 1 .. Len(q)
  PROVE  LET t == SubSeq(q, 1, j - 1) \o SubSeq(q, j + 1, Len(q))
         IN /\ t \in Seq(S) /\ Len(t) = Len(q) - 1
            /\ \A k \in 1 .. Len(t) : t[k] = IF k < j THEN q[k] ELSE q[k + 1]
<1>1. Len(q) \in Nat /\ j \in Nat /\ \A k \in 1 .. Len(q) : q[k] \in S
  OBVIOUS
<1>2. PICK n \in Nat : n = Len(q)
  BY <1>1
<1>3. /\ SubSeq(q, 1, j - 1) \in Seq(S) /\ Len(SubSeq(q, 1, j - 1)) = j - 1
      /\ \A k \in 1 .. j - 1 : SubSeq(q, 1, j - 1)[k] = q[k]
  BY <1>1, <1>2
<1>4. /\ SubSeq(q, j + 1, n) \in Seq(S) /\ Len(SubSeq(q, j + 1, n)) = n - j
      /\ \A k \in 1 .. n - j : SubSeq(q, j + 1, n)[k] = q[k + j]
  BY <1>1, <1>2
<1>5. PICK a \in Seq(S), b \in Seq(S) : a = SubSeq(q, 1, j - 1) /\ b = SubSeq(q, j + 1, n)
  BY <1>3, <1>4, Zenon
<1>6. /\ a \o b \in Seq(S) /\ Len(a \o b) = n - 1
      /\ \A k \in 1 .. n - 1 : (a \o b)[k] = IF k < j THEN q[k] ELSE q[k + 1]
  <2>1. Len(a) = j - 1 /\ Len(b) = n - j
    BY <1>3, <1>4, <1>5
  <2>2. ASSUME NEW k \in 1 .. n - 1 PROVE (a \o b)[k] = IF k < j THEN q[k] ELSE q[k + 1]
    <3>1. CASE k < j
      <4>1. (a \o b)[k] = a[k] /\ k \in 1 .. j - 1
        BY <1>1, <1>2, <2>1, <3>1
      <4> QED BY <1>3, <1>5, <3>1, <4>1
    <3>2. CASE ~(k < j)
      <4>1. (a \o b)[k] = b[k - (j - 1)]
        BY <1>1, <1>2, <2>1, <3>2, ConcatProperties, SMTT(30)
      <4>2. PICK m \in 1 .. n - j : m = k - (j - 1)
        BY <1>1, <1>2, <3>2
      <4>3. b[m] = q[m + j] /\ m + j = k + 1
        BY <1>1, <1>4, <1>5, <4>2
      <4> QED BY <3>2, <4>1, <4>2, <4>3
    <3> QED BY <3>1, <3>2
  <2>3. a \o b \in Seq(S) /\ Len(a \o b) = Len(a) + Len(b)
    BY ConcatProperties
  <2>4. Len(a \o b) = n - 1
    BY <1>1, <1>2, <2>1, <2>3
  <2> QED BY <2>2, <2>3, <2>4, Zenon
<1> QED BY <1>2, <1>5, <1>6

Replaced(q, j, e) == SubSeq(q, 1, j - 1) \o e \o SubSeq(q, j + 1, Len(q))

LEMMA MarksAt ==
  ASSUME NEW S, NEW q \in Seq(S), NEW j \in 1 .. Len(q), NEW g \in S,
         NEW e \in Seq(S), Len(e) = 1, e[1] = g
  PROVE  /\ Replaced(q, j, e) \in Seq(S) /\ Len(Replaced(q, j, e)) = Len(q)
         /\ \A k \in 1 .. Len(q) : Replaced(q, j, e)[k] = IF k = j THEN g ELSE q[k]
<1>1. Len(q) \in Nat /\ j \in Nat /\ \A k \in 1 .. Len(q) : q[k] \in S
  OBVIOUS
<1>2. PICK n \in Nat : n = Len(q)
  BY <1>1
<1>3. /\ SubSeq(q, 1, j - 1) \in Seq(S) /\ Len(SubSeq(q, 1, j - 1)) = j - 1
      /\ \A k \in 1 .. j - 1 : SubSeq(q, 1, j - 1)[k] = q[k]
  BY <1>1, <1>2
<1>4. /\ SubSeq(q, j + 1, n) \in Seq(S) /\ Len(SubSeq(q, j + 1, n)) = n - j
      /\ \A k \in 1 .. n - j : SubSeq(q, j + 1, n)[k] = q[k + j]
  BY <1>1, <1>2
<1>5. PICK a \in Seq(S), b \in Seq(S) : a = SubSeq(q, 1, j - 1) /\ b = SubSeq(q, j + 1, n)
  BY <1>3, <1>4, Zenon
<1>7. PICK h \in Seq(S) : h = a \o e
  <2>1. a \o e \in Seq(S)
    OBVIOUS
  <2> QED BY <2>1, Zenon
<1>8. /\ Len(h) = j /\ h[j] = g
      /\ \A k \in 1 .. j - 1 : h[k] = q[k]
  <2>1. Len(a) = j - 1 /\ Len(e) = 1 /\ e[1] = g
    BY <1>3, <1>5
  <2>2. ASSUME NEW k \in 1 .. j - 1 PROVE h[k] = q[k]
    <3>1. h[k] = a[k]
      BY <1>1, <1>7, <2>1, ConcatProperties
    <3> QED BY <1>3, <1>5, <3>1
  <2>3. h[j] = g
    <3>1. j \in 1 .. Len(a) + Len(e) /\ ~(j <= Len(a)) /\ j - Len(a) = 1
      BY <1>1, <2>1
    <3>2. (a \o e)[j] = e[j - Len(a)]
      BY <3>1, ConcatProperties
    <3> QED BY <1>7, <2>1, <3>1, <3>2
  <2>4. Len(a \o e) = Len(a) + Len(e)
    BY ConcatProperties
  <2>5. Len(h) = j
    BY <1>1, <1>7, <2>1, <2>4
  <2> QED BY <2>2, <2>3, <2>5
<1>9. /\ h \o b \in Seq(S) /\ Len(h \o b) = n
      /\ \A k \in 1 .. n : (h \o b)[k] = IF k = j THEN g ELSE q[k]
  <2>1. Len(b) = n - j
    BY <1>4, <1>5
  <2>2. ASSUME NEW k \in 1 .. n PROVE (h \o b)[k] = IF k = j THEN g ELSE q[k]
    <3>1. CASE k <= j
      <4>1. (h \o b)[k] = h[k]
        BY <1>1, <1>2, <1>8, <2>1, <3>1
      <4> QED BY <1>1, <1>8, <3>1, <4>1
    <3>2. CASE ~(k <= j)
      <4>1. (h \o b)[k] = b[k - j]
        BY <1>1, <1>2, <1>8, <2>1, <3>2
      <4>2. PICK m \in 1 .. n - j : m = k - j
        BY <1>1, <1>2, <3>2
      <4>3. b[m] = q[m + j] /\ m + j = k
        BY <1>1, <1>4, <1>5, <4>2
      <4> QED BY <1>1, <3>2, <4>1, <4>2, <4>3
    <3> QED BY <3>1, <3>2
  <2>3. h \o b \in Seq(S)
    OBVIOUS
  <2>4. Len(h \o b) = Len(h) + Len(b)
    OBVIOUS
  <2> QED BY <1>1, <1>2, <1>8, <2>1, <2>2, <2>3, <2>4
<1> QED BY <1>2, <1>5, <1>7, <1>9 DEF Replaced

LEMMA StartedRun ==
  ASSUME RingInv, NEW c \in Chains, chain[c].st # "unused"
  PROVE  /\ chain[c] \in Started
         /\ chain[c].seq \in Nat /\ chain[c].flight \in Seq(Frames)
         /\ chain[c].ingest \in Indexes /\ chain[c].redact \in Indexes
<1>1. chain[c] \in Started
  BY DEF RingInv, RingTypes, Unused
<1> QED BY <1>1 DEF Started

\* What a run puts in its queue is of the kinds a queue holds.
LEMMA NewFlight ==
  ASSUME NEW y \in Started, NEW t \in Seq(Frames)
  PROVE  [y EXCEPT !.flight = t] \in Started
<1> DEFINE T == Seq(Frames)
<1>1. y \in [st : {"starting", "live", "ended"}, pipeline : Pipelines, cancelled : BOOLEAN, seq : Nat,
              ingest : Indexes, flight : T, redact : Indexes]
  BY DEF Started
<1>2. t \in T
  OBVIOUS
<1> HIDE DEF T
<1>3. [y EXCEPT !.flight = t] \in [st : {"starting", "live", "ended"}, pipeline : Pipelines,
              cancelled : BOOLEAN, seq : Nat, ingest : Indexes, flight : T, redact : Indexes]
  BY <1>1, <1>2
<1> QED BY <1>3 DEF T, Started

LEMMA DetectKeeps ==
  ASSUME RingInv, NEW c \in Chains, Detect(c)
  PROVE  RingInv'
<1>1. Live(c) /\ chain[c].st = "live" /\ ring \in Rings
  BY DEF Detect, Live, RingInv, RingTypes
<1>2. chain[c] \in Started /\ chain[c].flight \in Seq(Frames)
  BY <1>1, StartedRun
<1>3. PICK y \in Started, q \in Seq(Frames) : y = chain[c] /\ q = chain[c].flight
  BY <1>2, Zenon
<1>4. Queued(y, c) /\ y.flight = q /\ y.st = "live"
  BY <1>1, <1>3 DEF RingInv
<1>5. PICK j \in 1 .. Len(q) :
        /\ q[j].at = "detect" /\ \A k \in 1 .. j - 1 : q[k].at # "detect"
        /\ chain' = [chain EXCEPT ![c].flight =
              IF Get(q[j].loc) = ErrStale \/ chain[c].pipeline \notin Redacting
              THEN SubSeq(q, 1, j - 1) \o SubSeq(q, j + 1, Len(q))
              ELSE SubSeq(q, 1, j - 1) \o <<[q[j] EXCEPT !.at = "redact"]>> \o SubSeq(q, j + 1, Len(q))]
  <2>1. DOMAIN q = 1 .. Len(q)
    OBVIOUS
  <2> QED BY <1>3, <2>1 DEF Detect
<1>6. PICK g \in Frames : g = [q[j] EXCEPT !.at = "redact"]
  <2>1. q[j] \in Frames
    OBVIOUS
  <2> QED BY <2>1 DEF Frames
<1>7. g.at = "redact" /\ g.payload = q[j].payload /\ g.loc = q[j].loc
  <2>1. q[j] \in Frames
    OBVIOUS
  <2> QED BY <1>6, <2>1 DEF Frames
<1>8. PICK t : /\ t \in Seq(Frames)
              /\ chain' = [chain EXCEPT ![c].flight = t]
              /\ \/ /\ Len(t) = Len(q) - 1
                    /\ \A k \in 1 .. Len(t) : t[k] = IF k < j THEN q[k] ELSE q[k + 1]
                 \/ /\ Len(t) = Len(q)
                    /\ \A k \in 1 .. Len(t) : t[k] = IF k = j THEN g ELSE q[k]
  <2>1. CASE Get(q[j].loc) = ErrStale \/ chain[c].pipeline \notin Redacting
    <3> DEFINE u == SubSeq(q, 1, j - 1) \o SubSeq(q, j + 1, Len(q))
    <3>1. /\ u \in Seq(Frames) /\ Len(u) = Len(q) - 1
          /\ \A k \in 1 .. Len(u) : u[k] = IF k < j THEN q[k] ELSE q[k + 1]
      BY DropsAt
    <3>2. chain' = [chain EXCEPT ![c].flight = u]
      BY <1>5, <2>1
    <3> HIDE DEF u
    <3> QED BY <3>1, <3>2
  <2>2. CASE ~(Get(q[j].loc) = ErrStale \/ chain[c].pipeline \notin Redacting)
    <3>a. PICK e \in Seq(Frames) : e = <<g>>
      <4>1. <<g>> \in Seq(Frames)
        OBVIOUS
      <4> QED BY <4>1, Zenon
    <3>b. Len(e) = 1 /\ e[1] = g
      BY <3>a
    <3>0. PICK u : u = Replaced(q, j, e)
      OBVIOUS
    <3>1. /\ u \in Seq(Frames) /\ Len(u) = Len(q)
          /\ \A k \in 1 .. Len(u) : u[k] = IF k = j THEN g ELSE q[k]
      BY <3>0, <3>b, MarksAt
    <3>2. chain' = [chain EXCEPT ![c].flight = u]
      BY <1>5, <1>6, <2>2, <3>0, <3>a DEF Replaced
    <3> QED BY <3>1, <3>2
  <2> QED BY <2>1, <2>2
<1>9. PICK x \in Started : x = [y EXCEPT !.flight = t]
  BY <1>8, NewFlight
<1>10. /\ x.st = "live" /\ x.seq = y.seq /\ x.ingest = y.ingest /\ x.redact = y.redact /\ x.flight = t
       /\ \A d \in Chains : chain'[d] = IF d = c THEN x ELSE chain[d]
       /\ DOMAIN chain' = Chains
  BY <1>3, <1>4, <1>8, <1>9 DEF RingInv, RingTypes, Started
<1>11. ASSUME NEW k \in 1 .. Len(t)
       PROVE  \E i \in 1 .. Len(q) : /\ t[k].payload = q[i].payload /\ t[k].loc = q[i].loc
                                     /\ (t[k].at # q[i].at => t[k].at = "redact" /\ q[i].at = "detect")
                                     /\ (k > 1 => i > 1)
  <2>1. Len(q) \in Nat /\ Len(t) \in Nat
    BY <1>8
  <2>2. CASE Len(t) = Len(q) - 1 /\ \A l \in 1 .. Len(t) : t[l] = IF l < j THEN q[l] ELSE q[l + 1]
    <3>1. CASE k < j
      BY <2>1, <2>2, <3>1
    <3>2. CASE ~(k < j)
      <4>1. t[k] = q[k + 1] /\ k + 1 \in 1 .. Len(q) /\ k + 1 > 1
        BY <2>1, <2>2, <3>2
      <4> QED BY <4>1
    <3> QED BY <3>1, <3>2
  <2>3. CASE Len(t) = Len(q) /\ \A l \in 1 .. Len(t) : t[l] = IF l = j THEN g ELSE q[l]
    BY <1>5, <1>7, <2>1, <2>3
  <2> QED BY <1>8, <2>2, <2>3
<1>12. Queued(x, c)
  <2>1. ASSUME NEW k \in 1 .. Len(t) PROVE OfChain(x, c, t[k]) /\ (k > 1 => t[k].at # "sink")
    <3>1. PICK i \in 1 .. Len(q) :
            /\ t[k].payload = q[i].payload /\ t[k].loc = q[i].loc
            /\ (t[k].at # q[i].at => t[k].at = "redact" /\ q[i].at = "detect")
            /\ (k > 1 => i > 1)
      BY <1>11
    <3>2. OfChain(y, c, q[i]) /\ (i > 1 => q[i].at # "sink")
      BY <1>4 DEF Queued
    <3>3. OfChain(x, c, t[k])
      BY <1>10, <3>1, <3>2 DEF OfChain
    <3> QED BY <3>1, <3>2, <3>3
  <2>2. ASSUME y.redact # Idle PROVE t # << >> /\ t[1].at = "redact"
    <3>1. Len(q) \in Nat /\ Len(t) \in Nat /\ q[1].at = "redact"
      BY <1>4, <1>8, <2>2 DEF Queued
    <3>2. j # 1
      BY <1>5, <3>1
    <3>3. Len(t) >= 1 /\ t[1] = q[1]
      BY <1>8, <3>1, <3>2
    <3> QED BY <3>1, <3>3
  <2> QED BY <1>10, <2>1, <2>2 DEF Queued
<1>13. ring' = ring /\ running' = running
  BY DEF Detect
<1>14. \A p \in DOMAIN running' : running'[p] = c \/ (p \in DOMAIN running /\ running'[p] = running[p])
  BY <1>13
<1>15. \A k \in 1 .. Len(x.flight) :
         \E i \in 1 .. Len(chain[c].flight) :
           /\ Live(c) /\ x.flight[k].payload = chain[c].flight[i].payload
           /\ x.flight[k].loc = chain[c].flight[i].loc
  BY <1>1, <1>3, <1>10, <1>11
<1> QED BY <1>1, <1>10, <1>12, <1>13, <1>14, <1>15, ChainMoves

\* The head of a queue is done with.
HeadGone(c) ==
  /\ Live(c) /\ chain[c].redact = Idle /\ chain[c].flight # << >>
  /\ chain' = [chain EXCEPT ![c].flight = Tail(@)]
  /\ ring' = ring /\ running' = running

LEMMA HeadLeaves ==
  ASSUME RingInv, NEW c \in Chains, HeadGone(c)
  PROVE  RingInv'
<1>1. chain[c].st = "live" /\ ring \in Rings /\ Live(c)
  BY DEF HeadGone, Live, RingInv, RingTypes
<1>2. chain[c] \in Started /\ chain[c].flight \in Seq(Frames)
  BY <1>1, StartedRun
<1>3. PICK y \in Started, q \in Seq(Frames) : y = chain[c] /\ q = chain[c].flight
  BY <1>2, Zenon
<1>4. Queued(y, c) /\ y.flight = q /\ y.st = "live" /\ q # << >> /\ y.redact = Idle
  BY <1>1, <1>3 DEF RingInv, HeadGone
<1>5. PICK t : /\ t \in Seq(Frames) /\ t = Tail(q) /\ Len(t) = Len(q) - 1 /\ Len(q) \in Nat
              /\ \A k \in 1 .. Len(t) : t[k] = q[k + 1]
  <2>1. /\ Tail(q) \in Seq(Frames) /\ Len(Tail(q)) = Len(q) - 1 /\ Len(q) \in Nat
        /\ \A k \in 1 .. Len(Tail(q)) : Tail(q)[k] = q[k + 1]
    BY <1>4, HeadTailProperties, LenProperties
  <2> QED BY <2>1, Zenon
<1>6. PICK x \in Started : x = [y EXCEPT !.flight = t]
  BY <1>5, NewFlight
<1>7. /\ x.st = "live" /\ x.seq = y.seq /\ x.ingest = y.ingest /\ x.redact = y.redact /\ x.flight = t
      /\ \A d \in Chains : chain'[d] = IF d = c THEN x ELSE chain[d]
      /\ DOMAIN chain' = Chains
  BY <1>3, <1>4, <1>5, <1>6 DEF RingInv, RingTypes, Started, HeadGone
<1>8. ASSUME NEW k \in 1 .. Len(t)
      PROVE  t[k] = q[k + 1] /\ k + 1 \in 1 .. Len(q) /\ k + 1 > 1
  BY <1>5
<1>9. Queued(x, c)
  <2>1. ASSUME NEW k \in 1 .. Len(t) PROVE OfChain(x, c, t[k]) /\ t[k].at # "sink"
    BY <1>4, <1>7, <1>8 DEF Queued, OfChain
  <2> QED BY <1>4, <1>7, <2>1 DEF Queued
<1>10. \A k \in 1 .. Len(x.flight) :
         \E i \in 1 .. Len(chain[c].flight) :
           /\ Live(c) /\ x.flight[k].payload = chain[c].flight[i].payload
           /\ x.flight[k].loc = chain[c].flight[i].loc
  BY <1>1, <1>3, <1>7, <1>8
<1>11. \A p \in DOMAIN running' : running'[p] = c \/ (p \in DOMAIN running /\ running'[p] = running[p])
  BY DEF HeadGone
<1>12. ring' \in Rings /\ ring'.generation = ring.generation /\ ring'.slots = ring.slots
  BY <1>1 DEF HeadGone
<1> QED BY <1>7, <1>9, <1>10, <1>11, <1>12, ChainMoves

\* Taking an index leaves the contents of the ring alone.
LEMMA IndexTaken ==
  ASSUME ring \in Rings
  PROVE  /\ TakeIndex \in Rings
         /\ TakeIndex.generation = ring.generation /\ TakeIndex.slots = ring.slots
         /\ NextSlot \in Slots
<1>1. PICK n \in Nat : n = ring.next + 1
  BY DEF Rings
<1>2. TakeIndex = [ring EXCEPT !.next = n]
  BY <1>1 DEF TakeIndex
<1>3. PICK m \in Nat : m = ring.next
  BY DEF Rings
<1>4. m % RingCap \in 0 .. RingCap - 1
  BY RingAssumption
<1>5. NextSlot \in Slots
  BY <1>3, <1>4 DEF NextSlot, Slots
<1> QED BY <1>2, <1>5 DEF Rings

LEMMA ConsumeKeeps ==
  ASSUME RingInv, NEW c \in Chains, Consume(c)
  PROVE  RingInv'
<1>1. /\ Live(c) /\ chain[c].st = "live" /\ chain[c].flight # << >> /\ Head(chain[c].flight).at = "sink"
      /\ chain' = [chain EXCEPT ![c].flight = Tail(@)] /\ ring' = ring /\ running' = running
  BY DEF Consume, Live
<1>2. Queued(chain[c], c) /\ chain[c].flight \in Seq(Frames)
  BY <1>1, StartedRun DEF RingInv
<1>3. chain[c].flight[1].at = "sink"
  BY <1>1, <1>2
<1>4. chain[c].redact = Idle
  BY <1>2, <1>3 DEF Queued
<1> QED BY <1>1, <1>4, HeadLeaves DEF HeadGone

LEMMA RedactKeeps ==
  ASSUME RingInv, NEW c \in Chains, Redact(c)
  PROVE  RingInv'
<1>1. /\ Live(c) /\ chain[c].st = "live" /\ chain[c].redact = Idle /\ running' = running
      /\ chain[c].flight # << >> /\ Head(chain[c].flight).at = "redact" /\ ring \in Rings
  BY DEF Redact, Live, RingInv, RingTypes
<1>2. CASE chain' = [chain EXCEPT ![c].flight = Tail(@)] /\ UNCHANGED ring
  BY <1>1, <1>2, HeadLeaves DEF HeadGone
<1>3. CASE chain' = [chain EXCEPT ![c].redact = [st |-> "put", slot |-> NextSlot]] /\ ring' = TakeIndex
  <2>1. chain[c] \in Started /\ chain[c].flight \in Seq(Frames)
    BY <1>1, StartedRun
  <2>2. PICK y \in Started : y = chain[c]
    BY <2>1
  <2>3. Queued(y, c) /\ y.st = "live" /\ y.flight # << >> /\ y.flight[1].at = "redact"
    BY <1>1, <2>1, <2>2 DEF RingInv
  <2>4. PICK w \in Indexes : w = [st |-> "put", slot |-> NextSlot]
    BY <1>1, IndexTaken DEF Indexes
  <2>5. PICK x \in Started : x = [y EXCEPT !.redact = w]
    BY DEF Started
  <2>6. /\ x.st = "live" /\ x.seq = y.seq /\ x.ingest = y.ingest /\ x.flight = y.flight
        /\ \A d \in Chains : chain'[d] = IF d = c THEN x ELSE chain[d]
        /\ DOMAIN chain' = Chains
    BY <1>3, <2>2, <2>3, <2>4, <2>5 DEF RingInv, RingTypes, Started
  <2>7. Queued(x, c)
    BY <2>3, <2>6 DEF Queued, OfChain
  <2>8. \A k \in 1 .. Len(x.flight) :
          \E i \in 1 .. Len(chain[c].flight) :
            /\ Live(c) /\ x.flight[k].payload = chain[c].flight[i].payload
            /\ x.flight[k].loc = chain[c].flight[i].loc
    BY <1>1, <2>2, <2>6
  <2>9. /\ ring' \in Rings /\ ring'.generation = ring.generation /\ ring'.slots = ring.slots
        /\ \A p \in DOMAIN running' : running'[p] = c \/ (p \in DOMAIN running /\ running'[p] = running[p])
    BY <1>1, <1>3, IndexTaken
  <2> QED BY <2>6, <2>7, <2>8, <2>9, ChainMoves
<1> QED BY <1>2, <1>3 DEF Redact

LEMMA TickKeeps ==
  ASSUME RingInv, NEW c \in Chains, Tick(c)
  PROVE  RingInv'
<1>1. /\ Live(c) /\ chain[c].st = "live" /\ chain[c].ingest = Idle /\ running' = running /\ ring \in Rings
      /\ ring' = TakeIndex
      /\ chain' = [chain EXCEPT ![c].ingest = [st |-> "put", slot |-> NextSlot], ![c].seq = @ + 1]
  BY DEF Tick, Live, RingInv, RingTypes
<1>2. chain[c] \in Started /\ chain[c].flight \in Seq(Frames)
  BY <1>1, StartedRun
<1>3. PICK y \in Started, q \in Seq(Frames) : y = chain[c] /\ q = chain[c].flight
  BY <1>2, Zenon
<1>4. Queued(y, c) /\ y.st = "live" /\ y.flight = q /\ y.seq \in Nat
  BY <1>1, <1>3, StartedRun DEF RingInv
<1>5. PICK w \in Indexes : w = [st |-> "put", slot |-> NextSlot]
  BY <1>1, IndexTaken DEF Indexes
<1>6. PICK n \in Nat : n = y.seq + 1
  BY <1>4
<1>7. PICK x \in Started : x = [y EXCEPT !.ingest = w, !.seq = n]
  BY DEF Started
<1>8. /\ x.st = "live" /\ x.seq = n /\ x.redact = y.redact /\ x.flight = q
      /\ \A d \in Chains : chain'[d] = IF d = c THEN x ELSE chain[d]
      /\ DOMAIN chain' = Chains
  BY <1>1, <1>3, <1>4, <1>5, <1>6, <1>7 DEF RingInv, RingTypes, Started
<1>9. Queued(x, c)
  <2>1. ASSUME NEW k \in 1 .. Len(q) PROVE OfChain(x, c, q[k]) /\ (k > 1 => q[k].at # "sink")
    <3>1. OfChain(y, c, q[k]) /\ (k > 1 => q[k].at # "sink")
      BY <1>4 DEF Queued
    <3>2. q[k].payload[2] \in Nat
      <4>0. PICK f \in Frames : f = q[k]
        OBVIOUS
      <4>1. q[k].payload \in Payloads
        BY <4>0 DEF Frames
      <4> QED BY <4>1 DEF Payloads
    <3> QED BY <1>4, <1>6, <1>8, <3>1, <3>2 DEF OfChain
  <2> QED BY <1>4, <1>8, <2>1 DEF Queued
<1>10. \A k \in 1 .. Len(x.flight) :
         \E i \in 1 .. Len(chain[c].flight) :
           /\ Live(c) /\ x.flight[k].payload = chain[c].flight[i].payload
           /\ x.flight[k].loc = chain[c].flight[i].loc
  BY <1>1, <1>3, <1>8
<1>11. /\ ring' \in Rings /\ ring'.generation = ring.generation /\ ring'.slots = ring.slots
       /\ \A p \in DOMAIN running' : running'[p] = c \/ (p \in DOMAIN running /\ running'[p] = running[p])
  BY <1>1, IndexTaken
<1> QED BY <1>8, <1>9, <1>10, <1>11, ChainMoves

LEMMA WriteFrameKeeps ==
  ASSUME RingInv, NEW c \in Chains, WriteFrame(c)
  PROVE  RingInv'
<1>1. Live(c) /\ chain[c].st = "live" /\ chain[c].ingest # Idle /\ ring \in Rings /\ running' = running
  BY DEF WriteFrame, Live, RingInv, RingTypes
<1>2. chain[c] \in Started /\ chain[c].flight \in Seq(Frames) /\ chain[c].ingest \in Indexes
  BY <1>1, StartedRun
<1>3. PICK y \in Started, q \in Seq(Frames) : y = chain[c] /\ q = chain[c].flight
  BY <1>2, Zenon
<1>4. Queued(y, c) /\ y.flight = q /\ y.st = "live" /\ y.seq \in Nat /\ y.ingest # Idle
  BY <1>1, <1>3, StartedRun DEF RingInv
<1>5. PICK s \in Slots : s = chain[c].ingest.slot
  BY <1>1, <1>2 DEF Indexes
<1>6. PICK p \in Payloads : p = <<c, y.seq, "raw">>
  BY <1>4 DEF Payloads
<1>7. p[1] = c /\ p[2] = y.seq /\ p[3] = "raw"
  BY <1>6
<1>8. PICK l \in [slot : Slots, gen : Nat] : l = Put(s, p).loc
  BY <1>1, PutIsRing
<1>9. PICK f \in Frames : f = [payload |-> p, loc |-> l, at |-> "detect"]
  BY DEF Frames
<1>10. f.payload = p /\ f.loc = l /\ f.at = "detect"
  BY <1>9
<1>11. PICK t : /\ t \in Seq(Frames) /\ t = Append(q, f) /\ Len(t) = Len(q) + 1 /\ Len(q) \in Nat
               /\ t[Len(q) + 1] = f /\ \A k \in 1 .. Len(q) : t[k] = q[k]
  <2>1. /\ Append(q, f) \in Seq(Frames) /\ Len(Append(q, f)) = Len(q) + 1 /\ Len(q) \in Nat
        /\ Append(q, f)[Len(q) + 1] = f /\ \A k \in 1 .. Len(q) : Append(q, f)[k] = q[k]
    BY AppendProperties, LenProperties
  <2> QED BY <2>1, Zenon
<1>12. PICK z \in Started : z = [y EXCEPT !.ingest = Idle]
  BY DEF Started, Indexes
<1>13. PICK x \in Started : x = [z EXCEPT !.flight = t]
  BY <1>11, NewFlight
<1>14. ring' = Put(s, p).ring
  BY <1>3, <1>5, <1>6 DEF WriteFrame
<1>15. chain' = [chain EXCEPT ![c].ingest = Idle, ![c].flight = t]
  BY <1>3, <1>5, <1>6, <1>8, <1>9, <1>11 DEF WriteFrame
<1>16. /\ x.st = "live" /\ x.seq = y.seq /\ x.ingest = Idle /\ x.redact = y.redact /\ x.flight = t
       /\ \A d \in Chains : chain'[d] = IF d = c THEN x ELSE chain[d]
       /\ DOMAIN chain' = Chains
  BY <1>3, <1>4, <1>12, <1>13, <1>15 DEF RingInv, RingTypes, Started
<1>17. ASSUME NEW k \in 1 .. Len(t)
       PROVE  t[k] = f \/ (k \in 1 .. Len(q) /\ t[k] = q[k])
  BY <1>11
<1>18. ASSUME NEW k \in 1 .. Len(q)
       PROVE  OfChain(y, c, q[k]) /\ (k > 1 => q[k].at # "sink") /\ q[k].payload # p
  <2>1. OfChain(y, c, q[k]) /\ (k > 1 => q[k].at # "sink")
    BY <1>4 DEF Queued
  <2>2. q[k].payload[2] < y.seq
    BY <1>4, <2>1 DEF OfChain
  <2> QED BY <1>4, <1>7, <2>1, <2>2
<1>19. Queued(x, c)
  <2>1. ASSUME NEW k \in 1 .. Len(t) PROVE OfChain(x, c, t[k]) /\ (k > 1 => t[k].at # "sink")
    <3>1. CASE t[k] = f
      BY <1>4, <1>7, <1>10, <1>16, <3>1 DEF OfChain
    <3>2. CASE k \in 1 .. Len(q) /\ t[k] = q[k]
      BY <1>16, <1>18, <3>2 DEF OfChain
    <3> QED BY <1>17, <3>1, <3>2
  <2>2. ASSUME y.redact # Idle PROVE t # << >> /\ t[1].at = "redact"
    <3>1. q # << >> /\ q[1].at = "redact"
      BY <1>4, <2>2 DEF Queued
    <3>2. Len(q) >= 1
      BY <3>1, <1>11
    <3> QED BY <1>11, <3>1, <3>2
  <2> QED BY <1>16, <2>1, <2>2 DEF Queued
<1>20. \A k \in 1 .. Len(x.flight) :
         \/ x.flight[k].payload = p /\ x.flight[k].loc = Put(s, p).loc
         \/ \E i \in 1 .. Len(chain[c].flight) :
               x.flight[k] = chain[c].flight[i] /\ chain[c].flight[i].payload # p
  BY <1>3, <1>8, <1>10, <1>16, <1>17, <1>18
<1> QED BY <1>1, <1>7, <1>14, <1>16, <1>19, <1>20, ChainWrites

LEMMA WriteRedactedKeeps ==
  ASSUME RingInv, NEW c \in Chains, WriteRedacted(c)
  PROVE  RingInv'
<1>1. Live(c) /\ chain[c].st = "live" /\ chain[c].redact # Idle /\ ring \in Rings /\ running' = running
  BY DEF WriteRedacted, Live, RingInv, RingTypes
<1>2. chain[c] \in Started /\ chain[c].flight \in Seq(Frames) /\ chain[c].redact \in Indexes
  BY <1>1, StartedRun
<1>3. PICK y \in Started, q \in Seq(Frames) : y = chain[c] /\ q = chain[c].flight
  BY <1>2, Zenon
<1>4. /\ Queued(y, c) /\ y.flight = q /\ y.st = "live" /\ y.seq \in Nat
      /\ q # << >> /\ q[1].at = "redact"
  BY <1>1, <1>3, StartedRun DEF RingInv, Queued
<1>5. PICK s \in Slots : s = chain[c].redact.slot
  BY <1>1, <1>2 DEF Indexes
<1>6. PICK h \in Frames : h = q[1] /\ h = Head(q)
  <2>1. Head(q) \in Frames /\ Head(q) = q[1]
    BY <1>4, HeadTailProperties
  <2> QED BY <2>1, Zenon
<1>7. PICK p \in Payloads : p = [h.payload EXCEPT ![3] = "redacted"]
  <2>1. PICK a \in Chains, n \in Nat, w \in {"raw", "redacted"} : h.payload = <<a, n, w>>
    <3>1. h.payload \in Payloads
      BY DEF Frames
    <3> QED BY <3>1 DEF Payloads
  <2>2. [h.payload EXCEPT ![3] = "redacted"] = <<a, n, "redacted">>
    BY <2>1
  <2> QED BY <2>2 DEF Payloads
<1>8. p[1] = c /\ p[2] = h.payload[2] /\ p[3] = "redacted"
  <2>1. h.payload[1] = c /\ h.payload \in Payloads
    <3>1. OfChain(y, c, q[1])
      BY <1>4 DEF Queued
    <3> QED BY <1>6, <3>1 DEF OfChain, Frames
  <2> QED BY <1>7, <2>1 DEF Payloads
<1>9. PICK l \in [slot : Slots, gen : Nat] : l = Put(s, p).loc
  BY <1>1, PutIsRing
<1>10. PICK f \in Frames : f = [payload |-> p, loc |-> l, at |-> "sink"]
  BY DEF Frames
<1>11. f.payload = p /\ f.loc = l /\ f.at = "sink"
  BY <1>10
<1>12. PICK t : /\ t \in Seq(Frames) /\ t = <<f>> \o Tail(q) /\ Len(t) = Len(q) /\ Len(q) \in Nat \ {0}
               /\ t[1] = f /\ \A k \in 2 .. Len(q) : t[k] = q[k]
  <2>1. PICK a : a \in Seq(Frames) /\ a = Tail(q) /\ Len(a) = Len(q) - 1 /\ \A k \in 1 .. Len(a) : a[k] = q[k + 1]
    <3>1. /\ Tail(q) \in Seq(Frames) /\ Len(Tail(q)) = Len(q) - 1
          /\ \A k \in 1 .. Len(Tail(q)) : Tail(q)[k] = q[k + 1]
      BY <1>4, HeadTailProperties
    <3> QED BY <3>1, Zenon
  <2>2. PICK e : e \in Seq(Frames) /\ e = <<f>> /\ Len(e) = 1 /\ e[1] = f
    <3>1. <<f>> \in Seq(Frames) /\ Len(<<f>>) = 1 /\ <<f>>[1] = f
      OBVIOUS
    <3> QED BY <3>1, Zenon
  <2>3. Len(q) \in Nat \ {0}
    BY <1>4
  <2>4. /\ e \o a \in Seq(Frames) /\ Len(e \o a) = Len(e) + Len(a)
        /\ \A k \in 1 .. Len(e) + Len(a) : (e \o a)[k] = IF k <= Len(e) THEN e[k] ELSE a[k - Len(e)]
    BY <2>1, <2>2, ConcatProperties
  <2>5. PICK t : t = e \o a
    OBVIOUS
  <2>6. t \in Seq(Frames) /\ Len(t) = Len(q) /\ t[1] = f
    BY <2>1, <2>2, <2>3, <2>4, <2>5
  <2>7. ASSUME NEW k \in 2 .. Len(q) PROVE t[k] = q[k]
    <3>1. t[k] = a[k - 1]
      BY <2>1, <2>2, <2>3, <2>4, <2>5
    <3>2. PICK m \in 1 .. Len(a) : m = k - 1 /\ m + 1 = k
      BY <2>1, <2>3
    <3> QED BY <2>1, <3>1, <3>2
  <2> QED BY <2>1, <2>2, <2>3, <2>5, <2>6, <2>7
<1>13. PICK z \in Started : z = [y EXCEPT !.redact = Idle]
  BY DEF Started, Indexes
<1>14. PICK x \in Started : x = [z EXCEPT !.flight = t]
  BY <1>12, NewFlight
<1>15. ring' = Put(s, p).ring
  BY <1>3, <1>5, <1>6, <1>7 DEF WriteRedacted
<1>16. chain' = [chain EXCEPT ![c].redact = Idle, ![c].flight = t]
  BY <1>3, <1>5, <1>6, <1>7, <1>9, <1>10, <1>12 DEF WriteRedacted
<1>17. /\ x.st = "live" /\ x.seq = y.seq /\ x.ingest = y.ingest /\ x.redact = Idle /\ x.flight = t
       /\ \A d \in Chains : chain'[d] = IF d = c THEN x ELSE chain[d]
       /\ DOMAIN chain' = Chains
  BY <1>3, <1>4, <1>13, <1>14, <1>16 DEF RingInv, RingTypes, Started
<1>18. ASSUME NEW k \in 1 .. Len(t)
       PROVE  (k = 1 /\ t[k] = f) \/ (k \in 2 .. Len(q) /\ k > 1 /\ t[k] = q[k])
  BY <1>12
<1>19. ASSUME NEW k \in 2 .. Len(q)
       PROVE  OfChain(y, c, q[k]) /\ q[k].at # "sink" /\ q[k].payload # p
  <2>1. OfChain(y, c, q[k]) /\ q[k].at # "sink"
    BY <1>4 DEF Queued
  <2> QED BY <1>8, <2>1 DEF OfChain
<1>20. Queued(x, c)
  <2>0. OfChain(y, c, h)
    BY <1>4, <1>6 DEF Queued
  <2>1. ASSUME NEW k \in 1 .. Len(t) PROVE OfChain(x, c, t[k]) /\ (k > 1 => t[k].at # "sink")
    <3>1. CASE k = 1 /\ t[k] = f
      BY <1>8, <1>11, <1>17, <2>0, <3>1 DEF OfChain
    <3>2. CASE k \in 2 .. Len(q) /\ t[k] = q[k]
      BY <1>17, <1>19, <3>2 DEF OfChain
    <3> QED BY <1>18, <3>1, <3>2
  <2> QED BY <1>17, <2>1 DEF Queued
<1>21. \A k \in 1 .. Len(x.flight) :
         \/ x.flight[k].payload = p /\ x.flight[k].loc = Put(s, p).loc
         \/ \E i \in 1 .. Len(chain[c].flight) :
               x.flight[k] = chain[c].flight[i] /\ chain[c].flight[i].payload # p
  BY <1>3, <1>9, <1>11, <1>12, <1>17, <1>18, <1>19
<1> QED BY <1>1, <1>8, <1>15, <1>17, <1>20, <1>21, ChainWrites

LEMMA StartKeeps ==
  ASSUME RingInv, NEW p \in Pipelines, Start(p)
  PROVE  RingInv'
<1>1. PICK c \in Chains :
        /\ chain[c].st = "unused"
        /\ running' = [q \in DOMAIN running \cup {p} |-> IF q = p THEN c ELSE running[q]]
        /\ chain' = [chain EXCEPT ![c] = [st |-> "starting", pipeline |-> p, cancelled |-> FALSE, seq |-> 0,
                                          ingest |-> Idle, flight |-> << >>, redact |-> Idle]]
  BY DEF Start
<1>2. PICK e \in Seq(Frames) : e = << >>
  <2>1. << >> \in Seq(Frames)
    OBVIOUS
  <2> QED BY <2>1, Zenon
<1>3. PICK x \in Started : x = [st |-> "starting", pipeline |-> p, cancelled |-> FALSE, seq |-> 0,
                                ingest |-> Idle, flight |-> e, redact |-> Idle]
  BY DEF Started, Indexes
<1>4. x.st = "starting" /\ x.ingest = Idle /\ x.redact = Idle /\ x.flight = << >>
  BY <1>2, <1>3
<1>5. DOMAIN chain' = Chains /\ \A d \in Chains : chain'[d] = IF d = c THEN x ELSE chain[d]
  BY <1>1, <1>2, <1>3 DEF RingInv, RingTypes
<1>6. \A q \in DOMAIN running' : running'[q] = c \/ (q \in DOMAIN running /\ running'[q] = running[q])
  BY <1>1
<1>7. ring' = ring
  BY DEF Start
<1> QED BY <1>4, <1>5, <1>6, <1>7, ChainMoves

LEMMA StopKeeps ==
  ASSUME RingInv, NEW p \in Pipelines, Stop(p)
  PROVE  RingInv'
<1>1. /\ p \in DOMAIN running /\ ring' = ring
      /\ chain' = [chain EXCEPT ![running[p]].cancelled = TRUE]
      /\ running' = [q \in DOMAIN running \ {p} |-> running[q]]
  BY DEF Stop
<1>2. PICK c \in Chains : c = running[p] /\ chain[c] \in Started
  BY <1>1 DEF RingInv, RingTypes
<1>3. PICK y \in Started : y = chain[c]
  BY <1>2
<1>4. PICK x \in Started : x = [y EXCEPT !.cancelled = TRUE]
  BY DEF Started
<1>5. /\ x.st = y.st /\ x.seq = y.seq /\ x.ingest = y.ingest /\ x.redact = y.redact /\ x.flight = y.flight
      /\ DOMAIN chain' = Chains /\ \A d \in Chains : chain'[d] = IF d = c THEN x ELSE chain[d]
  BY <1>1, <1>2, <1>3, <1>4 DEF RingInv, RingTypes, Started
<1>6. \A q \in DOMAIN running' : running'[q] = c \/ (q \in DOMAIN running /\ running'[q] = running[q])
  BY <1>1
<1>7. ASSUME x.st = "live" PROVE Queued(x, c) /\ ring \in Rings /\ Live(c)
  <2>1. Live(c)
    BY <1>3, <1>5, <1>7 DEF Live
  <2>2. Queued(y, c) /\ ring \in Rings
    BY <1>3, <2>1 DEF RingInv, RingTypes
  <2> QED BY <1>5, <2>1, <2>2 DEF Queued, OfChain
<1>8. x.st = "starting" => x.ingest = Idle /\ x.redact = Idle /\ x.flight = << >>
  BY <1>3, <1>5 DEF RingInv, RingTypes
<1>9. x.st = "live" => \A k \in 1 .. Len(x.flight) :
         \E i \in 1 .. Len(chain[c].flight) :
           /\ Live(c) /\ x.flight[k].payload = chain[c].flight[i].payload
           /\ x.flight[k].loc = chain[c].flight[i].loc
  BY <1>3, <1>5, <1>7
<1>10. ring' \in Rings \/ (ring' = ring /\ x.st # "live")
  BY <1>1, <1>7
<1>11. \A d \in Chains : Live(d) => ring'.generation = ring.generation /\ ring'.slots = ring.slots
  BY <1>1
<1>12. x.st = "live" => Queued(x, c)
  BY <1>7
<1> QED BY <1>5, <1>6, <1>8, <1>9, <1>10, <1>11, <1>12, ChainMoves

LEMMA RunOneKeeps ==
  ASSUME RingInv, NEW c \in Chains, RunOne(c)
  PROVE  RingInv'
<1>1. /\ chain[c].st = "starting" /\ running' = running /\ ring' = Ensure
      /\ chain' = [chain EXCEPT ![c].st = "live"]
  BY DEF RunOne
<1>2. PICK y \in Started : y = chain[c]
  BY <1>1, StartedRun
<1>3. PICK x \in Started : x = [y EXCEPT !.st = "live"]
  BY DEF Started
<1>4. /\ x.st = "live" /\ x.redact = Idle /\ x.flight = << >>
      /\ DOMAIN chain' = Chains /\ \A d \in Chains : chain'[d] = IF d = c THEN x ELSE chain[d]
  BY <1>1, <1>2, <1>3 DEF RingInv, RingTypes, Started
<1>5. NewRing \in Rings
  <2>1. 0 \in Nat
    OBVIOUS
  <2>2. [s \in Slots |-> Empty] \in [Slots -> Payloads \cup {Empty}] /\ [s \in Slots |-> 0] \in [Slots -> Nat]
    BY <2>1
  <2> QED BY <2>2 DEF NewRing, Rings, Slots
<1>6. NoRing \notin Rings
  <2>1. ASSUME NEW r \in Rings PROVE "next" \in DOMAIN r
    BY DEF Rings
  <2>2. "next" \notin DOMAIN NoRing
    BY DEF NoRing
  <2> QED BY <2>1, <2>2
<1>7. ring' \in Rings /\ \A d \in Chains : Live(d) => ring' = ring
  BY <1>1, <1>5, <1>6 DEF Ensure, RingInv, RingTypes
<1>8. Queued(x, c)
  BY <1>4 DEF Queued
<1>9. x.st = "live" => \A k \in 1 .. Len(x.flight) :
         \E i \in 1 .. Len(chain[c].flight) :
           /\ Live(c) /\ x.flight[k].payload = chain[c].flight[i].payload
           /\ x.flight[k].loc = chain[c].flight[i].loc
  BY <1>4
<1>10. \A q \in DOMAIN running' : running'[q] = c \/ (q \in DOMAIN running /\ running'[q] = running[q])
  BY <1>1
<1>11. \A d \in Chains : Live(d) => ring'.generation = ring.generation /\ ring'.slots = ring.slots
  BY <1>7
<1>12. x.st # "starting"
  BY <1>4
<1> QED BY <1>4, <1>7, <1>8, <1>9, <1>10, <1>11, <1>12, ChainMoves

LEMMA EndKeeps ==
  ASSUME RingInv, NEW c \in Chains, End(c)
  PROVE  RingInv'
<1>1. /\ chain[c].st = "live" /\ running' = running /\ ring' = ring
      /\ chain' = [chain EXCEPT ![c].st = "ended", ![c].flight = << >>]
  BY DEF End, Live
<1>2. PICK y \in Started : y = chain[c]
  BY <1>1, StartedRun
<1>3. PICK e \in Seq(Frames) : e = << >>
  <2>1. << >> \in Seq(Frames)
    OBVIOUS
  <2> QED BY <2>1, Zenon
<1>4. PICK z \in Started : z = [y EXCEPT !.st = "ended"]
  BY DEF Started
<1>5. PICK x \in Started : x = [z EXCEPT !.flight = e]
  BY NewFlight
<1>6. /\ x.st = "ended"
      /\ DOMAIN chain' = Chains /\ \A d \in Chains : chain'[d] = IF d = c THEN x ELSE chain[d]
  BY <1>1, <1>2, <1>3, <1>4, <1>5 DEF RingInv, RingTypes, Started
<1>7. \A q \in DOMAIN running' : running'[q] = c \/ (q \in DOMAIN running /\ running'[q] = running[q])
  BY <1>1
<1>8. x.st # "live" /\ x.st # "starting"
  BY <1>6
<1>9. \A d \in Chains : Live(d) => ring'.generation = ring.generation /\ ring'.slots = ring.slots
  BY <1>1
<1> QED BY <1>1, <1>6, <1>7, <1>8, <1>9, ChainMoves

LEMMA RingInitInv == RingInit => RingInv
<1> SUFFICES ASSUME RingInit PROVE RingInv
  OBVIOUS
<1>1. \A c \in Chains : chain[c] = Unused /\ chain[c].st = "unused"
  BY DEF RingInit, Unused
<1> QED BY <1>1 DEF RingInit, RingInv, RingTypes, Live

LEMMA RingNextInv == RingInv /\ [RingNext]_ringVars => RingInv'
<1> SUFFICES ASSUME RingInv, [RingNext]_ringVars PROVE RingInv'
  OBVIOUS
<1>1. CASE Close \/ UNCHANGED ringVars
  <2>1. chain' = chain /\ ring' = ring /\ running' = running
    BY <1>1 DEF Close, ringVars
  <2> QED BY <2>1 DEF RingInv, RingTypes, Live, ReadsOwn
<1> QED BY <1>1, StartKeeps, StopKeeps, RunOneKeeps, TickKeeps, WriteFrameKeeps, DetectKeeps,
           RedactKeeps, WriteRedactedKeeps, ConsumeKeeps, EndKeeps DEF RingNext

\* A descriptor reads its own frame or ErrStale, for any number of pipelines and
\* restarts on the stream, any ring size and any interleaving of index and write.
THEOREM LocatorsReadTheirFrame == RingSpec => []DetectsItsOwnPixels
<1>1. RingInv => DetectsItsOwnPixels
  <2> SUFFICES ASSUME RingInv, NEW c \in Chains, Live(c), NEW j \in DOMAIN chain[c].flight
               PROVE  LET f == chain[c].flight[j]
                      IN Get(f.loc) = IF ring.slots[f.loc.slot] = f.payload THEN f.payload ELSE ErrStale
    BY DEF DetectsItsOwnPixels
  <2>1. chain[c].flight \in Seq(Frames)
    BY StartedRun DEF Live
  <2>2. j \in 1 .. Len(chain[c].flight)
    BY <2>1
  <2>3. ReadsOwn(chain[c].flight[j])
    BY <2>2 DEF RingInv
  <2> QED BY <2>3 DEF ReadsOwn, Get
<1> QED BY <1>1, RingInitInv, RingNextInv, PTL DEF RingSpec

-----------------------------------------------------------------------------
(* shadow-inference-service.  Between the two records of a comparison the  *)
(* baseline's side is one ahead; that it is never more is what the lock,   *)
(* held over both, buys.  A window is sent once because it is over when it *)
(* is sent, and the window of any later moment starts after it.            *)

\* TotalOf, of windows that are not those of this state.
Of(ks, p, v) == {k \in ks : k.plan = p /\ k.variant = v}
TotalIn(ws, ks, p, v) == SumFunctionOnSet([k \in ks |-> Total(ws[k])], Of(ks, p, v))

LEMMA TotalIs == \A ks, p, v : TotalOf(ks, p, v) = TotalIn(windows, ks, p, v)
BY DEF TotalOf, TotalIn, Of

\* What is summed are the numbers of a finite map.
Summable(ws) == IsFiniteSet(DOMAIN ws) /\ \A k \in DOMAIN ws : Total(ws[k]) \in Int

LEMMA TotalInt ==
  ASSUME NEW ws, Summable(ws), NEW ks, ks \subseteq DOMAIN ws, NEW p, NEW v
  PROVE  TotalIn(ws, ks, p, v) \in Int
<1> DEFINE S == Of(ks, p, v)
           f == [k \in ks |-> Total(ws[k])]
<1>1. IsFiniteSet(S) /\ \A k \in S : f[k] \in Int
  <2>1. S \subseteq DOMAIN ws /\ S \subseteq ks
    BY DEF Of
  <2> QED BY <2>1, FS_Subset DEF Summable
<1> HIDE DEF S, f
<1>2. SumFunctionOnSet(f, S) \in Int
  BY <1>1, SumInt
<1> QED BY <1>2 DEF f, S, TotalIn

\* One more comparison in one window.
LEMMA TotalGrows ==
  ASSUME NEW ws, Summable(ws), NEW k, NEW x, NEW wt, wt = Entered(ws, k, x),
         Total(x) = (IF k \in DOMAIN ws THEN Total(ws[k]) ELSE 0) + 1, NEW p, NEW v
  PROVE  /\ Summable(wt)
         /\ TotalIn(wt, DOMAIN wt, p, v) = TotalIn(ws, DOMAIN ws, p, v) + IF k.plan = p /\ k.variant = v THEN 1 ELSE 0
<1> DEFINE D == DOMAIN ws
           E == D \cup {k}
           f == [j \in D |-> Total(ws[j])]
           g == [j \in E |-> Total(wt[j])]
           S == Of(D, p, v)
           T == Of(E, p, v)
<1>1. DOMAIN wt = E /\ wt[k] = x /\ \A j \in D \ {k} : wt[j] = ws[j]
  BY DEF Entered
<1>2. IsFiniteSet(D) /\ IsFiniteSet(E) /\ \A j \in D : f[j] \in Int
  <2>1. IsFiniteSet(D)
    BY DEF Summable
  <2> QED BY <2>1, FS_AddElement DEF Summable
<1>3. g[k] = (IF k \in D THEN f[k] ELSE 0) + 1 /\ \A j \in D \ {k} : g[j] = f[j]
  BY <1>1
<1>4. \A j \in E : g[j] \in Int
  BY <1>2, <1>3
<1>5. Summable(wt)
  <2>1. \A j \in DOMAIN wt : Total(wt[j]) \in Int
    BY <1>1, <1>4
  <2> QED BY <1>1, <1>2, <2>1 DEF Summable
<1>6. S \subseteq D /\ T \subseteq E /\ IsFiniteSet(S) /\ IsFiniteSet(T) /\ IsFiniteSet(S \ {k})
  <2>1. S \subseteq D /\ T \subseteq E
    BY DEF Of
  <2>2. IsFiniteSet(S) /\ IsFiniteSet(T)
    BY <1>2, <2>1, FS_Subset
  <2> QED BY <2>1, <2>2, FS_Subset
<1>7. T \ {k} = S \ {k} /\ (k \in T <=> k.plan = p /\ k.variant = v) /\ (k \in S => k \in T)
      /\ (k \in T /\ k \notin S => k \notin D) /\ (k \notin T => T = S)
  BY DEF Of
<1>8. TotalIn(wt, DOMAIN wt, p, v) = SumFunctionOnSet(g, T) /\ TotalIn(ws, DOMAIN ws, p, v) = SumFunctionOnSet(f, S)
  BY <1>1 DEF TotalIn
<1>9. k \in S => k \in D
  BY <1>6
<1>10. \A j \in S : f[j] \in Int
  BY <1>2, <1>6
<1>11. \A j \in T : g[j] \in Int
  BY <1>4, <1>6
<1>12. \A j \in S \ {k} : g[j] = f[j] /\ f[j] \in Int
  BY <1>3, <1>6, <1>10
<1> HIDE DEF D, E, f, g, S, T
<1>13. SumFunctionOnSet(g, S \ {k}) = SumFunctionOnSet(f, S \ {k}) /\ SumFunctionOnSet(f, S \ {k}) \in Int
  <2> DEFINE R == S \ {k}
  <2>1. IsFiniteSet(R) /\ (\A j \in R : f[j] \in Int) /\ (\A j \in R : g[j] = f[j])
    BY <1>6, <1>12
  <2> HIDE DEF R
  <2>2. SumFunctionOnSet(g, R) = SumFunctionOnSet(f, R) /\ SumFunctionOnSet(f, R) \in Int
    BY <2>1, SumSame, SumInt
  <2> QED BY <2>2 DEF R
<1>14. CASE k \in T
  <2>1. SumFunctionOnSet(g, T) = g[k] + SumFunctionOnSet(f, S \ {k})
    <3>1. SumFunctionOnSet(g, T) = g[k] + SumFunctionOnSet(g, T \ {k})
      BY <1>6, <1>11, <1>14, SumTake
    <3> QED BY <1>7, <1>13, <3>1
  <2>2. CASE k \in S
    <3>1. SumFunctionOnSet(f, S) = f[k] + SumFunctionOnSet(f, S \ {k}) /\ f[k] \in Int
      BY <1>6, <1>10, <2>2, SumTake
    <3> QED BY <1>3, <1>5, <1>7, <1>8, <1>9, <1>13, <1>14, <2>1, <2>2, <3>1
  <2>3. CASE k \notin S
    <3>1. S \ {k} = S /\ k \notin D
      BY <1>7, <1>14, <2>3
    <3>2. g[k] = 1
      BY <1>3, <3>1
    <3>3. SumFunctionOnSet(g, T) = 1 + SumFunctionOnSet(f, S) /\ SumFunctionOnSet(f, S) \in Int
      BY <1>13, <2>1, <3>1, <3>2
    <3> QED BY <1>5, <1>7, <1>8, <1>14, <3>3
  <2> QED BY <2>2, <2>3
<1>15. CASE k \notin T
  <2>1. T = S /\ S \ {k} = S
    BY <1>7, <1>15
  <2> QED BY <1>5, <1>7, <1>8, <1>13, <1>15, <2>1
<1> QED BY <1>14, <1>15

\* What is drained and what is left add up.
Without(ws, over, wt) ==
  over \subseteq DOMAIN ws /\ DOMAIN wt = DOMAIN ws \ over /\ \A k \in DOMAIN wt : wt[k] = ws[k]

LEMMA TotalSplits ==
  ASSUME NEW ws, Summable(ws), NEW over, NEW wt, Without(ws, over, wt), NEW p, NEW v
  PROVE  /\ Summable(wt)
         /\ TotalIn(ws, over, p, v) + TotalIn(wt, DOMAIN wt, p, v) = TotalIn(ws, DOMAIN ws, p, v)
         /\ TotalIn(ws, over, p, v) \in Int /\ TotalIn(wt, DOMAIN wt, p, v) \in Int
<1> DEFINE D == DOMAIN ws
           f == [k \in D |-> Total(ws[k])]
           fo == [k \in over |-> Total(ws[k])]
           fl == [k \in D \ over |-> Total(wt[k])]
           S == Of(D, p, v)
           O == Of(over, p, v)
           L == Of(D \ over, p, v)
<1>0. over \subseteq D
  BY DEF Without
<1>1. DOMAIN wt = D \ over /\ \A k \in D \ over : wt[k] = ws[k]
  BY DEF Without
<1>2. IsFiniteSet(D) /\ IsFiniteSet(D \ over) /\ IsFiniteSet(S) /\ IsFiniteSet(O) /\ IsFiniteSet(L)
  <2>1. IsFiniteSet(D) /\ S \subseteq D /\ O \subseteq D /\ L \subseteq D /\ D \ over \subseteq D
    BY <1>0 DEF Summable, Of
  <2> QED BY <2>1, FS_Subset
<1>3. Summable(wt)
  BY <1>1, <1>2 DEF Summable
<1>4. O \subseteq S /\ L = S \ O
  BY <1>0 DEF Of
<1>5. /\ \A k \in S : f[k] \in Int
      /\ \A k \in O : f[k] \in Int /\ fo[k] = f[k]
      /\ \A k \in L : f[k] \in Int /\ fl[k] = f[k]
  BY <1>0, <1>1 DEF Of, Summable
<1>6. /\ TotalIn(ws, over, p, v) = SumFunctionOnSet(fo, O)
      /\ TotalIn(wt, DOMAIN wt, p, v) = SumFunctionOnSet(fl, L)
      /\ TotalIn(ws, DOMAIN ws, p, v) = SumFunctionOnSet(f, S)
  BY <1>1 DEF TotalIn
<1> HIDE DEF D, f, fo, fl, S, O, L
<1>7. SumFunctionOnSet(fo, O) = SumFunctionOnSet(f, O) /\ SumFunctionOnSet(f, O) \in Int
  BY <1>2, <1>5, SumSame, SumInt
<1>8. SumFunctionOnSet(fl, L) = SumFunctionOnSet(f, L) /\ SumFunctionOnSet(f, L) \in Int
  BY <1>2, <1>5, SumSame, SumInt
<1>9. SumFunctionOnSet(f, S) = SumFunctionOnSet(f, O) + SumFunctionOnSet(f, S \ O)
  BY <1>2, <1>4, <1>5, SumSplit
<1> QED BY <1>3, <1>4, <1>6, <1>7, <1>8, <1>9

WindowIds == [plan : Plans, variant : Variants, start : Nat]

ShadowTypes ==
  /\ now \in Nat /\ (flush = NoTime \/ (flush \in Nat /\ flush <= now))
  /\ active \subseteq Plans
  /\ DOMAIN windows \subseteq WindowIds /\ IsFiniteSet(DOMAIN windows)
  /\ \A k \in DOMAIN windows : windows[k].ok \in Nat /\ windows[k].bad \in Nat
  /\ DOMAIN task = Tasks
  /\ \A t \in Tasks : task[t].st \in {"invoking", "recording"} => task[t].plan \in Plans
  /\ mu # Free => mu \in Tasks /\ task[mu].st = "recording"
  /\ drained \in [Plans -> [Variants -> Int]] /\ compared \in [Plans -> Int]

\* A comparison that is half recorded.
Half(p, v) == IF mu # Free /\ v = "baseline" /\ task[mu].plan = p THEN 1 ELSE 0

Balanced(p, v) == drained[p][v] + TotalOf(DOMAIN windows, p, v) = compared[p] + Half(p, v)

\* A window that was sent is over and gone.
SentOnce == \A k \in DOMAIN sent : sent[k] = 1 /\ k \notin DOMAIN windows /\ k.start + WindowDur <= now

ShadowInv == ShadowTypes /\ SentOnce /\ \A p \in Plans, v \in Variants : Balanced(p, v)

LEMMA ShadowInvIsEnough == ShadowInv => ObservationsAddUp
<1> SUFFICES ASSUME ShadowInv PROVE ObservationsAddUp
  OBVIOUS
<1>1. \A k \in DOMAIN sent : sent[k] <= 1
  BY DEF ShadowInv, SentOnce
<1>2. ASSUME mu = Free, NEW p \in Plans, NEW v \in Variants
      PROVE  drained[p][v] + TotalOf(DOMAIN windows, p, v) = compared[p]
  <2>1. Balanced(p, v) /\ compared[p] \in Int
    BY DEF ShadowInv, ShadowTypes
  <2> QED BY <1>2, <2>1 DEF Balanced, Half
<1> QED BY <1>1, <1>2 DEF ObservationsAddUp

LEMMA WindowsSum == ASSUME ShadowTypes PROVE Summable(windows)
BY DEF ShadowTypes, Summable, Total

\* The window of this moment is not over.
LEMMA WindowIsOpen ==
  ASSUME NEW n \in Nat
  PROVE  (n \div WindowDur) * WindowDur \in Nat /\ (n \div WindowDur) * WindowDur + WindowDur > n
<1>1. PICK w \in Nat \ {0} : w = WindowDur
  BY ShadowAssumption
<1>2. PICK q \in Nat : q = n \div w
  OBVIOUS
<1>3. n = w * q + (n % w) /\ n % w \in 0 .. w - 1
  BY <1>2
<1>4. w * q = q * w /\ q * w \in Nat
  OBVIOUS
<1> QED BY <1>1, <1>2, <1>3, <1>4

LEMMA ShadowQuiet ==
  ASSUME ShadowInv, ShadowTypes', UNCHANGED <<windows, drained, compared, sent>>, now' >= now,
         \A p, v : Half(p, v)' = Half(p, v)
  PROVE  ShadowInv'
<1>1. ShadowTypes
  BY DEF ShadowInv
<1>2. SentOnce'
  <2> SUFFICES ASSUME NEW k \in DOMAIN sent
               PROVE  sent[k] = 1 /\ k \notin DOMAIN windows /\ k.start + WindowDur <= now'
    BY DEF SentOnce
  <2>1. sent[k] = 1 /\ k \notin DOMAIN windows /\ k.start + WindowDur <= now
    BY DEF ShadowInv, SentOnce
  <2>2. PICK n : n = k.start + WindowDur
    OBVIOUS
  <2> QED BY <1>1, <2>1, <2>2 DEF ShadowTypes
<1>3. ASSUME NEW p \in Plans, NEW v \in Variants PROVE Balanced(p, v)'
  <2>1. Balanced(p, v) /\ Half(p, v)' = Half(p, v)
    BY DEF ShadowInv
  <2>2. TotalOf(DOMAIN windows, p, v)' = TotalOf(DOMAIN windows, p, v)
    BY DEF TotalOf
  <2> QED BY <2>1, <2>2 DEF Balanced
<1> QED BY <1>2, <1>3 DEF ShadowInv

\* A goroutine records one side of its comparison.
LEMMA Records ==
  ASSUME ShadowInv, NEW t \in Tasks, task[t].plan \in Plans, NEW v \in Variants, NEW ok, NEW ms,
         windows' = Entered(windows, Bucket(t, v), Counted(Window(Bucket(t, v)), ok, ms)),
         now' = now, sent' = sent
  PROVE  /\ DOMAIN windows' \subseteq WindowIds /\ IsFiniteSet(DOMAIN windows')
         /\ \A k \in DOMAIN windows' : windows'[k].ok \in Nat /\ windows'[k].bad \in Nat
         /\ SentOnce'
         /\ \A p \in Plans, q \in Variants :
              /\ TotalOf(DOMAIN windows, p, q) \in Int
              /\ TotalOf(DOMAIN windows, p, q)' = TotalOf(DOMAIN windows, p, q) + IF task[t].plan = p /\ v = q THEN 1 ELSE 0
<1>1. ShadowTypes /\ now \in Nat
  BY DEF ShadowInv, ShadowTypes
<1>2. PICK k : /\ k = Bucket(t, v) /\ k \in WindowIds /\ k.plan = task[t].plan /\ k.variant = v
               /\ k.start + WindowDur > now /\ k.start \in Nat
  <2>1. PICK s \in Nat : s = (now \div WindowDur) * WindowDur /\ s + WindowDur > now
    BY <1>1, WindowIsOpen
  <2>2. Bucket(t, v) = [plan |-> task[t].plan, variant |-> v, start |-> s]
    BY <2>1 DEF Bucket
  <2> QED BY <2>1, <2>2 DEF WindowIds
<1>3. PICK w : w = Window(k) /\ w.ok \in Nat /\ w.bad \in Nat
               /\ Total(w) = IF k \in DOMAIN windows THEN Total(windows[k]) ELSE 0
  <2>1. CASE k \in DOMAIN windows
    BY <1>1, <2>1 DEF Window, ShadowTypes
  <2>2. CASE k \notin DOMAIN windows
    BY <2>2 DEF Window, NewWindow, Total
  <2> QED BY <2>1, <2>2
<1>4. PICK x : x = Counted(w, ok, ms) /\ x.ok \in Nat /\ x.bad \in Nat /\ Total(x) = Total(w) + 1
  <2>1. CASE ok
    <3>1. Counted(w, ok, ms).ok = w.ok + 1 /\ Counted(w, ok, ms).bad = w.bad + 0
      BY <2>1 DEF Counted
    <3> QED BY <1>3, <3>1 DEF Total
  <2>2. CASE ~ok
    <3>1. Counted(w, ok, ms).ok = w.ok + 0 /\ Counted(w, ok, ms).bad = w.bad + 1
      BY <2>2 DEF Counted
    <3> QED BY <1>3, <3>1 DEF Total
  <2> QED BY <2>1, <2>2
<1>5. windows' = Entered(windows, k, x)
  BY <1>2, <1>3, <1>4
<1>6. DOMAIN windows' = DOMAIN windows \cup {k} /\ windows'[k] = x /\ \A j \in DOMAIN windows \ {k} : windows'[j] = windows[j]
  BY <1>5 DEF Entered
<1>7. /\ DOMAIN windows' \subseteq WindowIds /\ IsFiniteSet(DOMAIN windows')
      /\ \A j \in DOMAIN windows' : windows'[j].ok \in Nat /\ windows'[j].bad \in Nat
  <2>1. IsFiniteSet(DOMAIN windows \cup {k})
    BY <1>1, FS_AddElement DEF ShadowTypes
  <2> QED BY <1>1, <1>2, <1>4, <1>6, <2>1 DEF ShadowTypes
<1>8. SentOnce'
  <2> SUFFICES ASSUME NEW j \in DOMAIN sent
               PROVE  sent[j] = 1 /\ j \notin DOMAIN windows' /\ j.start + WindowDur <= now
    BY DEF SentOnce
  <2>1. sent[j] = 1 /\ j \notin DOMAIN windows /\ j.start + WindowDur <= now
    BY DEF ShadowInv, SentOnce
  <2>2. j # k
    <3> SUFFICES ASSUME j = k PROVE FALSE
      OBVIOUS
    <3>1. k.start + WindowDur <= now /\ k.start + WindowDur > now
      BY <1>2, <2>1
    <3>2. k.start + WindowDur \in Nat
      BY <1>2, ShadowAssumption
    <3> QED BY <1>1, <3>1, <3>2
  <2> QED BY <1>6, <2>1, <2>2
<1>9. ASSUME NEW p \in Plans, NEW q \in Variants
      PROVE  /\ TotalOf(DOMAIN windows, p, q) \in Int
             /\ TotalOf(DOMAIN windows, p, q)' = TotalOf(DOMAIN windows, p, q) + IF task[t].plan = p /\ v = q THEN 1 ELSE 0
  <2>1. PICK ws, wt : ws = windows /\ wt = windows'
    OBVIOUS
  <2>2. Summable(ws)
    BY <1>1, <2>1, WindowsSum
  <2>3. TotalIn(ws, DOMAIN ws, p, q) \in Int
    BY <2>2, TotalInt
  <2>4. TotalIn(wt, DOMAIN wt, p, q) = TotalIn(ws, DOMAIN ws, p, q) + IF k.plan = p /\ k.variant = q THEN 1 ELSE 0
    <3>1. wt = Entered(ws, k, x) /\ Total(x) = (IF k \in DOMAIN ws THEN Total(ws[k]) ELSE 0) + 1
      BY <1>3, <1>4, <1>5, <2>1
    <3> QED BY <2>2, <3>1, TotalGrows
  <2>5. TotalOf(DOMAIN windows, p, q) = TotalIn(ws, DOMAIN ws, p, q)
    BY <2>1, TotalIs
  <2>6. TotalOf(DOMAIN windows, p, q)' = TotalIn(wt, DOMAIN wt, p, q)
    BY <2>1 DEF TotalOf, TotalIn, Of
  <2> QED BY <1>2, <2>3, <2>4, <2>5, <2>6
<1> QED BY <1>7, <1>8, <1>9

LEMMA BaselineKeeps ==
  ASSUME ShadowInv, NEW t \in Tasks, RecordBaseline(t)
  PROVE  ShadowInv'
<1>1. ShadowTypes /\ DOMAIN task = Tasks
  BY DEF ShadowInv, ShadowTypes
<1>2. /\ mu = Free /\ task[t].st = "invoking" /\ mu' = t
      /\ windows' = Entered(windows, Bucket(t, "baseline"), Counted(Window(Bucket(t, "baseline")), task[t].baseline, 0))
      /\ UNCHANGED <<active, pending, flush, now, sent, drained, compared>>
  BY DEF RecordBaseline
<1>3. task[t].plan \in Plans /\ "baseline" \in Variants
  BY <1>1, <1>2 DEF ShadowTypes, Variants
<1>4. /\ task'[t].st = "recording" /\ task'[t].plan = task[t].plan
      /\ \A s \in Tasks \ {t} : task'[s] = task[s] /\ DOMAIN task' = Tasks
  <2>1. task' = [task EXCEPT ![t] = [st |-> "recording", plan |-> task[t].plan, start |-> task[t].start, lat |-> now - task[t].start]]
    BY DEF RecordBaseline
  <2> QED BY <1>1, <2>1
<1>5. DOMAIN task' = Tasks
  BY <1>1 DEF RecordBaseline
<1>6. /\ DOMAIN windows' \subseteq WindowIds /\ IsFiniteSet(DOMAIN windows')
      /\ \A k \in DOMAIN windows' : windows'[k].ok \in Nat /\ windows'[k].bad \in Nat
      /\ SentOnce'
      /\ \A p \in Plans, q \in Variants :
           /\ TotalOf(DOMAIN windows, p, q) \in Int
           /\ TotalOf(DOMAIN windows, p, q)' = TotalOf(DOMAIN windows, p, q) + IF task[t].plan = p /\ "baseline" = q THEN 1 ELSE 0
  <2>1. PICK ok : ok = task[t].baseline
    OBVIOUS
  <2>2. windows' = Entered(windows, Bucket(t, "baseline"), Counted(Window(Bucket(t, "baseline")), ok, 0))
    BY <1>2, <2>1
  <2> QED BY <1>2, <1>3, <2>2, Records
<1>7. t # Free
  BY ShadowAssumption DEF Free
<1>8. ShadowTypes'
  BY <1>1, <1>2, <1>3, <1>4, <1>5, <1>6 DEF ShadowTypes
<1>9. ASSUME NEW p \in Plans, NEW v \in Variants PROVE Balanced(p, v)'
  <2>1. drained[p][v] + TotalOf(DOMAIN windows, p, v) = compared[p] + 0
    BY <1>2 DEF ShadowInv, Balanced, Half
  <2>2. Half(p, v)' = IF task[t].plan = p /\ "baseline" = v THEN 1 ELSE 0
    BY <1>2, <1>4, <1>7 DEF Half
  <2>3. drained[p][v] \in Int /\ compared[p] \in Int
    BY <1>1 DEF ShadowTypes
  <2>4. TotalOf(DOMAIN windows, p, v) \in Int
        /\ TotalOf(DOMAIN windows, p, v)' = TotalOf(DOMAIN windows, p, v) + IF task[t].plan = p /\ "baseline" = v THEN 1 ELSE 0
    BY <1>6
  <2> QED BY <1>2, <2>1, <2>2, <2>3, <2>4 DEF Balanced
<1> QED BY <1>6, <1>8, <1>9 DEF ShadowInv

LEMMA CandidateKeeps ==
  ASSUME ShadowInv, NEW t \in Tasks, NEW cand \in Invocations, RecordCandidate(t, cand)
  PROVE  ShadowInv'
<1>1. ShadowTypes /\ DOMAIN task = Tasks /\ compared \in [Plans -> Int]
  BY DEF ShadowInv, ShadowTypes
<1>2. t # Free
  BY ShadowAssumption DEF Free
<1>3. /\ mu = t /\ mu' = Free
      /\ compared' = [compared EXCEPT ![task[t].plan] = @ + 1] /\ task' = [task EXCEPT ![t] = [st |-> "done"]]
      /\ UNCHANGED <<active, pending, flush, now, sent, drained>>
  BY DEF RecordCandidate
<1>4. task[t].plan \in Plans /\ "candidate" \in Variants
  BY <1>1, <1>2, <1>3 DEF ShadowTypes, Variants
<1>5. PICK p \in Plans, c \in [Plans -> Int] : p = task[t].plan /\ c = compared
  BY <1>1, <1>4
<1>6. /\ DOMAIN windows' \subseteq WindowIds /\ IsFiniteSet(DOMAIN windows')
      /\ \A k \in DOMAIN windows' : windows'[k].ok \in Nat /\ windows'[k].bad \in Nat
      /\ SentOnce'
      /\ \A o \in Plans, q \in Variants :
           /\ TotalOf(DOMAIN windows, o, q) \in Int
           /\ TotalOf(DOMAIN windows, o, q)' = TotalOf(DOMAIN windows, o, q) + IF task[t].plan = o /\ "candidate" = q THEN 1 ELSE 0
  <2>1. PICK ok, ms : ok = (cand = "agrees") /\ ms = IF cand = "fails" THEN 0 ELSE task[t].lat
    OBVIOUS
  <2>2. windows' = Entered(windows, Bucket(t, "candidate"), Counted(Window(Bucket(t, "candidate")), ok, ms))
    BY <2>1 DEF RecordCandidate
  <2> QED BY <1>3, <1>4, <2>2, Records
<1>7. /\ compared' \in [Plans -> Int]
      /\ \A o \in Plans : compared'[o] = c[o] + IF o = p THEN 1 ELSE 0
  <2>1. PICK n \in Int : n = c[p] + 1
    OBVIOUS
  <2>2. compared' = [c EXCEPT ![p] = n]
    BY <1>3, <1>5, <2>1
  <2>3. \A o \in Plans : c[o] \in Int
    OBVIOUS
  <2> QED BY <2>1, <2>2, <2>3
<1>8. ShadowTypes'
  <2>1. DOMAIN task' = Tasks /\ \A s \in Tasks : task'[s].st \in {"invoking", "recording"} => task'[s].plan \in Plans
    <3>1. task'[t].st = "done" /\ (\A s \in Tasks \ {t} : task'[s] = task[s]) /\ DOMAIN task' = Tasks
      BY <1>1, <1>3
    <3> QED BY <1>1, <3>1 DEF ShadowTypes
  <2> QED BY <1>1, <1>3, <1>6, <1>7, <2>1 DEF ShadowTypes
<1>9. ASSUME NEW o \in Plans, NEW v \in Variants PROVE Balanced(o, v)'
  <2>1. drained[o][v] + TotalOf(DOMAIN windows, o, v) = compared[o] + IF p = o /\ v = "baseline" THEN 1 ELSE 0
    BY <1>2, <1>3, <1>5 DEF ShadowInv, Balanced, Half
  <2>2. Half(o, v)' = 0
    BY <1>3 DEF Half
  <2>3. drained[o][v] \in Int /\ c[o] \in Int
    BY <1>1 DEF ShadowTypes
  <2>4. TotalOf(DOMAIN windows, o, v) \in Int
        /\ TotalOf(DOMAIN windows, o, v)' = TotalOf(DOMAIN windows, o, v) + IF p = o /\ "candidate" = v THEN 1 ELSE 0
    BY <1>5, <1>6
  <2>5. v = "baseline" \/ v = "candidate"
    BY DEF Variants
  <2>6. drained' = drained /\ compared'[o] = c[o] + IF o = p THEN 1 ELSE 0
    BY <1>3, <1>7
  <2>7. drained[o][v] + TotalOf(DOMAIN windows, o, v)' = compared'[o] + 0
    BY <1>5, <2>1, <2>3, <2>4, <2>5, <2>6
  <2> QED BY <2>2, <2>6, <2>7 DEF Balanced
<1> QED BY <1>6, <1>8, <1>9 DEF ShadowInv

\* The windows that are over at a time leave and are added to what was drained.
LEMMA DrainBooks ==
  ASSUME ShadowInv, NEW time, Drain(time), UNCHANGED <<mu, task, now, compared>>
  PROVE  /\ DOMAIN windows' = DOMAIN windows \ {k \in DOMAIN windows : Over(k, time)}
         /\ DOMAIN windows' \subseteq WindowIds /\ IsFiniteSet(DOMAIN windows')
         /\ \A k \in DOMAIN windows' : windows'[k].ok \in Nat /\ windows'[k].bad \in Nat
         /\ drained' \in [Plans -> [Variants -> Int]]
         /\ \A p \in Plans, v \in Variants : Balanced(p, v)'
<1> DEFINE gone == {k \in DOMAIN windows : Over(k, time)}
<1>1. ShadowTypes
  BY DEF ShadowInv
<1>2. /\ windows' = [k \in DOMAIN windows \ gone |-> windows[k]]
      /\ drained' = [p \in Plans |-> [v \in Variants |-> drained[p][v] + TotalOf(gone, p, v)]]
      /\ mu = Free
  BY DEF Drain
<1>3. gone \subseteq DOMAIN windows
  OBVIOUS
<1>4. PICK ws, wt, over : ws = windows /\ wt = windows' /\ over = gone
  OBVIOUS
<1> HIDE DEF gone
<1>5. Summable(ws) /\ Without(ws, over, wt)
  BY <1>1, <1>2, <1>3, <1>4, WindowsSum DEF Without
<1>6. DOMAIN windows' = DOMAIN windows \ gone /\ \A k \in DOMAIN windows' : windows'[k] = windows[k]
  BY <1>2
<1>7. /\ DOMAIN windows' \subseteq WindowIds /\ IsFiniteSet(DOMAIN windows')
      /\ \A k \in DOMAIN windows' : windows'[k].ok \in Nat /\ windows'[k].bad \in Nat
  <2>1. DOMAIN windows' \subseteq DOMAIN windows
    BY <1>6
  <2> QED BY <1>1, <1>6, <2>1, FS_Subset DEF ShadowTypes
<1>8. ASSUME NEW p \in Plans, NEW v \in Variants
      PROVE  /\ TotalOf(gone, p, v) \in Int /\ TotalOf(DOMAIN windows, p, v)' \in Int
             /\ TotalOf(gone, p, v) + TotalOf(DOMAIN windows, p, v)' = TotalOf(DOMAIN windows, p, v)
  <2>1. /\ TotalIn(ws, over, p, v) + TotalIn(wt, DOMAIN wt, p, v) = TotalIn(ws, DOMAIN ws, p, v)
        /\ TotalIn(ws, over, p, v) \in Int /\ TotalIn(wt, DOMAIN wt, p, v) \in Int
    BY <1>5, TotalSplits
  <2>2. TotalOf(gone, p, v) = TotalIn(ws, over, p, v) /\ TotalOf(DOMAIN windows, p, v) = TotalIn(ws, DOMAIN ws, p, v)
    BY <1>4, TotalIs
  <2>3. TotalOf(DOMAIN windows, p, v)' = TotalIn(wt, DOMAIN wt, p, v)
    BY <1>4 DEF TotalOf, TotalIn, Of
  <2> QED BY <2>1, <2>2, <2>3
<1>9. \A p \in Plans, v \in Variants : drained[p][v] \in Int /\ drained[p][v] + TotalOf(gone, p, v) \in Int
  BY <1>1, <1>8 DEF ShadowTypes
<1>10. drained' \in [Plans -> [Variants -> Int]]
  BY <1>2, <1>9
<1>11. ASSUME NEW p \in Plans, NEW v \in Variants PROVE Balanced(p, v)'
  <2>1. drained'[p][v] = drained[p][v] + TotalOf(gone, p, v)
    BY <1>2
  <2>2. drained[p][v] + TotalOf(DOMAIN windows, p, v) = compared[p] + 0
    BY <1>2 DEF ShadowInv, Balanced, Half
  <2>3. Half(p, v)' = 0 /\ compared' = compared
    BY <1>2 DEF Half
  <2>4. drained'[p][v] + TotalOf(DOMAIN windows, p, v)' = compared[p] + 0
    BY <1>8, <1>9, <2>1, <2>2
  <2> QED BY <2>3, <2>4 DEF Balanced
<1> QED BY <1>6, <1>7, <1>10, <1>11 DEF gone

LEMMA FlushKeeps == ASSUME ShadowInv, Flush PROVE ShadowInv'
<1> DEFINE over == {k \in DOMAIN windows : Over(k, flush)}
<1>1. ShadowTypes
  BY DEF ShadowInv
<1>2. /\ flush # NoTime /\ Drain(flush) /\ flush' = NoTime /\ UNCHANGED <<active, task, mu, now, compared>>
      /\ sent' = [k \in DOMAIN sent \cup over |->
                     (IF k \in DOMAIN sent THEN sent[k] ELSE 0) + (IF k \in over THEN 1 ELSE 0)]
  BY DEF Flush
<1>3. /\ DOMAIN windows' = DOMAIN windows \ over
      /\ DOMAIN windows' \subseteq WindowIds /\ IsFiniteSet(DOMAIN windows')
      /\ \A k \in DOMAIN windows' : windows'[k].ok \in Nat /\ windows'[k].bad \in Nat
      /\ drained' \in [Plans -> [Variants -> Int]]
      /\ \A p \in Plans, v \in Variants : Balanced(p, v)'
  BY <1>2, DrainBooks
<1>4. ShadowTypes'
  BY <1>1, <1>2, <1>3 DEF ShadowTypes
<1>5. ASSUME NEW k \in DOMAIN sent'
      PROVE  sent'[k] = 1 /\ k \notin DOMAIN windows' /\ k.start + WindowDur <= now
  <2>1. k \in DOMAIN sent \/ k \in over
    BY <1>2
  <2>2. CASE k \in DOMAIN sent
    <3>1. sent[k] = 1 /\ k \notin DOMAIN windows /\ k.start + WindowDur <= now
      BY <2>2 DEF ShadowInv, SentOnce
    <3>2. k \notin over /\ k \notin DOMAIN windows'
      BY <1>3, <3>1
    <3>3. sent'[k] = sent[k] + 0
      BY <1>2, <2>2, <3>2
    <3> QED BY <3>1, <3>2, <3>3
  <2>3. CASE k \in over /\ k \notin DOMAIN sent
    <3>1. k \in WindowIds /\ k.start + WindowDur <= flush /\ k \notin DOMAIN windows'
      BY <1>1, <1>3, <2>3 DEF Over, ShadowTypes
    <3>2. flush \in Nat /\ flush <= now /\ now \in Nat
      BY <1>1, <1>2 DEF ShadowTypes
    <3>3. PICK n \in Nat : n = k.start + WindowDur
      BY <3>1, ShadowAssumption DEF WindowIds
    <3>4. sent'[k] = 1
      BY <1>2, <2>3
    <3> QED BY <3>1, <3>2, <3>3, <3>4
  <2> QED BY <2>1, <2>2, <2>3
<1>6. SentOnce'
  BY <1>2, <1>5 DEF SentOnce
<1> QED BY <1>3, <1>4, <1>6 DEF ShadowInv

LEMMA PeekKeeps == ASSUME ShadowInv, Peek PROVE ShadowInv'
<1>1. ShadowTypes
  BY DEF ShadowInv
<1>2. Drain(now + WindowDur) /\ UNCHANGED <<active, task, mu, flush, now, sent, compared>>
  BY DEF Peek
<1>3. PICK time : time = now + WindowDur
  OBVIOUS
<1>4. /\ DOMAIN windows' \subseteq DOMAIN windows
      /\ DOMAIN windows' \subseteq WindowIds /\ IsFiniteSet(DOMAIN windows')
      /\ \A k \in DOMAIN windows' : windows'[k].ok \in Nat /\ windows'[k].bad \in Nat
      /\ drained' \in [Plans -> [Variants -> Int]]
      /\ \A p \in Plans, v \in Variants : Balanced(p, v)'
  <2>1. Drain(time)
    BY <1>2, <1>3
  <2> QED BY <1>2, <2>1, DrainBooks
<1>5. ShadowTypes'
  BY <1>1, <1>2, <1>4 DEF ShadowTypes
<1>6. SentOnce'
  BY <1>2, <1>4 DEF ShadowInv, SentOnce
<1> QED BY <1>4, <1>5, <1>6 DEF ShadowInv

\* The candidate model is asked by goroutines that have not begun to record.
LEMMA FrameKeeps == ASSUME ShadowInv, NEW f \in Urns, OnFrame(f) PROVE ShadowInv'
<1>1. ShadowTypes
  BY DEF ShadowInv
<1>2. mu = Free /\ UNCHANGED <<active, pending, windows, mu, flush, now, sent, drained, compared>>
  BY DEF OnFrame
<1> DEFINE chosen == {p \in active : Selected(p, f)}
<1>3. PICK g \in [chosen -> {t \in Tasks : task[t] = NoTask}] :
         /\ chosen # {} /\ \A p, q \in chosen : g[p] = g[q] => p = q
         /\ task' = [t \in Tasks |->
                IF \E p \in chosen : g[p] = t
                THEN [st |-> "invoking", plan |-> CHOOSE p \in chosen : g[p] = t,
                      baseline |-> pending[f], start |-> now]
                ELSE task[t]]
  BY Zenon DEF OnFrame
<1>10. chosen \subseteq active
  OBVIOUS
<1> HIDE DEF chosen
<1>4. DOMAIN task' = Tasks
  BY <1>3
<1>5. ASSUME NEW t \in Tasks, task'[t].st \in {"invoking", "recording"} PROVE task'[t].plan \in Plans
  <2>1. CASE \E p \in chosen : g[p] = t
    <3>1. PICK q \in chosen : q = CHOOSE p \in chosen : g[p] = t
      BY <2>1
    <3>2. task'[t].plan = q
      BY <1>3, <2>1, <3>1
    <3> QED BY <1>1, <1>10, <3>2 DEF ShadowTypes
  <2>2. CASE ~\E p \in chosen : g[p] = t
    <3>1. task'[t] = task[t]
      BY <1>3, <2>2
    <3> QED BY <1>1, <1>5, <3>1 DEF ShadowTypes
  <2> QED BY <2>1, <2>2
<1>6. ShadowTypes'
  BY <1>1, <1>2, <1>4, <1>5 DEF ShadowTypes
<1>7. \A p, v : Half(p, v)' = Half(p, v)
  BY <1>2 DEF Half
<1>8. now' >= now
  BY <1>1, <1>2 DEF ShadowTypes
<1> QED BY <1>2, <1>6, <1>7, <1>8, ShadowQuiet

LEMMA ShadowStart == ShadowInit => ShadowInv
<1> SUFFICES ASSUME ShadowInit PROVE ShadowInv
  OBVIOUS
<1>1. DOMAIN windows = {} /\ DOMAIN sent = {} /\ mu = Free
  BY DEF ShadowInit
<1>2. ShadowTypes
  <2>1. IsFiniteSet(DOMAIN windows)
    BY <1>1, FS_EmptySet
  <2>2. \A t \in Tasks : task[t].st = "none"
    BY DEF ShadowInit, NoTask
  <2>3. drained \in [Plans -> [Variants -> Int]] /\ compared \in [Plans -> Int] /\ DOMAIN task = Tasks
    BY DEF ShadowInit
  <2> QED BY <1>1, <2>1, <2>2, <2>3 DEF ShadowInit, ShadowTypes
<1>3. SentOnce
  BY <1>1 DEF SentOnce
<1>4. ASSUME NEW p \in Plans, NEW v \in Variants PROVE Balanced(p, v)
  <2>1. TotalOf(DOMAIN windows, p, v) = 0
    <3> DEFINE h == [k \in DOMAIN windows |-> Total(windows[k])]
    <3>1. {k \in DOMAIN windows : k.plan = p /\ k.variant = v} = {}
      BY <1>1
    <3>2. SumFunctionOnSet(h, {}) = 0
      BY SumEmpty
    <3> QED BY <3>1, <3>2 DEF TotalOf
  <2>2. drained[p][v] = 0 /\ compared[p] = 0 /\ Half(p, v) = 0
    BY <1>1 DEF ShadowInit, Half
  <2> QED BY <2>1, <2>2 DEF Balanced
<1> QED BY <1>2, <1>3, <1>4 DEF ShadowInv

LEMMA ShadowStep == ShadowInv /\ [ShadowNext]_shadowVars => ShadowInv'
<1> SUFFICES ASSUME ShadowInv, [ShadowNext]_shadowVars PROVE ShadowInv'
  OBVIOUS
<1>1. ShadowTypes /\ now \in Nat
  BY DEF ShadowInv, ShadowTypes
<1>2. ASSUME NEW plans \in SUBSET Plans, SetActive(plans) PROVE ShadowInv'
  <2>1. active' = plans /\ UNCHANGED <<windows, task, mu, flush, now, sent, drained, compared>>
    BY <1>2 DEF SetActive
  <2>2. ShadowTypes' /\ now' >= now /\ \A p, v : Half(p, v)' = Half(p, v)
    BY <1>1, <2>1 DEF ShadowTypes, Half
  <2> QED BY <2>1, <2>2, ShadowQuiet
<1>3. ASSUME NEW f \in Urns, NEW predicted \in BOOLEAN, OnBaseline(f, predicted) PROVE ShadowInv'
  <2>1. UNCHANGED <<active, windows, task, mu, flush, now, sent, drained, compared>>
    BY <1>3 DEF OnBaseline
  <2>2. ShadowTypes' /\ now' >= now /\ \A p, v : Half(p, v)' = Half(p, v)
    BY <1>1, <2>1 DEF ShadowTypes, Half
  <2> QED BY <2>1, <2>2, ShadowQuiet
<1>4. CASE FlushTick
  <2>1. flush' = now /\ UNCHANGED <<active, windows, task, mu, now, sent, drained, compared>>
    BY <1>4 DEF FlushTick
  <2>2. ShadowTypes' /\ now' >= now /\ \A p, v : Half(p, v)' = Half(p, v)
    BY <1>1, <2>1 DEF ShadowTypes, Half
  <2> QED BY <2>1, <2>2, ShadowQuiet
<1>5. CASE ShadowTick
  <2>1. now' = now + 1 /\ UNCHANGED <<active, windows, task, mu, flush, sent, drained, compared>>
    BY <1>5 DEF ShadowTick
  <2>2. now' \in Nat /\ now' >= now /\ (flush = NoTime \/ (flush \in Nat /\ flush <= now'))
    BY <1>1, <2>1 DEF ShadowTypes
  <2>3. ShadowTypes' /\ \A p, v : Half(p, v)' = Half(p, v)
    BY <1>1, <2>1, <2>2 DEF ShadowTypes, Half
  <2> QED BY <2>1, <2>2, <2>3, ShadowQuiet
<1>6. CASE UNCHANGED shadowVars
  <2>1. UNCHANGED <<active, windows, task, mu, flush, now, sent, drained, compared>>
    BY <1>6 DEF shadowVars
  <2>2. ShadowTypes' /\ now' >= now /\ \A p, v : Half(p, v)' = Half(p, v)
    BY <1>1, <2>1 DEF ShadowTypes, Half
  <2> QED BY <2>1, <2>2, ShadowQuiet
<1> QED BY <1>2, <1>3, <1>4, <1>5, <1>6, FrameKeeps, BaselineKeeps, CandidateKeeps, FlushKeeps, PeekKeeps DEF ShadowNext

(* Whatever the clock does between the start of a candidate's invocation,  *)
(* its two records and the flusher's drain, Engine never reports a window  *)
(* to canary-controller twice, and what it drained and what is open is the *)
(* number of comparisons made, on the baseline's side as on the            *)
(* candidate's.                                                            *)
THEOREM ComparisonsAreReportedOnce == ShadowSpec => []ObservationsAddUp
<1>1. ShadowSpec => []ShadowInv
  BY ShadowStart, ShadowStep, PTL DEF ShadowSpec
<1> QED BY <1>1, ShadowInvIsEnough, PTL

-----------------------------------------------------------------------------
(* The dwell rule.  What the tracks and the rule's map hold can be read    *)
(* off the frames seen: a live track is of a target seen no more than      *)
(* MaxMissing frames ago, where it was seen last, and what the map holds   *)
(* for it is the beginning of the target's stay in the zone, and whether   *)
(* that has lasted.  A frame keeps it so because the tracker gives every   *)
(* target the track of its class, and a track that was closed takes its    *)
(* id, and with it the entry of the map, out of use.                       *)

\* g is h with the frame e behind its n frames.
Extends(g, h, e, n) ==
  /\ n \in Nat /\ DOMAIN h = 1 .. n /\ DOMAIN g = 1 .. n + 1
  /\ \A i \in 1 .. n : g[i] = h[i]
  /\ g[n + 1] = e

LEMMA AppendExtends ==
  ASSUME NEW F, NEW h \in Seq(F), NEW e \in F
  PROVE  /\ Append(h, e) \in Seq(F) /\ Extends(Append(h, e), h, e, Len(h))
<1>1. Append(h, e) \in Seq(F) /\ DOMAIN Append(h, e) = 1 .. Len(h) + 1 /\ Len(h) \in Nat /\ DOMAIN h = 1 .. Len(h)
      /\ (\A i \in 1 .. Len(h) : Append(h, e)[i] = h[i]) /\ Append(h, e)[Len(h) + 1] = e
  BY AppendProperties, LenProperties
<1> QED
  BY <1>1 DEF Extends

LEMMA SeenGrows ==
  ASSUME NEW g, NEW h, NEW e, NEW n, Extends(g, h, e, n), NEW c
  PROVE  /\ Seen(h, c) \subseteq 1 .. n /\ n + 1 \notin Seen(h, c)
         /\ \A i \in 1 .. n : i \in Seen(g, c) <=> i \in Seen(h, c)
         /\ n + 1 \in Seen(g, c) <=> c \in DOMAIN e.at
         /\ Seen(g, c) \subseteq 1 .. n + 1
         /\ Seen(g, c) = Seen(h, c) \cup (IF c \in DOMAIN e.at THEN {n + 1} ELSE {})
<1>1. n \in Nat /\ n + 1 \notin 1 .. n /\ n + 1 \in 1 .. n + 1 /\ \A i \in 1 .. n + 1 : i \in 1 .. n \/ i = n + 1
  BY DEF Extends
<1>2. \A i \in 1 .. n : i \in 1 .. n + 1
  BY <1>1
<1>3. \A i \in 1 .. n : i \in Seen(g, c) <=> i \in Seen(h, c)
  BY <1>2 DEF Extends, Seen
<1>4. n + 1 \in Seen(g, c) <=> c \in DOMAIN e.at
  BY <1>1 DEF Extends, Seen
<1>5. Seen(h, c) \subseteq 1 .. n /\ Seen(g, c) \subseteq 1 .. n + 1
  BY DEF Extends, Seen
<1> QED
  BY <1>1, <1>3, <1>4, <1>5

\* What is read off the first n frames stays.
LEMMA StayGrows ==
  ASSUME NEW g, NEW h, NEW e, NEW n, Extends(g, h, e, n), NEW c, NEW z, NEW i \in 1 .. n, NEW j \in 1 .. n
  PROVE  Stay(g, c, z, i, j) <=> Stay(h, c, z, i, j)
<1>1. Seen(g, c) \cap i .. j = Seen(h, c) \cap i .. j
  <2>1. n \in Nat /\ \A k \in i .. j : k \in 1 .. n
    BY DEF Extends
  <2> QED
    BY <2>1, SeenGrows
<1>2. PICK s : s = Seen(g, c) \cap i .. j
  OBVIOUS
<1>3. \A k \in s : g[k] = h[k]
  BY <1>1, <1>2, SeenGrows DEF Extends
<1> QED
  BY <1>1, <1>2, <1>3 DEF Stay

LEMMA BeginsGrows ==
  ASSUME NEW g, NEW h, NEW e, NEW n, Extends(g, h, e, n), NEW c, NEW z, NEW i \in 1 .. n
  PROVE  Begins(g, c, z, i) <=> Begins(h, c, z, i)
<1>1. \A m \in 1 .. n : Stay(g, c, z, m, i) <=> Stay(h, c, z, m, i)
  BY StayGrows
<1>2. \A m \in Seen(g, c) : m < i => m \in 1 .. n
  <2>1. n \in Nat /\ \A m \in 1 .. n + 1 : m < i => m \in 1 .. n
    BY DEF Extends
  <2> QED
    BY <2>1, SeenGrows
<1> QED
  BY <1>1, <1>2, SeenGrows DEF Begins

LEMMA DueGrows ==
  ASSUME NEW g, NEW h, NEW e, NEW n, Extends(g, h, e, n), NEW rule, NEW c, NEW j \in 1 .. n
  PROVE  Due(g, rule, c, j) <=> Due(h, rule, c, j)
<1>1. n \in Nat /\ j \in Nat /\ \A i \in 1 .. j - 1 : i \in 1 .. n /\ \A k \in i + 1 .. j - 1 : k \in 1 .. n
  BY DEF Extends
<1>2. \A i, k \in 1 .. n : Lasted(g, rule, i, k) <=> Lasted(h, rule, i, k)
  BY DEF Lasted, Extends
<1>3. ASSUME NEW i \in 1 .. j - 1
      PROVE  /\ Stay(g, c, rule.zone, i, j) <=> Stay(h, c, rule.zone, i, j)
             /\ Begins(g, c, rule.zone, i) <=> Begins(h, c, rule.zone, i)
             /\ Lasted(g, rule, i, j) <=> Lasted(h, rule, i, j)
             /\ \A k \in i + 1 .. j - 1 : (k \in Seen(g, c) => ~Lasted(g, rule, i, k))
                                           <=> (k \in Seen(h, c) => ~Lasted(h, rule, i, k))
  <2>1. i \in 1 .. n
    BY <1>1
  <2>2. \A k \in i + 1 .. j - 1 : k \in 1 .. n
    BY <1>1
  <2>3. \A k \in 1 .. n : k \in Seen(g, c) <=> k \in Seen(h, c)
    BY SeenGrows
  <2> QED
    BY <1>2, <2>1, <2>2, <2>3, StayGrows, BeginsGrows
<1> QED
  BY <1>3 DEF Due

\* m is the last frame of h that shows c.
LatestIs(h, c, m) == m \in Seen(h, c) /\ \A k \in Seen(h, c) : k <= m

LEMMA LatestOf ==
  ASSUME NEW h, NEW n \in Nat, DOMAIN h = 1 .. n, NEW c, NEW m, LatestIs(h, c, m)
  PROVE  Latest(h, c) = m /\ m \in 1 .. n
<1>1. Seen(h, c) \subseteq 1 .. n
  BY DEF Seen
<1>2. \A k \in 1 .. n, l \in 1 .. n : k <= l /\ l <= k => k = l
  OBVIOUS
<1> QED
  BY <1>1, <1>2 DEF LatestIs, Latest

\* A stay is extended by a sighting in the zone no more than MaxMissing frames later, and only by one.
LEMMA StayExtended ==
  ASSUME NEW g, NEW h, NEW e, NEW n, Extends(g, h, e, n), NEW c, c \in DOMAIN e.at, NEW z, e.at[c] \in z,
         NEW m, LatestIs(h, c, m), n - m <= MaxMissing, NEW i \in Seen(h, c), Stay(h, c, z, i, m)
  PROVE  Stay(g, c, z, i, n + 1)
<1> DEFINE s == Seen(h, c) \cap i .. m
           t == Seen(g, c) \cap i .. n + 1
<1>1. /\ n \in Nat /\ MaxMissing \in Nat /\ m \in 1 .. n /\ i \in 1 .. n /\ i <= m /\ n + 1 <= m + 1 + MaxMissing
      /\ n + 1 \in Seen(g, c) /\ m \in Seen(h, c)
  <2>1. MaxMissing \in Nat
    BY DwellAssumption
  <2>2. n \in Nat /\ Seen(h, c) \subseteq 1 .. n /\ n + 1 \in Seen(g, c)
    <3>1. n \in Nat
      BY DEF Extends
    <3>2. Seen(h, c) \subseteq 1 .. n
      BY SeenGrows
    <3>3. n + 1 \in Seen(g, c)
      BY SeenGrows
    <3> QED
      BY <3>1, <3>2, <3>3
  <2>3. m \in 1 .. n /\ i \in 1 .. n /\ i <= m /\ m \in Seen(h, c)
    BY <2>2 DEF LatestIs
  <2> QED
    BY <2>1, <2>2, <2>3
<1>2. \A k \in t : k \in s \/ k = n + 1
  BY <1>1, SeenGrows DEF LatestIs
<1>3. \A k \in s : k \in t /\ k \in 1 .. n
  BY <1>1, SeenGrows
<1>4. n + 1 \in t /\ i \in t /\ m \in t
  BY <1>1, <1>3
<1> HIDE DEF s, t
<1>5. \A k \in s : h[k].at[c] \in z
  BY DEF Stay, s
<1>6. \A k \in t : g[k].at[c] \in z
  BY <1>2, <1>3, <1>5 DEF Extends
<1>7. ASSUME NEW k \in i .. n + 1, k + MaxMissing < n + 1 PROVE (k .. k + MaxMissing) \cap t # {}
  <2>1. k \in i .. m
    BY <1>1, <1>7
  <2>2. CASE k + MaxMissing < m
    <3>1. (k .. k + MaxMissing) \cap s # {}
      BY <2>1, <2>2 DEF Stay, s
    <3> QED
      BY <1>3, <3>1
  <2>3. CASE ~(k + MaxMissing < m)
    <3>1. m \in k .. k + MaxMissing
      BY <1>1, <2>1, <2>3
    <3> QED
      BY <1>4, <3>1
  <2> QED
    BY <2>2, <2>3
<1> QED
  BY <1>4, <1>6, <1>7 DEF Stay, t

LEMMA StayWasExtended ==
  ASSUME NEW g, NEW h, NEW e, NEW n, Extends(g, h, e, n), NEW c, NEW z,
         NEW m, LatestIs(h, c, m), NEW i \in Seen(h, c), Stay(g, c, z, i, n + 1)
  PROVE  /\ Stay(h, c, z, i, m) /\ h[m].at[c] \in z /\ n - m <= MaxMissing
         /\ c \in DOMAIN e.at /\ e.at[c] \in z
<1> DEFINE s == Seen(h, c) \cap i .. m
           t == Seen(g, c) \cap i .. n + 1
<1>1. /\ n \in Nat /\ MaxMissing \in Nat /\ m \in 1 .. n /\ i \in 1 .. n /\ i <= m /\ m \in Seen(h, c)
  <2>1. MaxMissing \in Nat
    BY DwellAssumption
  <2>2. n \in Nat /\ Seen(h, c) \subseteq 1 .. n
    BY SeenGrows DEF Extends
  <2> QED
    BY <2>1, <2>2 DEF LatestIs
<1>2. \A k \in t : k \in s \/ k = n + 1
  BY <1>1, SeenGrows DEF LatestIs
<1>3. \A k \in s : k \in t /\ k \in 1 .. n
  BY <1>1, SeenGrows
<1>4. i \in s /\ m \in s
  BY <1>1
<1> HIDE DEF s, t
<1>5. n + 1 \in t /\ \A k \in t : g[k].at[c] \in z
  BY DEF Stay, t
<1>6. \A k \in s : h[k].at[c] \in z
  BY <1>3, <1>5 DEF Extends
<1>7. c \in DOMAIN e.at /\ e.at[c] \in z
  <2>1. n + 1 \in Seen(g, c) /\ g[n + 1] = e
    BY <1>5 DEF t, Extends
  <2>2. c \in DOMAIN e.at
    BY <2>1, SeenGrows
  <2> QED
    BY <1>5, <2>1, <2>2
<1>8. \A k \in i .. n + 1 : k + MaxMissing < n + 1 => (k .. k + MaxMissing) \cap t # {}
  BY DEF Stay, t
<1>9. n - m <= MaxMissing
  <2> SUFFICES ASSUME ~(n - m <= MaxMissing) PROVE FALSE
    OBVIOUS
  <2>1. m + 1 \in i .. n + 1 /\ m + 1 + MaxMissing < n + 1
    BY <1>1
  <2>2. PICK k \in m + 1 .. m + 1 + MaxMissing : k \in t
    BY <1>8, <2>1
  <2>3. k # n + 1 /\ ~(k <= m)
    BY <1>1, <2>1, <2>2
  <2>4. \A l \in s : l <= m
    BY <1>1 DEF s
  <2> QED
    BY <1>2, <2>2, <2>3, <2>4
<1>10. ASSUME NEW k \in i .. m, k + MaxMissing < m PROVE (k .. k + MaxMissing) \cap s # {}
  <2>1. k \in i .. n + 1 /\ k + MaxMissing < n + 1
    BY <1>1, <1>10
  <2>2. PICK l \in k .. k + MaxMissing : l \in t
    BY <1>8, <2>1
  <2>3. l # n + 1
    BY <1>1, <2>1, <2>2
  <2> QED
    BY <1>2, <2>2, <2>3
<1> QED
  BY <1>4, <1>6, <1>7, <1>9, <1>10 DEF Stay, s

\* Stays that end together begin together.
LEMMA OneBeginning ==
  ASSUME NEW h, NEW n \in Nat, DOMAIN h = 1 .. n, NEW c, NEW z, NEW i, NEW k, NEW j,
         Stay(h, c, z, i, j), Begins(h, c, z, i), Stay(h, c, z, k, j), Begins(h, c, z, k)
  PROVE  i = k
<1>1. i \in Seen(h, c) /\ k \in Seen(h, c) /\ j \in Seen(h, c) /\ i <= j /\ k <= j
      /\ i \in 1 .. n /\ k \in 1 .. n /\ j \in 1 .. n
  <2>1. \A a : Stay(h, c, z, a, j) => a \in Seen(h, c) \cap a .. j /\ j \in Seen(h, c)
    BY DEF Stay
  <2>2. Seen(h, c) \subseteq 1 .. n
    BY DEF Seen
  <2> QED
    BY <2>1, <2>2
<1>2. ASSUME NEW a \in Seen(h, c), NEW b \in Seen(h, c), a < b, b <= j, Stay(h, c, z, a, j) PROVE Stay(h, c, z, a, b)
  <2>1. a \in 1 .. n /\ b \in 1 .. n /\ MaxMissing \in Nat
    BY DwellAssumption DEF Seen
  <2>2. a \in Seen(h, c) \cap a .. b /\ b \in Seen(h, c) \cap a .. b
    BY <1>2, <2>1
  <2>3. \A l \in Seen(h, c) \cap a .. b : l \in Seen(h, c) \cap a .. j
    BY <1>1, <1>2, <2>1
  <2>4. \A l \in Seen(h, c) \cap a .. b : h[l].at[c] \in z
    BY <1>2, <2>3 DEF Stay
  <2>5. ASSUME NEW l \in a .. b, l + MaxMissing < b PROVE (l .. l + MaxMissing) \cap (Seen(h, c) \cap a .. b) # {}
    <3>1. l \in a .. j /\ l + MaxMissing < j
      BY <1>1, <1>2, <2>1, <2>5
    <3>2. PICK w \in l .. l + MaxMissing : w \in Seen(h, c) \cap a .. j
      BY <1>2, <3>1 DEF Stay
    <3>3. w \in a .. b
      BY <2>1, <2>5, <3>1, <3>2
    <3> QED
      BY <3>2, <3>3
  <2> QED
    BY <2>2, <2>4, <2>5 DEF Stay
<1>3. ~(i < k) /\ ~(k < i)
  BY <1>1, <1>2 DEF Begins
<1> QED
  BY <1>1, <1>3

\* What a rule remembers, s, of the track of c, last seen in the zone in frame m.
Remembered(h, rule, c, m, s) ==
  /\ h[m].at[c] \in rule.zone
  /\ s = [entered |-> s.entered, fired |-> s.fired] /\ s.fired \in BOOLEAN
  /\ \E i \in Seen(h, c) :
       /\ Stay(h, c, rule.zone, i, m) /\ Begins(h, c, rule.zone, i) /\ s.entered = h[i].t
       /\ s.fired <=> \E k \in Seen(h, c) : i < k /\ Lasted(h, rule, i, k)

\* No stay in the zone goes on.
Interrupted(h, n, c, z) ==
  Seen(h, c) # {} => \E m : LatestIs(h, c, m) /\ (n - m > MaxMissing \/ h[m].at[c] \notin z)

LEMMA NothingDue ==
  ASSUME NEW g, NEW h, NEW e, NEW n, Extends(g, h, e, n), NEW rule, NEW c,
         c \notin DOMAIN e.at \/ e.at[c] \notin rule.zone \/ Interrupted(h, n, c, rule.zone)
  PROVE  ~Due(g, rule, c, n + 1)
<1> SUFFICES ASSUME NEW i \in 1 .. (n + 1) - 1, Stay(g, c, rule.zone, i, n + 1) PROVE FALSE
  BY DEF Due
<1>1. n \in Nat /\ i \in 1 .. n /\ MaxMissing \in Nat
  <2>1. n \in Nat
    BY DEF Extends
  <2>2. MaxMissing \in Nat
    BY DwellAssumption, Zenon
  <2> QED
    BY <2>1, <2>2
<1>2. i \in Seen(g, c) /\ n + 1 \in Seen(g, c) /\ g[n + 1].at[c] \in rule.zone
  BY DEF Stay
<1>3. i \in Seen(h, c) /\ c \in DOMAIN e.at /\ e.at[c] \in rule.zone
  <2>1. i \in Seen(h, c)
    BY <1>1, <1>2, SeenGrows
  <2>2. c \in DOMAIN e.at
    BY <1>2, SeenGrows
  <2>3. g[n + 1] = e
    BY DEF Extends
  <2> QED
    BY <1>2, <2>1, <2>2, <2>3
<1>4. PICK m : LatestIs(h, c, m) /\ (n - m > MaxMissing \/ h[m].at[c] \notin rule.zone)
  BY <1>3 DEF Interrupted
<1>5. h[m].at[c] \in rule.zone /\ n - m <= MaxMissing
  BY <1>3, <1>4, StayWasExtended
<1>6. m \in 1 .. n
  BY <1>4, LatestOf DEF Extends
<1> QED
  BY <1>1, <1>4, <1>5, <1>6

LEMMA LatestNow ==
  ASSUME NEW g, NEW h, NEW e, NEW n, Extends(g, h, e, n), NEW c
  PROVE  /\ c \in DOMAIN e.at => LatestIs(g, c, n + 1)
         /\ c \notin DOMAIN e.at => Seen(g, c) = Seen(h, c) /\ \A m : LatestIs(g, c, m) <=> LatestIs(h, c, m)
<1>1. Seen(g, c) \subseteq 1 .. n + 1
  BY SeenGrows
<1>2. c \in DOMAIN e.at => n + 1 \in Seen(g, c)
  BY SeenGrows
<1>3. ASSUME c \notin DOMAIN e.at PROVE Seen(g, c) = Seen(h, c)
  <2>1. Seen(g, c) = Seen(h, c) \cup (IF c \in DOMAIN e.at THEN {n + 1} ELSE {})
    BY SeenGrows
  <2> QED
    BY <1>3, <2>1
<1>4. \A k \in 1 .. n + 1 : k <= n + 1
  BY DEF Extends
<1> QED
  BY <1>1, <1>2, <1>3, <1>4 DEF LatestIs

\* The track enters the zone.
LEMMA StayStarts ==
  ASSUME NEW g, NEW h, NEW e, NEW n, Extends(g, h, e, n), NEW rule, NEW c,
         c \in DOMAIN e.at, e.at[c] \in rule.zone, Interrupted(h, n, c, rule.zone)
  PROVE  Remembered(g, rule, c, n + 1, JustEntered(e.t))
<1>1. n \in Nat /\ MaxMissing \in Nat /\ g[n + 1] = e
  BY DwellAssumption, Zenon DEF Extends
<1>2. n + 1 \in Seen(g, c)
  BY SeenGrows
<1>3. Seen(g, c) \subseteq 1 .. n + 1
  BY SeenGrows
<1>4. Stay(g, c, rule.zone, n + 1, n + 1)
  <2>1. \A k \in n + 1 .. n + 1 : k = n + 1 /\ ~(k + MaxMissing < n + 1)
    BY <1>1
  <2>2. n + 1 \in n + 1 .. n + 1
    BY <1>1
  <2> QED
    BY <1>1, <1>2, <2>1, <2>2 DEF Stay
<1>5. Begins(g, c, rule.zone, n + 1)
  <2> SUFFICES ASSUME NEW i \in Seen(g, c), i < n + 1, Stay(g, c, rule.zone, i, n + 1) PROVE FALSE
    BY DEF Begins
  <2>1. i \in 1 .. n
    BY <1>1, <1>3
  <2>2. i \in Seen(h, c)
    BY <2>1, SeenGrows
  <2>3. PICK m : LatestIs(h, c, m) /\ (n - m > MaxMissing \/ h[m].at[c] \notin rule.zone)
    BY <2>2 DEF Interrupted
  <2>4. h[m].at[c] \in rule.zone /\ n - m <= MaxMissing
    BY <2>2, <2>3, StayWasExtended
  <2>5. m \in 1 .. n
    BY <2>3, LatestOf DEF Extends
  <2> QED
    BY <1>1, <2>3, <2>4, <2>5
<1>6. PICK s : s = JustEntered(e.t)
  OBVIOUS
<1>7. s = [entered |-> s.entered, fired |-> s.fired] /\ s.fired = FALSE /\ s.entered = e.t
  BY <1>6 DEF JustEntered
<1>8. \A k \in Seen(g, c) : ~(n + 1 < k)
  BY <1>1, <1>3
<1> QED
  BY <1>1, <1>2, <1>4, <1>5, <1>6, <1>7, <1>8 DEF Remembered

\* The track stays in the zone.
LEMMA StayGoesOn ==
  ASSUME NEW g, NEW h, NEW e, NEW n, Extends(g, h, e, n), NEW rule, NEW c,
         c \in DOMAIN e.at, e.at[c] \in rule.zone, NEW m, LatestIs(h, c, m), n - m <= MaxMissing,
         NEW s, Remembered(h, rule, c, m, s), NEW fires, fires = (~s.fired /\ e.t - s.entered >= rule.dwell)
  PROVE  /\ Remembered(g, rule, c, n + 1, [s EXCEPT !.fired = @ \/ fires])
         /\ Due(g, rule, c, n + 1) <=> fires
<1>1. n \in Nat /\ DOMAIN h = 1 .. n /\ DOMAIN g = 1 .. n + 1 /\ g[n + 1] = e /\ \A i \in 1 .. n : g[i] = h[i]
  BY DEF Extends
<1>2. PICK i \in Seen(h, c) :
        /\ Stay(h, c, rule.zone, i, m) /\ Begins(h, c, rule.zone, i) /\ s.entered = h[i].t
        /\ s.fired <=> \E k \in Seen(h, c) : i < k /\ Lasted(h, rule, i, k)
  BY DEF Remembered
<1>3. s = [entered |-> s.entered, fired |-> s.fired] /\ s.fired \in BOOLEAN /\ h[m].at[c] \in rule.zone
  BY DEF Remembered
<1>4. Seen(h, c) \subseteq 1 .. n
  BY SeenGrows
<1>5. Seen(g, c) = Seen(h, c) \cup {n + 1}
  BY SeenGrows
<1>6. i \in 1 .. n /\ m \in 1 .. n
  BY <1>4 DEF LatestIs
<1>7. Stay(g, c, rule.zone, i, n + 1)
  BY <1>2, StayExtended
<1>8. Begins(g, c, rule.zone, i)
  BY <1>2, <1>6, BeginsGrows
<1>9. Lasted(g, rule, i, n + 1) <=> e.t - s.entered >= rule.dwell
  BY <1>1, <1>2, <1>6 DEF Lasted
<1>10. \A k \in 1 .. n : Lasted(g, rule, i, k) <=> Lasted(h, rule, i, k)
  BY <1>1, <1>6 DEF Lasted
<1>11. g[i].t = s.entered /\ i < n + 1 /\ i \in 1 .. (n + 1) - 1
  BY <1>1, <1>2, <1>6
<1>12. Due(g, rule, c, n + 1) <=> fires
  <2>1. ASSUME fires PROVE Due(g, rule, c, n + 1)
    <3>1. Lasted(g, rule, i, n + 1) /\ \A k \in Seen(h, c) : i < k => ~Lasted(h, rule, i, k)
      BY <1>2, <1>9, <2>1
    <3>2. ASSUME NEW k \in i + 1 .. (n + 1) - 1, k \in Seen(g, c) PROVE ~Lasted(g, rule, i, k)
      <4>1. k \in 1 .. n /\ i < k
        BY <1>1, <1>6, <3>2
      <4>2. k \in Seen(h, c)
        BY <1>5, <3>2, <4>1
      <4> QED
        BY <1>10, <3>1, <4>1, <4>2
    <3> QED
      BY <1>7, <1>8, <1>11, <3>1, <3>2 DEF Due
  <2>2. ASSUME Due(g, rule, c, n + 1) PROVE fires
    <3>1. PICK j \in 1 .. (n + 1) - 1 :
            /\ Stay(g, c, rule.zone, j, n + 1) /\ Begins(g, c, rule.zone, j)
            /\ Lasted(g, rule, j, n + 1)
            /\ \A k \in j + 1 .. (n + 1) - 1 : k \in Seen(g, c) => ~Lasted(g, rule, j, k)
      BY <2>2 DEF Due
    <3>2. n + 1 \in Nat
      BY <1>1
    <3>3. j = i
      BY <1>1, <1>7, <1>8, <3>1, <3>2, OneBeginning
    <3>4. ASSUME NEW k \in Seen(h, c), i < k PROVE ~Lasted(h, rule, i, k)
      <4>1. k \in i + 1 .. (n + 1) - 1 /\ k \in 1 .. n
        BY <1>1, <1>4, <1>6, <3>4
      <4> QED
        BY <1>5, <1>10, <3>1, <3>3, <4>1
    <3> QED
      BY <1>2, <1>3, <1>9, <3>1, <3>3, <3>4
  <2> QED
    BY <2>1, <2>2
<1>13. PICK t : t = [s EXCEPT !.fired = @ \/ fires]
  OBVIOUS
<1>14. t = [entered |-> t.entered, fired |-> t.fired] /\ t.entered = s.entered /\ t.fired = (s.fired \/ fires)
  BY <1>3, <1>13
<1>15. t.fired <=> \E k \in Seen(g, c) : i < k /\ Lasted(g, rule, i, k)
  <2>1. (\E k \in Seen(g, c) : i < k /\ Lasted(g, rule, i, k))
          <=> (\E k \in Seen(h, c) : i < k /\ Lasted(h, rule, i, k)) \/ Lasted(g, rule, i, n + 1)
    BY <1>4, <1>5, <1>10, <1>11
  <2>2. (s.fired \/ fires) <=> (s.fired \/ e.t - s.entered >= rule.dwell)
    BY <1>3
  <2> QED
    BY <1>2, <1>9, <1>14, <2>1, <2>2
<1>16. t.fired \in BOOLEAN
  BY <1>3, <1>14
<1>17. i \in Seen(g, c) /\ g[n + 1].at[c] \in rule.zone
  BY <1>1, <1>5
<1>18. Remembered(g, rule, c, n + 1, t)
  BY <1>7, <1>8, <1>11, <1>14, <1>15, <1>16, <1>17 DEF Remembered
<1> QED
  BY <1>12, <1>13, <1>18

\* A frame without c changes nothing.
LEMMA RememberedGrows ==
  ASSUME NEW g, NEW h, NEW e, NEW n, Extends(g, h, e, n), NEW rule, NEW c, c \notin DOMAIN e.at,
         NEW m, LatestIs(h, c, m), NEW s, Remembered(h, rule, c, m, s)
  PROVE  Remembered(g, rule, c, m, s) /\ LatestIs(g, c, m) /\ g[m].at[c] = h[m].at[c]
<1>1. n \in Nat /\ \A i \in 1 .. n : g[i] = h[i]
  BY DEF Extends
<1>2. Seen(h, c) \subseteq 1 .. n
  BY SeenGrows
<1>3. Seen(g, c) = Seen(h, c) /\ LatestIs(g, c, m)
  BY LatestNow
<1>4. m \in 1 .. n
  BY <1>2 DEF LatestIs
<1>5. \A i, k \in 1 .. n : Lasted(g, rule, i, k) <=> Lasted(h, rule, i, k)
  BY <1>1 DEF Lasted
<1>6. \A i \in 1 .. n : /\ Stay(g, c, rule.zone, i, m) <=> Stay(h, c, rule.zone, i, m)
                        /\ Begins(g, c, rule.zone, i) <=> Begins(h, c, rule.zone, i)
                        /\ g[i].t = h[i].t
  BY <1>1, <1>4, StayGrows, BeginsGrows
<1>7. ASSUME NEW i \in Seen(h, c)
      PROVE  (\E k \in Seen(g, c) : i < k /\ Lasted(g, rule, i, k)) <=> \E k \in Seen(h, c) : i < k /\ Lasted(h, rule, i, k)
  BY <1>2, <1>3, <1>5
<1>8. g[m].at[c] = h[m].at[c]
  BY <1>1, <1>4
<1> QED
  BY <1>2, <1>3, <1>6, <1>7, <1>8 DEF Remembered

\* What Assign starts from.
Untouched == [tracks |-> tracks, ids |-> ids, used |-> {}, given |-> 0]

\* f is what the recursion of Associations (JudgeAll, Evaluate) gives for the first n.
AssociationsTo(f, dets, n) ==
  f = [i \in 0 .. n |-> IF i = 0 THEN Untouched ELSE Associate(f[i - 1], dets[i])]

JudgementsTo(f, acc, rule, time, n) ==
  f = [i \in 0 .. n |-> IF i = 0 THEN acc ELSE Judge(f[i - 1], rule, i, time)]

EvaluationsTo(f, acc, time, n) ==
  f = [i \in 0 .. n |-> IF i = 0 THEN acc ELSE JudgeAll(f[i - 1], Rules[i], time)]

LEMMA AssociationsExtend ==
  ASSUME NEW dets, NEW n \in Nat PROVE \E f : AssociationsTo(f, dets, n)
<1> DEFINE S == {i \in 0 .. n : \E f : AssociationsTo(f, dets, i)}
<1>1. 0 \in S
  <2>1. AssociationsTo([i \in 0 .. 0 |-> Untouched], dets, 0)
    BY DEF AssociationsTo
  <2> QED
    BY <2>1
<1>2. ASSUME NEW m \in 1 .. n, m - 1 \in S PROVE m \in S
  <2>1. PICK f : AssociationsTo(f, dets, m - 1)
    BY <1>2
  <2>2. PICK x : x = Associate(f[m - 1], dets[m])
    OBVIOUS
  <2> DEFINE g == [i \in 0 .. m |-> IF i = m THEN x ELSE f[i]]
  <2>3. \A i \in 0 .. m - 1 : f[i] = IF i = 0 THEN Untouched ELSE Associate(f[i - 1], dets[i])
    BY <2>1 DEF AssociationsTo
  <2>4. m # 0 /\ m - 1 \in 0 .. m /\ m - 1 # m
    OBVIOUS
  <2>5. g[m - 1] = f[m - 1]
    BY <2>4
  <2>6. ASSUME NEW i \in 0 .. m PROVE g[i] = IF i = 0 THEN Untouched ELSE Associate(g[i - 1], dets[i])
    <3>1. CASE i = m
      BY <2>2, <2>4, <2>5, <3>1
    <3>2. CASE i # m /\ i # 0
      <4>1. i \in 0 .. m - 1 /\ i - 1 \in 0 .. m /\ i - 1 # m
        BY <3>2
      <4>2. g[i] = f[i] /\ g[i - 1] = f[i - 1]
        BY <4>1, <3>2
      <4> HIDE DEF g
      <4> QED
        BY <2>3, <3>2, <4>1, <4>2
    <3>3. CASE i = 0
      BY <2>3, <2>4, <3>3
    <3> QED
      BY <3>1, <3>2, <3>3
  <2>7. AssociationsTo(g, dets, m)
    <3>1. g = [i \in 0 .. m |-> g[i]]
      OBVIOUS
    <3> HIDE DEF g
    <3>2. [i \in 0 .. m |-> g[i]] = [i \in 0 .. m |-> IF i = 0 THEN Untouched ELSE Associate(g[i - 1], dets[i])]
      BY <2>6
    <3> QED
      BY <3>1, <3>2 DEF AssociationsTo
  <2> QED
    BY <2>7
<1> HIDE DEF S
<1>3. 0 .. n \subseteq S
  BY <1>1, <1>2, Positions0
<1> QED
  BY <1>3 DEF S

LEMMA JudgementsExtend ==
  ASSUME NEW acc, NEW rule, NEW time, NEW n \in Nat PROVE \E f : JudgementsTo(f, acc, rule, time, n)
<1> DEFINE S == {i \in 0 .. n : \E f : JudgementsTo(f, acc, rule, time, i)}
<1>1. 0 \in S
  <2>1. JudgementsTo([i \in 0 .. 0 |-> acc], acc, rule, time, 0)
    BY DEF JudgementsTo
  <2> QED
    BY <2>1
<1>2. ASSUME NEW m \in 1 .. n, m - 1 \in S PROVE m \in S
  <2>1. PICK f : JudgementsTo(f, acc, rule, time, m - 1)
    BY <1>2
  <2>2. PICK x : x = Judge(f[m - 1], rule, m, time)
    OBVIOUS
  <2> DEFINE g == [i \in 0 .. m |-> IF i = m THEN x ELSE f[i]]
  <2>3. \A i \in 0 .. m - 1 : f[i] = IF i = 0 THEN acc ELSE Judge(f[i - 1], rule, i, time)
    BY <2>1 DEF JudgementsTo
  <2>4. m # 0 /\ m - 1 \in 0 .. m /\ m - 1 # m
    OBVIOUS
  <2>5. g[m - 1] = f[m - 1]
    BY <2>4
  <2>6. ASSUME NEW i \in 0 .. m PROVE g[i] = IF i = 0 THEN acc ELSE Judge(g[i - 1], rule, i, time)
    <3>1. CASE i = m
      BY <2>2, <2>4, <2>5, <3>1
    <3>2. CASE i # m /\ i # 0
      <4>1. i \in 0 .. m - 1 /\ i - 1 \in 0 .. m /\ i - 1 # m
        BY <3>2
      <4>2. g[i] = f[i] /\ g[i - 1] = f[i - 1]
        BY <4>1, <3>2
      <4> HIDE DEF g
      <4> QED
        BY <2>3, <3>2, <4>1, <4>2
    <3>3. CASE i = 0
      BY <2>3, <2>4, <3>3
    <3> QED
      BY <3>1, <3>2, <3>3
  <2>7. JudgementsTo(g, acc, rule, time, m)
    <3>1. g = [i \in 0 .. m |-> g[i]]
      OBVIOUS
    <3> HIDE DEF g
    <3>2. [i \in 0 .. m |-> g[i]] = [i \in 0 .. m |-> IF i = 0 THEN acc ELSE Judge(g[i - 1], rule, i, time)]
      BY <2>6
    <3> QED
      BY <3>1, <3>2 DEF JudgementsTo
  <2> QED
    BY <2>7
<1> HIDE DEF S
<1>3. 0 .. n \subseteq S
  BY <1>1, <1>2, Positions0
<1> QED
  BY <1>3 DEF S

LEMMA EvaluationsExtend ==
  ASSUME NEW acc, NEW time, NEW n \in Nat PROVE \E f : EvaluationsTo(f, acc, time, n)
<1> DEFINE S == {i \in 0 .. n : \E f : EvaluationsTo(f, acc, time, i)}
<1>1. 0 \in S
  <2>1. EvaluationsTo([i \in 0 .. 0 |-> acc], acc, time, 0)
    BY DEF EvaluationsTo
  <2> QED
    BY <2>1
<1>2. ASSUME NEW m \in 1 .. n, m - 1 \in S PROVE m \in S
  <2>1. PICK f : EvaluationsTo(f, acc, time, m - 1)
    BY <1>2
  <2>2. PICK x : x = JudgeAll(f[m - 1], Rules[m], time)
    OBVIOUS
  <2> DEFINE g == [i \in 0 .. m |-> IF i = m THEN x ELSE f[i]]
  <2>3. \A i \in 0 .. m - 1 : f[i] = IF i = 0 THEN acc ELSE JudgeAll(f[i - 1], Rules[i], time)
    BY <2>1 DEF EvaluationsTo
  <2>4. m # 0 /\ m - 1 \in 0 .. m /\ m - 1 # m
    OBVIOUS
  <2>5. g[m - 1] = f[m - 1]
    BY <2>4
  <2>6. ASSUME NEW i \in 0 .. m PROVE g[i] = IF i = 0 THEN acc ELSE JudgeAll(g[i - 1], Rules[i], time)
    <3>1. CASE i = m
      BY <2>2, <2>4, <2>5, <3>1
    <3>2. CASE i # m /\ i # 0
      <4>1. i \in 0 .. m - 1 /\ i - 1 \in 0 .. m /\ i - 1 # m
        BY <3>2
      <4>2. g[i] = f[i] /\ g[i - 1] = f[i - 1]
        BY <4>1, <3>2
      <4> HIDE DEF g
      <4> QED
        BY <2>3, <3>2, <4>1, <4>2
    <3>3. CASE i = 0
      BY <2>3, <2>4, <3>3
    <3> QED
      BY <3>1, <3>2, <3>3
  <2>7. EvaluationsTo(g, acc, time, m)
    <3>1. g = [i \in 0 .. m |-> g[i]]
      OBVIOUS
    <3> HIDE DEF g
    <3>2. [i \in 0 .. m |-> g[i]] = [i \in 0 .. m |-> IF i = 0 THEN acc ELSE JudgeAll(g[i - 1], Rules[i], time)]
      BY <2>6
    <3> QED
      BY <3>1, <3>2 DEF EvaluationsTo
  <2> QED
    BY <2>7
<1> HIDE DEF S
<1>3. 0 .. n \subseteq S
  BY <1>1, <1>2, Positions0
<1> QED
  BY <1>3 DEF S

LEMMA AssociationsUnfold ==
  ASSUME NEW f, NEW dets, NEW n \in Nat, AssociationsTo(f, dets, n)
  PROVE  f[0] = Untouched /\ \A i \in 1 .. n : f[i] = Associate(f[i - 1], dets[i])
<1>1. 0 \in 0 .. n
  OBVIOUS
<1>2. f[0] = Untouched
  BY <1>1 DEF AssociationsTo
<1>3. ASSUME NEW i \in 1 .. n PROVE f[i] = Associate(f[i - 1], dets[i])
  <2>1. i \in 0 .. n /\ i # 0
    OBVIOUS
  <2>2. f[i] = IF i = 0 THEN Untouched ELSE Associate(f[i - 1], dets[i])
    BY <2>1 DEF AssociationsTo
  <2> QED
    BY <2>1, <2>2
<1> QED
  BY <1>2, <1>3

LEMMA AssociationsAre ==
  ASSUME NEW dets, Len(dets) \in Nat, NEW a, a = Associations(dets)
  PROVE  a[0] = Untouched /\ \A d \in 1 .. Len(dets) : a[d] = Associate(a[d - 1], dets[d])
<1>1. PICK n \in Nat : n = Len(dets)
  OBVIOUS
<1>2. PICK f : AssociationsTo(f, dets, n)
  BY AssociationsExtend
<1>3. a = CHOOSE g : AssociationsTo(g, dets, n)
  BY <1>1 DEF Associations, AssociationsTo, Untouched
<1>4. AssociationsTo(a, dets, n)
  BY <1>2, <1>3
<1>5. a[0] = Untouched /\ \A d \in 1 .. n : a[d] = Associate(a[d - 1], dets[d])
  BY <1>4, AssociationsUnfold
<1> QED
  BY <1>1, <1>5

LEMMA JudgementsUnfold ==
  ASSUME NEW f, NEW acc, NEW rule, NEW time, NEW n \in Nat, JudgementsTo(f, acc, rule, time, n)
  PROVE  f[0] = acc /\ \A i \in 1 .. n : f[i] = Judge(f[i - 1], rule, i, time)
<1>1. 0 \in 0 .. n
  OBVIOUS
<1>2. f[0] = acc
  BY <1>1 DEF JudgementsTo
<1>3. ASSUME NEW i \in 1 .. n PROVE f[i] = Judge(f[i - 1], rule, i, time)
  <2>1. i \in 0 .. n /\ i # 0
    OBVIOUS
  <2>2. f[i] = IF i = 0 THEN acc ELSE Judge(f[i - 1], rule, i, time)
    BY <2>1 DEF JudgementsTo
  <2> QED
    BY <2>1, <2>2
<1> QED
  BY <1>2, <1>3

\* The recursion of JudgeAll, over n detections.
JudgementsOf(acc, rule, time, n) == CHOOSE g : JudgementsTo(g, acc, rule, time, n)

LEMMA JudgementsAre ==
  ASSUME NEW acc, NEW n \in Nat, Len(acc.dets) = n, NEW rule, NEW time
  PROVE  /\ JudgementsTo(JudgementsOf(acc, rule, time, n), acc, rule, time, n)
         /\ JudgementsOf(acc, rule, time, n)[n] = JudgeAll(acc, rule, time)
<1>1. PICK f : JudgementsTo(f, acc, rule, time, n)
  BY JudgementsExtend
<1>2. JudgementsTo(JudgementsOf(acc, rule, time, n), acc, rule, time, n)
  BY <1>1 DEF JudgementsOf
<1>3. JudgementsOf(acc, rule, time, n)[n] = JudgeAll(acc, rule, time)
  BY DEF JudgeAll, JudgementsTo, JudgementsOf
<1> QED
  BY <1>2, <1>3

LEMMA EvaluationsUnfold ==
  ASSUME NEW f, NEW acc, NEW time, NEW n \in Nat, EvaluationsTo(f, acc, time, n)
  PROVE  f[0] = acc /\ \A i \in 1 .. n : f[i] = JudgeAll(f[i - 1], Rules[i], time)
<1>1. 0 \in 0 .. n
  OBVIOUS
<1>2. f[0] = acc
  BY <1>1 DEF EvaluationsTo
<1>3. ASSUME NEW i \in 1 .. n PROVE f[i] = JudgeAll(f[i - 1], Rules[i], time)
  <2>1. i \in 0 .. n /\ i # 0
    OBVIOUS
  <2>2. f[i] = IF i = 0 THEN acc ELSE JudgeAll(f[i - 1], Rules[i], time)
    BY <2>1 DEF EvaluationsTo
  <2> QED
    BY <2>1, <2>2
<1> QED
  BY <1>2, <1>3

LEMMA EvaluationsAre ==
  ASSUME NEW dets, NEW time
  PROVE  \E f : /\ EvaluationsTo(f, [insides |-> insides, events |-> events, dets |-> dets], time, Len(Rules))
                /\ f[Len(Rules)] = Evaluate(dets, time)
<1>1. PICK n \in Nat : n = Len(Rules)
  BY DwellAssumption, Zenon
<1>2. PICK acc : acc = [insides |-> insides, events |-> events, dets |-> dets]
  OBVIOUS
<1>3. PICK f : EvaluationsTo(f, acc, time, n)
  BY EvaluationsExtend
<1>4. PICK j : j = CHOOSE g : EvaluationsTo(g, acc, time, n)
  OBVIOUS
<1>5. EvaluationsTo(j, acc, time, n)
  BY <1>3, <1>4
<1>6. j[n] = Evaluate(dets, time)
  BY <1>1, <1>2, <1>4 DEF Evaluate, EvaluationsTo
<1> QED
  BY <1>1, <1>2, <1>5, <1>6

\* One track at most follows a class, and ids were given to all of them.
TracksOk(t, n) ==
  /\ n \in Nat /\ DOMAIN t \subseteq 1 .. n
  /\ \A i \in DOMAIN t : t[i] = [class |-> t[i].class, box |-> t[i].box, missed |-> t[i].missed]
  /\ \A i, j \in DOMAIN t : t[i].class = t[j].class => i = j

\* The targets of a frame, each near enough to the track of its class.
InReach(det) == \A j \in DOMAIN tracks : tracks[j].class = det.class => IoU(tracks[j].box, det.box) >= Threshold

\* The track a detection was given.
Followed(acc, det, id) ==
  /\ id \in DOMAIN acc.tracks /\ acc.tracks[id] = Track(det)
  /\ \A j \in DOMAIN tracks : tracks[j].class = det.class => id = j
  /\ id \in DOMAIN tracks => tracks[id].class = det.class
  /\ id \notin DOMAIN tracks => id > ids

\* What holds of the state of assign after each detection.
Growing(acc) ==
  /\ acc.ids \in Nat /\ acc.ids >= ids
  /\ DOMAIN tracks \subseteq DOMAIN acc.tracks /\ DOMAIN acc.tracks \subseteq 1 .. acc.ids
  /\ acc.used \subseteq DOMAIN acc.tracks
  /\ \A j \in DOMAIN acc.tracks \ acc.used : j \in DOMAIN tracks /\ acc.tracks[j] = tracks[j]

LEMMA AssociateFollows ==
  ASSUME TracksOk(tracks, ids), NEW acc, Growing(acc), NEW det, InReach(det),
         \A j \in DOMAIN tracks : tracks[j].class = det.class => j \notin acc.used,
         NEW x, x = Associate(acc, det)
  PROVE  /\ Growing(x) /\ x.used = acc.used \cup {x.given} /\ x.given \notin acc.used
         /\ Followed(x, det, x.given)
         /\ \A j \in DOMAIN acc.tracks : j \in DOMAIN x.tracks /\ (j # x.given => x.tracks[j] = acc.tracks[j])
<1>1. PICK cands : cands = Matching(acc, det)
  OBVIOUS
<1>2. \A j : j \in cands <=> j \in DOMAIN tracks /\ tracks[j].class = det.class
  BY <1>1 DEF Matching, Growing, InReach
<1>3. PICK best : best = CHOOSE j \in cands : \A k \in cands :
                    \/ IoU(acc.tracks[k].box, det.box) < IoU(acc.tracks[j].box, det.box)
                    \/ IoU(acc.tracks[k].box, det.box) = IoU(acc.tracks[j].box, det.box) /\ j <= k
  OBVIOUS
<1>4. PICK id : id = IF cands # {} THEN best ELSE acc.ids + 1
  OBVIOUS
<1>5. x = [tracks |-> [j \in DOMAIN acc.tracks \cup {id} |-> IF j = id THEN Track(det) ELSE acc.tracks[j]],
           ids    |-> IF cands # {} THEN acc.ids ELSE id,
           used   |-> acc.used \cup {id},
           given  |-> id]
  BY <1>1, <1>3, <1>4 DEF Associate
<1>6. /\ x.given = id /\ x.used = acc.used \cup {id} /\ x.ids = IF cands # {} THEN acc.ids ELSE id
      /\ DOMAIN x.tracks = DOMAIN acc.tracks \cup {id}
      /\ \A j \in DOMAIN x.tracks : x.tracks[j] = IF j = id THEN Track(det) ELSE acc.tracks[j]
  BY <1>5
<1>7. ids \in Nat /\ acc.ids \in Nat /\ acc.ids >= ids /\ DOMAIN tracks \subseteq 1 .. ids
  BY DEF TracksOk, Growing
<1>8. CASE cands # {}
  <2>1. PICK j : j \in cands
    BY <1>8
  <2>2. \A k \in cands : k = j
    BY <1>2, <2>1 DEF TracksOk
  <2>3. j \in Nat /\ j <= j
    BY <1>2, <1>7, <2>1
  <2>4. best = j
    BY <1>3, <2>1, <2>2, <2>3
  <2>5. id = j /\ j \in DOMAIN tracks /\ tracks[j].class = det.class /\ j \notin acc.used /\ j \in DOMAIN acc.tracks
    BY <1>2, <1>4, <1>8, <2>1, <2>4 DEF Growing
  <2>6. x.ids = acc.ids /\ DOMAIN x.tracks = DOMAIN acc.tracks
    BY <1>6, <1>8, <2>5
  <2>7. Growing(x)
    BY <1>6, <2>5, <2>6 DEF Growing
  <2>8. Followed(x, det, id)
    BY <1>6, <2>5 DEF Followed, TracksOk
  <2> QED
    BY <1>6, <2>5, <2>7, <2>8
<1>9. CASE cands = {}
  <2>1. id = acc.ids + 1 /\ x.ids = id /\ id \in Nat /\ id > acc.ids /\ id > ids /\ id >= ids
    BY <1>4, <1>6, <1>7, <1>9
  <2>2. id \notin 1 .. acc.ids /\ \A j \in 1 .. acc.ids : j \in 1 .. id
    BY <1>7, <2>1
  <2>3. id \notin DOMAIN acc.tracks /\ id \notin acc.used /\ id \notin DOMAIN tracks
    BY <2>2 DEF Growing
  <2>4. id \in 1 .. id
    BY <1>7, <2>1
  <2>5. DOMAIN x.tracks \subseteq 1 .. x.ids
    BY <1>6, <2>1, <2>2, <2>4 DEF Growing
  <2>6. Growing(x)
    BY <1>6, <2>1, <2>3, <2>5 DEF Growing
  <2>7. Followed(x, det, id)
    BY <1>2, <1>6, <1>9, <2>1, <2>3 DEF Followed
  <2> QED
    BY <1>6, <2>3, <2>6, <2>7
<1> QED
  BY <1>8, <1>9

\* The frame's targets: of each class one, each in the reach of its track.
Targets(dets, n) ==
  /\ n \in Nat /\ Len(dets) = n /\ DOMAIN dets = 1 .. n
  /\ \A d, e \in 1 .. n : dets[d].class = dets[e].class => d = e
  /\ \A d \in 1 .. n : InReach(dets[d])

LEMMA AssociationsFollow ==
  ASSUME TracksOk(tracks, ids), NEW dets, NEW n, Targets(dets, n), NEW a, a = Associations(dets)
  PROVE  \A d \in 0 .. n : /\ Growing(a[d]) /\ a[d].used = {a[e].given : e \in 1 .. d}
                           /\ \A e \in 1 .. d : Followed(a[d], dets[e], a[e].given)
<1> DEFINE Good(d) == /\ Growing(a[d]) /\ a[d].used = {a[e].given : e \in 1 .. d}
                      /\ \A e \in 1 .. d : Followed(a[d], dets[e], a[e].given)
           S == {d \in 0 .. n : Good(d)}
<1>1. n \in Nat /\ Len(dets) = n
  BY DEF Targets
<1>2. a[0] = Untouched /\ \A d \in 1 .. n : a[d] = Associate(a[d - 1], dets[d])
  BY <1>1, AssociationsAre
<1>3. Good(0)
  <2>1. Growing(Untouched) /\ Untouched.used = {}
    BY DEF Untouched, Growing, TracksOk
  <2> QED
    BY <1>2, <2>1
<1>4. ASSUME NEW d \in 1 .. n, Good(d - 1) PROVE Good(d)
  <2>1. PICK acc, x, det : acc = a[d - 1] /\ x = a[d] /\ det = dets[d]
    OBVIOUS
  <2>2. x = Associate(acc, det) /\ InReach(det) /\ Growing(acc)
    BY <1>2, <1>4, <2>1 DEF Targets
  <2>3. \A e : e \in 1 .. d <=> e \in 1 .. d - 1 \/ e = d
    OBVIOUS
  <2>4. \A e \in 1 .. d - 1 : e \in 1 .. n /\ e # d
    BY <1>1
  <2>5. \A e \in 1 .. d - 1 : Followed(acc, dets[e], a[e].given) /\ a[e].given \in acc.used
    BY <1>4, <2>1
  <2>6. ASSUME NEW j \in DOMAIN tracks, tracks[j].class = det.class, j \in acc.used PROVE FALSE
    <3>1. PICK e \in 1 .. d - 1 : j = a[e].given
      BY <1>4, <2>1, <2>6
    <3>2. tracks[j].class = dets[e].class
      BY <2>5, <3>1 DEF Followed
    <3> QED
      BY <2>1, <2>4, <2>6, <3>2 DEF Targets
  <2>7. /\ Growing(x) /\ x.used = acc.used \cup {x.given} /\ x.given \notin acc.used
        /\ Followed(x, det, x.given)
        /\ \A j \in DOMAIN acc.tracks : j \in DOMAIN x.tracks /\ (j # x.given => x.tracks[j] = acc.tracks[j])
    BY <2>2, <2>6, AssociateFollows
  <2>8. x.used = {a[e].given : e \in 1 .. d}
    BY <1>4, <2>1, <2>3, <2>7
  <2>9. \A e \in 1 .. d - 1 : Followed(x, dets[e], a[e].given)
    BY <2>5, <2>7 DEF Followed
  <2> QED
    BY <2>1, <2>3, <2>7, <2>8, <2>9
<1>5. 0 .. n \subseteq S
  <2>1. 0 \in S
    BY <1>1, <1>3
  <2>2. \A d \in 1 .. n : d - 1 \in S => d \in S
    BY <1>1, <1>4
  <2> HIDE DEF S
  <2> QED
    BY <1>1, <2>1, <2>2, Positions0
<1> QED
  BY <1>5

\* A track that was seen, and one that ages.
Kept(t, j) == [t[j] EXCEPT !.missed = @ + 1]

\* What a frame makes of the tracks: given are the ids of its targets.
Assigned(x, dets, n, given) ==
  /\ TracksOk(x.tracks, x.ids) /\ x.ids >= ids
  /\ x.dets = [d \in 1 .. n |-> [class |-> dets[d].class, box |-> dets[d].box, track |-> given[d]]]
  /\ \A d, e \in 1 .. n : given[d] = given[e] => d = e
  /\ \A d \in 1 .. n : Followed(x, dets[d], given[d]) /\ given[d] \in 1 .. x.ids
  /\ \A j \in DOMAIN x.tracks : (\E d \in 1 .. n : j = given[d]) \/ (j \in DOMAIN tracks /\ x.tracks[j] = Kept(tracks, j))
  /\ \A j \in DOMAIN tracks : (\A d \in 1 .. n : j # given[d]) => (j \in DOMAIN x.tracks <=> Survives(Kept(tracks, j)))

LEMMA AssignIs ==
  ASSUME TracksOk(tracks, ids), NEW dets, NEW n, Targets(dets, n), NEW x, x = Assign(dets)
  PROVE  \E given : Assigned(x, dets, n, given)
<1>1. PICK a : a = Associations(dets)
  OBVIOUS
<1>2. n \in Nat /\ Len(dets) = n
  BY DEF Targets
<1>3. PICK acc : acc = a[n]
  OBVIOUS
<1>4. PICK aged : aged = Aged(acc)
  OBVIOUS
<1>5. x = [tracks |-> [j \in {i \in DOMAIN aged : Survives(aged[i])} |-> aged[j]], ids |-> acc.ids,
           dets |-> [d \in 1 .. n |-> [class |-> dets[d].class, box |-> dets[d].box, track |-> a[d].given]]]
  BY <1>1, <1>2, <1>3, <1>4 DEF Assign
<1>6. PICK given : given = [d \in 1 .. n |-> a[d].given]
  OBVIOUS
<1>7. /\ Growing(acc) /\ acc.used = {given[d] : d \in 1 .. n}
      /\ \A d \in 1 .. n : Followed(acc, dets[d], given[d]) /\ given[d] \in acc.used
  <2>1. n \in 0 .. n
    BY <1>2
  <2>2. /\ Growing(acc) /\ acc.used = {a[e].given : e \in 1 .. n}
        /\ \A e \in 1 .. n : Followed(acc, dets[e], a[e].given)
    BY <1>1, <1>3, <2>1, AssociationsFollow
  <2> QED
    BY <1>6, <2>2
<1>8. x.dets = [d \in 1 .. n |-> [class |-> dets[d].class, box |-> dets[d].box, track |-> given[d]]]
  BY <1>5, <1>6
<1>9. /\ DOMAIN aged = DOMAIN acc.tracks
      /\ \A j \in acc.used : j \in DOMAIN acc.tracks => aged[j] = acc.tracks[j]
      /\ \A j \in DOMAIN acc.tracks \ acc.used : j \in DOMAIN tracks /\ aged[j] = Kept(tracks, j)
  BY <1>4, <1>7 DEF Aged, Growing, Kept
<1>10. /\ \A j : j \in DOMAIN x.tracks <=> j \in DOMAIN aged /\ Survives(aged[j])
       /\ \A j \in DOMAIN x.tracks : x.tracks[j] = aged[j]
       /\ x.ids = acc.ids
  BY <1>5
<1>11. \A det : Survives(Track(det)) /\ Track(det).class = det.class
  <2>1. MaxMissing \in Nat
    BY DwellAssumption, Zenon
  <2> QED
    BY <2>1 DEF Survives, Track
<1>12. \A d \in 1 .. n : Followed(x, dets[d], given[d]) /\ given[d] \in 1 .. x.ids
  <2> SUFFICES ASSUME NEW d \in 1 .. n PROVE Followed(x, dets[d], given[d]) /\ given[d] \in 1 .. x.ids
    OBVIOUS
  <2>1. Followed(acc, dets[d], given[d]) /\ given[d] \in acc.used
    BY <1>7
  <2>2. given[d] \in DOMAIN x.tracks /\ x.tracks[given[d]] = Track(dets[d])
    BY <1>9, <1>10, <1>11, <2>1 DEF Followed
  <2> QED
    BY <1>7, <1>10, <2>1, <2>2 DEF Followed, Growing
<1>13. \A d, e \in 1 .. n : given[d] = given[e] => d = e
  <2> SUFFICES ASSUME NEW d \in 1 .. n, NEW e \in 1 .. n, given[d] = given[e] PROVE d = e
    OBVIOUS
  <2>1. Track(dets[d]).class = Track(dets[e]).class
    BY <1>12 DEF Followed
  <2> QED
    BY <1>11, <2>1 DEF Targets
<1>14. \A j \in DOMAIN x.tracks : (\E d \in 1 .. n : j = given[d]) \/ (j \in DOMAIN tracks /\ x.tracks[j] = Kept(tracks, j))
  BY <1>7, <1>9, <1>10
<1>15. ASSUME NEW j \in DOMAIN tracks, \A d \in 1 .. n : j # given[d] PROVE j \in DOMAIN x.tracks <=> Survives(Kept(tracks, j))
  <2>1. j \in DOMAIN acc.tracks \ acc.used
    BY <1>7, <1>15 DEF Growing
  <2> QED
    BY <1>9, <1>10, <2>1
<1>16. TracksOk(x.tracks, x.ids)
  <2>1. x.ids \in Nat /\ DOMAIN x.tracks \subseteq 1 .. x.ids
    BY <1>7, <1>9, <1>10 DEF Growing
  <2>2. ASSUME NEW i \in DOMAIN x.tracks, NEW j \in DOMAIN x.tracks, x.tracks[i].class = x.tracks[j].class PROVE i = j
    <3>1. \A k \in DOMAIN x.tracks :
            \/ \E d \in 1 .. n : k = given[d] /\ x.tracks[k].class = dets[d].class
            \/ k \in DOMAIN tracks /\ x.tracks[k].class = tracks[k].class /\ \A d \in 1 .. n : k # given[d]
      <4> SUFFICES ASSUME NEW k \in DOMAIN x.tracks, \A d \in 1 .. n : k # given[d]
                   PROVE  k \in DOMAIN tracks /\ x.tracks[k].class = tracks[k].class
        BY <1>11, <1>12 DEF Followed
      <4>1. k \in DOMAIN tracks /\ x.tracks[k] = Kept(tracks, k)
        BY <1>14
      <4>2. tracks[k] = [class |-> tracks[k].class, box |-> tracks[k].box, missed |-> tracks[k].missed]
        BY <4>1 DEF TracksOk
      <4> QED
        BY <4>1, <4>2 DEF Kept
    <3>2. \A k \in DOMAIN tracks, d \in 1 .. n : k # given[d] => tracks[k].class # dets[d].class
      BY <1>7 DEF Followed
    <3>3. CASE \E d \in 1 .. n : i = given[d] /\ x.tracks[i].class = dets[d].class
      BY <2>2, <3>1, <3>2, <3>3 DEF Targets
    <3>4. CASE i \in DOMAIN tracks /\ x.tracks[i].class = tracks[i].class /\ \A d \in 1 .. n : i # given[d]
      <4>1. CASE \E d \in 1 .. n : j = given[d] /\ x.tracks[j].class = dets[d].class
        BY <2>2, <3>2, <3>4, <4>1
      <4>2. CASE j \in DOMAIN tracks /\ x.tracks[j].class = tracks[j].class
        <5>1. tracks[i].class = tracks[j].class
          BY <2>2, <3>4, <4>2
        <5> QED
          BY <3>4, <4>2, <5>1 DEF TracksOk
      <4> QED
        BY <3>1, <4>1, <4>2
    <3> QED
      BY <3>1, <3>3, <3>4
  <2>3. ASSUME NEW i \in DOMAIN x.tracks
        PROVE  x.tracks[i] = [class |-> x.tracks[i].class, box |-> x.tracks[i].box, missed |-> x.tracks[i].missed]
    <3>1. CASE \E d \in 1 .. n : i = given[d]
      <4>1. PICK d \in 1 .. n : i = given[d]
        BY <3>1
      <4>2. x.tracks[i] = Track(dets[d])
        BY <1>12, <4>1 DEF Followed
      <4>3. PICK k, b : k = dets[d].class /\ b = dets[d].box
        OBVIOUS
      <4>4. x.tracks[i] = [class |-> k, box |-> b, missed |-> 0]
        BY <4>2, <4>3 DEF Track
      <4> QED
        BY <4>4
    <3>2. CASE i \in DOMAIN tracks /\ x.tracks[i] = Kept(tracks, i)
      <4>1. PICK u : u = tracks[i]
        OBVIOUS
      <4>2. u = [class |-> u.class, box |-> u.box, missed |-> u.missed]
        BY <3>2, <4>1 DEF TracksOk
      <4>3. x.tracks[i] = [u EXCEPT !.missed = @ + 1]
        BY <3>2, <4>1 DEF Kept
      <4> QED
        BY <4>2, <4>3
    <3> QED
      BY <1>14, <3>1, <3>2
  <2> QED
    BY <2>1, <2>2, <2>3 DEF TracksOk
<1>17. x.ids >= ids
  BY <1>7, <1>10 DEF Growing
<1> QED
  BY <1>8, <1>12, <1>13, <1>14, <1>15, <1>16, <1>17 DEF Assigned

LEMMA LenOf ==
  ASSUME NEW n \in Nat, NEW f, f = [i \in 1 .. n |-> f[i]]
  PROVE  Len(f) = n
<1> DEFINE R == {f[i] : i \in 1 .. n}
<1>1. f \in [1 .. n -> R]
  BY DEF R
<1> HIDE DEF R
<1>2. f \in Seq(R)
  BY <1>1, IsASeq
<1>3. Len(f) \in Nat /\ DOMAIN f = 1 .. Len(f)
  BY <1>2, LenProperties
<1>4. 1 .. n = 1 .. Len(f)
  BY <1>1, <1>3
<1>5. \A m, l \in Nat : 1 .. m = 1 .. l => m = l
  <2> SUFFICES ASSUME NEW m \in Nat, NEW l \in Nat, 1 .. m = 1 .. l PROVE m = l
    OBVIOUS
  <2>1. (m \in 1 .. m <=> m \in 1 .. l) /\ (l \in 1 .. m <=> l \in 1 .. l)
    OBVIOUS
  <2> QED
    BY <2>1
<1> QED
  BY <1>3, <1>4, <1>5

\* p and q know the same of the key k.
Same(p, q, k) == (k \in DOMAIN p <=> k \in DOMAIN q) /\ (k \in DOMAIN p => p[k] = q[k])

Spoken(ins, rule, det, time) == IF Fires(ins, rule, det, time) THEN {BuildEvent(rule, det, time)} ELSE {}

\* What a rule makes of a detection depends on the key of the two alone.
LEMMA NextIsLocal ==
  ASSUME NEW p, NEW q, NEW rule, NEW det, NEW time, Same(p, q, Key(rule, det))
  PROVE  /\ Fires(p, rule, det, time) <=> Fires(q, rule, det, time)
         /\ Same(NextInsides(p, rule, det, time), NextInsides(q, rule, det, time), Key(rule, det))
         /\ \A k : k # Key(rule, det) => Same(NextInsides(p, rule, det, time), p, k)
<1>1. PICK k : k = Key(rule, det)
  OBVIOUS
<1>2. (k \in DOMAIN p <=> k \in DOMAIN q) /\ (k \in DOMAIN p => p[k] = q[k])
  BY <1>1 DEF Same
<1>3. Fires(p, rule, det, time) <=> Fires(q, rule, det, time)
  BY <1>1, <1>2 DEF Fires
<1>4. PICK a, b : a = NextInsides(p, rule, det, time) /\ b = NextInsides(q, rule, det, time)
  OBVIOUS
<1>5. CASE ~ZoneContains(rule.zone, det.box)
  <2>1. a = [j \in DOMAIN p \ {k} |-> p[j]] /\ b = [j \in DOMAIN q \ {k} |-> q[j]]
    BY <1>1, <1>4, <1>5 DEF NextInsides
  <2>2. Same(a, b, k) /\ \A j : j # k => Same(a, p, j)
    BY <2>1 DEF Same
  <2> QED
    BY <1>1, <1>3, <1>4, <2>2
<1>6. CASE ZoneContains(rule.zone, det.box)
  <2>1. PICK u : u = IF k \notin DOMAIN p THEN JustEntered(time) ELSE [p[k] EXCEPT !.fired = @ \/ Fires(p, rule, det, time)]
    OBVIOUS
  <2>2. PICK v : v = IF k \notin DOMAIN q THEN JustEntered(time) ELSE [q[k] EXCEPT !.fired = @ \/ Fires(q, rule, det, time)]
    OBVIOUS
  <2>3. a = [j \in DOMAIN p \cup {k} |-> IF j # k THEN p[j] ELSE u]
    BY <1>1, <1>4, <1>6, <2>1 DEF NextInsides
  <2>4. b = [j \in DOMAIN q \cup {k} |-> IF j # k THEN q[j] ELSE v]
    BY <1>1, <1>4, <1>6, <2>2 DEF NextInsides
  <2>5. u = v
    <3>1. CASE k \notin DOMAIN p
      BY <1>2, <2>1, <2>2, <3>1
    <3>2. CASE k \in DOMAIN p
      <4>1. PICK s : s = p[k] /\ s = q[k]
        BY <1>2, <3>2
      <4>2. u = [s EXCEPT !.fired = @ \/ Fires(p, rule, det, time)] /\ v = [s EXCEPT !.fired = @ \/ Fires(q, rule, det, time)]
        BY <1>2, <2>1, <2>2, <3>2, <4>1
      <4>3. PICK y \in BOOLEAN : y <=> Fires(p, rule, det, time)
        OBVIOUS
      <4>4. (s.fired \/ Fires(p, rule, det, time)) = (s.fired \/ Fires(q, rule, det, time))
        BY <1>3, Zenon
      <4> QED
        BY <4>2, <4>4
    <3> QED
      BY <3>1, <3>2
  <2>6. Same(a, b, k) /\ \A j : j # k => Same(a, p, j)
    BY <2>3, <2>4, <2>5 DEF Same
  <2> QED
    BY <1>1, <1>3, <1>4, <2>6
<1> QED
  BY <1>5, <1>6

\* The detections of a frame, each on a track of its own.
Listed(ds, n) == n \in Nat /\ ds = [d \in 1 .. n |-> ds[d]]

\* A rule leaves x of acc by the detection det.
Judged(x, acc, n, rule, det, time) ==
  /\ Listed(x.dets, n)
  /\ \A e \in 1 .. n : x.dets[e] = acc.dets[e] \/ (e = 1 /\ x.dets[e] = det)
  /\ x.insides = NextInsides(acc.insides, rule, det, time)
  /\ x.events = acc.events \cup Spoken(acc.insides, rule, det, time)

LEMMA JudgeIs ==
  ASSUME NEW acc, NEW n, Listed(acc.dets, n), NEW rule, NEW time, NEW d \in 1 .. n
  PROVE  Judged(Judge(acc, rule, d, time), acc, n, rule, acc.dets[d], time)
<1>1. PICK x, det : x = Judge(acc, rule, d, time) /\ det = acc.dets[d]
  OBVIOUS
<1>2. PICK fires \in BOOLEAN : fires <=> Fires(acc.insides, rule, det, time)
  OBVIOUS
<1>3. DOMAIN acc.dets = 1 .. n /\ n \in Nat
  BY DEF Listed
<1>4. x = [insides |-> NextInsides(acc.insides, rule, det, time),
           events  |-> acc.events \cup Spoken(acc.insides, rule, det, time),
           dets    |-> [e \in 1 .. n |-> IF fires /\ e = 1 THEN det ELSE acc.dets[e]]]
  BY <1>1, <1>2, <1>3, Zenon DEF Judge, Spoken
<1>5. x.dets = [e \in 1 .. n |-> IF fires /\ e = 1 THEN det ELSE acc.dets[e]]
  BY <1>4
<1>6. Listed(x.dets, n)
  BY <1>3, <1>5 DEF Listed
<1>7. \A e \in 1 .. n : x.dets[e] = acc.dets[e] \/ (e = 1 /\ x.dets[e] = det)
  BY <1>5
<1>8. x.insides = NextInsides(acc.insides, rule, det, time)
      /\ x.events = acc.events \cup Spoken(acc.insides, rule, det, time)
  BY <1>4
<1> QED
  BY <1>1, <1>6, <1>7, <1>8 DEF Judged

\* Whatever a rule does to the list, it speaks under its own name, and of its tracks.
JudgedAround(x, acc, n, rule) ==
  /\ Listed(x.dets, n) /\ \A e \in 1 .. n : \E i \in 1 .. n : x.dets[e] = acc.dets[i]
  /\ n <= 1 => x.dets = acc.dets
  /\ \A k : (\A i \in 1 .. n : k # Key(rule, acc.dets[i])) => Same(x.insides, acc.insides, k)
  /\ acc.events \subseteq x.events /\ \A v \in x.events \ acc.events : v.rule = rule.id

LEMMA JudgeAllTouches ==
  ASSUME NEW acc, NEW n, Listed(acc.dets, n), NEW rule, NEW time
  PROVE  JudgedAround(JudgeAll(acc, rule, time), acc, n, rule)
<1>1. PICK x : x = JudgeAll(acc, rule, time)
  OBVIOUS
<1>2. n \in Nat /\ Len(acc.dets) = n
  BY LenOf DEF Listed
<1>3. PICK f : JudgementsTo(f, acc, rule, time, n) /\ f[n] = JudgeAll(acc, rule, time)
  <2>1. PICK j : j = JudgementsOf(acc, rule, time, n)
    OBVIOUS
  <2>2. JudgementsTo(j, acc, rule, time, n) /\ j[n] = JudgeAll(acc, rule, time)
    BY <1>2, <2>1, JudgementsAre
  <2> QED
    BY <2>2
<1>4. f[0] = acc /\ (\A d \in 1 .. n : f[d] = Judge(f[d - 1], rule, d, time)) /\ f[n] = x
  <2>1. f[0] = acc /\ \A d \in 1 .. n : f[d] = Judge(f[d - 1], rule, d, time)
    BY <1>2, <1>3, JudgementsUnfold
  <2> QED
    BY <1>1, <1>3, <2>1
<1> DEFINE Good(y) ==
             /\ Listed(y.dets, n) /\ \A e \in 1 .. n : \E i \in 1 .. n : y.dets[e] = acc.dets[i]
             /\ n <= 1 => \A e \in 1 .. n : y.dets[e] = acc.dets[e]
             /\ \A k : (\A i \in 1 .. n : k # Key(rule, acc.dets[i])) => Same(y.insides, acc.insides, k)
             /\ acc.events \subseteq y.events /\ \A v \in y.events \ acc.events : v.rule = rule.id
           S == {d \in 0 .. n : Good(f[d])}
<1>5. Good(f[0])
  BY <1>4 DEF Same
<1>6. ASSUME NEW d \in 1 .. n, Good(f[d - 1]) PROVE Good(f[d])
  <2>1. PICK y, z, det : y = f[d - 1] /\ z = f[d] /\ det = y.dets[d]
    OBVIOUS
  <2>2. /\ Listed(z.dets, n)
        /\ \A e \in 1 .. n : z.dets[e] = y.dets[e] \/ (e = 1 /\ z.dets[e] = det)
        /\ z.insides = NextInsides(y.insides, rule, det, time)
        /\ z.events = y.events \cup Spoken(y.insides, rule, det, time)
    <3>1. Listed(y.dets, n)
      BY <1>6, <2>1
    <3>2. z = Judge(y, rule, d, time)
      BY <1>4, <2>1
    <3>3. Judged(z, y, n, rule, det, time)
      BY <2>1, <3>1, <3>2, JudgeIs
    <3> QED
      BY <3>3 DEF Judged
  <2>3. PICK i \in 1 .. n : det = acc.dets[i]
    BY <1>6, <2>1
  <2>4. \A e \in 1 .. n : \E j \in 1 .. n : z.dets[e] = acc.dets[j]
    BY <1>6, <2>1, <2>2, <2>3
  <2>5. ASSUME n <= 1 PROVE \A e \in 1 .. n : z.dets[e] = acc.dets[e]
    <3>1. \A e \in 1 .. n : e = d
      BY <1>2, <2>5
    <3> QED
      BY <1>6, <2>1, <2>2, <2>5, <3>1
  <2>6. Same(y.insides, y.insides, Key(rule, det))
    BY DEF Same
  <2>7. \A k : k # Key(rule, det) => Same(z.insides, y.insides, k)
    BY <2>2, <2>6, NextIsLocal
  <2>8. ASSUME NEW k, \A j \in 1 .. n : k # Key(rule, acc.dets[j]) PROVE Same(z.insides, acc.insides, k)
    <3>1. Same(z.insides, y.insides, k) /\ Same(y.insides, acc.insides, k)
      BY <1>6, <2>1, <2>3, <2>7, <2>8
    <3> QED
      BY <3>1 DEF Same
  <2>9. \A v \in Spoken(y.insides, rule, det, time) : v.rule = rule.id
    BY DEF Spoken, BuildEvent
  <2>10. acc.events \subseteq z.events /\ \A v \in z.events \ acc.events : v.rule = rule.id
    BY <1>6, <2>1, <2>2, <2>9
  <2> QED
    BY <2>1, <2>2, <2>4, <2>5, <2>8, <2>10
<1>7. Good(f[n])
  <2>1. 0 \in S
    BY <1>2, <1>5
  <2>2. ASSUME NEW d \in 1 .. n, d - 1 \in S PROVE d \in S
    <3>1. d \in 0 .. n
      BY <1>2
    <3> QED
      BY <1>6, <2>2, <3>1
  <2> HIDE DEF S
  <2>3. 0 .. n \subseteq S
    BY <1>2, <2>1, <2>2, Positions0
  <2>4. n \in S
    BY <1>2, <2>3
  <2> USE DEF S
  <2> QED
    BY <2>4
<1>8. n <= 1 => x.dets = acc.dets
  BY <1>4, <1>7 DEF Listed
<1> QED
  BY <1>4, <1>7, <1>8, <1>1 DEF JudgedAround

\* What the rule does to the list's detections, each on a track of its own.
JudgedEach(x, acc, n, rule, time) ==
  /\ \A d \in 1 .. n : Same(x.insides, NextInsides(acc.insides, rule, acc.dets[d], time), Key(rule, acc.dets[d]))
  /\ x.events = acc.events \cup UNION {Spoken(acc.insides, rule, acc.dets[d], time) : d \in 1 .. n}

LEMMA JudgeAllIs ==
  ASSUME NEW acc, NEW n, Listed(acc.dets, n), NEW rule, NEW time,
         \A d, e \in 1 .. n : Key(rule, acc.dets[d]) = Key(rule, acc.dets[e]) => d = e
  PROVE  JudgedEach(JudgeAll(acc, rule, time), acc, n, rule, time)
<1>1. n \in Nat /\ Len(acc.dets) = n
  BY LenOf DEF Listed
<1>2. PICK f : JudgementsTo(f, acc, rule, time, n) /\ f[n] = JudgeAll(acc, rule, time)
  <2>1. PICK j : j = JudgementsOf(acc, rule, time, n)
    OBVIOUS
  <2>2. JudgementsTo(j, acc, rule, time, n) /\ j[n] = JudgeAll(acc, rule, time)
    BY <1>1, <2>1, JudgementsAre
  <2> QED
    BY <2>2
<1>3. f[0] = acc /\ \A d \in 1 .. n : f[d] = Judge(f[d - 1], rule, d, time)
  BY <1>1, <1>2, JudgementsUnfold
<1> DEFINE ds == acc.dets
           key(e) == Key(rule, ds[e])
           Good(d) ==
             /\ Listed(f[d].dets, n)
             /\ \A e \in 1 .. n : e > 1 \/ d = 0 => f[d].dets[e] = ds[e]
             /\ \A e \in 1 .. d : Same(f[d].insides, NextInsides(acc.insides, rule, ds[e], time), key(e))
             /\ \A k : (\A e \in 1 .. d : k # key(e)) => Same(f[d].insides, acc.insides, k)
             /\ f[d].events = acc.events \cup UNION {Spoken(acc.insides, rule, ds[e], time) : e \in 1 .. d}
           S == {d \in 0 .. n : Good(d)}
<1>4. Good(0)
  <2>1. \A e : e \notin 1 .. 0
    OBVIOUS
  <2> QED
    BY <1>3, <2>1 DEF Same
<1>5. ASSUME NEW d \in 1 .. n, Good(d - 1) PROVE Good(d)
  <2>1. PICK y, z : y = f[d - 1] /\ z = f[d]
    OBVIOUS
  <2>2. d \in Nat /\ d - 1 \in Nat /\ (d > 1 \/ d - 1 = 0) /\ d # 0
    BY <1>1
  <2>3. y.dets[d] = ds[d] /\ Listed(y.dets, n)
    BY <1>5, <2>1, <2>2
  <2>4. z = Judge(y, rule, d, time)
    BY <1>3, <2>1
  <2>5. Judged(z, y, n, rule, ds[d], time)
    BY <2>3, <2>4, JudgeIs
  <2>6. \A e : e \in 1 .. d <=> e \in 1 .. d - 1 \/ e = d
    BY <1>1
  <2>7. \A e \in 1 .. d - 1 : e \in 1 .. n /\ e # d
    BY <1>1
  <2>8. \A e \in 1 .. d - 1 : key(e) # key(d)
    BY <2>7
  <2>9. Same(y.insides, acc.insides, key(d))
    BY <1>5, <2>1, <2>8
  <2> HIDE DEF key
  <2>10. PICK det, k : det = ds[d] /\ k = Key(rule, det) /\ k = key(d)
    BY DEF key
  <2>11. /\ Same(z.insides, NextInsides(acc.insides, rule, det, time), k)
         /\ Spoken(y.insides, rule, det, time) = Spoken(acc.insides, rule, det, time)
         /\ \A j : j # k => Same(z.insides, y.insides, j)
    <3>1. PICK p, q : p = y.insides /\ q = acc.insides
      OBVIOUS
    <3>2. z.insides = NextInsides(p, rule, det, time)
      BY <2>5, <2>10, <3>1 DEF Judged
    <3>3. Same(p, q, Key(rule, det))
      BY <2>9, <2>10, <3>1
    <3>4. /\ Fires(p, rule, det, time) <=> Fires(q, rule, det, time)
          /\ Same(NextInsides(p, rule, det, time), NextInsides(q, rule, det, time), Key(rule, det))
          /\ \A j : j # Key(rule, det) => Same(NextInsides(p, rule, det, time), p, j)
      BY <3>3, NextIsLocal
    <3>5. Spoken(p, rule, det, time) = Spoken(q, rule, det, time)
      BY <3>4 DEF Spoken
    <3> QED
      BY <2>10, <3>1, <3>2, <3>4, <3>5
  <2>12. \A e \in 1 .. n : e > 1 => z.dets[e] = ds[e]
    <3> SUFFICES ASSUME NEW e \in 1 .. n, e > 1 PROVE z.dets[e] = ds[e]
      OBVIOUS
    <3>1. e # 1
      OBVIOUS
    <3>2. z.dets[e] = y.dets[e]
      BY <2>5, <3>1 DEF Judged
    <3>3. y.dets[e] = ds[e]
      BY <1>5, <2>1
    <3> QED
      BY <3>2, <3>3
  <2>13. \A e \in 1 .. d - 1 : Same(z.insides, NextInsides(acc.insides, rule, ds[e], time), key(e))
    <3> SUFFICES ASSUME NEW e \in 1 .. d - 1 PROVE Same(z.insides, NextInsides(acc.insides, rule, ds[e], time), key(e))
      OBVIOUS
    <3>1. Same(y.insides, NextInsides(acc.insides, rule, ds[e], time), key(e))
      BY <1>5, <2>1
    <3>2. Same(z.insides, y.insides, key(e))
      BY <2>8, <2>10, <2>11
    <3> QED
      BY <3>1, <3>2 DEF Same
  <2>14. Same(z.insides, NextInsides(acc.insides, rule, ds[d], time), key(d))
    BY <2>10, <2>11
  <2>15. ASSUME NEW j, \A e \in 1 .. d : j # key(e) PROVE Same(z.insides, acc.insides, j)
    <3>1. j # k /\ \A e \in 1 .. d - 1 : j # key(e)
      BY <2>6, <2>10, <2>15
    <3>2. Same(z.insides, y.insides, j) /\ Same(y.insides, acc.insides, j)
      BY <1>5, <2>1, <2>11, <3>1
    <3> QED
      BY <3>2 DEF Same
  <2>16. z.events = acc.events \cup UNION {Spoken(acc.insides, rule, ds[e], time) : e \in 1 .. d}
    <3>1. z.events = y.events \cup Spoken(acc.insides, rule, ds[d], time)
      BY <2>5, <2>10, <2>11 DEF Judged
    <3>2. y.events = acc.events \cup UNION {Spoken(acc.insides, rule, ds[e], time) : e \in 1 .. d - 1}
      BY <1>5, <2>1
    <3>3. UNION {Spoken(acc.insides, rule, ds[e], time) : e \in 1 .. d}
            = (UNION {Spoken(acc.insides, rule, ds[e], time) : e \in 1 .. d - 1}) \cup Spoken(acc.insides, rule, ds[d], time)
      BY <2>6
    <3> QED
      BY <3>1, <3>2, <3>3
  <2>17. Listed(z.dets, n)
    BY <2>5 DEF Judged
  <2> QED
    BY <2>1, <2>2, <2>6, <2>12, <2>13, <2>14, <2>15, <2>16, <2>17
<1>6. Good(n)
  <2>1. 0 \in S
    BY <1>1, <1>4
  <2>2. ASSUME NEW d \in 1 .. n, d - 1 \in S PROVE d \in S
    <3>1. d \in 0 .. n
      BY <1>1
    <3> QED
      BY <1>5, <2>2, <3>1
  <2> HIDE DEF S
  <2>3. 0 .. n \subseteq S
    BY <1>1, <2>1, <2>2, Positions0
  <2>4. n \in S
    BY <1>1, <2>3
  <2> USE DEF S
  <2> QED
    BY <2>4
<1>7. PICK x : x = JudgeAll(acc, rule, time) /\ x = f[n]
  BY <1>2
<1> QED
  BY <1>6, <1>7 DEF JudgedEach

\* The events of rule r.
OfRule(r, E) == {v \in E : v.rule = Rules[r].id}

\* What a frame leaves of rule r.
Evaluated(x, r, ds, n, time) ==
  /\ \A d \in 1 .. n : Same(x.insides, NextInsides(insides, Rules[r], ds[d], time), Key(Rules[r], ds[d]))
  /\ OfRule(r, x.events) = OfRule(r, events) \cup UNION {Spoken(insides, Rules[r], ds[d], time) : d \in 1 .. n}

\* Other tracks are left alone.
EvaluatedApart(x, ds, n) ==
  \A k : (\A d \in 1 .. n : k[1] # ds[d].track) => Same(x.insides, insides, k)

LEMMA EvaluateIs ==
  ASSUME NEW ds, NEW n, Listed(ds, n), NEW time, NEW x, x = Evaluate(ds, time),
         \A d, e \in 1 .. n : ds[d].track = ds[e].track => d = e
  PROVE  /\ EvaluatedApart(x, ds, n)
         /\ \A r \in DOMAIN Rules :
              (r = 1 \/ n <= 1) /\ (\A q \in DOMAIN Rules \ {r} : Rules[q].id # Rules[r].id) => Evaluated(x, r, ds, n, time)
<1>1. n \in Nat
  BY DEF Listed
<1>2. PICK l \in Nat : l = Len(Rules) /\ DOMAIN Rules = 1 .. l
  BY DwellAssumption, Zenon
<1>3. PICK acc : acc = [insides |-> insides, events |-> events, dets |-> ds]
  OBVIOUS
<1>4. PICK f : EvaluationsTo(f, acc, time, l) /\ f[l] = x
  BY <1>2, <1>3, EvaluationsAre
<1>5. f[0] = acc /\ \A q \in 1 .. l : f[q] = JudgeAll(f[q - 1], Rules[q], time)
  BY <1>4, EvaluationsUnfold
<1>6. acc.insides = insides /\ acc.events = events /\ acc.dets = ds
  BY <1>3
<1> DEFINE Own(r) == (r = 1 \/ n <= 1) /\ \A q \in DOMAIN Rules \ {r} : Rules[q].id # Rules[r].id
           Good(q) ==
             /\ Listed(f[q].dets, n) /\ \A e \in 1 .. n : \E i \in 1 .. n : f[q].dets[e] = ds[i]
             /\ n <= 1 \/ q = 0 => f[q].dets = ds
             /\ EvaluatedApart(f[q], ds, n)
             /\ \A r \in 1 .. l : Own(r) /\ q < r =>
                   /\ \A d \in 1 .. n : Same(f[q].insides, insides, Key(Rules[r], ds[d]))
                   /\ OfRule(r, f[q].events) = OfRule(r, events)
             /\ \A r \in 1 .. l : Own(r) /\ r <= q => Evaluated(f[q], r, ds, n, time)
           S == {q \in 0 .. l : Good(q)}
<1>7. Good(0)
  <2>1. \A r \in 1 .. l : ~(r <= 0)
    OBVIOUS
  <2> QED
    BY <1>5, <1>6, <2>1 DEF Same, EvaluatedApart
<1>8. ASSUME NEW q \in 1 .. l, Good(q - 1) PROVE Good(q)
  <2>1. PICK y, z : y = f[q - 1] /\ z = f[q]
    OBVIOUS
  <2>2. PICK rule : rule = Rules[q]
    OBVIOUS
  <2>3. z = JudgeAll(y, rule, time) /\ Listed(y.dets, n) /\ \A e \in 1 .. n : \E i \in 1 .. n : y.dets[e] = ds[i]
    BY <1>5, <1>8, <2>1, <2>2
  <2>4. /\ Listed(z.dets, n) /\ \A e \in 1 .. n : \E i \in 1 .. n : z.dets[e] = y.dets[i]
        /\ n <= 1 => z.dets = y.dets
        /\ \A k : (\A i \in 1 .. n : k # Key(rule, y.dets[i])) => Same(z.insides, y.insides, k)
        /\ y.events \subseteq z.events /\ \A v \in z.events \ y.events : v.rule = rule.id
    <3>1. JudgedAround(z, y, n, rule)
      BY <2>3, JudgeAllTouches
    <3> QED
      BY <3>1 DEF JudgedAround
  <2>5. \A e \in 1 .. n : \E i \in 1 .. n : z.dets[e] = ds[i]
    BY <2>3, <2>4
  <2>6. q # 0 /\ (n <= 1 => z.dets = ds)
    BY <1>8, <2>1, <2>4
  <2>7. EvaluatedApart(z, ds, n)
    <3> SUFFICES ASSUME NEW k, \A d \in 1 .. n : k[1] # ds[d].track PROVE Same(z.insides, insides, k)
      BY DEF EvaluatedApart
    <3>1. \A i \in 1 .. n : k # Key(rule, y.dets[i])
      BY <2>3 DEF Key
    <3>2. Same(z.insides, y.insides, k)
      BY <2>4, <3>1
    <3>3. Same(y.insides, insides, k)
      BY <1>8, <2>1 DEF EvaluatedApart
    <3> QED
      BY <3>2, <3>3 DEF Same
  <2>8. ASSUME NEW r \in 1 .. l, Own(r), r # q
        PROVE  /\ \A d \in 1 .. n : Same(z.insides, y.insides, Key(Rules[r], ds[d]))
               /\ OfRule(r, z.events) = OfRule(r, y.events)
    <3>1. rule.id # Rules[r].id
      BY <1>2, <2>2, <2>8
    <3>2. \A d, i \in 1 .. n : Key(Rules[r], ds[d]) # Key(rule, y.dets[i])
      BY <3>1 DEF Key
    <3>3. \A v \in z.events : v.rule = Rules[r].id => v \in y.events
      BY <2>4, <3>1
    <3>4. OfRule(r, z.events) = OfRule(r, y.events)
      BY <2>4, <3>3 DEF OfRule
    <3> QED
      BY <2>4, <3>2, <3>4
  <2>9. ASSUME NEW r \in 1 .. l, Own(r), q < r
        PROVE  /\ \A d \in 1 .. n : Same(z.insides, insides, Key(Rules[r], ds[d]))
               /\ OfRule(r, z.events) = OfRule(r, events)
    <3>1. r # q /\ q - 1 < r
      BY <2>9
    <3>2. /\ \A d \in 1 .. n : Same(y.insides, insides, Key(Rules[r], ds[d]))
          /\ OfRule(r, y.events) = OfRule(r, events)
      BY <1>8, <2>1, <2>9, <3>1
    <3>3. /\ \A d \in 1 .. n : Same(z.insides, y.insides, Key(Rules[r], ds[d]))
          /\ OfRule(r, z.events) = OfRule(r, y.events)
      BY <2>8, <2>9, <3>1
    <3> QED
      BY <3>2, <3>3 DEF Same
  <2>10. ASSUME NEW r \in 1 .. l, Own(r), r <= q PROVE Evaluated(z, r, ds, n, time)
    <3>1. CASE r = q
      <4>1. q - 1 < r /\ (n <= 1 \/ q - 1 = 0)
        BY <2>10, <3>1
      <4>2. y.dets = ds
        BY <1>8, <2>1, <4>1
      <4>3. /\ \A d \in 1 .. n : Same(y.insides, insides, Key(rule, ds[d]))
            /\ OfRule(r, y.events) = OfRule(r, events)
        BY <1>8, <2>1, <2>2, <2>10, <3>1, <4>1
      <4>4. \A d, e \in 1 .. n : Key(rule, ds[d]) = Key(rule, ds[e]) => d = e
        BY DEF Key
      <4>5. JudgedEach(z, y, n, rule, time)
        BY <2>3, <4>2, <4>4, JudgeAllIs
      <4>6. \A d \in 1 .. n : Same(z.insides, NextInsides(y.insides, rule, ds[d], time), Key(rule, ds[d]))
        BY <4>2, <4>5 DEF JudgedEach
      <4>7. z.events = y.events \cup UNION {Spoken(y.insides, rule, ds[d], time) : d \in 1 .. n}
        BY <4>2, <4>5 DEF JudgedEach
      <4>8. ASSUME NEW d \in 1 .. n
            PROVE  /\ Same(NextInsides(y.insides, rule, ds[d], time), NextInsides(insides, rule, ds[d], time), Key(rule, ds[d]))
                   /\ Spoken(y.insides, rule, ds[d], time) = Spoken(insides, rule, ds[d], time)
        <5>1. PICK p, i, det : p = y.insides /\ i = insides /\ det = ds[d]
          OBVIOUS
        <5>2. Same(p, i, Key(rule, det))
          BY <4>3, <5>1
        <5>3. /\ Fires(p, rule, det, time) <=> Fires(i, rule, det, time)
              /\ Same(NextInsides(p, rule, det, time), NextInsides(i, rule, det, time), Key(rule, det))
          BY <5>2, NextIsLocal
        <5>4. Spoken(p, rule, det, time) = Spoken(i, rule, det, time)
          BY <5>3 DEF Spoken
        <5> QED
          BY <5>1, <5>3, <5>4
      <4>9. \A d \in 1 .. n : Same(z.insides, NextInsides(insides, rule, ds[d], time), Key(rule, ds[d]))
        BY <4>6, <4>8 DEF Same
      <4>10. z.events = y.events \cup UNION {Spoken(insides, rule, ds[d], time) : d \in 1 .. n}
        BY <4>7, <4>8
      <4>11. \A d \in 1 .. n : \A v \in Spoken(insides, rule, ds[d], time) : v.rule = Rules[r].id
        BY <2>2, <3>1 DEF Spoken, BuildEvent
      <4>12. OfRule(r, z.events) = OfRule(r, events) \cup UNION {Spoken(insides, rule, ds[d], time) : d \in 1 .. n}
        BY <4>3, <4>10, <4>11 DEF OfRule
      <4> QED
        BY <2>2, <3>1, <4>9, <4>12 DEF Evaluated
    <3>2. CASE r # q
      <4>1. r <= q - 1
        BY <2>10, <3>2
      <4>2. Evaluated(y, r, ds, n, time)
        BY <1>8, <2>1, <2>10, <4>1
      <4>3. /\ \A d \in 1 .. n : Same(z.insides, y.insides, Key(Rules[r], ds[d]))
            /\ OfRule(r, z.events) = OfRule(r, y.events)
        BY <2>8, <2>10, <3>2
      <4> QED
        BY <4>2, <4>3 DEF Evaluated, Same
    <3> QED
      BY <3>1, <3>2
  <2> QED
    BY <2>1, <2>4, <2>5, <2>6, <2>7, <2>9, <2>10
<1>9. Good(l)
  <2>1. 0 \in S
    <3> HIDE DEF Good
    <3>1. 0 \in 0 .. l
      OBVIOUS
    <3> QED
      BY <1>7, <3>1
  <2>2. ASSUME NEW q \in 1 .. l, q - 1 \in S PROVE q \in S
    <3>1. q \in 0 .. l
      OBVIOUS
    <3> QED
      BY <1>8, <2>2, <3>1
  <2> HIDE DEF S
  <2>3. 0 .. l \subseteq S
    BY <2>1, <2>2, Positions0
  <2>4. l \in S
    BY <2>3
  <2> USE DEF S
  <2> QED
    BY <2>4
<1>10. \A r \in 1 .. l : r <= l
  OBVIOUS
<1> QED
  BY <1>2, <1>4, <1>9, <1>10

\* The frame e shows the targets dets.
Shown(e, dets, n) ==
  /\ \A c : c \in DOMAIN e.at <=> \E d \in 1 .. n : dets[d].class = c
  /\ \A d \in 1 .. n : e.at[dets[d].class] = dets[d].box

\* The tracks are of the targets the last frames showed, each where it was shown last.
At(t, h, n, j, m) ==
  /\ LatestIs(h, t[j].class, m)
  /\ t[j].box = h[m].at[t[j].class] /\ t[j].missed = n - m /\ n - m <= MaxMissing

Following(t, h, n) ==
  /\ \A c : Seen(h, c) # {} => \E m : LatestIs(h, c, m)
  /\ \A j \in DOMAIN t : \E m : At(t, h, n, j, m)
  /\ \A c, m : LatestIs(h, c, m) /\ n - m <= MaxMissing => \E j \in DOMAIN t : t[j].class = c

\* One frame: h with e behind its n frames is g, its targets are dets, and Assign makes x of them.
Taken(x, dets, l, given, g, h, e, n) ==
  /\ TracksOk(tracks, ids) /\ Following(tracks, h, n)
  /\ Targets(dets, l) /\ Assigned(x, dets, l, given)
  /\ Extends(g, h, e, n) /\ Shown(e, dets, l)

\* A track that was given to no target.
LEMMA KeptIs ==
  ASSUME NEW x, NEW dets, NEW l, NEW given, NEW g, NEW h, NEW e, NEW n, Taken(x, dets, l, given, g, h, e, n),
         NEW j \in DOMAIN tracks, \A d \in 1 .. l : j # given[d]
  PROVE  /\ tracks[j].class \notin DOMAIN e.at
         /\ Kept(tracks, j).class = tracks[j].class /\ Kept(tracks, j).box = tracks[j].box
         /\ Kept(tracks, j).missed = tracks[j].missed + 1
         /\ j \in DOMAIN x.tracks <=> tracks[j].missed + 1 <= MaxMissing
<1>1. PICK u : u = tracks[j]
  OBVIOUS
<1>2. u = [class |-> u.class, box |-> u.box, missed |-> u.missed]
  BY <1>1 DEF Taken, TracksOk
<1>3. PICK v : v = [u EXCEPT !.missed = @ + 1]
  OBVIOUS
<1>4. v.class = u.class /\ v.box = u.box /\ v.missed = u.missed + 1
  BY <1>2, <1>3
<1>5. v = Kept(tracks, j)
  BY <1>1, <1>3 DEF Kept
<1>6. j \in DOMAIN x.tracks <=> Survives(v)
  BY <1>5 DEF Taken, Assigned
<1>7. j \in DOMAIN x.tracks <=> v.missed <= MaxMissing
  BY <1>6 DEF Survives
<1>8. u.class \notin DOMAIN e.at
  <2> SUFFICES ASSUME u.class \in DOMAIN e.at PROVE FALSE
    OBVIOUS
  <2>1. PICK d \in 1 .. l : dets[d].class = u.class
    BY DEF Taken, Shown
  <2>2. given[d] = j
    BY <1>1, <2>1 DEF Taken, Assigned, Followed
  <2> QED
    BY <2>2
<1> QED
  BY <1>1, <1>4, <1>5, <1>7, <1>8

\* A target is shown where the track it was given has its box.
LEMMA GivenIs ==
  ASSUME NEW x, NEW dets, NEW l, NEW given, NEW g, NEW h, NEW e, NEW n, Taken(x, dets, l, given, g, h, e, n),
         NEW d \in 1 .. l
  PROVE  /\ given[d] \in DOMAIN x.tracks /\ x.tracks[given[d]].class = dets[d].class
         /\ x.tracks[given[d]].box = dets[d].box /\ x.tracks[given[d]].missed = 0
         /\ dets[d].class \in DOMAIN e.at /\ e.at[dets[d].class] = dets[d].box
         /\ LatestIs(g, dets[d].class, n + 1) /\ g[n + 1] = e
<1>1. Followed(x, dets[d], given[d])
  BY DEF Taken, Assigned
<1>2. given[d] \in DOMAIN x.tracks /\ x.tracks[given[d]] = Track(dets[d])
  BY <1>1 DEF Followed
<1>3. dets[d].class \in DOMAIN e.at /\ e.at[dets[d].class] = dets[d].box
  BY DEF Taken, Shown
<1>4. Extends(g, h, e, n)
  BY DEF Taken
<1>5. LatestIs(g, dets[d].class, n + 1) /\ g[n + 1] = e
  BY <1>3, <1>4, LatestNow DEF Extends
<1> QED
  BY <1>2, <1>3, <1>5 DEF Track

LEMMA FollowingGoesOn ==
  ASSUME NEW x, NEW dets, NEW l, NEW given, NEW g, NEW h, NEW e, NEW n, Taken(x, dets, l, given, g, h, e, n)
  PROVE  Following(x.tracks, g, n + 1)
<1>1. Extends(g, h, e, n) /\ n \in Nat /\ MaxMissing \in Nat \ {0}
  <2>1. MaxMissing \in Nat \ {0}
    BY DwellAssumption, Zenon
  <2> QED
    BY <2>1 DEF Taken, Extends
<1>2. \A c : c \in DOMAIN e.at => LatestIs(g, c, n + 1)
  BY <1>1, LatestNow
<1>3. \A c : c \notin DOMAIN e.at => Seen(g, c) = Seen(h, c) /\ \A m : LatestIs(g, c, m) <=> LatestIs(h, c, m)
  BY <1>1, LatestNow
<1>4. \A c, m : LatestIs(h, c, m) => m \in 1 .. n /\ g[m] = h[m]
  BY <1>1, LatestOf DEF Extends
<1>5. ASSUME NEW c, Seen(g, c) # {} PROVE \E m : LatestIs(g, c, m)
  <2>1. CASE c \in DOMAIN e.at
    BY <1>2, <2>1
  <2>2. CASE c \notin DOMAIN e.at
    <3>1. PICK m : LatestIs(h, c, m)
      BY <1>3, <1>5, <2>2 DEF Taken, Following
    <3> QED
      BY <1>3, <2>2, <3>1
  <2> QED
    BY <2>1, <2>2
<1>6. ASSUME NEW j \in DOMAIN x.tracks PROVE \E m : At(x.tracks, g, n + 1, j, m)
  <2>1. CASE \E d \in 1 .. l : j = given[d]
    <3>1. PICK d \in 1 .. l : j = given[d]
      BY <2>1
    <3>2. PICK c, b : c = dets[d].class /\ b = dets[d].box
      OBVIOUS
    <3>3. x.tracks[j].class = c /\ x.tracks[j].box = b /\ x.tracks[j].missed = 0
          /\ LatestIs(g, c, n + 1) /\ g[n + 1].at[c] = b
      BY <3>1, <3>2, GivenIs
    <3>4. 0 = (n + 1) - (n + 1) /\ (n + 1) - (n + 1) <= MaxMissing
      BY <1>1
    <3>5. At(x.tracks, g, n + 1, j, n + 1)
      BY <3>3, <3>4 DEF At
    <3> QED
      BY <3>5
  <2>2. CASE ~\E d \in 1 .. l : j = given[d]
    <3>1. j \in DOMAIN tracks /\ x.tracks[j] = Kept(tracks, j)
      BY <2>2 DEF Taken, Assigned
    <3>2. PICK c, b, a : c = tracks[j].class /\ b = tracks[j].box /\ a = tracks[j].missed
      OBVIOUS
    <3>3. c \notin DOMAIN e.at /\ x.tracks[j].class = c /\ x.tracks[j].box = b /\ x.tracks[j].missed = a + 1 /\ a + 1 <= MaxMissing
      BY <2>2, <3>1, <3>2, KeptIs
    <3>4. PICK m : At(tracks, h, n, j, m)
      BY <3>1 DEF Taken, Following
    <3>5. LatestIs(h, c, m) /\ b = h[m].at[c] /\ a = n - m
      BY <3>2, <3>4 DEF At
    <3>6. LatestIs(g, c, m) /\ g[m] = h[m] /\ m \in 1 .. n
      BY <1>3, <1>4, <3>3, <3>5
    <3>7. a + 1 = (n + 1) - m /\ (n + 1) - m <= MaxMissing
      BY <1>1, <3>3, <3>5, <3>6
    <3>8. At(x.tracks, g, n + 1, j, m)
      BY <3>3, <3>5, <3>6, <3>7 DEF At
    <3> QED
      BY <3>8
  <2> QED
    BY <2>1, <2>2
<1>7. ASSUME NEW c, NEW m, LatestIs(g, c, m), (n + 1) - m <= MaxMissing PROVE \E j \in DOMAIN x.tracks : x.tracks[j].class = c
  <2>1. CASE c \in DOMAIN e.at
    <3>1. PICK d \in 1 .. l : dets[d].class = c
      BY <2>1 DEF Taken, Shown
    <3> QED
      BY <3>1, GivenIs
  <2>2. CASE c \notin DOMAIN e.at
    <3>1. LatestIs(h, c, m)
      BY <1>3, <1>7, <2>2
    <3>2. m \in 1 .. n
      BY <1>4, <3>1
    <3>3. n - m <= MaxMissing
      BY <1>1, <1>7, <3>2
    <3>4. PICK j \in DOMAIN tracks : tracks[j].class = c
      BY <3>1, <3>3 DEF Taken, Following
    <3>5. \A d \in 1 .. l : j # given[d]
      <4> SUFFICES ASSUME NEW d \in 1 .. l, j = given[d] PROVE FALSE
        OBVIOUS
      <4>1. dets[d].class = c
        BY <3>4 DEF Taken, Assigned, Followed
      <4> QED
        BY <2>2, <4>1 DEF Taken, Shown
    <3>6. PICK k : At(tracks, h, n, j, k)
      BY DEF Taken, Following
    <3>7. LatestIs(h, c, k) /\ tracks[j].missed = n - k
      BY <3>4, <3>6 DEF At
    <3>8. k = m
      BY <1>1, <3>1, <3>7, LatestOf DEF Extends
    <3>9. tracks[j].missed + 1 <= MaxMissing
      BY <1>1, <1>7, <3>2, <3>7, <3>8
    <3>10. j \in DOMAIN x.tracks /\ Kept(tracks, j).class = c
      BY <3>4, <3>5, <3>9, KeptIs
    <3>11. x.tracks[j] = Kept(tracks, j)
      BY <3>5, <3>10 DEF Taken, Assigned
    <3> QED
      BY <3>10, <3>11
  <2> QED
    BY <2>1, <2>2
<1> QED
  BY <1>5, <1>6, <1>7 DEF Following

\* What ins holds under k is what rule remembers of the track of c, last seen in frame m.
Recalled(h, rule, c, m, ins, k) ==
  IF k \in DOMAIN ins THEN Remembered(h, rule, c, m, ins[k]) ELSE h[m].at[c] \notin rule.zone

Recalling(t, ins, h, rule) ==
  \A j \in DOMAIN t : \A m :
     LatestIs(h, t[j].class, m) => Recalled(h, rule, t[j].class, m, ins, <<j, rule.id>>)

\* A target that is in the zone stays there exactly if the rule remembers its track.
LEMMA TargetJudged ==
  ASSUME NEW g, NEW h, NEW e, NEW n, Extends(g, h, e, n), NEW rule, NEW det, det.class \in DOMAIN e.at,
         e.at[det.class] = det.box, NEW p, NEW q, Same(q, NextInsides(p, rule, det, e.t), Key(rule, det)),
         Key(rule, det) \notin DOMAIN p => Interrupted(h, n, det.class, rule.zone),
         Key(rule, det) \in DOMAIN p =>
            \E m : /\ LatestIs(h, det.class, m) /\ n - m <= MaxMissing
                   /\ Remembered(h, rule, det.class, m, p[Key(rule, det)])
  PROVE  /\ Recalled(g, rule, det.class, n + 1, q, Key(rule, det))
         /\ Due(g, rule, det.class, n + 1) <=> Fires(p, rule, det, e.t)
<1>1. PICK c, k, time : c = det.class /\ k = Key(rule, det) /\ time = e.t
  OBVIOUS
<1>2. PICK r : r = NextInsides(p, rule, det, time)
  OBVIOUS
<1>3. (k \in DOMAIN q <=> k \in DOMAIN r) /\ (k \in DOMAIN q => q[k] = r[k])
  BY <1>1, <1>2 DEF Same
<1>4. g[n + 1] = e /\ c \in DOMAIN e.at /\ e.at[c] = det.box
  BY <1>1 DEF Extends
<1>5. CASE det.box \notin rule.zone
  <2>1. ~Fires(p, rule, det, time)
    BY <1>5 DEF Fires, ZoneContains
  <2>2. ~Due(g, rule, c, n + 1)
    BY <1>4, <1>5, NothingDue
  <2>3. k \notin DOMAIN q
    BY <1>1, <1>2, <1>3, <1>5 DEF NextInsides, ZoneContains
  <2> QED
    BY <1>1, <1>4, <1>5, <2>1, <2>2, <2>3 DEF Recalled
<1>6. CASE det.box \in rule.zone /\ k \notin DOMAIN p
  <2>1. ~Fires(p, rule, det, time)
    BY <1>1, <1>6 DEF Fires
  <2>2. Interrupted(h, n, c, rule.zone)
    BY <1>1, <1>6
  <2>3. ~Due(g, rule, c, n + 1)
    BY <2>2, NothingDue
  <2>4. Remembered(g, rule, c, n + 1, JustEntered(time))
    BY <1>1, <1>4, <1>6, <2>2, StayStarts
  <2>5. r = [j \in DOMAIN p \cup {k} |-> IF j # k THEN p[j] ELSE JustEntered(time)]
    BY <1>1, <1>2, <1>6 DEF NextInsides, ZoneContains
  <2>6. k \in DOMAIN q /\ q[k] = JustEntered(time)
    BY <1>3, <2>5
  <2> QED
    BY <1>1, <2>1, <2>3, <2>4, <2>6 DEF Recalled
<1>7. CASE det.box \in rule.zone /\ k \in DOMAIN p
  <2>1. PICK s : s = p[k]
    OBVIOUS
  <2>2. PICK m : LatestIs(h, c, m) /\ n - m <= MaxMissing /\ Remembered(h, rule, c, m, s)
    BY <1>1, <1>7, <2>1
  <2>3. PICK fires \in BOOLEAN : fires <=> (~s.fired /\ time - s.entered >= rule.dwell)
    OBVIOUS
  <2>4. Fires(p, rule, det, time) <=> fires
    BY <1>1, <1>7, <2>1, <2>3 DEF Fires, ZoneContains
  <2>5. fires = (~s.fired /\ e.t - s.entered >= rule.dwell)
    BY <1>1, <2>3
  <2>6. /\ Remembered(g, rule, c, n + 1, [s EXCEPT !.fired = @ \/ fires])
        /\ Due(g, rule, c, n + 1) <=> fires
    BY <1>4, <1>7, <2>2, <2>5, StayGoesOn
  <2>7. PICK u : u = [s EXCEPT !.fired = @ \/ Fires(p, rule, det, time)]
    OBVIOUS
  <2>8. u = [s EXCEPT !.fired = @ \/ fires]
    <3>1. (s.fired \/ Fires(p, rule, det, time)) = (s.fired \/ fires)
      BY <2>4, Zenon
    <3> QED
      BY <2>7, <3>1
  <2>9. r = [j \in DOMAIN p \cup {k} |-> IF j # k THEN p[j] ELSE u]
    BY <1>1, <1>2, <1>7, <2>1, <2>7 DEF NextInsides, ZoneContains
  <2>10. k \in DOMAIN q /\ q[k] = u
    BY <1>3, <2>9
  <2>11. Recalled(g, rule, c, n + 1, q, k)
    BY <2>6, <2>8, <2>10 DEF Recalled
  <2> QED
    BY <1>1, <2>4, <2>6, <2>11
<1> QED
  BY <1>5, <1>6, <1>7

\* What the rule judges of a frame: ds are its targets with the tracks they were given.
LEMMA RuleGoesOn ==
  ASSUME NEW x, NEW dets, NEW l, NEW given, NEW g, NEW h, NEW e, NEW n, Taken(x, dets, l, given, g, h, e, n),
         NEW r, Recalling(tracks, insides, h, Rules[r]), \A k \in DOMAIN insides : k[1] \in 1 .. ids,
         NEW y, EvaluatedApart(y, x.dets, l), Evaluated(y, r, x.dets, l, e.t)
  PROVE  /\ Recalling(x.tracks, y.insides, g, Rules[r])
         /\ \A d \in 1 .. l : Due(g, Rules[r], dets[d].class, n + 1) <=> Fires(insides, Rules[r], x.dets[d], e.t)
         /\ \A c : (\A d \in 1 .. l : dets[d].class # c) => ~Due(g, Rules[r], c, n + 1)
<1>1. PICK rule : rule = Rules[r]
  OBVIOUS
<1>2. Extends(g, h, e, n) /\ n \in Nat
  BY DEF Taken, Extends
<1>3. ASSUME NEW d \in 1 .. l
      PROVE  /\ x.dets[d].class = dets[d].class /\ x.dets[d].box = dets[d].box /\ x.dets[d].track = given[d]
             /\ Key(rule, x.dets[d]) = <<given[d], rule.id>>
  <2>1. x.dets = [i \in 1 .. l |-> [class |-> dets[i].class, box |-> dets[i].box, track |-> given[i]]]
    BY DEF Taken, Assigned
  <2> QED
    BY <2>1 DEF Key
<1>4. ASSUME NEW d \in 1 .. l
      PROVE  /\ Recalled(g, rule, dets[d].class, n + 1, y.insides, <<given[d], rule.id>>)
             /\ Due(g, rule, dets[d].class, n + 1) <=> Fires(insides, rule, x.dets[d], e.t)
  <2>1. PICK det, c, k, p, q : det = x.dets[d] /\ c = det.class /\ k = Key(rule, det) /\ p = insides /\ q = y.insides
    OBVIOUS
  <2>2. c = dets[d].class /\ k = <<given[d], rule.id>>
    BY <1>3, <2>1
  <2>3. c \in DOMAIN e.at /\ e.at[c] = det.box
    BY <1>3, <2>1, GivenIs
  <2>4. Same(q, NextInsides(p, rule, det, e.t), k)
    BY <1>1, <2>1 DEF Evaluated
  <2>5. Followed(x, dets[d], given[d])
    BY DEF Taken, Assigned
  <2>6. ASSUME k \notin DOMAIN p PROVE Interrupted(h, n, c, rule.zone)
    <3> SUFFICES ASSUME Seen(h, c) # {} PROVE \E m : LatestIs(h, c, m) /\ (n - m > MaxMissing \/ h[m].at[c] \notin rule.zone)
      BY DEF Interrupted
    <3>1. PICK m : LatestIs(h, c, m)
      BY DEF Taken, Following
    <3>2. CASE n - m <= MaxMissing
      <4>1. PICK j \in DOMAIN tracks : tracks[j].class = c
        BY <3>1, <3>2 DEF Taken, Following
      <4>2. given[d] = j
        BY <2>2, <2>5, <4>1 DEF Followed
      <4>3. Recalled(h, rule, c, m, p, k)
        BY <1>1, <2>1, <2>2, <3>1, <4>1, <4>2 DEF Recalling
      <4> QED
        BY <2>6, <3>1, <4>3 DEF Recalled
    <3>3. CASE ~(n - m <= MaxMissing)
      <4>1. n - m > MaxMissing
        <5>1. m \in 1 .. n
          BY <1>2, <3>1, LatestOf DEF Extends
        <5>2. MaxMissing \in Nat
          BY DwellAssumption, Zenon
        <5> QED
          BY <1>2, <3>3, <5>1, <5>2
      <4> QED
        BY <3>1, <4>1
    <3> QED
      BY <3>2, <3>3
  <2>7. ASSUME k \in DOMAIN p PROVE \E m : LatestIs(h, c, m) /\ n - m <= MaxMissing /\ Remembered(h, rule, c, m, p[k])
    <3>1. given[d] \in 1 .. ids
      <4>1. k[1] \in 1 .. ids /\ k[1] = given[d]
        BY <2>1, <2>2, <2>7
      <4> QED
        BY <4>1
    <3>2. given[d] \in DOMAIN tracks
      <4>1. ~(given[d] > ids)
        BY <3>1 DEF Taken, TracksOk
      <4> QED
        BY <2>5, <4>1 DEF Followed
    <3>3. tracks[given[d]].class = c
      BY <2>2, <2>5, <3>2 DEF Followed
    <3>4. PICK m : At(tracks, h, n, given[d], m)
      BY <3>2 DEF Taken, Following
    <3>5. LatestIs(h, c, m) /\ n - m <= MaxMissing
      BY <3>3, <3>4 DEF At
    <3>6. Recalled(h, rule, c, m, p, k)
      BY <1>1, <2>1, <2>2, <3>2, <3>3, <3>5 DEF Recalling
    <3> QED
      BY <2>7, <3>5, <3>6 DEF Recalled
  <2>8. /\ Recalled(g, rule, det.class, n + 1, q, Key(rule, det))
        /\ Due(g, rule, det.class, n + 1) <=> Fires(p, rule, det, e.t)
    BY <1>2, <2>1, <2>3, <2>4, <2>6, <2>7, TargetJudged
  <2> QED
    BY <2>1, <2>2, <2>8
<1>5. ASSUME NEW j \in DOMAIN x.tracks, NEW m, LatestIs(g, x.tracks[j].class, m)
      PROVE  Recalled(g, rule, x.tracks[j].class, m, y.insides, <<j, rule.id>>)
  <2>1. CASE \E d \in 1 .. l : j = given[d]
    <3>1. PICK d \in 1 .. l : j = given[d]
      BY <2>1
    <3>2. x.tracks[j].class = dets[d].class /\ LatestIs(g, dets[d].class, n + 1)
      BY <3>1, GivenIs
    <3>3. m = n + 1
      <4>1. n + 1 \in Nat /\ DOMAIN g = 1 .. n + 1
        BY <1>2 DEF Extends
      <4> QED
        BY <1>5, <3>2, <4>1, LatestOf
    <3> QED
      BY <1>4, <3>1, <3>2, <3>3
  <2>2. CASE ~\E d \in 1 .. l : j = given[d]
    <3>1. j \in DOMAIN tracks /\ x.tracks[j] = Kept(tracks, j)
      BY <2>2 DEF Taken, Assigned
    <3>2. PICK c, k : c = tracks[j].class /\ k = <<j, rule.id>> /\ k[1] = j
      <4>1. <<j, rule.id>>[1] = j
        OBVIOUS
      <4> QED
        BY <4>1
    <3>3. c \notin DOMAIN e.at /\ x.tracks[j].class = c
      BY <2>2, <3>1, <3>2, KeptIs
    <3>4. LatestIs(h, c, m)
      BY <1>2, <1>5, <3>3, LatestNow
    <3>5. Recalled(h, rule, c, m, insides, k)
      BY <1>1, <3>1, <3>2, <3>4 DEF Recalling
    <3>6. Same(y.insides, insides, k)
      <4>1. \A d \in 1 .. l : k[1] # x.dets[d].track
        BY <1>3, <2>2, <3>2
      <4> QED
        BY <4>1 DEF EvaluatedApart
    <3>7. g[m].at[c] = h[m].at[c]
      <4>1. m \in 1 .. n
        BY <1>2, <3>4, LatestOf DEF Extends
      <4> QED
        BY <4>1, <1>2 DEF Extends
    <3>8. CASE k \in DOMAIN insides
      <4>1. PICK s : s = insides[k]
        OBVIOUS
      <4>2. Remembered(g, rule, c, m, s)
        BY <1>2, <3>3, <3>4, <3>5, <3>8, <4>1, RememberedGrows DEF Recalled
      <4>3. k \in DOMAIN y.insides /\ y.insides[k] = s
        BY <3>6, <3>8, <4>1 DEF Same
      <4> QED
        BY <3>2, <3>3, <4>2, <4>3 DEF Recalled
    <3>9. CASE k \notin DOMAIN insides
      <4>1. k \notin DOMAIN y.insides
        BY <3>6, <3>9 DEF Same
      <4> QED
        BY <3>2, <3>3, <3>5, <3>7, <3>9, <4>1 DEF Recalled
    <3> QED
      BY <3>8, <3>9
  <2> QED
    BY <2>1, <2>2
<1>6. ASSUME NEW c, \A d \in 1 .. l : dets[d].class # c PROVE ~Due(g, rule, c, n + 1)
  <2>1. c \notin DOMAIN e.at
    BY <1>6 DEF Taken, Shown
  <2> QED
    BY <1>2, <2>1, NothingDue
<1> QED
  BY <1>1, <1>4, <1>5, <1>6 DEF Recalling

\* The events a reader of the frames expects of rule r.
Expected(r, h) ==
  {[rule |-> Rules[r].id, class |-> x[1], at |-> h[x[2]].t] : x \in {y \in Classes \X DOMAIN h : Due(h, Rules[r], y[1], y[2])}}

LEMMA ExpectedIs ==
  ASSUME NEW r, NEW h, NEW v
  PROVE  v \in Expected(r, h) <=> \E c \in Classes, j \in DOMAIN h :
                                     Due(h, Rules[r], c, j) /\ v = [rule |-> Rules[r].id, class |-> c, at |-> h[j].t]
<1>1. ASSUME NEW c \in Classes, NEW j \in DOMAIN h, Due(h, Rules[r], c, j), v = [rule |-> Rules[r].id, class |-> c, at |-> h[j].t]
      PROVE  v \in Expected(r, h)
  <2>1. PICK y : y = <<c, j>>
    OBVIOUS
  <2>2. y \in Classes \X DOMAIN h /\ y[1] = c /\ y[2] = j
    BY <2>1
  <2> QED
    BY <1>1, <2>2 DEF Expected
<1>2. ASSUME v \in Expected(r, h)
      PROVE  \E c \in Classes, j \in DOMAIN h :
                Due(h, Rules[r], c, j) /\ v = [rule |-> Rules[r].id, class |-> c, at |-> h[j].t]
  <2>1. PICK y \in Classes \X DOMAIN h : Due(h, Rules[r], y[1], y[2]) /\ v = [rule |-> Rules[r].id, class |-> y[1], at |-> h[y[2]].t]
    BY <1>2 DEF Expected
  <2>2. y[1] \in Classes /\ y[2] \in DOMAIN h
    OBVIOUS
  <2> QED
    BY <2>1, <2>2
<1> QED
  BY <1>1, <1>2

\* What the frames show is what the rule reports.
LEMMA ReportsGoOn ==
  ASSUME NEW x, NEW dets, NEW l, NEW given, NEW g, NEW h, NEW e, NEW n, Taken(x, dets, l, given, g, h, e, n),
         \A d \in 1 .. l : dets[d].class \in Classes,
         NEW r, OfRule(r, events) = Expected(r, h), NEW y, Evaluated(y, r, x.dets, l, e.t),
         \A d \in 1 .. l : Due(g, Rules[r], dets[d].class, n + 1) <=> Fires(insides, Rules[r], x.dets[d], e.t),
         \A c : (\A d \in 1 .. l : dets[d].class # c) => ~Due(g, Rules[r], c, n + 1)
  PROVE  OfRule(r, y.events) = Expected(r, g)
<1>1. PICK rule, time : rule = Rules[r] /\ time = e.t
  OBVIOUS
<1>2. Extends(g, h, e, n)
  BY DEF Taken
<1>3. n \in Nat /\ DOMAIN h = 1 .. n /\ DOMAIN g = 1 .. n + 1 /\ (\A j \in 1 .. n : g[j] = h[j]) /\ g[n + 1] = e
  BY <1>2 DEF Extends
<1>4. \A d \in 1 .. l : x.dets[d].class = dets[d].class
  <2>1. x.dets = [i \in 1 .. l |-> [class |-> dets[i].class, box |-> dets[i].box, track |-> given[i]]]
    BY DEF Taken, Assigned
  <2> QED
    BY <2>1
<1>5. OfRule(r, y.events) = Expected(r, h) \cup UNION {Spoken(insides, rule, x.dets[d], time) : d \in 1 .. l}
  BY <1>1 DEF Evaluated
<1>6. \A j : j \in 1 .. n + 1 <=> j \in 1 .. n \/ j = n + 1
  BY <1>3
<1>7. \A c : \A j \in 1 .. n : Due(g, rule, c, j) <=> Due(h, rule, c, j)
  BY <1>2, DueGrows
<1>8. ASSUME NEW v \in Expected(r, h) PROVE v \in Expected(r, g)
  <2>1. PICK c \in Classes, j \in 1 .. n : Due(h, rule, c, j) /\ v = [rule |-> rule.id, class |-> c, at |-> h[j].t]
    BY <1>1, <1>3, ExpectedIs
  <2>2. Due(g, rule, c, j) /\ v = [rule |-> rule.id, class |-> c, at |-> g[j].t] /\ j \in DOMAIN g
    BY <1>3, <1>6, <1>7, <2>1
  <2> QED
    BY <1>1, <2>2, ExpectedIs
<1>9. ASSUME NEW d \in 1 .. l, NEW v \in Spoken(insides, rule, x.dets[d], time) PROVE v \in Expected(r, g)
  <2>1. Fires(insides, rule, x.dets[d], time) /\ v = [rule |-> rule.id, class |-> dets[d].class, at |-> time]
    BY <1>4, <1>9 DEF Spoken, BuildEvent
  <2>2. Due(g, rule, dets[d].class, n + 1) /\ n + 1 \in DOMAIN g /\ g[n + 1].t = time
    BY <1>1, <1>3, <1>6, <2>1
  <2> QED
    BY <1>1, <2>1, <2>2, ExpectedIs
<1>10. ASSUME NEW v \in Expected(r, g) PROVE v \in OfRule(r, y.events)
  <2>1. PICK c \in Classes, j \in 1 .. n + 1 : Due(g, rule, c, j) /\ v = [rule |-> rule.id, class |-> c, at |-> g[j].t]
    BY <1>1, <1>3, ExpectedIs
  <2>2. CASE j \in 1 .. n
    <3>1. Due(h, rule, c, j) /\ v = [rule |-> rule.id, class |-> c, at |-> h[j].t] /\ j \in DOMAIN h
      BY <1>3, <1>7, <2>1, <2>2
    <3>2. v \in Expected(r, h)
      BY <1>1, <3>1, ExpectedIs
    <3> QED
      BY <1>5, <3>2
  <2>3. CASE j = n + 1
    <3>1. PICK d \in 1 .. l : dets[d].class = c
      BY <1>1, <2>1, <2>3
    <3>2. Fires(insides, rule, x.dets[d], time)
      BY <1>1, <2>1, <2>3, <3>1
    <3>3. v = [rule |-> rule.id, class |-> x.dets[d].class, at |-> time]
      BY <1>1, <1>3, <1>4, <2>1, <2>3, <3>1
    <3>4. v \in Spoken(insides, rule, x.dets[d], time)
      BY <3>2, <3>3 DEF Spoken, BuildEvent
    <3> QED
      BY <1>5, <3>4
  <2> QED
    BY <1>6, <2>2, <2>3
<1> QED
  BY <1>5, <1>8, <1>9, <1>10

\* The inductive invariant.
DwellInv ==
  /\ Listed(history, Len(history))
  /\ TracksOk(tracks, ids) /\ Following(tracks, history, Len(history))
  /\ \A k \in DOMAIN insides : k[1] \in 1 .. ids
  /\ \A r \in DOMAIN Rules : Undisturbed(r) =>
        Recalling(tracks, insides, history, Rules[r]) /\ OfRule(r, events) = Expected(r, history)

LEMMA AppendListed ==
  ASSUME NEW h, NEW n, n = Len(h), Listed(h, n), NEW e
  PROVE  /\ Extends(Append(h, e), h, e, n)
         /\ Len(Append(h, e)) = n + 1 /\ Listed(Append(h, e), Len(Append(h, e)))
<1> DEFINE F == {h[i] : i \in 1 .. n} \cup {e}
<1>1. n \in Nat /\ h \in [1 .. n -> F] /\ e \in F
  BY DEF Listed
<1> HIDE DEF F
<1>2. h \in Seq(F)
  BY <1>1, IsASeq
<1>3. Append(h, e) \in Seq(F) /\ Extends(Append(h, e), h, e, n)
  BY <1>1, <1>2, AppendExtends
<1>4. Len(Append(h, e)) = n + 1
  BY <1>1, <1>2, AppendProperties
<1>5. Append(h, e) \in [1 .. n + 1 -> F]
  BY <1>3, <1>4, LenProperties
<1>6. Append(h, e) = [i \in 1 .. n + 1 |-> Append(h, e)[i]]
  BY <1>5
<1> QED
  BY <1>1, <1>3, <1>4, <1>6 DEF Listed

\* The targets of a frame, and what it shows.
LEMMA FrameShows ==
  ASSUME NEW l \in Nat, NEW cs \in [1 .. l -> Classes], OneOfEach(cs), NEW boxes,
         NEW dets, dets = [i \in 1 .. l |-> Detection(cs[i], boxes[i])],
         NEW n, TracksOk(tracks, ids), Following(tracks, history, n), n \in Nat, DOMAIN history = 1 .. n,
         \A i \in 1 .. l : boxes[i] \in Reach(cs[i]), NEW time
  PROVE  /\ Targets(dets, l) /\ Shown([t |-> time, at |-> Sighted(dets)], dets, l)
         /\ \A d \in 1 .. l : dets[d].class \in Classes
<1>1. \A i \in 1 .. l : dets[i].class = cs[i] /\ dets[i].box = boxes[i]
  BY DEF Detection
<1>2. DOMAIN dets = 1 .. l /\ Len(dets) = l
  <2>1. DOMAIN dets = 1 .. l /\ dets = [i \in 1 .. l |-> dets[i]]
    OBVIOUS
  <2> QED
    BY <2>1, LenOf
<1>3. \A d, e \in 1 .. l : dets[d].class = dets[e].class => d = e
  BY <1>1 DEF OneOfEach
<1>4. ASSUME NEW d \in 1 .. l PROVE InReach(dets[d])
  <2> SUFFICES ASSUME NEW j \in DOMAIN tracks, tracks[j].class = cs[d] PROVE IoU(tracks[j].box, boxes[d]) >= Threshold
    BY <1>1 DEF InReach
  <2>1. PICK m : At(tracks, history, n, j, m)
    BY DEF Following
  <2>2. LatestIs(history, cs[d], m) /\ tracks[j].box = history[m].at[cs[d]]
    BY <2>1 DEF At
  <2>3. Latest(history, cs[d]) = m /\ Seen(history, cs[d]) # {}
    BY <2>2, LatestOf DEF LatestIs
  <2>4. Reach(cs[d]) = {b \in Places : IoU(history[m].at[cs[d]], b) >= Threshold}
    BY <2>3 DEF Reach
  <2> QED
    BY <2>2, <2>4
<1>5. Targets(dets, l)
  BY <1>2, <1>3, <1>4 DEF Targets
<1>6. Shown([t |-> time, at |-> Sighted(dets)], dets, l)
  <2>1. PICK s : s = Sighted(dets)
    OBVIOUS
  <2>2. \A c : c \in DOMAIN s <=> \E d \in 1 .. l : dets[d].class = c
    BY <1>2, <2>1 DEF Sighted
  <2>3. ASSUME NEW d \in 1 .. l PROVE s[dets[d].class] = dets[d].box
    <3>1. PICK c : c = dets[d].class
      OBVIOUS
    <3>2. c \in {dets[i].class : i \in DOMAIN dets}
      BY <1>2, <3>1
    <3>3. s[c] = dets[CHOOSE i \in DOMAIN dets : dets[i].class = c].box
      BY <2>1, <3>2 DEF Sighted
    <3>4. (CHOOSE i \in DOMAIN dets : dets[i].class = c) = d
      BY <1>2, <1>3, <3>1
    <3> QED
      BY <3>1, <3>3, <3>4
  <2>4. PICK e : e = [t |-> time, at |-> s] /\ e.at = s
    <3>1. [t |-> time, at |-> s].at = s
      OBVIOUS
    <3> QED
      BY <3>1
  <2>5. Shown(e, dets, l)
    BY <2>2, <2>3, <2>4 DEF Shown
  <2> QED
    BY <2>1, <2>4, <2>5
<1> QED
  BY <1>1, <1>5, <1>6

LEMMA DwellFrameKeeps ==
  ASSUME DwellInv, NEW l \in Nat, NEW cs \in [1 .. l -> Classes], OneOfEach(cs), NEW boxes,
         \A i \in 1 .. l : boxes[i] \in Reach(cs[i]),
         Frame([i \in 1 .. l |-> Detection(cs[i], boxes[i])])
  PROVE  DwellInv'
<1>1. PICK dets, x, y, e, n, h, g :
        /\ dets = [i \in 1 .. l |-> Detection(cs[i], boxes[i])]
        /\ x = Assign(dets) /\ y = Evaluate(x.dets, ticks) /\ e = [t |-> ticks, at |-> Sighted(dets)]
        /\ n = Len(history) /\ h = history /\ g = Append(h, e)
  OBVIOUS
<1>2. /\ tracks' = x.tracks /\ ids' = x.ids /\ insides' = y.insides /\ events' = y.events /\ history' = g
  BY <1>1 DEF Frame
<1>3. n \in Nat /\ DOMAIN history = 1 .. n /\ Listed(h, n)
  BY <1>1 DEF DwellInv, Listed
<1>4. Extends(g, h, e, n) /\ Len(g) = n + 1 /\ Listed(g, Len(g))
  BY <1>1, <1>3, AppendListed
<1>5. TracksOk(tracks, ids) /\ Following(tracks, h, n)
  BY <1>1 DEF DwellInv
<1>6. Targets(dets, l) /\ Shown(e, dets, l) /\ \A d \in 1 .. l : dets[d].class \in Classes
  BY <1>1, <1>3, <1>5, FrameShows
<1>7. PICK given : Assigned(x, dets, l, given)
  BY <1>1, <1>5, <1>6, AssignIs
<1>8. Taken(x, dets, l, given, g, h, e, n)
  BY <1>4, <1>5, <1>6, <1>7 DEF Taken
<1>9. Following(x.tracks, g, n + 1)
  BY <1>8, FollowingGoesOn
<1>10. TracksOk(x.tracks, x.ids) /\ x.ids >= ids
  BY <1>7 DEF Assigned
<1>11. \A d \in 1 .. l : x.dets[d].track = given[d] /\ given[d] \in 1 .. x.ids
  <2>1. x.dets = [i \in 1 .. l |-> [class |-> dets[i].class, box |-> dets[i].box, track |-> given[i]]]
    BY <1>7 DEF Assigned
  <2> QED
    BY <1>7, <2>1 DEF Assigned
<1>12. Listed(x.dets, l) /\ \A c, d \in 1 .. l : x.dets[c].track = x.dets[d].track => c = d
  <2>1. Listed(x.dets, l)
    BY <1>7 DEF Assigned, Listed
  <2> QED
    BY <1>7, <1>11, <2>1 DEF Assigned
<1>13. EvaluatedApart(y, x.dets, l)
  BY <1>1, <1>12, EvaluateIs
<1>14. ASSUME NEW r \in DOMAIN Rules, Undisturbed(r) PROVE Evaluated(y, r, x.dets, l, ticks)
  <2>1. r = 1 \/ l <= 1
    <3> SUFFICES ASSUME \A c, d \in Classes : c = d, ~(l <= 1) PROVE FALSE
      BY <1>14 DEF Undisturbed
    <3>1. 1 \in 1 .. l /\ 2 \in 1 .. l
      OBVIOUS
    <3>2. cs[1] = cs[2]
      BY <3>1
    <3>3. 1 = 2
      BY <3>1, <3>2 DEF OneOfEach
    <3> QED
      BY <3>3
  <2> QED
    BY <1>1, <1>12, <1>14, <2>1, EvaluateIs DEF Undisturbed
<1>15. \A k \in DOMAIN y.insides : k[1] \in 1 .. x.ids
  <2> SUFFICES ASSUME NEW k \in DOMAIN y.insides PROVE k[1] \in 1 .. x.ids
    OBVIOUS
  <2>1. CASE \E d \in 1 .. l : k[1] = x.dets[d].track
    BY <1>11, <2>1
  <2>2. CASE \A d \in 1 .. l : k[1] # x.dets[d].track
    <3>1. k \in DOMAIN insides
      BY <1>13, <2>2 DEF EvaluatedApart, Same
    <3>2. k[1] \in 1 .. ids
      BY <3>1 DEF DwellInv
    <3>3. ids \in Nat /\ x.ids \in Nat /\ x.ids >= ids
      BY <1>5, <1>10 DEF TracksOk
    <3> QED
      BY <3>2, <3>3
  <2> QED
    BY <2>1, <2>2
<1>16. ASSUME NEW r \in DOMAIN Rules, Undisturbed(r)
       PROVE  Recalling(x.tracks, y.insides, g, Rules[r]) /\ OfRule(r, y.events) = Expected(r, g)
  <2>1. e.t = ticks
    BY <1>1
  <2>2. Evaluated(y, r, x.dets, l, e.t)
    BY <1>14, <1>16, <2>1
  <2>3. /\ Recalling(tracks, insides, h, Rules[r]) /\ OfRule(r, events) = Expected(r, h)
        /\ \A k \in DOMAIN insides : k[1] \in 1 .. ids
    BY <1>1, <1>16 DEF DwellInv
  <2>4. /\ Recalling(x.tracks, y.insides, g, Rules[r])
        /\ \A d \in 1 .. l : Due(g, Rules[r], dets[d].class, n + 1) <=> Fires(insides, Rules[r], x.dets[d], e.t)
        /\ \A c : (\A d \in 1 .. l : dets[d].class # c) => ~Due(g, Rules[r], c, n + 1)
    BY <1>8, <1>13, <2>2, <2>3, RuleGoesOn
  <2>5. OfRule(r, y.events) = Expected(r, g)
    BY <1>6, <1>8, <2>2, <2>3, <2>4, ReportsGoOn
  <2> QED
    BY <2>4, <2>5
<1> QED
  BY <1>2, <1>4, <1>9, <1>10, <1>15, <1>16 DEF DwellInv

LEMMA DwellStart == DwellInit => DwellInv
<1> SUFFICES ASSUME DwellInit PROVE DwellInv
  OBVIOUS
<1>1. tracks = [j \in {} |-> 0] /\ ids = 0 /\ insides = [k \in {} |-> 0] /\ events = {} /\ history = << >>
  BY DEF DwellInit, TrackerInit, RuleInit
<1>2. Len(history) = 0 /\ DOMAIN history = 1 .. 0 /\ \A i : i \notin 1 .. 0
  BY <1>1
<1>3. Listed(history, Len(history))
  BY <1>1, <1>2 DEF Listed
<1>4. \A c : Seen(history, c) = {}
  BY <1>2 DEF Seen
<1>5. TracksOk(tracks, ids)
  BY <1>1 DEF TracksOk
<1>6. Following(tracks, history, Len(history))
  BY <1>1, <1>4 DEF Following, LatestIs
<1>7. \A r : Recalling(tracks, insides, history, Rules[r])
  BY <1>1 DEF Recalling
<1>8. \A r : OfRule(r, events) = Expected(r, history)
  <2>1. \A r : OfRule(r, events) = {}
    BY <1>1 DEF OfRule
  <2>2. \A r, v : v \notin Expected(r, history)
    BY <1>2, ExpectedIs
  <2> QED
    BY <2>1, <2>2
<1> QED
  BY <1>1, <1>3, <1>5, <1>6, <1>7, <1>8 DEF DwellInv

LEMMA DwellStep == DwellInv /\ [DwellNext]_dwellVars => DwellInv'
<1> SUFFICES ASSUME DwellInv, [DwellNext]_dwellVars PROVE DwellInv'
  OBVIOUS
<1>1. ASSUME NEW n \in 0 .. Cardinality(Classes), NEW cs \in {q \in [1 .. n -> Classes] : OneOfEach(q)},
             NEW boxes \in [1 .. n -> Places], \A i \in 1 .. n : boxes[i] \in Reach(cs[i]),
             Frame([i \in 1 .. n |-> Detection(cs[i], boxes[i])])
      PROVE  DwellInv'
  <2>1. n \in Nat
    OBVIOUS
  <2> QED
    BY <1>1, <2>1, DwellFrameKeeps
<1>2. ASSUME UNCHANGED <<tracks, ids, insides, events, history>> PROVE DwellInv'
  BY <1>2 DEF DwellInv
<1> QED
  BY <1>1, <1>2 DEF DwellNext, FrameDropped, dwellVars

LEMMA DwellReads == DwellInv => DwellFiresOncePerStay
BY DEF DwellInv, DwellFiresOncePerStay, OfRule, Expected

(* For any zones, dwell times, thresholds and number of targets, and       *)
(* whatever frames are dropped or show nothing, Tracker.assign keeps a     *)
(* target on one track for as long as Rule.evaluate needs it: a rule that  *)
(* is not disturbed by the ones before it reports one event for every stay *)
(* in its zone that lasts the dwell time, at the first frame at which it   *)
(* has, and no other.                                                      *)
THEOREM DwellOncePerStay == DwellSpec => []DwellFiresOncePerStay
<1>1. DwellSpec => []DwellInv
  BY DwellStart, DwellStep, PTL DEF DwellSpec
<1> QED
  BY <1>1, DwellReads, PTL

=============================================================================
