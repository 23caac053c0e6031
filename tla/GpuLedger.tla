----------------------------- MODULE GpuLedger -----------------------------
(***************************************************************************)
(* gpu-scheduler: the reservation ledger behind POST /v1/gpus, /v1/place,  *)
(* /v1/release and GET /v1/state.  The ledger keeps its reservations       *)
(* twice, by id and by GPU: Release looks a reservation up in the first,   *)
(* Place and FreeVRAM count the second.  Each call holds the mutex from    *)
(* beginning to end.  A GPU may be registered again, with less than it     *)
(* already carries; the books are in memory and end with the process.      *)
(*                                                                         *)
(* newResID takes the time in nanoseconds under the mutex: ids differ.     *)
(***************************************************************************)
EXTENDS Integers, Functions

CONSTANTS Gpus,       \* GPU ids, numbers in the order of the strings
          Specs,      \* what POST /v1/gpus may carry
          Requests,   \* what POST /v1/place may carry
          Anyone,     \* Tenant == ""
          NoPref,     \* PreferSKU == "", PreferNVLink == ""
          MaxPlacements, MaxBoots

ASSUME LedgerAssumption ==
    /\ Gpus \subseteq Nat
    /\ \A s \in Specs : {"vram", "slices"} \subseteq DOMAIN s /\ s.vram \in Int /\ s.slices \in Int
    /\ \A q \in Requests : q.vram \in Int /\ q.slices \in Nat
    /\ MaxPlacements \in Nat /\ MaxBoots \in Nat

VARIABLES gpus,    \* Ledger.gpus
          resv,    \* Ledger.resv, the reservations by id
          byGPU,   \* Ledger.byGPU
          answer,  \* the last HTTP answer
          placed,  \* placements so far: the clock of newResID
          boots

ledgerVars == <<gpus, resv, byGPU, answer, placed, boots>>

LedgerInit ==
    /\ gpus = << >> /\ resv = {} /\ byGPU = << >>
    /\ answer = [kind |-> "none"]
    /\ placed = 0 /\ boots = 1

-----------------------------------------------------------------------------
(* m[k] = v of a Go map.                                                   *)
Stored(m, k, v) == [x \in DOMAIN m \cup {k} |-> IF x = k THEN v ELSE m[x]]

RegisterGPU(g, spec) ==
    /\ spec.vram > 0
    /\ gpus' = Stored(gpus, g, [spec EXCEPT !.slices = IF @ <= 0 THEN 1 ELSE @])
    /\ byGPU' = IF g \in DOMAIN byGPU THEN byGPU ELSE Stored(byGPU, g, {})
    /\ answer' = [kind |-> "installed"]
    /\ UNCHANGED <<resv, placed, boots>>

(* A GPU without VRAM, a request without tenant or footprint.              *)
Unprocessable ==
    /\ \/ \E spec \in Specs : spec.vram <= 0
       \/ \E req \in Requests : req.vram <= 0 \/ req.tenant = Anyone
    /\ answer' = [kind |-> "unprocessable"]
    /\ UNCHANGED <<gpus, resv, byGPU, placed, boots>>

VRAMOf(rs) == SumFunction([r \in rs |-> r.vram])
SlicesOf(rs) == SumFunction([r \in rs |-> r.slices])
FreeVRAM(g) == gpus[g].vram - VRAMOf(byGPU[g])
FreeSlices(g) == gpus[g].slices - SlicesOf(byGPU[g])

Candidates(req) ==
    {g \in DOMAIN gpus :
        /\ gpus[g].tenant \in {Anyone, req.tenant}
        /\ req.sku \in {NoPref, gpus[g].sku}
        /\ FreeVRAM(g) >= req.vram
        /\ FreeSlices(g) >= req.slices}

(* The comparison of sort.SliceStable: the preferred NVLink group first,   *)
(* then the tightest fit, then the id.                                     *)
Linked(req, g) == gpus[g].group = req.group
Before(req, g, h) ==
    IF req.group # NoPref /\ Linked(req, g) # Linked(req, h) THEN Linked(req, g)
    ELSE IF FreeVRAM(g) # FreeVRAM(h) THEN FreeVRAM(g) < FreeVRAM(h)
    ELSE g < h

Valid(req) == req.vram > 0 /\ req.tenant # Anyone

Place(req) ==
    /\ Valid(req) /\ placed < MaxPlacements
    /\ LET cands == Candidates(req)
           g == CHOOSE c \in cands : \A h \in cands \ {c} : Before(req, c, h)
           r == [id |-> placed + 1, gpu |-> g, vram |-> req.vram, slices |-> req.slices]
       IN /\ cands # {}
          /\ resv' = resv \cup {r}
          /\ byGPU' = [byGPU EXCEPT ![g] = @ \cup {r}]
          /\ answer' = [kind |-> "placed", id |-> r.id, gpu |-> g]
    /\ placed' = placed + 1
    /\ UNCHANGED <<gpus, boots>>

(* ErrNoCapacity, found through the wrapped error: 503.                    *)
NoCapacity(req) ==
    /\ Valid(req) /\ Candidates(req) = {}
    /\ answer' = [kind |-> "no capacity"]
    /\ UNCHANGED <<gpus, resv, byGPU, placed, boots>>

(* The release route says 204 whatever the service returned.               *)
NoContent == [kind |-> "released"]

(* Mutant: the per-GPU entry is left behind. *)
ReleaseById(id) ==
    /\ resv' = {r \in resv : r.id # id}
    /\ answer' = NoContent
    /\ UNCHANGED <<gpus, byGPU, placed, boots>>

(* Idempotent: an unknown id, also one of before a restart, changes        *)
(* nothing.                                                                *)
Release(id) ==
    /\ LET gone == {r \in resv : r.id = id}
       IN /\ resv' = resv \ gone
          /\ byGPU' = [g \in DOMAIN byGPU |->
                          IF \E r \in gone : r.gpu = g THEN {r \in byGPU[g] : r.id # id} ELSE byGPU[g]]
    /\ answer' = NoContent
    /\ UNCHANGED <<gpus, placed, boots>>

(* GET /v1/state: the snapshot, then one gauge after the other, each under *)
(* a lock of its own.                                                      *)
Snapshot ==
    /\ answer' = [kind |-> "state", reservations |-> resv]
    /\ UNCHANGED <<gpus, resv, byGPU, placed, boots>>

Gauge(g) ==
    /\ g \in DOMAIN gpus
    /\ answer' = [kind |-> "gauge", gpu |-> g, free |-> FreeVRAM(g)]
    /\ UNCHANGED <<gpus, resv, byGPU, placed, boots>>

Reboot ==
    /\ boots < MaxBoots
    /\ gpus' = << >> /\ resv' = {} /\ byGPU' = << >>
    /\ answer' = [kind |-> "none"]
    /\ boots' = boots + 1
    /\ UNCHANGED placed

LedgerNext ==
    \/ \E g \in Gpus, spec \in Specs : RegisterGPU(g, spec)
    \/ Unprocessable
    \/ \E req \in Requests : Place(req) \/ NoCapacity(req)
    \/ \E id \in 1..MaxPlacements : Release(id)
    \/ Snapshot
    \/ \E g \in Gpus : Gauge(g)
    \/ Reboot

LedgerSpec == LedgerInit /\ [][LedgerNext]_ledgerVars

-----------------------------------------------------------------------------
A == INSTANCE Allocator WITH Ids <- 1..MaxPlacements, fleet <- gpus, held <- resv

(* The ledger implements Allocator, counting by GPU what the promise       *)
(* counts by id: over any sequence of registrations, placements, releases  *)
(* (repeated, or of ids that are gone) and restarts, the two indexes never *)
(* drift apart, no GPU is given out beyond its VRAM or slices or to a      *)
(* foreign tenant, and no request is refused while a GPU has room.         *)
LedgerImplementsAllocator == A!AllocatorSpec

=============================================================================
