----------------------------- MODULE Allocator -----------------------------
(***************************************************************************)
(* What gpu-scheduler promises its callers: a placement is granted on some *)
(* GPU that has room for it and refused only when none has, and what is    *)
(* reported is the capacity less what is held.  Which GPU is chosen, and   *)
(* how the books are kept, is left open.                                   *)
(***************************************************************************)
EXTENDS Integers, Functions

CONSTANTS Gpus, Ids, Requests, Anyone, NoPref

VARIABLES fleet,   \* the registered GPUs
          held,    \* the reservations in force
          answer   \* the last answer given

UsedVRAM(rs) == SumFunction([r \in rs |-> r.vram])
UsedSlices(rs) == SumFunction([r \in rs |-> r.slices])
On(g) == {r \in held : r.gpu = g}

RoomOn(g, req) ==
    /\ g \in DOMAIN fleet
    /\ fleet[g].tenant \in {Anyone, req.tenant}
    /\ req.sku \in {NoPref, fleet[g].sku}
    /\ fleet[g].vram - UsedVRAM(On(g)) >= req.vram
    /\ fleet[g].slices - UsedSlices(On(g)) >= req.slices

AllocatorInit == fleet = << >> /\ held = {} /\ answer = [kind |-> "none"]

Install(g) ==
    /\ \A h \in DOMAIN fleet \ {g} : h \in DOMAIN fleet' /\ fleet'[h] = fleet[h]
    /\ DOMAIN fleet' = DOMAIN fleet \cup {g}
    /\ fleet'[g].vram > 0 /\ fleet'[g].slices > 0
    /\ answer'.kind = "installed"
    /\ UNCHANGED held

Grant(req, g, id) ==
    /\ RoomOn(g, req)
    /\ \A r \in held : r.id # id
    /\ held' = held \cup {[id |-> id, gpu |-> g, vram |-> req.vram, slices |-> req.slices]}
    /\ answer' = [kind |-> "placed", id |-> id, gpu |-> g]
    /\ UNCHANGED fleet

Refuse(req) ==
    /\ \A g \in Gpus : ~RoomOn(g, req)
    /\ answer' = [kind |-> "no capacity"]
    /\ UNCHANGED <<fleet, held>>

Return(id) ==
    /\ held' = {r \in held : r.id # id}
    /\ answer' = [kind |-> "released"]
    /\ UNCHANGED fleet

Report ==
    /\ \/ answer' = [kind |-> "state", reservations |-> held]
       \/ \E g \in DOMAIN fleet :
              answer' = [kind |-> "gauge", gpu |-> g, free |-> fleet[g].vram - UsedVRAM(On(g))]
    /\ UNCHANGED <<fleet, held>>

Malformed == answer'.kind = "unprocessable" /\ UNCHANGED <<fleet, held>>

(* The process holds its books in memory.                                  *)
Forget == fleet' = << >> /\ held' = {} /\ answer' = [kind |-> "none"]

AllocatorNext ==
    \/ \E g \in Gpus : Install(g)
    \/ \E req \in Requests : \E g \in Gpus, id \in Ids : Grant(req, g, id)
    \/ \E req \in Requests : Refuse(req)
    \/ \E id \in Ids : Return(id)
    \/ Report \/ Malformed \/ Forget

AllocatorSpec == AllocatorInit /\ [][AllocatorNext]_<<fleet, held, answer>>

=============================================================================
