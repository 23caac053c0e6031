---------------------------- MODULE MCDataplane ----------------------------
(* The data plane for TLC: the placement ledger, the frames of a chain, its *)
(* dwell rule and shadow inference share no state, so each behaviour       *)
(* exercises one of them.                                                  *)
EXTENDS GpuLedger, FrameRing, Dwell, ShadowEngine

VARIABLE focus

MCGpu(vram, slices, sku, group, tenant) ==
    [vram |-> vram, slices |-> slices, sku |-> sku, group |-> group, tenant |-> tenant]

MCSpecs ==
    {MCGpu(4, 2, "L4", "a", ""), MCGpu(3, 0, "H100", "b", ""), MCGpu(4, 3, "L4", "b", "t1"), MCGpu(0, 1, "L4", "a", "")}

MCRequests ==
    {MCGpu(2, 1, "", "a", "t1"), MCGpu(1, 2, "L4", "", "t2"), MCGpu(3, 0, "", "", "t2"), MCGpu(0, 1, "", "", "t1")}

MCRules   == <<[id |-> "dwell-right-half", zone |-> {2, 3}, dwell |-> 2], [id |-> "dwell-left-half", zone |-> {1, 2}, dwell |-> 1]>>
MCPlans   == {[id |-> "p1", tenant |-> "", percent |-> 50]}
MCFrameOf == [f \in {"f1", "f2"} |-> [tenant |-> "t1", hash |-> IF f = "f1" THEN 0 ELSE 49]]

vars == <<focus, ledgerVars, ringVars, dwellVars, shadowVars>>

Init ==
    /\ LedgerInit /\ RingInit /\ DwellInit /\ ShadowInit
    /\ focus \in {"ledger", "ring", "dwell", "shadow"}

Next ==
    /\ UNCHANGED focus
    /\ \/ focus = "ledger" /\ LedgerNext /\ UNCHANGED <<ringVars, dwellVars, shadowVars>>
       \/ focus = "ring" /\ RingNext /\ UNCHANGED <<ledgerVars, dwellVars, shadowVars>>
       \/ focus = "dwell" /\ DwellNext /\ UNCHANGED <<ledgerVars, ringVars, shadowVars>>
       \/ focus = "shadow" /\ ShadowNext /\ UNCHANGED <<ledgerVars, ringVars, dwellVars>>

Spec == Init /\ [][Next]_vars

=============================================================================
