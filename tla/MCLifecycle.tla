---------------------------- MODULE MCLifecycle ----------------------------
(* How things end, for TLC: a process that is told to stop (every service,  *)
(* with each optional resource configured or not, and two pieces of work in *)
(* flight), and a chain of operators whose source runs out.  They share no  *)
(* state, so each behaviour exercises one.                                  *)
EXTENDS Lifecycle, Services, FrameChain

(* The services that close what their requests use before those are done.   *)
LateClosers ==
  {"active_learning", "annotation", "api_gateway", "autonomy", "canary", "cost",
   "dataset", "drift", "inference_router", "knowledge", "media", "metering",
   "model_registry", "policy_gate", "slo", "stream_manager", "tenant", "training"}

ASSUME LateClosersAssumption ==
  \A s \in DOMAIN AllServices :
    s \in LateClosers <=> \E kind \in Answered \cap DOMAIN AllServices[s].needs :
                            ClosedUnder(AllServices[s], kind) # {}

MCSampled == <<"ingest", "sampler", "emit">>

VARIABLE focus

vars == <<focus, lifeVars, chainVars>>

Init ==
    /\ LifeInit /\ ChainInit
    /\ focus \in {"process", "chain"}
    /\ focus = "chain" => svc = "dataplane_runner" /\ off = {}

Next ==
    /\ UNCHANGED focus
    /\ \/ focus = "process" /\ LifeNext /\ UNCHANGED chainVars
       \/ focus = "chain" /\ ChainNext /\ UNCHANGED lifeVars

(* The fairness of the process (of which nothing can be done before it has  *)
(* booted) and the scheduler's to the goroutines of the chain.              *)
Spec == Init /\ [][Next]_vars /\ Fairness /\ WF_vars(focus = "chain" /\ Run /\ UNCHANGED <<focus, lifeVars>>)

=============================================================================
