--------------------------- MODULE MCControlPlane ---------------------------
(* The request path of the control plane: authentication, idempotent       *)
(* writes, paged reads and model releases share no state, so each          *)
(* behaviour exercises one.                                                *)
EXTENDS Gateway, Keyset, Listing, ModelRegistry, TLC

VARIABLE focus

vars == <<gatewayVars, keysetVars, listingVars, registryVars, focus>>

Init == /\ GatewayInit /\ KeysetInit /\ ListingInit /\ RegistryInit
        /\ focus \in {"writes", "tokens", "pages", "releases"}
        /\ focus # "tokens" => published = {}
        /\ focus # "pages" => rows = {} /\ backend = "sql" /\ collection = "streams"

Next ==
    /\ UNCHANGED focus
    /\ \/ focus = "writes" /\ GatewayNext /\ UNCHANGED <<keysetVars, listingVars, registryVars>>
       \/ focus = "tokens" /\ KeysetNext /\ UNCHANGED <<gatewayVars, listingVars, registryVars>>
       \/ focus = "pages" /\ ListingNext /\ UNCHANGED <<gatewayVars, keysetVars, registryVars>>
       \/ focus = "releases" /\ RegistryNext /\ UNCHANGED <<gatewayVars, keysetVars, listingVars>>

Spec == Init /\ [][Next]_vars

Symmetry == Permutations(Attempts) \cup Permutations(Keys) \cup Permutations(Callers) \cup Permutations(Kids)

=============================================================================
