------------------------------- MODULE Keyset -------------------------------
(***************************************************************************)
(* Bearer-token authentication of api-gateway and auth-proxy: requests     *)
(* look a token's key up in the shared jwksCache and refresh it when the   *)
(* key is missing or the cache is old; the identity provider rotates its   *)
(* keys meanwhile.  Time passes in ticks; only the network takes time.     *)
(***************************************************************************)
EXTENDS Integers

CONSTANTS Kids,            \* key ids
          Callers,         \* requests being authenticated
          CacheTTL,        \* AuthnConfig.CacheTTL, in ticks
          RefreshTimeout,  \* AuthnConfig.RefreshTimeout, in ticks
          MaxNow           \* bound of the clock

ASSUME KeysetAssumption ==
    CacheTTL \in Nat \ {0} /\ RefreshTimeout \in Nat /\ MaxNow \in Nat

VARIABLES published,  \* the keys in the provider's JWKS document
          dropped,    \* when the provider dropped a key; -1: it has not
          keys, fetched,   \* jwksCache
          caller,
          passed,     \* how long a key had been dropped when its token was last accepted
          now

keysetVars == <<published, dropped, keys, fetched, caller, passed, now>>

Free == [st |-> "idle"]
Never == -1

(* The cache is empty until the first miss.                                *)
KeysetInit ==
    /\ published \in SUBSET Kids
    /\ dropped = [k \in Kids |-> Never]
    /\ keys = {} /\ fetched = -CacheTTL
    /\ caller = [c \in Callers |-> Free]
    /\ passed = Never
    /\ now = 0

-----------------------------------------------------------------------------
(* verifyJWT: with the key in hand, the signature and the claims *)
(* decide; a refusal changes nothing.  auth-proxy signs who was accepted.  *)
Accept(k) == passed' = IF dropped[k] = Never THEN passed ELSE now - dropped[k]

Decide(c, k) ==
    /\ caller' = [caller EXCEPT ![c] = Free]
    /\ Accept(k) \/ UNCHANGED passed

(* jwksCache.get: a key of a cache that is fresh enough.                   *)
Hit(c, k) ==
    /\ caller[c] = Free
    /\ k \in keys /\ now - fetched < CacheTTL
    /\ Decide(c, k)
    /\ UNCHANGED <<published, dropped, keys, fetched, now>>

(* Otherwise every such caller starts a fetch of its own.                  *)
Miss(c, k) ==
    /\ caller[c] = Free
    /\ ~(k \in keys /\ now - fetched < CacheTTL)
    /\ caller' = [caller EXCEPT ![c] = [st |-> "fetching", kid |-> k, since |-> now]]
    /\ UNCHANGED <<published, dropped, keys, fetched, passed, now>>

(* The provider reads its document; the answer is still on the way.        *)
Serve(c) ==
    /\ caller[c].st = "fetching"
    /\ caller' = [caller EXCEPT ![c] = [st |-> "served", kid |-> @.kid, since |-> @.since, doc |-> published]]
    /\ UNCHANGED <<published, dropped, keys, fetched, passed, now>>

(* Mutant: keys of the new document are added to the old ones. *)
StoreMerged(c) ==
    /\ caller[c].st = "served"
    /\ keys' = keys \cup caller[c].doc /\ fetched' = now
    /\ caller' = [caller EXCEPT ![c] = [st |-> "stored", kid |-> @.kid]]
    /\ UNCHANGED <<published, dropped, passed, now>>

(* refresh replaces the keyset, also by an older document that overtook.   *)
StoreKeys(c) ==
    /\ caller[c].st = "served"
    /\ keys' = caller[c].doc /\ fetched' = now
    /\ caller' = [caller EXCEPT ![c] = [st |-> "stored", kid |-> @.kid]]
    /\ UNCHANGED <<published, dropped, passed, now>>

(* A fetch that fails, or that RefreshTimeout cuts, refuses its request    *)
(* and leaves the cache alone.                                             *)
FetchFails(c) ==
    /\ caller[c].st \in {"fetching", "served"}
    /\ caller' = [caller EXCEPT ![c] = Free]
    /\ UNCHANGED <<published, dropped, keys, fetched, passed, now>>

(* The second look-up, after the caller's own refresh, asks no freshness.  *)
LookAgain(c) ==
    /\ caller[c].st = "stored"
    /\ IF caller[c].kid \in keys
         THEN Decide(c, caller[c].kid)
         ELSE caller' = [caller EXCEPT ![c] = Free] /\ UNCHANGED passed
    /\ UNCHANGED <<published, dropped, keys, fetched, now>>

-----------------------------------------------------------------------------
(* The provider: a key it dropped does not come back.                      *)
Publish(k) ==
    /\ k \notin published /\ dropped[k] = Never
    /\ published' = published \cup {k}
    /\ UNCHANGED <<dropped, keys, fetched, caller, passed, now>>

DropKey(k) ==
    /\ k \in published
    /\ published' = published \ {k}
    /\ dropped' = [dropped EXCEPT ![k] = now]
    /\ UNCHANGED <<keys, fetched, caller, passed, now>>

(* No fetch outlives its timeout, and code takes no time.                  *)
KeysetTick ==
    /\ now < MaxNow
    /\ \A c \in Callers : /\ caller[c].st # "stored"
                          /\ caller[c].st \in {"fetching", "served"} => now - caller[c].since < RefreshTimeout
    /\ now' = now + 1
    /\ UNCHANGED <<published, dropped, keys, fetched, caller, passed>>

KeysetNext ==
    \/ \E c \in Callers, k \in Kids : Hit(c, k) \/ Miss(c, k)
    \/ \E c \in Callers : Serve(c) \/ StoreKeys(c) \/ FetchFails(c) \/ LookAgain(c)
    \/ \E k \in Kids : Publish(k) \/ DropKey(k)
    \/ KeysetTick

KeysetSpec == KeysetInit /\ [][KeysetNext]_keysetVars

-----------------------------------------------------------------------------
(* A token whose key the provider has dropped is refused from CacheTTL +   *)
(* RefreshTimeout on, although concurrent refreshes overwrite the keyset   *)
(* in any order and a late one brings the dropped key back.                *)
DroppedKeysExpire == passed < CacheTTL + RefreshTimeout

=============================================================================
