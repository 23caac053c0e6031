------------------------- MODULE ControlPlaneProofs -------------------------
(***************************************************************************)
(* The control plane's components, each for any requests, keys and rows:   *)
(* the key cache under rotation, promotions that interleave between the    *)
(* gates and the update, the gateway's idempotency as an implementation of *)
(* AnswerOnce, paged listings while rows come and go, and the closers      *)
(* every service's process ends in.                                        *)
(***************************************************************************)
EXTENDS Gateway, Keyset, Lifecycle, Listing, ModelRegistry, SequenceTheorems, SetSums

-----------------------------------------------------------------------------
(* Keyset.  What bounds a dropped key's life is how old a document can be  *)
(* when it is stored: it was read after its fetch began, and a fetch lives *)
(* for RefreshTimeout.                                                     *)

CallerStates ==
  {Free} \cup [st : {"fetching"}, kid : Kids, since : Int]
         \cup [st : {"served"}, kid : Kids, since : Int, doc : SUBSET Kids]
         \cup [st : {"stored"}, kid : Kids]

KeysetTypeOK ==
  /\ published \in SUBSET Kids
  /\ dropped \in [Kids -> Int]
  /\ keys \in SUBSET Kids /\ fetched \in Int
  /\ caller \in [Callers -> CallerStates]
  /\ passed \in Int
  /\ now \in Nat

\* A key that is published was not dropped.
PublishedStands == \A k \in published : dropped[k] = Never

\* A key that was still in a document at time t was dropped later, if at all.
DroppedSince(k, t) == dropped[k] = Never \/ dropped[k] >= t

\* A fetch in progress is young, and its document no older than the fetch.
FetchOK(c) ==
  /\ caller[c].st \in {"fetching", "served"} =>
       caller[c].since <= now /\ now - caller[c].since <= RefreshTimeout
  /\ caller[c].st = "served" => \A k \in caller[c].doc : DroppedSince(k, caller[c].since)
  /\ caller[c].st = "stored" => fetched = now

KeysetInv ==
  /\ KeysetTypeOK
  /\ PublishedStands
  /\ fetched <= now
  /\ \A c \in Callers : FetchOK(c)
  /\ \A k \in keys : DroppedSince(k, fetched - RefreshTimeout)
  /\ DroppedKeysExpire

LEMMA KeysetInitInv == KeysetInit => KeysetInv
  BY KeysetAssumption
  DEF KeysetInit, KeysetInv, KeysetTypeOK, PublishedStands, FetchOK, DroppedSince, DroppedKeysExpire,
      CallerStates, Free, Never

LEMMA KeysetNextInv == KeysetInv /\ [KeysetNext]_keysetVars => KeysetInv'
<1> SUFFICES ASSUME KeysetInv, [KeysetNext]_keysetVars PROVE KeysetInv'
  OBVIOUS
<1> USE KeysetAssumption DEF KeysetInv, KeysetTypeOK
<1>1. ASSUME NEW c \in Callers, NEW k \in Kids, caller' = [caller EXCEPT ![c] = Free],
             passed' = passed \/ (dropped[k] # Never /\ passed' = now - dropped[k]),
             dropped[k] # Never => now - dropped[k] < CacheTTL + RefreshTimeout,
             UNCHANGED <<published, dropped, keys, fetched, now>>
      PROVE KeysetInv'
  <2>1. KeysetTypeOK'
    BY <1>1 DEF CallerStates, Free, Never
  <2>2. \A d \in Callers : FetchOK(d)'
    BY <1>1 DEF FetchOK, DroppedSince, Free
  <2>3. DroppedKeysExpire'
    BY <1>1 DEF DroppedKeysExpire
  <2> QED
    BY <1>1, <2>1, <2>2, <2>3 DEF PublishedStands, DroppedSince
<1>2. ASSUME NEW c \in Callers, NEW k \in Kids, Hit(c, k) PROVE KeysetInv'
  <2>1. dropped[k] # Never => now - dropped[k] < CacheTTL + RefreshTimeout
    BY <1>2 DEF Hit, DroppedSince
  <2>2. passed' = passed \/ (dropped[k] # Never /\ passed' = now - dropped[k])
    BY <1>2 DEF Hit, Decide, Accept
  <2> QED
    BY <1>1, <1>2, <2>1, <2>2 DEF Hit, Decide
<1>3. ASSUME NEW c \in Callers, NEW k \in Kids, Miss(c, k) PROVE KeysetInv'
  <2>1. KeysetTypeOK'
    BY <1>3 DEF Miss, CallerStates
  <2>2. \A d \in Callers : FetchOK(d)'
    BY <1>3 DEF Miss, FetchOK, DroppedSince
  <2> QED
    BY <1>3, <2>1, <2>2 DEF Miss, PublishedStands, DroppedSince, DroppedKeysExpire
<1>4. ASSUME NEW c \in Callers, Serve(c) PROVE KeysetInv'
  <2> DEFINE kid == caller[c].kid
             since == caller[c].since
  <2>0. caller[c].st = "fetching" /\ kid \in Kids /\ since \in Int
    BY <1>4 DEF Serve, CallerStates, Free
  <2>1. caller' = [caller EXCEPT ![c] = [st |-> "served", kid |-> kid, since |-> since, doc |-> published]]
    BY <1>4 DEF Serve
  <2>2. KeysetTypeOK'
    BY <1>4, <2>0, <2>1 DEF Serve, CallerStates
  <2>3. FetchOK(c)'
    BY <1>4, <2>0, <2>1 DEF Serve, FetchOK, DroppedSince, PublishedStands
  <2>4. \A d \in Callers \ {c} : FetchOK(d)'
    BY <1>4, <2>1 DEF Serve, FetchOK, DroppedSince
  <2> QED
    BY <1>4, <2>2, <2>3, <2>4 DEF Serve, PublishedStands, DroppedSince, DroppedKeysExpire
<1>5. ASSUME NEW c \in Callers, StoreKeys(c) PROVE KeysetInv'
  <2>0. /\ caller[c].st = "served" /\ caller[c].kid \in Kids
        /\ caller[c].since \in Int /\ caller[c].doc \in SUBSET Kids
    BY <1>5 DEF StoreKeys, CallerStates, Free
  <2>1. \A k \in keys' : DroppedSince(k, fetched' - RefreshTimeout)
    BY <1>5, <2>0 DEF StoreKeys, FetchOK, DroppedSince
  <2>2. KeysetTypeOK'
    BY <1>5, <2>0 DEF StoreKeys, CallerStates
  <2>3. \A d \in Callers : FetchOK(d)'
    BY <1>5, <2>0 DEF StoreKeys, FetchOK, DroppedSince
  <2> QED
    BY <1>5, <2>1, <2>2, <2>3 DEF StoreKeys, PublishedStands, DroppedSince, DroppedKeysExpire
<1>6. ASSUME NEW c \in Callers, FetchFails(c) PROVE KeysetInv'
  <2>1. KeysetTypeOK'
    BY <1>6 DEF FetchFails, CallerStates
  <2>2. \A d \in Callers : FetchOK(d)'
    BY <1>6 DEF FetchFails, FetchOK, DroppedSince, Free
  <2> QED
    BY <1>6, <2>1, <2>2 DEF FetchFails, PublishedStands, DroppedSince, DroppedKeysExpire
<1>7. ASSUME NEW c \in Callers, LookAgain(c) PROVE KeysetInv'
  <2>1. caller[c].st = "stored" /\ caller[c].kid \in Kids
    BY <1>7 DEF LookAgain, CallerStates, Free
  <2>2. fetched = now
    BY <2>1 DEF FetchOK
  <2>3. PICK k \in Kids : k = caller[c].kid
    BY <2>1
  <2>4. CASE k \in keys
    <3>1. dropped[k] # Never => now - dropped[k] < CacheTTL + RefreshTimeout
      BY <2>2, <2>4 DEF DroppedSince
    <3>2. passed' = passed \/ (dropped[k] # Never /\ passed' = now - dropped[k])
      BY <1>7, <2>3, <2>4 DEF LookAgain, Decide, Accept
    <3> QED
      BY <1>1, <1>7, <2>3, <2>4, <3>1, <3>2 DEF LookAgain, Decide
  <2>5. CASE k \notin keys
    <3>1. KeysetTypeOK'
      BY <1>7, <2>3, <2>5 DEF LookAgain, CallerStates
    <3>2. \A d \in Callers : FetchOK(d)'
      BY <1>7, <2>3, <2>5 DEF LookAgain, FetchOK, DroppedSince, Free
    <3> QED
      BY <1>7, <2>3, <2>5, <3>1, <3>2 DEF LookAgain, PublishedStands, DroppedSince, DroppedKeysExpire
  <2> QED
    BY <2>4, <2>5
<1>8. ASSUME NEW k \in Kids, Publish(k) PROVE KeysetInv'
  BY <1>8 DEF Publish, PublishedStands, FetchOK, DroppedSince, DroppedKeysExpire
<1>9. ASSUME NEW k \in Kids, DropKey(k) PROVE KeysetInv'
  <2>1. KeysetTypeOK'
    BY <1>9 DEF DropKey
  <2>2. \A j \in Kids, t \in Int : t <= now /\ DroppedSince(j, t) => DroppedSince(j, t)'
    BY <1>9 DEF DropKey, DroppedSince
  <2>3. \A d \in Callers : FetchOK(d)'
    <3> SUFFICES ASSUME NEW d \in Callers PROVE FetchOK(d)'
      OBVIOUS
    <3>1. caller[d].st = "served" => caller[d].since \in Int /\ caller[d].doc \in SUBSET Kids
      BY DEF CallerStates, Free
    <3>2. caller[d].st = "served" => \A j \in caller[d].doc : DroppedSince(j, caller[d].since)'
      BY <1>9, <2>2, <3>1 DEF DropKey, FetchOK, DroppedSince
    <3> QED
      BY <1>9, <3>2 DEF DropKey, FetchOK, DroppedSince
  <2>4. \A j \in keys : DroppedSince(j, fetched - RefreshTimeout)'
    BY <1>9, <2>2 DEF DropKey, DroppedSince
  <2> QED
    BY <1>9, <2>1, <2>3, <2>4 DEF DropKey, PublishedStands, DroppedKeysExpire
<1>10. ASSUME KeysetTick PROVE KeysetInv'
  <2>1. \A d \in Callers : FetchOK(d)'
    <3> SUFFICES ASSUME NEW d \in Callers PROVE FetchOK(d)'
      OBVIOUS
    <3>1. caller[d].st \in {"fetching", "served"} => caller[d].since \in Int
      BY DEF CallerStates, Free
    <3> QED
      BY <1>10, <3>1 DEF KeysetTick, FetchOK, DroppedSince
  <2> QED
    BY <1>10, <2>1 DEF KeysetTick, PublishedStands, DroppedSince, DroppedKeysExpire
<1>11. CASE UNCHANGED keysetVars
  BY <1>11 DEF keysetVars, PublishedStands, FetchOK, DroppedSince, DroppedKeysExpire
<1> QED
  BY <1>2, <1>3, <1>4, <1>5, <1>6, <1>7, <1>8, <1>9, <1>10, <1>11 DEF KeysetNext

\* Whatever order concurrent refreshes store their documents in, no token of
\* a dropped key passes once CacheTTL + RefreshTimeout are over.
THEOREM DroppedKeysAreRefused == KeysetSpec => []DroppedKeysExpire
<1>1. KeysetInv => DroppedKeysExpire
  BY DEF KeysetInv
<1> QED
  BY KeysetInitInv, KeysetNextInv, <1>1, PTL DEF KeysetSpec

-----------------------------------------------------------------------------
(* ModelRegistry.  The gates hold of what the update does although they    *)
(* were asked of a row read before: what they look at (a version's model,  *)
(* profiles and fairness, a model's kind) is never written again.          *)

VersionRows ==
  [model : Models \cup {Orphan}, semver : Semvers, profiles : SUBSET BOOLEAN, fairness : BOOLEAN,
   channel : Channels, version : Nat]

PromotionStates ==
  [st : {"idle", "refused"}]
    \cup [st : {"read", "answered"}, version : Versions, channel : Channels, seen : Nat]

RegistryTypeOK ==
  /\ models \in [DOMAIN models -> ModelKinds] /\ DOMAIN models \subseteq Models
  /\ versions \in [DOMAIN versions -> VersionRows] /\ DOMAIN versions \subseteq Versions
  /\ promotion \in [Promoters -> PromotionStates]
  /\ updates \in [Versions -> Nat]
  /\ dbFaults \in Nat

\* Updates are updates of rows.
UpdatesHaveRows == \A v \in Versions \ DOMAIN versions : updates[v] = 0

\* A version that may be on STABLE.
Gated(v) ==
  /\ versions[v].model \in DOMAIN models
  /\ TRUE \in versions[v].profiles
  /\ models[versions[v].model] = "face" => versions[v].fairness

\* What a request has read of a row still opens the gates.
PromotionOK(p) ==
  promotion[p].st \in {"read", "answered"} =>
    LET v == promotion[p].version
    IN  /\ v \in DOMAIN versions
        /\ promotion[p].seen <= versions[v].version
        /\ promotion[p].channel = "stable" => Gated(v)

VersionOK(v) ==
  /\ versions[v].channel = "stable" => Gated(v)
  /\ versions[v].version = 1 + updates[v]

RegistryInv ==
  /\ RegistryTypeOK
  /\ UpdatesHaveRows
  /\ \A v \in DOMAIN versions : VersionOK(v)
  /\ \A p \in Promoters : PromotionOK(p)

LEMMA RegistryInitInv == RegistryInit => RegistryInv
  BY RegistryAssumption
  DEF RegistryInit, RegistryInv, RegistryTypeOK, UpdatesHaveRows, VersionOK, PromotionOK, PromotionStates

\* A channel update of a version whose gates are open leaves every request
\* and every row as they have to be.
LEMMA UpdateKeeps ==
  ASSUME RegistryInv, NEW p \in Promoters, promotion[p].st = "read",
         versions' = [versions EXCEPT ![promotion[p].version] = Promoted(@, promotion[p])],
         updates' = [updates EXCEPT ![promotion[p].version] = @ + 1],
         UNCHANGED models
  PROVE  /\ versions' \in [DOMAIN versions -> VersionRows] /\ DOMAIN versions' = DOMAIN versions
         /\ updates' \in [Versions -> Nat]
         /\ UpdatesHaveRows'
         /\ \A v \in DOMAIN versions : Gated(v) => Gated(v)'
         /\ \A v \in DOMAIN versions : VersionOK(v)'
         /\ \A v \in DOMAIN versions : versions[v].version <= versions'[v].version
         /\ versions'[promotion[p].version].version = versions[promotion[p].version].version + 1
<1> USE DEF RegistryInv, RegistryTypeOK
<1>0. /\ promotion[p].version \in Versions /\ promotion[p].channel \in Channels
      /\ promotion[p].version \in DOMAIN versions
  BY DEF PromotionStates, PromotionOK
<1>1. PICK u \in DOMAIN versions, ch \in Channels : u = promotion[p].version /\ ch = promotion[p].channel
  BY <1>0
<1>2. ch = "stable" => Gated(u)
  BY <1>1 DEF PromotionOK
<1> DEFINE row == [versions[u] EXCEPT !.channel = ch, !.version = @ + 1]
<1>3. versions' = [versions EXCEPT ![u] = row]
  BY <1>1 DEF Promoted
<1>4. /\ row \in VersionRows
      /\ row.model = versions[u].model /\ row.profiles = versions[u].profiles
      /\ row.fairness = versions[u].fairness
      /\ row.channel = ch /\ row.version = versions[u].version + 1
  <2>1. versions[u] \in VersionRows
    BY <1>1
  <2>2. PICK n \in Nat : n = versions[u].version + 1
    BY <2>1 DEF VersionRows
  <2>3. row = [versions[u] EXCEPT !.channel = ch, !.version = n]
    BY <2>2
  <2> HIDE DEF row
  <2> QED
    BY ONLY <2>1, <2>2, <2>3, ch \in Channels DEF VersionRows
<1> HIDE DEF row
<1>5. versions' \in [DOMAIN versions -> VersionRows] /\ DOMAIN versions' = DOMAIN versions
  BY <1>3, <1>4
<1>6. updates' \in [Versions -> Nat] /\ UpdatesHaveRows'
  BY <1>0, <1>1, <1>5 DEF UpdatesHaveRows
<1>7. \A v \in DOMAIN versions : Gated(v) => Gated(v)'
  BY <1>3, <1>4 DEF Gated
<1>8. \A v \in DOMAIN versions : versions[v].version \in Nat /\ updates[v] \in Nat
  BY DEF VersionRows
<1>9. \A v \in DOMAIN versions : VersionOK(v)'
  BY <1>1, <1>2, <1>3, <1>4, <1>7, <1>8 DEF VersionOK
<1>10. \A v \in DOMAIN versions : versions[v].version <= versions'[v].version
  BY <1>3, <1>4, <1>8
<1> QED
  BY <1>1, <1>3, <1>4, <1>5, <1>6, <1>7, <1>9, <1>10

LEMMA RegistryNextInv == RegistryInv /\ [RegistryNext]_registryVars => RegistryInv'
<1> SUFFICES ASSUME RegistryInv, [RegistryNext]_registryVars PROVE RegistryInv'
  OBVIOUS
<1> USE RegistryAssumption DEF RegistryInv, RegistryTypeOK
<1>1. ASSUME NEW m \in Models, NEW kind \in ModelKinds, CreateModel(m, kind) PROVE RegistryInv'
  <2>1. RegistryTypeOK'
    BY <1>1 DEF CreateModel, WithRow
  <2>2. \A v \in DOMAIN versions : Gated(v) => Gated(v)'
    BY <1>1 DEF CreateModel, WithRow, Gated
  <2> QED
    BY <1>1, <2>1, <2>2 DEF CreateModel, UpdatesHaveRows, VersionOK, PromotionOK
<1>2. ASSUME NEW v \in Versions, NEW m \in DOMAIN models \cup {Orphan}, NEW semver \in Semvers,
             NEW profiles \in SUBSET BOOLEAN, NEW fairness \in BOOLEAN,
             CreateModelVersion(v, m, semver, profiles, fairness)
      PROVE RegistryInv'
  <2> DEFINE row == NewVersion(m, semver, profiles, fairness)
  <2>1. row \in VersionRows /\ row.channel = "canary" /\ row.version = 1
    BY DEF VersionRows, NewVersion, Channels
  <2> HIDE DEF row
  <2>2. v \notin DOMAIN versions /\ versions' = WithRow(versions, v, row)
    BY <1>2 DEF CreateModelVersion, row
  <2>3. /\ versions' \in [DOMAIN versions' -> VersionRows] /\ DOMAIN versions' = DOMAIN versions \cup {v}
        /\ versions'[v] = row /\ \A w \in DOMAIN versions : versions'[w] = versions[w]
    BY <2>1, <2>2 DEF WithRow
  <2>4. RegistryTypeOK'
    BY <1>2, <2>3 DEF CreateModelVersion
  <2>5. \A w \in DOMAIN versions : Gated(w) => Gated(w)'
    BY <1>2, <2>3 DEF CreateModelVersion, Gated
  <2>6. \A w \in DOMAIN versions' : VersionOK(w)'
    BY <1>2, <2>1, <2>2, <2>3, <2>5 DEF CreateModelVersion, VersionOK, UpdatesHaveRows
  <2>7. \A p \in Promoters : PromotionOK(p)'
    BY <1>2, <2>3, <2>5 DEF CreateModelVersion, PromotionOK
  <2> QED
    BY <1>2, <2>3, <2>4, <2>6, <2>7 DEF CreateModelVersion, UpdatesHaveRows
<1>3. ASSUME NEW p \in Promoters, NEW v \in Versions, NotFound(p, v) PROVE RegistryInv'
  <2>1. promotion' \in [Promoters -> PromotionStates]
    BY <1>3 DEF NotFound, PromotionStates
  <2>2. \A q \in Promoters : PromotionOK(q)'
    BY <1>3 DEF NotFound, PromotionOK, Gated
  <2> QED
    BY <1>3, <2>1, <2>2 DEF NotFound, UpdatesHaveRows, VersionOK, Gated
<1>4. ASSUME NEW p \in Promoters, NEW v \in Versions, NEW ch \in Channels, ReadVersion(p, v, ch)
      PROVE RegistryInv'
  <2> DEFINE pass == [st |-> "read", version |-> v, channel |-> ch, seen |-> versions[v].version]
  <2>1. v \in DOMAIN versions /\ versions[v] \in VersionRows /\ versions[v].version \in Nat
    BY <1>4 DEF ReadVersion, GetVersionAndKind, VersionRows
  <2>2. UNCHANGED <<models, versions, updates, dbFaults>>
    BY <1>4 DEF ReadVersion
  <2>3. CASE promotion' = [promotion EXCEPT ![p] = pass] /\ (ch = "stable" => Gated(v))
    <3>1. promotion' \in [Promoters -> PromotionStates]
      BY <2>1, <2>3 DEF PromotionStates
    <3>2. PromotionOK(p)'
      <4>1. promotion'[p] = pass
        BY <2>3
      <4>2. Gated(v) => Gated(v)'
        BY <2>2 DEF Gated
      <4> QED
        BY <2>1, <2>2, <2>3, <4>1, <4>2 DEF PromotionOK
    <3>3. \A q \in Promoters \ {p} : PromotionOK(q)'
      BY <2>2, <2>3 DEF PromotionOK, Gated
    <3> QED
      BY <2>2, <3>1, <3>2, <3>3 DEF UpdatesHaveRows, VersionOK, Gated
  <2>4. CASE promotion' = [promotion EXCEPT ![p] = [st |-> "refused"]]
    <3>1. promotion' \in [Promoters -> PromotionStates]
      BY <2>4 DEF PromotionStates
    <3>2. \A q \in Promoters : PromotionOK(q)'
      BY <2>2, <2>4 DEF PromotionOK, Gated
    <3> QED
      BY <2>2, <3>1, <3>2 DEF UpdatesHaveRows, VersionOK, Gated
  <2>5. \/ promotion' = [promotion EXCEPT ![p] = pass] /\ (ch = "stable" => Gated(v))
        \/ promotion' = [promotion EXCEPT ![p] = [st |-> "refused"]]
    BY <1>4 DEF ReadVersion, Promotable, Gated, GetVersionAndKind
  <2> QED
    BY <2>3, <2>4, <2>5
<1>5. ASSUME NEW p \in Promoters, UpdateChannel(p) PROVE RegistryInv'
  <2>0. promotion[p].st = "read" /\ UNCHANGED <<models, dbFaults>>
    BY <1>5 DEF UpdateChannel
  <2>1. /\ versions' = [versions EXCEPT ![promotion[p].version] = Promoted(@, promotion[p])]
        /\ updates' = [updates EXCEPT ![promotion[p].version] = @ + 1]
    BY <1>5 DEF UpdateChannel
  <2>2. /\ versions' \in [DOMAIN versions -> VersionRows] /\ DOMAIN versions' = DOMAIN versions
        /\ updates' \in [Versions -> Nat]
        /\ UpdatesHaveRows'
        /\ \A v \in DOMAIN versions : Gated(v) => Gated(v)'
        /\ \A v \in DOMAIN versions : VersionOK(v)'
        /\ \A v \in DOMAIN versions : versions[v].version <= versions'[v].version
        /\ versions'[promotion[p].version].version = versions[promotion[p].version].version + 1
    BY <2>0, <2>1, UpdateKeeps
  <2>3. promotion[p] \in [st : {"read", "answered"}, version : Versions, channel : Channels, seen : Nat]
    BY <2>0 DEF PromotionStates
  <2> DEFINE answer == [promotion[p] EXCEPT !.st = "answered", !.seen = @ + 1]
  <2>4. promotion' = [promotion EXCEPT ![p] = answer]
    BY <1>5 DEF UpdateChannel
  <2>5. /\ answer \in [st : {"read", "answered"}, version : Versions, channel : Channels, seen : Nat]
        /\ answer.version = promotion[p].version /\ answer.channel = promotion[p].channel
        /\ answer.seen = promotion[p].seen + 1 /\ answer.st = "answered"
    <3>1. PICK n \in Nat : n = promotion[p].seen + 1
      BY <2>3
    <3>2. answer = [promotion[p] EXCEPT !.st = "answered", !.seen = n]
      BY <3>1
    <3> HIDE DEF answer
    <3> QED
      BY ONLY <2>3, <3>1, <3>2
  <2> HIDE DEF answer
  <2>6. promotion' \in [Promoters -> PromotionStates]
    BY <2>4, <2>5 DEF PromotionStates
  <2>7. \A v \in DOMAIN versions : versions[v].version \in Nat /\ versions'[v].version \in Nat
    BY <2>2 DEF VersionRows
  <2>8. PromotionOK(p)'
    BY <2>0, <2>2, <2>3, <2>4, <2>5, <2>7 DEF PromotionOK
  <2>9. \A q \in Promoters \ {p} : PromotionOK(q)'
    <3> SUFFICES ASSUME NEW q \in Promoters \ {p} PROVE PromotionOK(q)'
      OBVIOUS
    <3>1. promotion'[q] = promotion[q]
      BY <2>4
    <3>2. promotion[q].st \in {"read", "answered"} => promotion[q].seen \in Nat
      BY DEF PromotionStates
    <3> QED
      BY <2>2, <2>7, <3>1, <3>2 DEF PromotionOK
  <2> QED
    BY <2>0, <2>2, <2>6, <2>8, <2>9
<1>6. ASSUME NEW p \in Promoters, NEW written \in BOOLEAN, UpdateFails(p, written) PROVE RegistryInv'
  <2>0. /\ promotion[p].st = "read" /\ UNCHANGED models /\ dbFaults' \in Nat
        /\ promotion' = [promotion EXCEPT ![p] = [st |-> "refused"]]
    BY <1>6 DEF UpdateFails
  <2>1. promotion' \in [Promoters -> PromotionStates]
    BY <2>0 DEF PromotionStates
  <2>2. CASE UNCHANGED <<versions, updates>>
    <3>1. \A q \in Promoters : PromotionOK(q)'
      BY <2>0, <2>2 DEF PromotionOK, Gated
    <3> QED
      BY <2>0, <2>1, <2>2, <3>1 DEF UpdatesHaveRows, VersionOK, Gated
  <2>3. CASE /\ versions' = [versions EXCEPT ![promotion[p].version] = Promoted(@, promotion[p])]
             /\ updates' = [updates EXCEPT ![promotion[p].version] = @ + 1]
    <3>1. /\ versions' \in [DOMAIN versions -> VersionRows] /\ DOMAIN versions' = DOMAIN versions
          /\ updates' \in [Versions -> Nat]
          /\ UpdatesHaveRows'
          /\ \A v \in DOMAIN versions : Gated(v) => Gated(v)'
          /\ \A v \in DOMAIN versions : VersionOK(v)'
          /\ \A v \in DOMAIN versions : versions[v].version <= versions'[v].version
      BY <2>0, <2>3, UpdateKeeps
    <3>2. \A v \in DOMAIN versions : versions[v].version \in Nat /\ versions'[v].version \in Nat
      BY <3>1 DEF VersionRows
    <3>3. \A q \in Promoters : PromotionOK(q)'
      <4> SUFFICES ASSUME NEW q \in Promoters PROVE PromotionOK(q)'
        OBVIOUS
      <4>1. promotion'[q] = IF q = p THEN [st |-> "refused"] ELSE promotion[q]
        BY <2>0
      <4>2. promotion[q].st \in {"read", "answered"} => promotion[q].seen \in Nat
        BY DEF PromotionStates
      <4> QED
        BY <3>1, <3>2, <4>1, <4>2 DEF PromotionOK
    <3> QED
      BY <2>0, <2>1, <3>1, <3>3
  <2> QED
    BY <1>6, <2>2, <2>3 DEF UpdateFails
<1>7. CASE UNCHANGED registryVars
  BY <1>7 DEF registryVars, UpdatesHaveRows, VersionOK, PromotionOK, Gated
<1> HIDE DEF RegistryInv
<1> QED
  BY <1>1, <1>2, <1>3, <1>4, <1>5, <1>6, <1>7 DEF RegistryNext

\* However promotions of one version interleave between the gates and the
\* update, and whatever updates fail before or after they were written, the
\* gates hold of every version on STABLE and no promotion is lost.
THEOREM PromotionsStayGated == RegistrySpec => []PromotionsAreGated
<1>1. RegistryInv => PromotionsAreGated
  BY DEF RegistryInv, PromotionsAreGated, VersionOK, Gated, PromotionOK
<1> QED
  BY RegistryInitInv, RegistryNextInv, <1>1, PTL DEF RegistrySpec

-----------------------------------------------------------------------------
(* Gateway.  An attempt is replayed one of the answers told before it      *)
(* began, and one that reaches the handler began when none was told: that  *)
(* holds because the store and what was told agree on every key, whatever  *)
(* expires, is evicted or overwritten.                                     *)

NoRequest == [op |-> "none", body |-> "none"]
Minted == [of : {"minted"}, id : 1..Cardinality(Attempts)]

AttemptStates ==
  [st : {"idle", "replay", "handler", "started", "acted", "ended"}, key : Keys \cup {NoKey},
   rq : Requests \cup {NoRequest}, ans : Answers \cup {NoAnswer}, only : SUBSET Answers]

AttemptOK(a) ==
  /\ InProgress(a) => att[a].rq \in Requests
  /\ att[a].st = "replay" => att[a].key \in Keys /\ att[a].ans \in att[a].only
  /\ att[a].st \in {"handler", "started", "acted"} => att[a].only = {}
  /\ att[a].st = "started" => att[a].ans \in Minted
  /\ att[a].st = "acted" => att[a].ans \in Answers

AttemptsOK ==
  /\ att \in [Attempts -> AttemptStates]
  /\ \A a \in Attempts : AttemptOK(a)

\* A key that would be replayed is one whose answer was told, and a key that
\* was told an answer would be replayed.
StoreOK ==
  /\ DOMAIN entries \subseteq Keys
  /\ entries \in [DOMAIN entries -> [body : Bodies, ans : Answers, exp : Nat]]
  /\ told \in [Keys -> SUBSET (Bodies \X Answers)]
  /\ clock \in Nat
  /\ \A k \in Keys : Live(k) => <<entries[k].body, entries[k].ans>> \in told[k]
  /\ \A k \in Keys : ~Live(k) => told[k] = {}

\* An attempt mints one id at most: the ids fit Answers.
Spent == {a \in Attempts : att[a].st \in {"started", "acted", "ended"}}
MintOK == minted \in Nat /\ minted <= Cardinality(Spent)

GatewayInv == AttemptsOK /\ StoreOK /\ MintOK

LEMMA GatewayInitInv == GatewayInit => GatewayInv
<1> SUFFICES ASSUME GatewayInit PROVE GatewayInv
  OBVIOUS
<1> USE GatewayAssumption DEF GatewayInit
<1>1. Unborn \in AttemptStates /\ Unborn.st = "idle"
  BY DEF Unborn, AttemptStates, NoRequest
<1>2. AttemptsOK
  BY <1>1 DEF AttemptsOK, AttemptOK, InProgress
<1>3. DOMAIN entries = {}
  OBVIOUS
<1>4. StoreOK
  BY <1>3 DEF StoreOK, Live
<1>5. Spent = {}
  BY <1>1 DEF Spent
<1>6. MintOK
  BY <1>5, FS_EmptySet DEF MintOK
<1> QED
  BY <1>2, <1>4, <1>6 DEF GatewayInv

\* A step of one attempt that mints nothing.
LEMMA NoMint ==
  ASSUME GatewayInv, NEW a \in Attempts, NEW x, att' = [att EXCEPT ![a] = x], minted' = minted,
         a \in Spent => x.st \in {"started", "acted", "ended"}
  PROVE  MintOK'
<1>1. Spent \subseteq Spent' /\ Spent' \subseteq Attempts
  BY DEF GatewayInv, AttemptsOK, Spent
<1>2. IsFiniteSet(Spent')
  BY <1>1, FS_Subset, GatewayAssumption
<1>3. Cardinality(Spent) <= Cardinality(Spent') /\ Cardinality(Spent) \in Nat /\ Cardinality(Spent') \in Nat
  BY <1>1, <1>2, FS_Subset, FS_CardinalityType
<1> QED
  BY <1>3 DEF GatewayInv, MintOK

\* A step of one attempt that mints an id.
LEMMA Mint ==
  ASSUME GatewayInv, NEW a \in Attempts, NEW x, att' = [att EXCEPT ![a] = x], minted' = minted + 1,
         a \notin Spent, x.st \in {"started", "acted", "ended"}
  PROVE  MintOK' /\ minted + 1 \in 1..Cardinality(Attempts)
<1>1. Spent' = Spent \cup {a} /\ Spent' \subseteq Attempts
  BY DEF GatewayInv, AttemptsOK, Spent
<1>2. IsFiniteSet(Spent) /\ IsFiniteSet(Spent')
  BY <1>1, FS_Subset, GatewayAssumption
<1>3. Cardinality(Spent') = Cardinality(Spent) + 1 /\ Cardinality(Spent) \in Nat
  BY <1>1, <1>2, FS_AddElement, FS_CardinalityType
<1>4. Cardinality(Spent') <= Cardinality(Attempts) /\ Cardinality(Attempts) \in Nat
  BY <1>1, <1>2, FS_Subset, FS_CardinalityType, GatewayAssumption
<1> QED
  BY <1>3, <1>4 DEF GatewayInv, MintOK

\* An attempt that ends.
LEMMA EndedState ==
  ASSUME NEW k, NEW r \in Answers \cup {NoAnswer}
  PROVE  /\ Ended(k, r) \in AttemptStates
         /\ Ended(k, r).st = "ended"
         /\ k = NoKey => Ended(k, r).ans = NoAnswer
         /\ k # NoKey => Ended(k, r).ans = r
BY DEF Ended, Unborn, AttemptStates, NoRequest

\* A step of one attempt to a state that is as it has to be.
LEMMA AttemptMoves ==
  ASSUME GatewayInv, NEW a \in Attempts, NEW x \in AttemptStates, att' = [att EXCEPT ![a] = x],
         AttemptOK(a)'
  PROVE  AttemptsOK'
<1>1. att' \in [Attempts -> AttemptStates]
  BY DEF GatewayInv, AttemptsOK
<1>2. \A b \in Attempts \ {a} : AttemptOK(b)'
  BY DEF GatewayInv, AttemptsOK, AttemptOK, InProgress
<1> QED
  BY <1>1, <1>2 DEF AttemptsOK

LEMMA AttemptEnds ==
  ASSUME GatewayInv, NEW a \in Attempts, NEW k, NEW r \in Answers \cup {NoAnswer},
         att' = [att EXCEPT ![a] = Ended(k, r)], minted' = minted
  PROVE  AttemptsOK' /\ MintOK'
<1>1. att'[a].st = "ended"
  BY EndedState DEF GatewayInv, AttemptsOK
<1>2. AttemptOK(a)'
  BY <1>1 DEF AttemptOK, InProgress
<1>3. AttemptsOK'
  BY <1>2, EndedState, AttemptMoves
<1>4. MintOK'
  BY EndedState, NoMint
<1> QED
  BY <1>3, <1>4

\* A step of one attempt through its handler: what it was asked, under which
\* key and with which answers told stays.
LEMMA HandlerMoves ==
  ASSUME GatewayInv, NEW a \in Attempts, att[a].st \in {"handler", "started"},
         NEW st \in {"started", "acted"}, NEW r \in Answers, st = "started" => r \in Minted,
         att' = [att EXCEPT ![a].st = st, ![a].ans = r]
  PROVE  /\ AttemptsOK'
         /\ att' = [att EXCEPT ![a] = att'[a]]
         /\ att'[a].st = st /\ att'[a].ans = r
         /\ att'[a].key = att[a].key /\ att'[a].rq = att[a].rq /\ att'[a].only = att[a].only
<1> DEFINE x == [att[a] EXCEPT !.st = st, !.ans = r]
<1>1. att[a] \in AttemptStates /\ att[a].rq \in Requests /\ att[a].only = {}
  BY DEF GatewayInv, AttemptsOK, AttemptOK, InProgress
<1>2. /\ x \in AttemptStates /\ x.st = st /\ x.ans = r
      /\ x.key = att[a].key /\ x.rq = att[a].rq /\ x.only = att[a].only
  BY ONLY <1>1, st \in {"started", "acted"}, r \in Answers DEF AttemptStates
<1>3. att' = [att EXCEPT ![a] = x]
  OBVIOUS
<1> HIDE DEF x
<1>4. att'[a] = x
  BY <1>3 DEF GatewayInv, AttemptsOK
<1>5. AttemptOK(a)'
  BY <1>1, <1>2, <1>4 DEF AttemptOK, InProgress
<1>6. AttemptsOK'
  BY <1>2, <1>3, <1>5, AttemptMoves
<1> QED
  BY <1>2, <1>3, <1>4, <1>6

\* The store and what was told, where neither changes.
LEMMA StoreStays ==
  ASSUME StoreOK, UNCHANGED <<entries, told, clock>> PROVE StoreOK'
BY DEF StoreOK, Live

\* Get keeps every entry that is alive.
LEMMA GetKeeps ==
  ASSUME StoreOK, NEW k, entries' = AfterGet(k), UNCHANGED <<told, clock>>
  PROVE  StoreOK'
<1>1. /\ DOMAIN entries' \subseteq DOMAIN entries
      /\ \A j \in DOMAIN entries' : entries'[j] = entries[j]
      /\ \A j \in DOMAIN entries \ DOMAIN entries' : ~Live(j)
      /\ entries' \in [DOMAIN entries' -> [body : Bodies, ans : Answers, exp : Nat]]
  BY DEF StoreOK, AfterGet, Restrict
<1>2. \A j \in Keys : Live(j)' <=> Live(j)
  BY <1>1 DEF Live
<1> QED
  BY <1>1, <1>2 DEF StoreOK, Live

\* Put: the new answer is told and kept for its TTL, an evicted key forgotten.
LEMMA PutKeeps ==
  ASSUME StoreOK, NEW k \in Keys, NEW b \in Bodies, NEW r \in Answers, NEW evicted \in SUBSET Keys,
         entries' = Put(k, [body |-> b, ans |-> r, exp |-> clock + TTL], evicted),
         told' = Tell(k, b, r, evicted), clock' = clock
  PROVE  StoreOK'
<1> DEFINE e == [body |-> b, ans |-> r, exp |-> clock + TTL]
<1>1. /\ e \in [body : Bodies, ans : Answers, exp : Nat]
      /\ e.body = b /\ e.ans = r /\ clock <= e.exp
  <2>1. PICK n \in Nat : n = clock + TTL /\ clock <= n
    BY GatewayAssumption DEF StoreOK
  <2> QED
    BY <2>1
<1> HIDE DEF e
<1>2. entries' = [x \in (DOMAIN entries \ evicted) \cup {k} |-> IF x = k THEN e ELSE entries[x]]
  BY DEF Put, e
<1>3. /\ DOMAIN entries' = (DOMAIN entries \ evicted) \cup {k}
      /\ entries'[k] = e
      /\ \A x \in DOMAIN entries' \ {k} : entries'[x] = entries[x]
      /\ entries' \in [DOMAIN entries' -> [body : Bodies, ans : Answers, exp : Nat]]
  BY <1>1, <1>2 DEF StoreOK
<1>4. /\ told' \in [Keys -> SUBSET (Bodies \X Answers)]
      /\ <<b, r>> \in told'[k]
      /\ \A x \in Keys \ {k} : told'[x] = IF x \in evicted THEN {} ELSE told[x]
  BY DEF Tell, StoreOK
<1>5. Live(k)'
  BY <1>1, <1>3 DEF Live
<1>6. \A x \in Keys \ {k} : Live(x)' <=> Live(x) /\ x \notin evicted
  BY <1>3 DEF Live
<1>7. \A x \in Keys : Live(x)' => <<entries'[x].body, entries'[x].ans>> \in told'[x]
  <2> SUFFICES ASSUME NEW x \in Keys, Live(x)' PROVE <<entries'[x].body, entries'[x].ans>> \in told'[x]
    OBVIOUS
  <2>1. CASE x = k
    BY <1>1, <1>3, <1>4, <2>1
  <2>2. CASE x # k
    <3>1. Live(x) /\ x \notin evicted /\ x \in DOMAIN entries'
      BY <1>6, <2>2 DEF Live
    <3> QED
      BY <1>3, <1>4, <2>2, <3>1 DEF StoreOK
  <2> QED
    BY <2>1, <2>2
<1>8. \A x \in Keys : ~Live(x)' => told'[x] = {}
  BY <1>4, <1>5, <1>6 DEF StoreOK
<1> QED
  BY <1>3, <1>4, <1>7, <1>8 DEF StoreOK

\* Where Begin sends an attempt: to the end, to the replay or to the handler.
LEMMA BeginSends ==
  ASSUME GatewayInv, NEW a \in Attempts, NEW k \in Keys \cup {NoKey}, NEW rq \in Requests, Begin(a, k, rq)
  PROVE  \/ att' = [att EXCEPT ![a] = Ended(NoKey, NoAnswer)]
         \/ \E x \in AttemptStates :
               /\ att' = [att EXCEPT ![a] = x] /\ AttemptOK(a)'
               /\ x.st \in {"replay", "handler"}
               /\ x.key = k /\ x.rq = rq
               /\ k \in Keys => x.only = {r \in Answers : <<rq.body, r>> \in told[k]}
<1> USE GatewayAssumption
<1> DEFINE before == IF k = NoKey THEN {} ELSE {r \in Answers : <<rq.body, r>> \in told[k]}
<1>0. /\ StoreOK /\ att \in [Attempts -> AttemptStates]
      /\ before \in SUBSET Answers
      /\ k \in Keys => k # NoKey
  BY DEF GatewayInv, AttemptsOK
<1>1. CASE k # NoKey /\ Live(k) /\ entries[k].body # rq.body
  BY <1>1 DEF Begin
<1>2. CASE k # NoKey /\ Live(k) /\ entries[k].body = rq.body
  <2> DEFINE x == [st |-> "replay", key |-> k, rq |-> rq, ans |-> entries[k].ans, only |-> before]
  <2>1. att' = [att EXCEPT ![a] = x]
    BY <1>2 DEF Begin
  <2>2. entries[k].ans \in Answers /\ <<entries[k].body, entries[k].ans>> \in told[k] /\ k \in Keys
    BY <1>0, <1>2 DEF StoreOK, Live
  <2>3. x \in AttemptStates /\ x.ans \in x.only
    BY <1>0, <1>2, <2>2 DEF AttemptStates
  <2>4. att'[a] = x
    BY <1>0, <2>1
  <2>5. AttemptOK(a)'
    BY <2>2, <2>3, <2>4 DEF AttemptOK, InProgress
  <2> QED
    BY <1>0, <2>1, <2>3, <2>5
<1>3. CASE ~(k # NoKey /\ Live(k))
  <2> DEFINE x == [st |-> "handler", key |-> k, rq |-> rq, ans |-> NoAnswer, only |-> before]
  <2>1. att' = [att EXCEPT ![a] = x]
    BY <1>3 DEF Begin
  <2>2. before = {}
    BY <1>0, <1>3 DEF StoreOK
  <2>3. x \in AttemptStates
    BY <1>0 DEF AttemptStates
  <2>4. att'[a] = x
    BY <1>0, <2>1
  <2>5. AttemptOK(a)'
    BY <2>2, <2>4 DEF AttemptOK, InProgress
  <2> QED
    BY <1>0, <2>1, <2>3, <2>5
<1> QED
  BY <1>1, <1>2, <1>3

LEMMA GatewayNextInv == GatewayInv /\ [GatewayNext]_gatewayVars => GatewayInv'
<1> SUFFICES ASSUME GatewayInv, [GatewayNext]_gatewayVars PROVE GatewayInv'
  OBVIOUS
<1>0. /\ AttemptsOK /\ StoreOK /\ MintOK /\ att \in [Attempts -> AttemptStates]
      /\ \A a \in Attempts : att[a].ans \in Answers \cup {NoAnswer} /\ AttemptOK(a)
  BY DEF GatewayInv, AttemptsOK, AttemptStates
<1>1. ASSUME NEW a \in Attempts, NEW k \in Keys \cup {NoKey}, NEW rq \in Requests, Begin(a, k, rq)
      PROVE GatewayInv'
  <2>1. StoreOK'
    BY <1>0, <1>1, GetKeeps, StoreStays DEF Begin
  <2>2. minted' = minted /\ a \notin Spent
    BY <1>1 DEF Begin, Spent, upstreamVars
  <2>3. AttemptsOK' /\ MintOK'
    BY <1>1, <2>2, BeginSends, AttemptEnds, AttemptMoves, NoMint
  <2> QED
    BY <2>1, <2>3 DEF GatewayInv
<1>2. ASSUME NEW a \in Attempts, Fail(a), UNCHANGED <<entries, told, clock, minted>> PROVE GatewayInv'
  <2>1. StoreOK'
    BY <1>0, <1>2, StoreStays
  <2>2. AttemptsOK' /\ MintOK'
    BY <1>2, AttemptEnds DEF Fail
  <2> QED
    BY <2>1, <2>2 DEF GatewayInv
<1>3. ASSUME NEW a \in Attempts, Refuse(a) \/ RejectBody(a) \/ PipelineCallFails(a) \/ StreamCallFails(a)
      PROVE GatewayInv'
  BY <1>2, <1>3 DEF Refuse, RejectBody, PipelineCallFails, StreamCallFails, upstreamVars
<1>4. ASSUME NEW a \in Attempts, Replay(a) PROVE GatewayInv'
  <2>1. StoreOK'
    BY <1>0, <1>4, StoreStays DEF Replay
  <2>2. AttemptsOK' /\ MintOK'
    BY <1>0, <1>4, AttemptEnds DEF Replay, Answer, upstreamVars
  <2> QED
    BY <2>1, <2>2 DEF GatewayInv
<1>5. ASSUME NEW a \in Attempts, Respond(a) PROVE GatewayInv'
  <2>1. AttemptsOK' /\ MintOK'
    BY <1>0, <1>5, AttemptEnds DEF Respond, Answer, upstreamVars
  <2>2. CASE att[a].key = NoKey
    BY <1>0, <1>5, <2>1, <2>2, StoreStays DEF Respond, GatewayInv
  <2>3. CASE att[a].key # NoKey
    <3>1. /\ att[a].key \in Keys /\ att[a].ans \in Answers
          /\ att[a].rq \in Requests /\ att[a].rq.body \in Bodies
      BY <1>0, <1>5, <2>3 DEF Respond, AttemptOK, InProgress, AttemptStates, Bodies
    <3>2. PICK k \in Keys, b \in Bodies, r \in Answers :
             k = att[a].key /\ b = att[a].rq.body /\ r = att[a].ans
      BY <3>1
    <3>3. PICK evicted \in IF Fits THEN {{}} ELSE {{v} : v \in Victims} :
             /\ entries' = Put(k, [body |-> b, ans |-> r, exp |-> clock + TTL], evicted)
             /\ told' = Tell(k, b, r, evicted)
      BY <1>5, <2>3, <3>2 DEF Respond
    <3>4. evicted \in SUBSET Keys
      BY <1>0, <3>3 DEF Victims, StoreOK
    <3>5. clock' = clock
      BY <1>5 DEF Respond
    <3>6. StoreOK'
      BY <1>0, <3>3, <3>4, <3>5, PutKeeps
    <3> QED
      BY <2>1, <3>6 DEF GatewayInv
  <2> QED
    BY <2>2, <2>3
<1>6. ASSUME NEW a \in Attempts, CreatePipeline(a) PROVE GatewayInv'
  <2> DEFINE r == [of |-> "minted", id |-> minted + 1]
  <2>1. /\ att' = [att EXCEPT ![a].st = "acted", ![a].ans = r]
        /\ att[a].st = "handler" /\ minted' = minted + 1 /\ UNCHANGED <<entries, told, clock>>
    BY <1>6 DEF CreatePipeline, InHandler, PipelineAnswer
  <2>2. att' = [att EXCEPT ![a] = [att[a] EXCEPT !.st = "acted", !.ans = r]]
    BY <2>1
  <2>3. [att[a] EXCEPT !.st = "acted", !.ans = r].st = "acted" /\ a \notin Spent
    BY <1>0, <2>1 DEF AttemptStates, Spent
  <2>4. MintOK' /\ minted + 1 \in 1..Cardinality(Attempts)
    BY <2>1, <2>2, <2>3, Mint
  <2>5. r \in Answers
    BY <2>4 DEF Answers
  <2> HIDE DEF r
  <2>6. AttemptsOK'
    BY <2>1, <2>5, HandlerMoves
  <2>7. StoreOK'
    BY <1>0, <2>1, StoreStays
  <2> QED
    BY <2>4, <2>6, <2>7 DEF GatewayInv
<1>7. ASSUME NEW a \in Attempts, StartDeploy(a) PROVE GatewayInv'
  <2> DEFINE r == [of |-> "minted", id |-> minted + 1]
  <2>1. /\ att' = [att EXCEPT ![a].st = "started", ![a].ans = r]
        /\ att[a].st = "handler" /\ minted' = minted + 1 /\ UNCHANGED <<entries, told, clock>>
    BY <1>7 DEF StartDeploy, InHandler
  <2>2. att' = [att EXCEPT ![a] = [att[a] EXCEPT !.st = "started", !.ans = r]]
    BY <2>1
  <2>3. [att[a] EXCEPT !.st = "started", !.ans = r].st = "started" /\ a \notin Spent
    BY <1>0, <2>1 DEF AttemptStates, Spent
  <2>4. MintOK' /\ minted + 1 \in 1..Cardinality(Attempts)
    BY <2>1, <2>2, <2>3, Mint
  <2>5. r \in Answers /\ r \in Minted
    BY <2>4 DEF Answers, Minted
  <2> HIDE DEF r
  <2>6. AttemptsOK'
    BY <2>1, <2>5, HandlerMoves
  <2>7. StoreOK'
    BY <1>0, <2>1, StoreStays
  <2> QED
    BY <2>4, <2>6, <2>7 DEF GatewayInv
<1>8. ASSUME NEW a \in Attempts, NEW r \in Answers, att[a].st \in {"handler", "started"},
             att' = [att EXCEPT ![a].st = "acted", ![a].ans = r],
             UNCHANGED <<entries, told, clock, minted>>
      PROVE GatewayInv'
  <2>1. AttemptsOK' /\ att' = [att EXCEPT ![a] = att'[a]] /\ att'[a].st = "acted"
    BY <1>8, HandlerMoves
  <2>2. MintOK'
    BY <1>8, <2>1, NoMint
  <2>3. StoreOK'
    BY <1>0, <1>8, StoreStays
  <2> QED
    BY <2>1, <2>2, <2>3 DEF GatewayInv
<1>9. ASSUME NEW a \in Attempts, SetDeploying(a) PROVE GatewayInv'
  <2>1. att[a].ans \in Minted
    BY <1>0, <1>9 DEF SetDeploying, AttemptOK
  <2>2. [of |-> "minted", id |-> att[a].ans.id] \in Answers
    BY <2>1 DEF Minted, Answers
  <2> QED
    BY <1>8, <1>9, <2>2 DEF SetDeploying, PipelineAnswer
<1>10. ASSUME NEW a \in Attempts, CreateStream(a) PROVE GatewayInv'
  <2>1. CASE att[a].rq.id \in streams
    BY <1>2, <1>10, <2>1 DEF CreateStream
  <2>2. CASE att[a].rq.id \notin streams
    <3>1. att[a].rq.id \in StreamNames
      <4>1. att[a].rq \in Requests /\ att[a].rq.op = "createStream"
        BY <1>0, <1>10 DEF CreateStream, InHandler, AttemptOK, InProgress
      <4> QED
        BY <4>1 DEF Requests
    <3>2. [of |-> "stream", name |-> att[a].rq.id] \in Answers
      BY <3>1 DEF Answers
    <3> QED
      BY <1>8, <1>10, <2>2, <3>2 DEF CreateStream, StreamAnswer, InHandler
  <2> QED
    BY <2>1, <2>2
<1>11. ASSUME NEW a \in Attempts, DeleteStream(a) PROVE GatewayInv'
  <2>1. CASE att[a].rq.id \notin streams
    BY <1>2, <1>11, <2>1 DEF DeleteStream
  <2>2. CASE att[a].rq.id \in streams
    <3>1. [of |-> "status"] \in Answers
      BY DEF Answers
    <3> QED
      BY <1>8, <1>11, <2>2, <3>1 DEF DeleteStream, StreamAnswer, InHandler
  <2> QED
    BY <2>1, <2>2
<1>12. ASSUME Tick PROVE GatewayInv'
  <2>1. \A k \in Keys : Live(k)' => Live(k)
    BY <1>0, <1>12 DEF Tick, Live, StoreOK
  <2>2. \A k \in Keys : told'[k] = IF Live(k)' THEN told[k] ELSE {}
    BY <1>12 DEF Tick, Live
  <2>3. StoreOK'
    <3>1. told' \in [Keys -> SUBSET (Bodies \X Answers)]
      BY <1>0, <1>12 DEF Tick, StoreOK
    <3>2. entries' = entries /\ clock' \in Nat
      BY <1>0, <1>12 DEF Tick, StoreOK
    <3> QED
      BY <1>0, <2>1, <2>2, <3>1, <3>2 DEF StoreOK
  <2>4. AttemptsOK' /\ MintOK'
    BY <1>0, <1>12 DEF Tick, upstreamVars, AttemptsOK, AttemptOK, InProgress, MintOK, Spent
  <2> QED
    BY <2>3, <2>4 DEF GatewayInv
<1>13. ASSUME GatewayRestarts PROVE GatewayInv'
  <2>1. DOMAIN entries' = {}
    BY <1>13 DEF GatewayRestarts
  <2>2. StoreOK'
    BY <1>0, <1>13, <2>1 DEF GatewayRestarts, StoreOK, Live
  <2>3. \A a \in Attempts : \/ att'[a] = att[a] /\ ~InProgress(a)
                            \/ att'[a] \in AttemptStates /\ att'[a].st = "ended"
    BY <1>13, EndedState DEF GatewayRestarts
  <2>4. AttemptsOK'
    <3>1. att' \in [Attempts -> AttemptStates]
      BY <1>0, <1>13, <2>3 DEF GatewayRestarts
    <3>2. \A a \in Attempts : AttemptOK(a)'
      BY <1>0, <2>3 DEF AttemptOK, InProgress
    <3> QED
      BY <3>1, <3>2 DEF AttemptsOK
  <2>5. Spent \subseteq Spent' /\ Spent' \subseteq Attempts
    BY <2>3 DEF Spent
  <2>6. IsFiniteSet(Spent')
    BY <2>5, FS_Subset, GatewayAssumption
  <2>7. Cardinality(Spent) <= Cardinality(Spent') /\ Cardinality(Spent) \in Nat /\ Cardinality(Spent') \in Nat
    BY <2>5, <2>6, FS_Subset, FS_CardinalityType
  <2>8. MintOK'
    BY <1>0, <1>13, <2>7 DEF GatewayRestarts, upstreamVars, MintOK
  <2> QED
    BY <2>2, <2>4, <2>8 DEF GatewayInv
<1>14. CASE UNCHANGED gatewayVars
  BY <1>0, <1>14, StoreStays
     DEF gatewayVars, upstreamVars, GatewayInv, AttemptsOK, AttemptOK, InProgress, MintOK, Spent
<1> QED
  BY <1>1, <1>3, <1>4, <1>5, <1>6, <1>7, <1>9, <1>10, <1>11, <1>12, <1>13, <1>14 DEF GatewayNext

-----------------------------------------------------------------------------
(* The steps of the gateway as steps of AnswerOnce.                        *)

\* A step of one attempt is one attempt's in AnswerOnce.
LEMMA OneMoves ==
  ASSUME GatewayInv, NEW a \in Attempts, NEW x, att' = [att EXCEPT ![a] = x]
  PROVE  /\ Owed' = [Owed EXCEPT ![a] = Due(a)']
         /\ Paid' = [Paid EXCEPT ![a] = Given(a)']
         /\ Owed[a] = Due(a) /\ Paid[a] = Given(a)
         /\ att'[a] = x
<1>1. att'[a] = x /\ \A b \in Attempts \ {a} : att'[b] = att[b]
  BY DEF GatewayInv, AttemptsOK
<1>2. \A b \in Attempts \ {a} : Due(b)' = Due(b) /\ Given(b)' = Given(b)
  BY <1>1 DEF Due, Given, InProgress
<1> QED
  BY <1>1, <1>2 DEF Owed, Paid

\* ... or no step at all, when what the attempt is owed and was given stays.
LEMMA OneStutters ==
  ASSUME GatewayInv, NEW a \in Attempts, NEW x, att' = [att EXCEPT ![a] = x],
         Due(a)' = Due(a), Given(a)' = Given(a)
  PROVE  Owed' = Owed /\ Paid' = Paid
BY OneMoves DEF Owed, Paid

\* A failed attempt is dropped.
LEMMA FailDrops ==
  ASSUME GatewayInv, NEW a \in Attempts, Fail(a), att[a].st # "ended", told' = told
  PROVE  Once!OnceNext
<1>1. /\ Owed' = [Owed EXCEPT ![a] = Due(a)'] /\ Paid' = [Paid EXCEPT ![a] = Given(a)']
      /\ Paid[a] = Given(a)
      /\ att'[a] = Ended(NoKey, NoAnswer)
  BY OneMoves DEF Fail
<1>2. att'[a].st = "ended" /\ att'[a].ans = NoAnswer
  BY <1>1, EndedState
<1>3. Due(a)' = [key |-> "none"] /\ Given(a)' = NoAnswer
  BY <1>2 DEF Due, Given, InProgress
<1>4. Given(a) = NoAnswer
  BY DEF Given
<1>5. Once!Drop({a}, {})
  <2>1. Owed' = [b \in Attempts |-> IF b \in {a} THEN [key |-> "none"] ELSE Owed[b]]
    BY <1>1, <1>3 DEF Owed
  <2>2. told' = [k \in Keys |-> IF k \in {} THEN {} ELSE told[k]]
    BY DEF GatewayInv, StoreOK
  <2>3. Paid' = Paid
    BY <1>1, <1>3, <1>4 DEF Paid
  <2> QED
    BY <2>1, <2>2, <2>3 DEF Once!Drop, Once!Idle
<1> QED
  BY <1>5 DEF Once!OnceNext

\* An attempt goes on through its handler: AnswerOnce sees nothing.
LEMMA HandlerStutters ==
  ASSUME GatewayInv, NEW a \in Attempts, att[a].st \in {"handler", "started"},
         att' = [att EXCEPT ![a] = att'[a]], att'[a].st \in {"started", "acted"},
         att'[a].key = att[a].key, att'[a].rq = att[a].rq, att'[a].only = att[a].only
  PROVE  Owed' = Owed /\ Paid' = Paid
<1>1. Due(a)' = Due(a) /\ Given(a)' = Given(a)
  BY DEF Due, Given, InProgress
<1> QED
  BY <1>1, OneStutters

\* Begin is BeginOnce when there is a key and no conflict.
LEMMA BeginBegins ==
  ASSUME GatewayInv, NEW a \in Attempts, NEW k \in Keys \cup {NoKey}, NEW rq \in Requests, Begin(a, k, rq)
  PROVE  Once!OnceNext \/ UNCHANGED <<told, Owed, Paid>>
<1>0. /\ att[a].st = "idle" /\ told' = told
      /\ Due(a) = [key |-> "none"] /\ Given(a) = NoAnswer
  BY DEF Begin, Due, Given, InProgress
<1>1. CASE att' = [att EXCEPT ![a] = Ended(NoKey, NoAnswer)]
  <2>1. att'[a] = Ended(NoKey, NoAnswer)
    BY <1>1, OneMoves
  <2>2. att'[a].st = "ended" /\ att'[a].ans = NoAnswer
    BY <2>1, EndedState
  <2>3. Due(a)' = Due(a) /\ Given(a)' = Given(a)
    BY <1>0, <2>2 DEF Due, Given, InProgress
  <2> QED
    BY <1>0, <1>1, <2>3, OneStutters
<1>2. ASSUME NEW x \in AttemptStates, att' = [att EXCEPT ![a] = x],
             x.st \in {"replay", "handler"}, x.key = k, x.rq = rq,
             k \in Keys => x.only = {r \in Answers : <<rq.body, r>> \in told[k]}
      PROVE  Once!OnceNext \/ UNCHANGED <<told, Owed, Paid>>
  <2>1. /\ Owed' = [Owed EXCEPT ![a] = Due(a)'] /\ Paid' = [Paid EXCEPT ![a] = Given(a)']
        /\ Owed[a] = Due(a) /\ Paid[a] = Given(a)
        /\ att'[a] = x
    BY <1>2, OneMoves
  <2>2. Given(a)' = NoAnswer
    BY <1>2, <2>1 DEF Given
  <2>3. CASE k = NoKey
    <3>1. Due(a)' = [key |-> "none"]
      BY <1>2, <2>1, <2>3 DEF Due
    <3> QED
      BY <1>0, <1>2, <2>2, <3>1, OneStutters
  <2>4. CASE k \in Keys
    <3>1. k # NoKey
      BY <2>4, GatewayAssumption
    <3>2. Due(a)' = [key |-> k, body |-> rq.body, only |-> {r \in Answers : <<rq.body, r>> \in told[k]}]
      BY <1>2, <2>1, <2>4, <3>1 DEF Due, InProgress
    <3>3. Paid' = Paid
      BY <1>0, <2>1, <2>2 DEF Paid
    <3>4. Owed[a] = [key |-> "none"]
      BY <1>0, <2>1
    <3>5. Once!BeginOnce(a, k, rq.body)
      BY <1>0, <2>1, <3>2, <3>3, <3>4 DEF Once!BeginOnce, Once!Idle
    <3>6. rq.body \in Bodies
      BY DEF Bodies
    <3> QED
      BY <2>4, <3>5, <3>6 DEF Once!OnceNext
  <2> QED
    BY <2>3, <2>4
<1> QED
  BY <1>1, <1>2, BeginSends

\* The answer of an attempt with a key is the end of what it was owed.
LEMMA AnswerPays ==
  ASSUME GatewayInv, NEW a \in Attempts, InProgress(a), att[a].key \in Keys, Answer(a)
  PROVE  /\ Owed' = [Owed EXCEPT ![a] = [key |-> "none"]]
         /\ Paid' = [Paid EXCEPT ![a] = att[a].ans]
         /\ Owed[a] = [key |-> att[a].key, body |-> att[a].rq.body, only |-> att[a].only]
         /\ Owed[a] # [key |-> "none"]
<1>0. att[a].key # NoKey /\ att[a].ans \in Answers \cup {NoAnswer}
  BY GatewayAssumption DEF GatewayInv, AttemptsOK, AttemptStates
<1>1. /\ Owed' = [Owed EXCEPT ![a] = Due(a)'] /\ Paid' = [Paid EXCEPT ![a] = Given(a)']
      /\ Owed[a] = Due(a)
      /\ att'[a] = Ended(att[a].key, att[a].ans)
  BY OneMoves DEF Answer
<1>2. att'[a].st = "ended" /\ att'[a].ans = att[a].ans
  BY <1>0, <1>1, EndedState
<1>3. Due(a)' = [key |-> "none"] /\ Given(a)' = att[a].ans
  BY <1>2 DEF Due, Given, InProgress
<1>4. Due(a) = [key |-> att[a].key, body |-> att[a].rq.body, only |-> att[a].only]
  BY <1>0 DEF Due
<1>5. DOMAIN [key |-> att[a].key, body |-> att[a].rq.body, only |-> att[a].only]
        # DOMAIN [key |-> "none"]
  OBVIOUS
<1>6. Owed[a] # [key |-> "none"]
  BY <1>1, <1>4, <1>5
<1> QED
  BY <1>1, <1>3, <1>4, <1>6

\* Replay is AnswerAgain.
LEMMA ReplayAnswersAgain ==
  ASSUME GatewayInv, NEW a \in Attempts, Replay(a) PROVE Once!OnceNext
<1>1. /\ InProgress(a) /\ att[a].key \in Keys /\ att[a].ans \in att[a].only
      /\ att[a].only \subseteq Answers /\ told' = told /\ Answer(a)
  BY DEF Replay, GatewayInv, AttemptsOK, AttemptOK, AttemptStates, InProgress
<1>2. PICK r \in Answers : r = att[a].ans
  BY <1>1
<1>3. /\ Owed' = [Owed EXCEPT ![a] = [key |-> "none"]]
      /\ Paid' = [Paid EXCEPT ![a] = att[a].ans]
      /\ Owed[a] = [key |-> att[a].key, body |-> att[a].rq.body, only |-> att[a].only]
      /\ Owed[a] # [key |-> "none"]
  BY <1>1, AnswerPays
<1>4. Once!AnswerAgain(a, r)
  <2>1. r \in Owed[a].only /\ Paid' = [Paid EXCEPT ![a] = r]
    BY <1>1, <1>2, <1>3
  <2> QED
    BY <1>1, <1>3, <2>1 DEF Once!AnswerAgain, Once!Idle
<1> QED
  BY <1>4 DEF Once!OnceNext

\* Respond is AnswerFirst when there is a key.
LEMMA RespondAnswersFirst ==
  ASSUME GatewayInv, NEW a \in Attempts, Respond(a)
  PROVE  Once!OnceNext \/ UNCHANGED <<told, Owed, Paid>>
<1>0. /\ InProgress(a) /\ att[a].st = "acted" /\ att[a].key \in Keys \cup {NoKey}
      /\ att[a].ans \in Answers /\ att[a].only = {} /\ att[a].rq \in Requests
  BY DEF Respond, GatewayInv, AttemptsOK, AttemptOK, AttemptStates, InProgress
<1>1. CASE att[a].key = NoKey
  <2>1. told' = told /\ att' = [att EXCEPT ![a] = Ended(NoKey, att[a].ans)]
    BY <1>1 DEF Respond, Answer
  <2>2. att'[a] = Ended(NoKey, att[a].ans)
    BY <2>1, OneMoves
  <2>3. att'[a].st = "ended" /\ att'[a].ans = NoAnswer
    BY <1>0, <2>2, EndedState
  <2>4. Due(a)' = Due(a) /\ Given(a)' = Given(a)
    BY <1>0, <1>1, <2>3 DEF Due, Given, InProgress
  <2> QED
    BY <2>1, <2>4, OneStutters
<1>2. CASE att[a].key # NoKey
  <2>1. PICK k \in Keys, b \in Bodies, r \in Answers : k = att[a].key /\ b = att[a].rq.body /\ r = att[a].ans
    BY <1>0, <1>2 DEF Bodies
  <2>2. Answer(a)
    BY DEF Respond
  <2>3. /\ Owed' = [Owed EXCEPT ![a] = [key |-> "none"]]
        /\ Paid' = [Paid EXCEPT ![a] = att[a].ans]
        /\ Owed[a] = [key |-> att[a].key, body |-> att[a].rq.body, only |-> att[a].only]
        /\ Owed[a] # [key |-> "none"]
    BY <1>0, <1>2, <2>2, AnswerPays
  <2>4. PICK evicted \in IF Fits THEN {{}} ELSE {{v} : v \in Victims} : told' = Tell(k, b, r, evicted)
    BY <1>2, <2>1 DEF Respond
  <2>5. evicted \in SUBSET Keys
    BY <2>4 DEF Victims, GatewayInv, StoreOK
  <2>6. Once!AnswerFirst(a, r, evicted)
    <3>1. Owed[a].key = k /\ Owed[a].body = b /\ Owed[a].only = {}
      BY <1>0, <2>1, <2>3
    <3>2. Paid' = [Paid EXCEPT ![a] = r]
      BY <2>1, <2>3
    <3> QED
      BY <2>3, <2>4, <3>1, <3>2 DEF Once!AnswerFirst, Once!Idle, Tell
  <2> QED
    BY <2>5, <2>6 DEF Once!OnceNext
<1> QED
  BY <1>1, <1>2

LEMMA GatewayStepIsOnceStep ==
  GatewayInv /\ [GatewayNext]_gatewayVars => [Once!OnceNext]_<<told, Owed, Paid>>
<1> SUFFICES ASSUME GatewayInv, [GatewayNext]_gatewayVars
             PROVE  Once!OnceNext \/ UNCHANGED <<told, Owed, Paid>>
  OBVIOUS
<1>1. ASSUME NEW a \in Attempts, NEW k \in Keys \cup {NoKey}, NEW rq \in Requests, Begin(a, k, rq)
      PROVE  Once!OnceNext \/ UNCHANGED <<told, Owed, Paid>>
  BY <1>1, BeginBegins
<1>2. ASSUME NEW a \in Attempts, Refuse(a) \/ RejectBody(a) \/ PipelineCallFails(a) \/ StreamCallFails(a)
      PROVE  Once!OnceNext
  <2>1. Fail(a) /\ told' = told /\ att[a].st # "ended"
    BY <1>2 DEF Refuse, RejectBody, PipelineCallFails, StreamCallFails, InProgress
  <2> QED
    BY <2>1, FailDrops
<1>3. ASSUME NEW a \in Attempts, Replay(a) PROVE Once!OnceNext
  BY <1>3, ReplayAnswersAgain
<1>4. ASSUME NEW a \in Attempts, Respond(a) PROVE Once!OnceNext \/ UNCHANGED <<told, Owed, Paid>>
  BY <1>4, RespondAnswersFirst
<1>5. ASSUME NEW a \in Attempts, NEW st \in {"started", "acted"}, NEW r \in {att'[a].ans},
             att[a].st \in {"handler", "started"}, told' = told,
             att' = [att EXCEPT ![a].st = st, ![a].ans = r]
      PROVE  UNCHANGED <<told, Owed, Paid>>
  <2> DEFINE x == [att[a] EXCEPT !.st = st, !.ans = r]
  <2>1. att[a] \in AttemptStates /\ att \in [Attempts -> AttemptStates]
    BY DEF GatewayInv, AttemptsOK
  <2>2. x.st = st /\ x.key = att[a].key /\ x.rq = att[a].rq /\ x.only = att[a].only
    BY ONLY <2>1 DEF AttemptStates
  <2>3. att' = [att EXCEPT ![a] = x]
    BY <1>5
  <2> HIDE DEF x
  <2>4. att'[a] = x
    BY <2>1, <2>3
  <2>5. Owed' = Owed /\ Paid' = Paid
    BY <1>5, <2>2, <2>3, <2>4, HandlerStutters
  <2> QED
    BY <1>5, <2>5
<1>6. ASSUME NEW a \in Attempts, CreatePipeline(a) \/ StartDeploy(a) \/ SetDeploying(a)
      PROVE  UNCHANGED <<told, Owed, Paid>>
  BY <1>5, <1>6 DEF CreatePipeline, StartDeploy, SetDeploying, InHandler, PipelineAnswer
<1>7. ASSUME NEW a \in Attempts, CreateStream(a) \/ DeleteStream(a)
      PROVE  Once!OnceNext \/ UNCHANGED <<told, Owed, Paid>>
  <2>1. att[a].st = "handler" /\ told' = told
    BY <1>7 DEF CreateStream, DeleteStream, InHandler
  <2>2. \/ Fail(a)
        \/ att' = [att EXCEPT ![a].st = "acted", ![a].ans = [of |-> "stream", name |-> att[a].rq.id]]
        \/ att' = [att EXCEPT ![a].st = "acted", ![a].ans = [of |-> "status"]]
    BY <1>7 DEF CreateStream, DeleteStream, StreamAnswer
  <2>3. CASE Fail(a)
    BY <2>1, <2>3, FailDrops
  <2>4. CASE att' = [att EXCEPT ![a].st = "acted", ![a].ans = [of |-> "stream", name |-> att[a].rq.id]]
    <3>1. att'[a].ans = [of |-> "stream", name |-> att[a].rq.id]
      BY <2>4 DEF GatewayInv, AttemptsOK, AttemptStates
    <3> QED
      BY <1>5, <2>1, <2>4, <3>1
  <2>5. CASE att' = [att EXCEPT ![a].st = "acted", ![a].ans = [of |-> "status"]]
    <3>1. att'[a].ans = [of |-> "status"]
      BY <2>5 DEF GatewayInv, AttemptsOK, AttemptStates
    <3> QED
      BY <1>5, <2>1, <2>5, <3>1
  <2> QED
    BY <2>2, <2>3, <2>4, <2>5
<1>8. ASSUME Tick PROVE Once!OnceNext
  <2> DEFINE forgotten == {k \in Keys : ~(k \in DOMAIN entries /\ clock + 1 <= entries[k].exp)}
  <2>1. told' = [k \in Keys |-> IF k \in forgotten THEN {} ELSE told[k]]
    BY <1>8 DEF Tick
  <2>2. Owed' = Owed /\ Paid' = Paid
    BY <1>8 DEF Tick, Owed, Paid, Due, Given, InProgress
  <2>3. Owed' = [b \in Attempts |-> IF b \in {} THEN [key |-> "none"] ELSE Owed[b]]
    BY <2>2 DEF Owed
  <2> HIDE DEF forgotten
  <2>4. Once!Drop({}, forgotten)
    BY <2>1, <2>2, <2>3 DEF Once!Drop, Once!Idle
  <2>5. forgotten \in SUBSET Keys
    BY DEF forgotten
  <2> QED
    BY <2>4, <2>5 DEF Once!OnceNext
<1>9. ASSUME GatewayRestarts PROVE Once!OnceNext
  <2> DEFINE failed == {b \in Attempts : InProgress(b)}
  <2>1. told' = [k \in Keys |-> IF k \in Keys THEN {} ELSE told[k]]
    BY <1>9 DEF GatewayRestarts
  <2>2. \A b \in failed : att'[b].st = "ended" /\ att'[b].ans = NoAnswer
    BY <1>9, EndedState DEF GatewayRestarts
  <2>3. \A b \in Attempts \ failed : att'[b] = att[b]
    BY <1>9 DEF GatewayRestarts
  <2>4. \A b \in Attempts : Due(b)' = IF b \in failed THEN [key |-> "none"] ELSE Due(b)
    BY <2>2, <2>3 DEF Due, InProgress
  <2>5. \A b \in Attempts : Given(b)' = Given(b)
    BY <2>2, <2>3 DEF Given, InProgress
  <2>6. Owed' = [b \in Attempts |-> IF b \in failed THEN [key |-> "none"] ELSE Owed[b]] /\ Paid' = Paid
    BY <2>4, <2>5 DEF Owed, Paid
  <2> HIDE DEF failed
  <2>7. Once!Drop(failed, Keys)
    BY <2>1, <2>6 DEF Once!Drop, Once!Idle
  <2>8. failed \in SUBSET Attempts
    BY DEF failed
  <2> QED
    BY <2>7, <2>8 DEF Once!OnceNext
<1>10. CASE UNCHANGED gatewayVars
  BY <1>10 DEF gatewayVars, Owed, Paid, Due, Given, InProgress
<1> QED
  BY <1>1, <1>2, <1>3, <1>4, <1>6, <1>7, <1>8, <1>9, <1>10 DEF GatewayNext

\* The gateway keeps what an Idempotency-Key promises, for any attempts, keys
\* and capacity: a retry that begins after an answer gets an answer given
\* before for its body, until the key is forgotten.
THEOREM GatewayAnswersOnce == GatewaySpec => RetriesGetTheSameAnswer
<1>1. GatewayInit => Once!OnceInit
  <2> SUFFICES ASSUME GatewayInit PROVE Once!OnceInit
    OBVIOUS
  <2>1. \A a \in Attempts : att[a].st = "idle"
    BY DEF GatewayInit, Unborn
  <2>2. \A a \in Attempts : Due(a) = [key |-> "none"] /\ Given(a) = NoAnswer
    BY <2>1 DEF Due, Given, InProgress
  <2> QED
    BY <2>2 DEF GatewayInit, Once!OnceInit, Once!Idle, Owed, Paid
<1> QED
  BY <1>1, GatewayInitInv, GatewayNextInv, GatewayStepIsOnceStep, PTL
     DEF GatewaySpec, RetriesGetTheSameAnswer, Once!OnceSpec

-----------------------------------------------------------------------------
(* Listing.  A page is the head of the ordered rows above the cursor, so   *)
(* what has been delivered is, in order, all that stayed up to the cursor: *)
(* ids only grow along a walk, and a row created behind the cursor is not  *)
(* seen while one that stayed is never jumped over.                        *)

Has(q, i)  == \E j \in 1 .. Len(q) : q[j] = i
UpTo(q, c) == \A j \in 1 .. Len(q) : q[j] <= c
Over(q, c) == \A j \in 1 .. Len(q) : c < q[j]

Rising(q) == \A j, k \in 1 .. Len(q) : j < k => q[j] < q[k]

Sorting(q, S) ==
  /\ q \in [1 .. Cardinality(S) -> S] /\ Range(q) = S
  /\ \A j, k \in DOMAIN q : j < k => q[j] < q[k]

LEMMA Largest ==
  ASSUME NEW S, IsFiniteSet(S), S # {}, \A i \in S : i \in Nat PROVE \E m \in S : \A i \in S : i <= m
<1> DEFINE Above(x) == {y \in S : y > x}
           B == {Above(x) : x \in S}
<1>1. B \subseteq SUBSET S /\ B # {}
  OBVIOUS
<1>2. PICK T \in B : \A U \in B : U \subseteq T => U = T
  <2> HIDE DEF B
  <2> QED BY <1>1, SmallestSubset
<1>3. PICK m \in S : T = Above(m)
  OBVIOUS
<1>4. ASSUME NEW i \in S, i > m PROVE FALSE
  <2>1. Above(i) \in B
    OBVIOUS
  <2>3. Above(i) \subseteq Above(m)
    BY <1>4
  <2>2. i \in Above(m) /\ i \notin Above(i)
    BY <1>4
  <2> QED BY <1>2, <1>3, <2>1, <2>2, <2>3
<1> QED BY <1>4

\* A finite set of ids can be put in order.
LEMMA Sortable ==
  ASSUME NEW S, IsFiniteSet(S), \A i \in S : i \in Nat PROVE \E q : Sorting(q, S)
<1> DEFINE B == {T \in SUBSET S : ~ \E q : Sorting(q, T)}
<1>1. SUFFICES ASSUME B # {} PROVE FALSE
  OBVIOUS
<1>2. PICK T \in B : \A U \in B : U \subseteq T => U = T
  <2>1. B \subseteq SUBSET S
    OBVIOUS
  <2> HIDE DEF B
  <2> QED BY <1>1, <2>1, SmallestSubset
<1>3. T \subseteq S /\ IsFiniteSet(T) /\ (\A i \in T : i \in Nat) /\ ~ \E q : Sorting(q, T)
  BY <1>2, FS_Subset
<1>4. T # {}
  <2> SUFFICES ASSUME T = {} PROVE FALSE
    OBVIOUS
  <2>1. Cardinality(T) = 0
    BY FS_EmptySet
  <2>2. Sorting([j \in 1 .. 0 |-> 0], T)
    BY <2>1 DEF Sorting, Range
  <2> QED BY <1>3, <2>2
<1>5. PICK m \in T : \A i \in T : i <= m
  BY <1>3, <1>4, Largest
<1> DEFINE U == T \ {m}
<1>6. PICK q : Sorting(q, U)
  BY <1>2, <1>3
<1>7. PICK n \in Nat : Cardinality(U) = n /\ Cardinality(T) = n + 1
  <2>1. IsFiniteSet(U) /\ Cardinality(U) = Cardinality(T) - 1 /\ Cardinality(U) \in Nat /\ Cardinality(T) \in Nat
    BY <1>3, <1>5, FS_RemoveElement, FS_CardinalityType
  <2> QED BY <2>1
<1> DEFINE g == [j \in 1 .. n + 1 |-> IF j = n + 1 THEN m ELSE q[j]]
<1>8. /\ DOMAIN q = 1 .. n /\ \A j \in 1 .. n : q[j] \in T /\ q[j] # m
      /\ \A i \in U : \E j \in 1 .. n : q[j] = i
      /\ \A j, k \in 1 .. n : j < k => q[j] < q[k]
  BY <1>6, <1>7 DEF Sorting, Range
<1>9. \A j \in 1 .. n + 1 : g[j] \in T
  BY <1>5, <1>8
<1>10. \A i \in T : \E j \in 1 .. n + 1 : g[j] = i
  <2>1. n + 1 \in 1 .. n + 1 /\ g[n + 1] = m
    OBVIOUS
  <2>2. \A j \in 1 .. n : j \in 1 .. n + 1 /\ g[j] = q[j]
    OBVIOUS
  <2> HIDE DEF g
  <2> QED BY <1>8, <2>1, <2>2
<1>11. ASSUME NEW j \in 1 .. n + 1, NEW k \in 1 .. n + 1, j < k PROVE g[j] < g[k]
  <2>0. j \in 1 .. n /\ j # n + 1
    BY <1>11
  <2>1. q[j] \in T /\ q[j] # m /\ q[j] \in Nat /\ m \in Nat /\ q[j] <= m
    BY <1>3, <1>5, <1>8, <2>0
  <2>2. g[j] = q[j] /\ q[j] < m
    BY <2>0, <2>1
  <2>3. CASE k = n + 1
    BY <2>2, <2>3
  <2>4. CASE k # n + 1
    BY <1>8, <1>11, <2>0, <2>2, <2>4
  <2> QED BY <2>3, <2>4
<1>12. DOMAIN g = 1 .. n + 1
  OBVIOUS
<1>13. g = [j \in 1 .. n + 1 |-> g[j]]
  OBVIOUS
<1> HIDE DEF g
<1>14. Sorting(g, T)
  BY <1>7, <1>9, <1>10, <1>11, <1>12, <1>13 DEF Sorting, Range
<1> QED BY <1>3, <1>14

IdSet(S) == IsFiniteSet(S) /\ \A i \in S : i \in Nat

LEMMA OrderedIs ==
  ASSUME NEW S, IdSet(S), NEW q, q = Ordered(S)
  PROVE  q \in Seq(S) /\ Rising(q) /\ \A i \in S : \E j \in 1 .. Len(q) : q[j] = i
<1>1. q = CHOOSE p \in [1 .. Cardinality(S) -> S] : Range(p) = S /\ \A j, k \in DOMAIN p : j < k => p[j] < p[k]
  BY DEF Ordered
<1>2. \E p \in [1 .. Cardinality(S) -> S] : Range(p) = S /\ \A j, k \in DOMAIN p : j < k => p[j] < p[k]
  BY Sortable DEF Sorting, IdSet
<1>3. q \in [1 .. Cardinality(S) -> S] /\ Range(q) = S /\ \A j, k \in DOMAIN q : j < k => q[j] < q[k]
  BY <1>1, <1>2
<1>4. Cardinality(S) \in Nat
  BY FS_CardinalityType DEF IdSet
<1>5. q \in Seq(S) /\ Len(q) = Cardinality(S) /\ DOMAIN q = 1 .. Len(q)
  BY <1>3, <1>4
<1> QED BY <1>3, <1>5 DEF Rising, Range

\* The first n of an ordered set: all up to the last one's id, and all of
\* them when they are fewer.
LEMMA PageIs ==
  ASSUME NEW S, IdSet(S), NEW q, q = Ordered(S), NEW n \in Nat \ {0}, NEW p, p = Head2(q, n)
  PROVE  /\ q \in Seq(S) /\ p \in Seq(S) /\ Rising(p) /\ Len(p) = IF Len(q) < n THEN Len(q) ELSE n
         /\ Len(q) <= n => \A i \in S : Has(p, i)
         /\ Len(q) >= n => /\ q[n] \in S /\ p[n] = q[n] /\ UpTo(p, q[n])
                           /\ \A i \in S : i <= q[n] => Has(p, i)
<1>1. q \in Seq(S) /\ Rising(q) /\ \A i \in S : \E j \in 1 .. Len(q) : q[j] = i
  BY OrderedIs
<1>2. PICK l \in Nat : l = Len(q)
  BY <1>1
<1>3. PICK m \in Nat : m = IF l < n THEN l ELSE n
  OBVIOUS
<1>4. \A j \in 1 .. l : q[j] \in S /\ q[j] \in Nat
  BY <1>1, <1>2, ElementOfSeq DEF IdSet
<1>5. p = SubSeq(q, 1, m)
  BY <1>2, <1>3 DEF Head2
<1>6. p \in Seq(S) /\ Len(p) = m /\ \A j \in 1 .. m : p[j] = q[j]
  <2>1. \A j \in 1 .. m : q[j] \in S
    BY <1>3, <1>4
  <2> QED BY <1>3, <1>5, <2>1, SubSeqProperties
<1>7. Rising(p)
  <2>1. \A j, k \in 1 .. l : j < k => q[j] < q[k]
    BY <1>1, <1>2 DEF Rising
  <2>2. \A j \in 1 .. m : j \in 1 .. l
    BY <1>3
  <2> QED BY <1>6, <2>1, <2>2 DEF Rising
<1>8. ASSUME l <= n, NEW i \in S PROVE \E j \in 1 .. m : p[j] = i
  <2>1. PICK j \in 1 .. l : q[j] = i
    BY <1>1, <1>2
  <2>2. m = l
    BY <1>3, <1>8
  <2> QED BY <1>6, <2>1, <2>2
<1>9. ASSUME l >= n PROVE /\ q[n] \in S /\ p[n] = q[n]
                          /\ \A j \in 1 .. m : p[j] <= q[n]
                          /\ \A i \in S : i <= q[n] => \E j \in 1 .. m : p[j] = i
  <2>1. m = n /\ n \in 1 .. l /\ n \in 1 .. m
    BY <1>3, <1>9
  <2>2. q[n] \in S /\ p[n] = q[n]
    BY <1>4, <1>6, <2>1
  <2>3. \A j \in 1 .. l : IF j <= n THEN q[j] <= q[n] ELSE q[n] < q[j]
    BY <1>1, <1>2, <1>4, <2>1 DEF Rising
  <2>4. \A j \in 1 .. m : p[j] <= q[n]
    BY <1>6, <1>9, <2>1, <2>3
  <2>5. ASSUME NEW i \in S, i <= q[n] PROVE \E j \in 1 .. m : p[j] = i
    <3>1. PICK j \in 1 .. l : q[j] = i
      BY <1>1, <1>2
    <3>2. j <= n
      BY <1>4, <2>1, <2>3, <2>5, <3>1
    <3> QED BY <1>6, <2>1, <3>1, <3>2
  <2> QED BY <2>2, <2>4, <2>5
<1>10. l <= n => \A i \in S : Has(p, i)
  BY <1>6, <1>8 DEF Has
<1>11. l >= n => UpTo(p, q[n]) /\ \A i \in S : i <= q[n] => Has(p, i)
  BY <1>6, <1>9 DEF Has, UpTo
<1> QED BY <1>1, <1>2, <1>3, <1>6, <1>7, <1>9, <1>10, <1>11


LEMMA Between == \A x, y, z \in Nat : x <= y /\ y < z => x < z
  OBVIOUS

\* A page of ids above a bound, behind items up to it.
LEMMA PageAppended ==
  ASSUME NEW R, \A i \in R : i \in Nat, NEW items \in Seq(R), Rising(items), NEW c \in Nat, UpTo(items, c),
         NEW page \in Seq(R), Rising(page), Over(page, c), NEW all, all = items \o page
  PROVE  /\ all \in Seq(R) /\ Rising(all)
         /\ \A i : Has(items, i) \/ Has(page, i) => Has(all, i)
         /\ \A b \in Nat : c <= b /\ UpTo(page, b) => UpTo(all, b)
<1>1. PICK a \in Nat, d \in Nat : a = Len(items) /\ d = Len(page)
  OBVIOUS
<1>2. /\ all \in Seq(R) /\ Len(all) = a + d
      /\ \A i \in 1 .. a + d : all[i] = IF i <= a THEN items[i] ELSE page[i - a]
  BY <1>1, ConcatProperties
<1>3. /\ \A j \in 1 .. a : items[j] \in Nat /\ items[j] <= c
      /\ \A j \in 1 .. d : page[j] \in Nat /\ c < page[j]
      /\ \A j, k \in 1 .. a : j < k => items[j] < items[k]
      /\ \A j, k \in 1 .. d : j < k => page[j] < page[k]
  BY <1>1, ElementOfSeq DEF Rising, UpTo, Over
<1>4. \A j \in 1 .. a : j \in 1 .. a + d /\ all[j] = items[j]
  BY <1>2
<1>5. \A j \in 1 .. d : j + a \in 1 .. a + d /\ all[j + a] = page[j]
  BY <1>2
<1>6. \A j \in 1 .. a + d : ~(j <= a) => j - a \in 1 .. d /\ all[j] = page[j - a]
  BY <1>2
<1>7. ASSUME NEW j \in 1 .. a + d, NEW k \in 1 .. a + d, j < k PROVE all[j] < all[k]
  <2>1. CASE k <= a
    <3>1. j \in 1 .. a /\ k \in 1 .. a
      BY <1>7, <2>1
    <3> QED BY <1>3, <1>4, <1>7, <3>1
  <2>2. CASE j <= a /\ ~(k <= a)
    <3>0. j \in 1 .. a
      BY <2>2
    <3>1. all[j] = items[j] /\ items[j] \in Nat /\ items[j] <= c
      BY <1>3, <1>4, <3>0
    <3>2. all[k] = page[k - a] /\ page[k - a] \in Nat /\ c < page[k - a]
      BY <1>3, <1>6, <2>2
    <3> QED BY <3>1, <3>2, Between
  <2>3. CASE ~(j <= a) /\ ~(k <= a)
    <3>1. j - a \in 1 .. d /\ k - a \in 1 .. d /\ j - a < k - a
      BY <1>7, <2>3
    <3> QED BY <1>3, <1>6, <2>3, <3>1
  <2> QED BY <1>7, <2>1, <2>2, <2>3
<1>8. Rising(all)
  BY <1>2, <1>7 DEF Rising
<1>9. \A i : (\E j \in 1 .. a : items[j] = i) \/ (\E j \in 1 .. d : page[j] = i) => \E j \in 1 .. a + d : all[j] = i
  BY <1>4, <1>5
<1>10. ASSUME NEW z \in Nat, c <= z, \A j \in 1 .. d : page[j] <= z, NEW j \in 1 .. a + d PROVE all[j] <= z
  <2>1. CASE j <= a
    <3>0. j \in 1 .. a
      BY <2>1
    <3>1. all[j] = items[j] /\ items[j] \in Nat /\ items[j] <= c
      BY <1>3, <1>4, <3>0
    <3> QED BY <1>10, <3>1
  <2>2. CASE ~(j <= a)
    BY <1>6, <1>10, <2>2
  <2> QED BY <2>1, <2>2
<1>11. \A b \in Nat : c <= b /\ UpTo(page, b) => UpTo(all, b)
  BY <1>1, <1>2, <1>10 DEF UpTo
<1>12. \A i : Has(items, i) \/ Has(page, i) => Has(all, i)
  BY <1>1, <1>2, <1>9 DEF Has
<1> QED BY <1>2, <1>8, <1>11, <1>12

Tokens == {<< >>} \cup {<<[k |-> kind, i |-> c]>> : kind \in Kinds, c \in RowIds}

Walks == [st : {"asking", "scanning", "done", "refused"}, token : Tokens, items : Seq(RowIds \ Foreign), cut : BOOLEAN]

ListTyped ==
  /\ backend \in Backends /\ collection \in Kinds
  /\ rows \subseteq RowIds /\ ids \subseteq RowIds /\ stayed \subseteq Own(rows)
  /\ walk \in Walks

\* A walk that goes on has, in order, no row twice and, up to its cursor,
\* every row that stayed.
WalkGoesOn(c, items, kept) ==
  /\ c \in Nat /\ UpTo(items, c)
  /\ \A i \in kept : i <= c => Has(items, i)

WalkOK ==
  /\ Rising(walk.items)
  /\ walk.st \in {"asking", "scanning"} => ~walk.cut /\ WalkGoesOn(After, walk.items, stayed)
  /\ walk.st = "scanning" => backend = "memory" /\ stayed \subseteq ids
  /\ walk.st = "done" =>
       /\ walk.cut \/ \A i \in stayed : Has(walk.items, i)
       /\ walk.cut => backend = "memory"

ListInv == ListTyped /\ WalkOK

LEMMA TokenId ==
  ASSUME NEW kind \in Kinds, NEW c \in RowIds \cup {NoId}
  PROVE  Encode(kind, c) \in Tokens /\ Decode(Encode(kind, c)) = c
<1>1. NoId \notin RowIds
  BY ListingAssumption DEF NoId
<1>2. CASE c = NoId
  BY <1>2 DEF Encode, Decode, Tokens
<1>3. CASE c # NoId
  <2>1. Encode(kind, c) = <<[k |-> kind, i |-> c]>>
    BY <1>3 DEF Encode
  <2>2. <<[k |-> kind, i |-> c]>>[1].i = c /\ <<[k |-> kind, i |-> c]>> # << >>
    OBVIOUS
  <2> QED BY <1>3, <2>1, <2>2 DEF Decode, Tokens
<1> QED BY <1>2, <1>3

LEMMA DecodedId == ASSUME NEW t \in Tokens PROVE Decode(t) \in RowIds \cup {NoId}
<1>1. CASE t = << >>
  BY <1>1 DEF Decode
<1>2. CASE t # << >>
  <2>1. PICK kind \in Kinds, c \in RowIds : t = <<[k |-> kind, i |-> c]>>
    BY <1>2 DEF Tokens
  <2>2. t[1].i = c
    BY <2>1
  <2> QED BY <1>2, <2>2 DEF Decode
<1> QED BY <1>1, <1>2

\* What a store returns and the gateway appends.
GoodPage(S, page, next, cut, c) ==
  /\ S \subseteq RowIds \ Foreign /\ page \in Seq(S) /\ Rising(page)
  /\ \A i \in S : c < i
  /\ next \in RowIds \cup {NoId}
  /\ next # NoId => /\ ~cut /\ c < next /\ UpTo(page, next)
                    /\ \A i \in S : i <= next => Has(page, i)
  /\ next = NoId => \A i \in S : Has(page, i)

LEMMA DeliverKeeps ==
  ASSUME ListInv, walk.st \in {"asking", "scanning"},
         NEW S, NEW page, NEW next, NEW cut \in BOOLEAN, GoodPage(S, page, next, cut, After),
         cut \/ \A i \in stayed : After < i => i \in S,
         cut => backend = "memory",
         Deliver(page, next, cut), UNCHANGED <<backend, collection, stayed>>
  PROVE  walk' \in Walks /\ WalkOK'
<1> DEFINE R == RowIds \ Foreign
<1>1. PICK c, items, all : c = After /\ items = walk.items /\ all = items \o page
  OBVIOUS
<1>2. /\ c \in Nat /\ items \in Seq(R) /\ Rising(items) /\ ~walk.cut
      /\ UpTo(items, c)
      /\ \A i \in stayed : i <= c => Has(items, i)
  BY <1>1 DEF ListInv, ListTyped, WalkOK, WalkGoesOn, Walks
<1>3. (\A i \in R : i \in Nat) /\ S \subseteq R /\ stayed \subseteq R
  BY ListingAssumption DEF GoodPage, ListInv, ListTyped, Own
<1> HIDE DEF R
<1>4. page \in Seq(R) /\ Rising(page) /\ Over(page, c)
  <2>1. page \in Seq(S) /\ Rising(page) /\ \A i \in S : c < i
    BY <1>1 DEF GoodPage
  <2>2. \A j \in 1 .. Len(page) : page[j] \in S
    BY <2>1, ElementOfSeq
  <2>3. page \in Seq(R)
    BY <1>3, <2>1, SeqMonotonic
  <2> QED BY <2>1, <2>2, <2>3 DEF Over
<1>5. /\ all \in Seq(R) /\ Rising(all)
      /\ \A i : Has(items, i) \/ Has(page, i) => Has(all, i)
      /\ \A b \in Nat : c <= b /\ UpTo(page, b) => UpTo(all, b)
  BY <1>1, <1>2, <1>3, <1>4, PageAppended
<1>6. walk' = [st |-> IF next = NoId THEN "done" ELSE "asking", token |-> Encode(collection, next),
               items |-> all, cut |-> cut]
  BY <1>1, <1>2 DEF Deliver
<1>7. Encode(collection, next) \in Tokens /\ Decode(Encode(collection, next)) = next
  BY TokenId DEF ListInv, ListTyped, GoodPage
<1>8. walk' \in Walks
  <2>1. PICK st, t : /\ st = IF next = NoId THEN "done" ELSE "asking"
                     /\ t = Encode(collection, next) /\ t \in Tokens
    BY <1>7
  <2>2. walk' = [st |-> st, token |-> t, items |-> all, cut |-> cut]
    BY <1>6, <2>1
  <2>3. all \in Seq(RowIds \ Foreign)
    BY <1>5 DEF R
  <2> QED BY <2>1, <2>2, <2>3 DEF Walks
<1>9. ASSUME next # NoId PROVE WalkOK'
  <2>1. After' = next
    BY <1>6, <1>7 DEF After
  <2>2. next \in Nat /\ c < next /\ ~cut
    BY <1>1, <1>9, ListingAssumption DEF GoodPage
  <2>3. WalkGoesOn(next, all, stayed)
    <3>1. UpTo(all, next)
      BY <1>2, <1>5, <1>9, <2>2 DEF GoodPage
    <3>2. ASSUME NEW i \in stayed, i <= next PROVE Has(all, i)
      <4>1. CASE i <= c
        BY <1>2, <1>5, <3>2, <4>1
      <4>2. CASE ~(i <= c)
        <5>1. c < i
          BY <1>2, <1>3, <3>2, <4>2
        <5>2. i \in S
          BY <1>1, <2>2, <3>2, <5>1
        <5>3. Has(page, i)
          BY <1>9, <3>2, <5>2 DEF GoodPage
        <5> QED BY <1>5, <5>3
      <4> QED BY <4>1, <4>2
    <3> QED BY <2>2, <3>1, <3>2 DEF WalkGoesOn
  <2>4. walk'.st = "asking" /\ walk'.items = all /\ walk'.cut = cut
    BY <1>6, <1>9
  <2> QED BY <1>5, <2>1, <2>2, <2>3, <2>4 DEF WalkOK
<1>10. ASSUME next = NoId PROVE WalkOK'
  <2>1. walk'.st = "done" /\ walk'.items = all /\ walk'.cut = cut
    BY <1>6, <1>10
  <2>2. ASSUME ~cut, NEW i \in stayed PROVE Has(all, i)
    <3>1. CASE i <= c
      BY <1>2, <1>5, <2>2, <3>1
    <3>2. CASE ~(i <= c)
      <4>1. c < i
        BY <1>2, <1>3, <2>2, <3>2
      <4>2. i \in S
        BY <1>1, <2>2, <4>1
      <4>3. Has(page, i)
        BY <1>10, <4>2 DEF GoodPage
      <4> QED BY <1>5, <4>3
    <3> QED BY <3>1, <3>2
  <2> QED BY <1>5, <2>1, <2>2 DEF WalkOK
<1> QED BY <1>8, <1>9, <1>10

\* Both stores cut a page from the rows above the cursor in the same way.
LEMMA StorePage ==
  ASSUME NEW S, S \subseteq RowIds \ Foreign, NEW c, \A i \in S : c < i,
         NEW q, q = Ordered(S), NEW page, page = Head2(q, PageSize), NEW cut, NEW next,
         \/ Len(q) <= PageSize /\ next = NoId
         \/ Len(q) >= PageSize /\ next = q[PageSize] /\ ~cut
  PROVE  GoodPage(S, page, next, cut, c)
<1>1. IdSet(S) /\ PageSize \in Nat \ {0} /\ NoId \notin S
  <2>1. IsFiniteSet(RowIds) /\ S \subseteq RowIds /\ RowIds \subseteq Nat \ {0} /\ PageSize \in Nat \ {0}
    BY ListingAssumption
  <2>2. IsFiniteSet(S)
    BY <2>1, FS_Subset
  <2> QED BY <2>1, <2>2 DEF IdSet, NoId
<1>2. PICK n \in Nat \ {0} : n = PageSize
  BY <1>1
<1>3. /\ q \in Seq(S) /\ page \in Seq(S) /\ Rising(page)
      /\ Len(q) <= n => \A i \in S : Has(page, i)
      /\ Len(q) >= n => q[n] \in S /\ UpTo(page, q[n]) /\ \A i \in S : i <= q[n] => Has(page, i)
  BY <1>1, <1>2, PageIs
<1>4. CASE Len(q) <= n /\ next = NoId
  BY <1>3, <1>4 DEF GoodPage
<1>5. CASE Len(q) >= n /\ next = q[n] /\ ~cut
  <2>1. next \in S /\ c < next
    BY <1>3, <1>5
  <2> QED BY <1>1, <1>3, <1>5, <2>1 DEF GoodPage
<1> QED BY <1>2, <1>4, <1>5

LEMMA PageLength ==
  ASSUME NEW S, S \subseteq RowIds, NEW q, q = Ordered(S)
  PROVE  /\ Len(q) \in Nat /\ Len(Head2(q, PageSize)) = IF Len(q) < PageSize THEN Len(q) ELSE PageSize
         /\ Len(q) >= PageSize => Head2(q, PageSize)[PageSize] = q[PageSize]
         /\ S = {} => Len(q) = 0
<1>1. IdSet(S) /\ PageSize \in Nat \ {0}
  <2>1. IsFiniteSet(S)
    BY ListingAssumption, FS_Subset
  <2> QED BY <2>1, ListingAssumption DEF IdSet
<1>2. PICK page : page = Head2(q, PageSize)
  OBVIOUS
<1>3. /\ q \in Seq(S) /\ Len(page) = IF Len(q) < PageSize THEN Len(q) ELSE PageSize
      /\ Len(q) >= PageSize => page[PageSize] = q[PageSize]
  BY <1>1, <1>2, PageIs
<1>4. S = {} => Len(q) = 0
  <2>1. ASSUME NEW n \in Nat, n = Len(q), n # 0 PROVE q[1] \in S
    BY <1>3, <2>1, ElementOfSeq
  <2> QED BY <1>3, <2>1
<1> QED BY <1>2, <1>3, <1>4

LEMMA SQLListKeeps == ASSUME ListInv, SQLList PROVE ListInv'
<1>1. PICK S, q : S = {i \in Own(rows) : i > After} /\ q = Ordered(S) /\ q = Found
  BY DEF Found
<1>2. PICK next : next = IF Len(q) > PageSize THEN q[PageSize] ELSE NoId
  OBVIOUS
<1>3. /\ backend = "sql" /\ walk.st = "asking" /\ Deliver(Head2(q, PageSize), next, FALSE)
      /\ UNCHANGED <<backend, collection, rows, ids, stayed, changes>>
  BY <1>1, <1>2 DEF SQLList
<1>4. After \in Nat /\ S \subseteq RowIds \ Foreign /\ (\A i \in S : After < i) /\ S \subseteq RowIds
      /\ \A i \in stayed : After < i => i \in S
  <2>1. After \in Nat /\ RowIds \subseteq Nat /\ rows \subseteq RowIds /\ stayed \subseteq rows \ Foreign
    BY <1>3, ListingAssumption DEF ListInv, ListTyped, WalkOK, WalkGoesOn, Own
  <2> QED BY <1>1, <2>1 DEF Own
<1>5. Len(q) \in Nat /\ PageSize \in Nat
  BY <1>1, <1>4, PageLength, ListingAssumption
<1>6. PICK page, c, cut : page = Head2(q, PageSize) /\ c = After /\ cut = FALSE
  OBVIOUS
<1>7. \/ Len(q) <= PageSize /\ next = NoId
      \/ Len(q) >= PageSize /\ next = q[PageSize] /\ ~cut
  BY <1>2, <1>5, <1>6
<1>8. GoodPage(S, page, next, FALSE, c)
  BY <1>1, <1>4, <1>6, <1>7, StorePage
<1>9. walk' \in Walks /\ WalkOK'
  BY <1>3, <1>4, <1>6, <1>8, DeliverKeeps
<1> QED BY <1>3, <1>9 DEF ListInv, ListTyped

LEMMA ScanRowsKeeps == ASSUME ListInv, ScanRows PROVE ListInv'
<1>1. PICK behind : behind = IF After = NoId THEN ids
                             ELSE IF After \in ids THEN {i \in ids : i > After} ELSE {}
  OBVIOUS
<1>2. PICK S, q, page : S = Own(behind \cap rows) /\ q = Ordered(S) /\ page = Head2(q, PageSize)
  OBVIOUS
<1>3. PICK next, cut : /\ next = IF Len(page) = PageSize THEN page[PageSize] ELSE NoId
                       /\ cut = (After # NoId /\ After \notin ids)
  OBVIOUS
<1>4. /\ walk.st = "scanning" /\ Deliver(page, next, cut)
      /\ ids' = {} /\ UNCHANGED <<backend, collection, rows, stayed, changes>>
  BY <1>1, <1>2, <1>3 DEF ScanRows
<1>5. cut \in BOOLEAN
  BY <1>3
<1>6. /\ After \in Nat /\ RowIds \subseteq Nat \ {0} /\ rows \subseteq RowIds /\ ids \subseteq RowIds
      /\ backend = "memory" /\ stayed \subseteq ids /\ stayed \subseteq rows \ Foreign
  BY <1>4, ListingAssumption DEF ListInv, ListTyped, WalkOK, WalkGoesOn, Own
<1>7. /\ S \subseteq RowIds \ Foreign /\ (\A i \in S : After < i) /\ S \subseteq RowIds
      /\ cut \/ \A i \in stayed : After < i => i \in S
      /\ cut => S = {}
  <2>1. \A i : i \in S <=> i \in behind /\ i \in rows /\ i \notin Foreign
    BY <1>2 DEF Own
  <2>2. cut => behind = {}
    BY <1>1, <1>3
  <2>3. ASSUME ~cut PROVE \A i : i \in behind <=> i \in ids /\ After < i
    <3>1. After = NoId \/ After \in ids
      BY <1>3, <2>3
    <3>2. CASE After = NoId
      <4>1. behind = ids
        BY <1>1, <3>2
      <4>2. \A i \in ids : 0 < i
        BY <1>6
      <4> QED BY <3>2, <4>1, <4>2 DEF NoId
    <3>3. CASE After # NoId /\ After \in ids
      <4>1. behind = {i \in ids : i > After}
        BY <1>1, <3>3
      <4> QED BY <4>1
    <3> QED BY <3>1, <3>2, <3>3
  <2>4. cut => S = {}
    BY <2>1, <2>2
  <2>5. \A i \in S : After < i
    BY <1>5, <2>1, <2>3, <2>4
  <2>6. ~cut => \A i \in stayed : After < i => i \in S
    BY <1>6, <2>1, <2>3
  <2> QED BY <1>5, <1>6, <2>1, <2>4, <2>5, <2>6
<1>8. /\ Len(q) \in Nat /\ Len(page) = IF Len(q) < PageSize THEN Len(q) ELSE PageSize
      /\ Len(q) >= PageSize => page[PageSize] = q[PageSize]
      /\ cut => Len(q) = 0
  BY <1>2, <1>7, PageLength
<1>9. PageSize \in Nat \ {0}
  BY ListingAssumption
<1>10. PICK c : c = After
  OBVIOUS
<1>11. \/ Len(q) <= PageSize /\ next = NoId
       \/ Len(q) >= PageSize /\ next = q[PageSize] /\ ~cut
  BY <1>3, <1>8, <1>9
<1>12. GoodPage(S, page, next, cut, c)
  BY <1>2, <1>7, <1>10, <1>11, StorePage
<1>13. walk' \in Walks /\ WalkOK'
  BY <1>4, <1>5, <1>6, <1>7, <1>10, <1>12, DeliverKeeps
<1> QED BY <1>4, <1>13 DEF ListInv, ListTyped

LEMMA ReadIdsKeeps == ASSUME ListInv, ReadIds PROVE ListInv'
<1>1. /\ backend = "memory" /\ walk.st = "asking" /\ ids' = rows /\ walk' = [walk EXCEPT !.st = "scanning"]
      /\ UNCHANGED <<backend, collection, rows, stayed, changes>>
  BY DEF ReadIds
<1>2. /\ walk' \in Walks /\ walk'.st = "scanning" /\ walk'.items = walk.items /\ walk'.cut = walk.cut
      /\ walk'.token = walk.token
  BY <1>1 DEF ListInv, ListTyped, Walks
<1>3. After' = After
  BY <1>2 DEF After
<1>4. stayed \subseteq ids'
  BY <1>1 DEF ListInv, ListTyped, Own
<1>5. WalkOK'
  BY <1>1, <1>2, <1>3, <1>4 DEF ListInv, WalkOK
<1> QED BY <1>1, <1>2, <1>5 DEF ListInv, ListTyped

LEMMA WrongListingKeeps == ASSUME ListInv, NEW kind, WrongListing(kind) PROVE ListInv'
<1>1. walk' = [walk EXCEPT !.st = "refused"] /\ UNCHANGED <<backend, collection, rows, ids, stayed, changes>>
  BY DEF WrongListing
<1>2. walk' \in Walks /\ walk'.st = "refused" /\ walk'.items = walk.items
  BY <1>1 DEF ListInv, ListTyped, Walks
<1> QED BY <1>1, <1>2 DEF ListInv, ListTyped, WalkOK

LEMMA FewerStay ==
  ASSUME ListInv, rows' \subseteq RowIds, stayed' \subseteq stayed, stayed' \subseteq Own(rows'),
         UNCHANGED <<backend, collection, walk, ids>>
  PROVE  ListInv'
<1>1. After' = After
  BY DEF After
<1>2. WalkOK'
  BY <1>1 DEF ListInv, WalkOK, WalkGoesOn
<1> QED BY <1>2 DEF ListInv, ListTyped

\* A walk that follows the tokens of a listing to its end has every row that
\* was there all along once and in order, and none of another tenant; only a
\* store in memory whose cursor row was deleted cuts it short.
THEOREM PagesCovered == ListingSpec => []PagesCoverEverything
<1>1. ListingInit => ListInv
  <2> SUFFICES ASSUME ListingInit PROVE ListInv
    OBVIOUS
  <2>1. ListTyped
    <3>1. << >> \in Tokens /\ << >> \in Seq(RowIds \ Foreign)
      BY DEF Tokens
    <3> QED BY <3>1 DEF ListingInit, ListTyped, Walks
  <2>2. After = 0
    BY DEF ListingInit, After, Decode, NoId
  <2>3. \A i \in stayed : i \in Nat \ {0}
    BY ListingAssumption DEF ListingInit, Own
  <2>4. Rising(walk.items) /\ UpTo(walk.items, 0) /\ walk.st = "asking" /\ ~walk.cut
    BY DEF ListingInit, Rising, UpTo
  <2> QED BY <2>1, <2>2, <2>3, <2>4 DEF ListInv, WalkOK, WalkGoesOn
<1>2. ListInv /\ [ListingNext]_listingVars => ListInv'
  <2> SUFFICES ASSUME ListInv, [ListingNext]_listingVars PROVE ListInv'
    OBVIOUS
  <2>1. ASSUME NEW i \in RowIds, CreateRow(i) PROVE ListInv'
    BY <2>1, FewerStay DEF CreateRow, ListInv, ListTyped, Own
  <2>2. ASSUME NEW i \in RowIds, DeleteRow(i) PROVE ListInv'
    BY <2>2, FewerStay DEF DeleteRow, ListInv, ListTyped, Own
  <2>3. ASSUME NEW kind \in Kinds, WrongListing(kind) PROVE ListInv'
    BY <2>3, WrongListingKeeps
  <2>4. CASE SQLList
    BY <2>4, SQLListKeeps
  <2>5. CASE ReadIds
    BY <2>5, ReadIdsKeeps
  <2>6. CASE ScanRows
    BY <2>6, ScanRowsKeeps
  <2>7. CASE UNCHANGED listingVars
    BY <2>7, FewerStay DEF listingVars, ListInv, ListTyped
  <2> QED BY <2>1, <2>2, <2>3, <2>4, <2>5, <2>6, <2>7 DEF ListingNext
<1>3. ListInv => PagesCoverEverything
  <2> SUFFICES ASSUME ListInv, walk.st = "done" PROVE PagesCoverEverything
    BY DEF PagesCoverEverything
  <2>1. PICK q : q = walk.items /\ q \in Seq(RowIds \ Foreign) /\ Rising(q)
    BY DEF ListInv, ListTyped, Walks, WalkOK
  <2>2. \A j \in 1 .. Len(q) - 1 : q[j] < q[j + 1]
    BY <2>1 DEF Rising
  <2>3. Range(q) \subseteq RowIds \ Foreign /\ \A i : Has(q, i) => i \in Range(q)
    <3>1. Range(q) = {q[j] : j \in 1 .. Len(q)}
      BY <2>1, RangeEquality
    <3>2. \A j \in 1 .. Len(q) : q[j] \in RowIds \ Foreign
      BY <2>1, ElementOfSeq
    <3> QED BY <3>1, <3>2 DEF Has
  <2>4. (walk.cut \/ stayed \subseteq Range(q)) /\ (walk.cut => backend = "memory")
    BY <2>1, <2>3 DEF ListInv, WalkOK
  <2> QED BY <2>1, <2>2, <2>3, <2>4 DEF PagesCoverEverything
<1> QED BY <1>1, <1>2, <1>3, PTL DEF ListingSpec

-----------------------------------------------------------------------------
(* Lifecycle, for any set of services whose profiles are as ProfileOK      *)
(* says.  Closers run last-registered first, so what a server's closer     *)
(* waits for runs while every closer registered before the server's has    *)
(* still to be called: as long as the grace period lasts, a request in     *)
(* flight has its server's closer ahead of Wait or under it (Guarded).     *)

\* f[i] is what Register has been called for after the first i hooks.
RegisteredTo(f, hooks, have, n) ==
  f = [i \in 0 .. n |-> IF i = 0 THEN <<>> ELSE IF hooks[i] \in have THEN Append(f[i - 1], hooks[i]) ELSE f[i - 1]]

Distinct(q) == \A i, j \in DOMAIN q : q[i] = q[j] => i = j

\* q holds those of the first n hooks that are in have, each once.
Registers(q, hooks, have, n) ==
  /\ q \in Seq(STRING) /\ Distinct(q)
  /\ \A i \in 1 .. n : hooks[i] \in have => \E j \in DOMAIN q : q[j] = hooks[i]
  /\ \A j \in DOMAIN q : \E i \in 1 .. n : q[j] = hooks[i]
  /\ \A j1, j2 \in DOMAIN q : \A i1, i2 \in 1 .. n :
       q[j1] = hooks[i1] /\ q[j2] = hooks[i2] /\ j1 < j2 => i1 < i2

LEMMA RegisterExtends ==
  ASSUME NEW hooks, NEW have, NEW n \in Nat PROVE \E f : RegisteredTo(f, hooks, have, n)
<1> DEFINE S == {i \in 0 .. n : \E f : RegisteredTo(f, hooks, have, i)}
           Nxt(q, i) == IF hooks[i] \in have THEN Append(q, hooks[i]) ELSE q
<1>1. 0 \in S
  <2>1. RegisteredTo([i \in 0 .. 0 |-> <<>>], hooks, have, 0)
    BY DEF RegisteredTo
  <2> QED BY <2>1
<1>2. ASSUME NEW m \in 1 .. n, m - 1 \in S PROVE m \in S
  <2>1. PICK f : RegisteredTo(f, hooks, have, m - 1)
    BY <1>2
  <2> DEFINE g == [i \in 0 .. m |-> IF i = m THEN Nxt(f[m - 1], m) ELSE f[i]]
  <2>2. \A i \in 0 .. m - 1 : f[i] = IF i = 0 THEN <<>> ELSE Nxt(f[i - 1], i)
    BY <2>1 DEF RegisteredTo
  <2>3. m # 0 /\ m - 1 \in 0 .. m /\ m - 1 # m
    OBVIOUS
  <2> HIDE DEF Nxt
  <2>4. g[m - 1] = f[m - 1]
    BY <2>3
  <2>5. ASSUME NEW i \in 0 .. m PROVE g[i] = IF i = 0 THEN <<>> ELSE Nxt(g[i - 1], i)
    <3>1. CASE i = m
      BY <2>3, <2>4, <3>1
    <3>2. CASE i # m /\ i # 0
      <4>1. i \in 0 .. m - 1 /\ i - 1 \in 0 .. m /\ i - 1 # m
        BY <3>2
      <4>2. g[i] = f[i] /\ g[i - 1] = f[i - 1]
        BY <4>1, <3>2
      <4> HIDE DEF g
      <4> QED BY <2>2, <3>2, <4>1, <4>2
    <3>3. CASE i = 0
      BY <2>2, <2>3, <3>3
    <3> QED BY <3>1, <3>2, <3>3
  <2>6. RegisteredTo(g, hooks, have, m)
    <3>1. g = [i \in 0 .. m |-> g[i]]
      OBVIOUS
    <3> HIDE DEF g
    <3>2. [i \in 0 .. m |-> g[i]] = [i \in 0 .. m |-> IF i = 0 THEN <<>> ELSE Nxt(g[i - 1], i)]
      BY <2>5
    <3> QED BY <3>1, <3>2 DEF RegisteredTo, Nxt
  <2> QED BY <2>6
<1> HIDE DEF S
<1>3. 0 .. n \subseteq S
  BY <1>1, <1>2, Positions0
<1> QED BY <1>3 DEF S

LEMMA RegisterAllIs ==
  ASSUME NEW hooks \in Seq(STRING), Distinct(hooks), NEW have
  PROVE  Registers(RegisterAll(hooks, have), hooks, have, Len(hooks))
<1> DEFINE n == Len(hooks)
<1>1. n \in Nat /\ DOMAIN hooks = 1 .. n /\ \A i \in 1 .. n : hooks[i] \in STRING
  BY LenProperties, ElementOfSeq
<1>2. PICK f : RegisteredTo(f, hooks, have, n) /\ RegisterAll(hooks, have) = f[n]
  <2>1. PICK f : f = CHOOSE g : RegisteredTo(g, hooks, have, n)
    OBVIOUS
  <2>2. RegisteredTo(f, hooks, have, n)
    BY <1>1, <2>1, RegisterExtends
  <2>3. RegisterAll(hooks, have) = f[n]
    BY <2>1 DEF RegisterAll, RegisteredTo
  <2> QED
    BY <2>2, <2>3
<1> DEFINE S == {i \in 0 .. n : Registers(f[i], hooks, have, i)}
<1> HIDE DEF n
<1>3. 0 \in S
  <2>1. f[0] = <<>>
    BY <1>1, <1>2 DEF RegisteredTo
  <2>2. Registers(<<>>, hooks, have, 0)
    BY EmptySeq DEF Registers, Distinct
  <2>3. 0 \in 0 .. n
    BY <1>1
  <2> QED
    BY <2>1, <2>2, <2>3 DEF S
<1>4. ASSUME NEW i \in 1 .. n, i - 1 \in S PROVE i \in S
  <2>1. PICK q, x, h : q = f[i - 1] /\ x = f[i] /\ h = hooks[i]
    OBVIOUS
  <2>2. i \in 0 .. n /\ i # 0 /\ Registers(q, hooks, have, i - 1) /\ h \in STRING
    BY <1>1, <1>4, <2>1
  <2>3. x = IF h \in have THEN Append(q, h) ELSE q
    BY <1>2, <2>1, <2>2 DEF RegisteredTo
  <2>4. \A k \in 1 .. i : k \in 1 .. i - 1 \/ k = i
    OBVIOUS
  <2>5. \A k \in 1 .. i - 1 : k \in 1 .. i /\ k \in DOMAIN hooks /\ i \in DOMAIN hooks /\ k # i
    BY <1>1
  <2>6. CASE h \notin have
    <3>1. x = q
      BY <2>3, <2>6
    <3>2. \A j \in DOMAIN q : q[j] # h
      <4>1. ASSUME NEW j \in DOMAIN q, q[j] = h PROVE FALSE
        <5>1. PICK k \in 1 .. i - 1 : q[j] = hooks[k]
          BY <2>2, <4>1 DEF Registers
        <5>2. hooks[k] = hooks[i]
          BY <2>1, <4>1, <5>1
        <5> QED
          BY <2>5, <5>1, <5>2 DEF Distinct
      <4> QED
        BY <4>1
    <3>3. ASSUME NEW j1 \in DOMAIN q, NEW j2 \in DOMAIN q, NEW i1 \in 1 .. i, NEW i2 \in 1 .. i,
                 q[j1] = hooks[i1], q[j2] = hooks[i2], j1 < j2
          PROVE  i1 < i2
      <4>1. i1 \in 1 .. i - 1 /\ i2 \in 1 .. i - 1
        BY <2>1, <2>4, <3>2, <3>3
      <4> QED
        BY <2>2, <3>3, <4>1 DEF Registers
    <3>4. Registers(q, hooks, have, i)
      <4>1. \A k \in 1 .. i : hooks[k] \in have => \E j \in DOMAIN q : q[j] = hooks[k]
        BY <2>1, <2>2, <2>4, <2>6 DEF Registers
      <4>2. \A j \in DOMAIN q : \E k \in 1 .. i : q[j] = hooks[k]
        BY <2>2, <2>5 DEF Registers
      <4> QED
        BY <2>2, <3>3, <4>1, <4>2 DEF Registers
    <3> QED
      BY <2>1, <2>2, <3>1, <3>4
  <2>7. CASE h \in have
    <3>1. /\ x \in Seq(STRING) /\ Len(x) = Len(q) + 1 /\ Len(q) \in Nat /\ DOMAIN q = 1 .. Len(q)
          /\ DOMAIN x = 1 .. Len(q) + 1
          /\ \A j \in 1 .. Len(q) : x[j] = q[j]
          /\ x[Len(q) + 1] = h
      BY <2>2, <2>3, <2>7, AppendProperties DEF Registers
    <3>2. PICK m \in Nat : m = Len(q)
      BY <3>1
    <3>3. \A j \in 1 .. m : j \in 1 .. m + 1 /\ j # m + 1
      OBVIOUS
    <3>4. \A j \in 1 .. m + 1 : j \in 1 .. m \/ j = m + 1
      OBVIOUS
    <3>5. \A j \in 1 .. m : x[j] = q[j] /\ q[j] # h
      <4>1. ASSUME NEW j \in 1 .. m, q[j] = h PROVE FALSE
        <5>1. PICK k \in 1 .. i - 1 : q[j] = hooks[k]
          BY <2>2, <3>1, <3>2 DEF Registers
        <5>2. hooks[k] = hooks[i]
          BY <2>1, <4>1, <5>1
        <5> QED
          BY <2>5, <5>1, <5>2 DEF Distinct
      <4> QED
        BY <3>1, <3>2, <4>1
    <3>6. Distinct(x)
      BY <2>2, <3>1, <3>2, <3>4, <3>5 DEF Registers, Distinct
    <3>7. ASSUME NEW k \in 1 .. i, hooks[k] \in have PROVE \E j \in DOMAIN x : x[j] = hooks[k]
      <4>1. CASE k = i
        BY <2>1, <3>1, <3>2, <4>1
      <4>2. CASE k \in 1 .. i - 1
        BY <2>2, <3>1, <3>2, <3>3, <3>7, <4>2 DEF Registers
      <4> QED
        BY <2>4, <4>1, <4>2
    <3>8. ASSUME NEW j \in DOMAIN x PROVE \E k \in 1 .. i : x[j] = hooks[k]
      <4>1. CASE j = m + 1
        BY <2>1, <3>1, <3>2, <4>1
      <4>2. CASE j \in 1 .. m
        BY <2>2, <2>5, <3>1, <3>2, <4>2 DEF Registers
      <4> QED
        BY <3>1, <3>2, <3>4, <4>1, <4>2
    <3>9. ASSUME NEW j1 \in DOMAIN x, NEW j2 \in DOMAIN x, NEW i1 \in 1 .. i, NEW i2 \in 1 .. i,
                 x[j1] = hooks[i1], x[j2] = hooks[i2], j1 < j2
          PROVE  i1 < i2
      <4>1. j1 \in 1 .. m /\ (j2 \in 1 .. m \/ j2 = m + 1)
        BY <3>1, <3>2, <3>9
      <4>2. x[j1] = q[j1] /\ i1 # i
        BY <2>1, <3>5, <3>9, <4>1
      <4>3. i1 \in 1 .. i - 1
        BY <2>4, <4>2
      <4>4. CASE j2 = m + 1
        <5>1. hooks[i2] = hooks[i]
          BY <2>1, <3>1, <3>2, <3>9, <4>4
        <5>2. i2 = i
          BY <2>4, <2>5, <5>1 DEF Distinct
        <5> QED
          BY <4>3, <5>2
      <4>5. CASE j2 \in 1 .. m
        <5>1. x[j2] = q[j2] /\ i2 # i
          BY <2>1, <3>5, <3>9, <4>5
        <5>2. i2 \in 1 .. i - 1
          BY <2>4, <5>1
        <5>3. j1 \in DOMAIN q /\ j2 \in DOMAIN q
          BY <3>1, <3>2, <4>1, <4>5
        <5> QED
          BY <2>2, <3>9, <4>2, <4>3, <5>1, <5>2, <5>3 DEF Registers
      <4> QED
        BY <4>1, <4>4, <4>5
    <3>10. Registers(x, hooks, have, i)
      BY <3>1, <3>6, <3>7, <3>8, <3>9 DEF Registers
    <3> QED
      BY <2>1, <2>2, <3>10
  <2> QED
    BY <2>6, <2>7
<1> HIDE DEF S
<1>5. 0 .. n \subseteq S
  BY <1>1, <1>3, <1>4, Positions0
<1>6. Registers(f[n], hooks, have, n)
  BY <1>1, <1>5 DEF S
<1> QED
  BY <1>2, <1>6 DEF n

\* The fields of a piece of work.
IsWork(x) == x = [kind |-> x.kind, st |-> x.st, todo |-> x.todo]

\* The closers Wait calls are run()'s, in the order it registers them.
FromHooks ==
  /\ \A j \in DOMAIN reg : \E i \in DOMAIN P.hooks : reg[j] = P.hooks[i]
  /\ \A j1, j2 \in DOMAIN reg : \A i1, i2 \in DOMAIN P.hooks :
       reg[j1] = P.hooks[i1] /\ reg[j2] = P.hooks[i2] /\ j1 < j2 => i1 < i2

LifeTypes ==
  /\ svc \in DOMAIN Profiles /\ step \in 0 .. Len(P.boot)
  /\ phase \in {"boot", "serving", "stopping", "exited", "dead"} /\ inTime \in BOOLEAN
  /\ reg \in Seq(STRING) /\ Distinct(reg) /\ FromHooks /\ left \in 0 .. Len(reg)
  /\ work = [w \in Slots |-> work[w]] /\ \A w \in Slots : IsWork(work[w])

\* While run() opens what it needs.
Booting(opened, without) ==
  /\ \A i \in 1 .. step : P.boot[i] \in opened \cup without
  /\ opened \subseteq ToSet(P.boot)

\* The closer of r has been called, or is being called: n closers are left.
Called(r, n) == \E i \in DOMAIN reg : i >= n /\ reg[i] = r

\* The process answers.
Up == phase \in {"serving", "stopping"}

\* Wait has still to return from the closer of the server kind.
Guarded(kind) == \E i \in DOMAIN reg : reg[i] = kind /\ (phase = "stopping" => i <= left)

\* r is open, or its closer is what closed it; a closer called has closed.
Kept(r) == r \in open \/ (phase = "stopping" /\ Called(r, left))
Closed  == \A i \in DOMAIN reg : i > left => reg[i] \notin open

\* What is open in each phase.
OpenOK ==
  /\ phase = "boot" => Booting(open, off) /\ reg = <<>>
  /\ Up => /\ \A r \in ToSet(P.boot) \ Servers : r \in off \/ Kept(r)
           /\ \A kind \in Answered \cap open : inTime => Guarded(kind)
  /\ phase \in {"stopping", "exited"} => Closed
  /\ phase = "serving" => left = 0
  /\ phase = "exited" => left = 0

(* A running request has yet to touch only what it needs and run() opened, *)
(* and its server's closer has not returned; what ended badly did so after *)
(* the deadline, or on a resource whose closer was registered later.       *)
WorkOK(x) ==
  x.kind \in Answered =>
    /\ x.st = "running" /\ phase # "exited" =>
         Up /\ x.kind \in DOMAIN P.needs /\ x.todo \subseteq P.needs[x.kind] \ off /\ (inTime => Guarded(x.kind))
    /\ x.st = "cut" => ~inTime
    /\ x.st = "refused" => phase # "serving" /\ (inTime => x.todo \subseteq ClosedUnder(P, x.kind))
    /\ phase = "exited" => x.st # "running"
    /\ phase = "boot" => x.st = "idle"

LifeInv == LifeTypes /\ OpenOK /\ \A w \in Slots : WorkOK(work[w])

\* The profile of the service the process runs.
LEMMA ShapeOfP ==
  ASSUME svc \in DOMAIN Profiles
  PROVE  ProfileOK(P)
  BY LifecycleAssumption DEF P

LEMMA LifeInitInv == LifeInit => LifeInv
<1> SUFFICES ASSUME LifeInit PROVE LifeInv
  OBVIOUS
<1>1. ProfileOK(P)
  BY ShapeOfP DEF LifeInit
<1>2. LifeTypes
  <2>1. Len(P.boot) \in Nat /\ 0 \in 0 .. Len(P.boot)
    BY <1>1 DEF ProfileOK
  <2>2. <<>> \in Seq(STRING) /\ Len(<<>>) = 0 /\ Distinct(<<>>)
    BY EmptySeq DEF Distinct
  <2>3. IsWork(Idle)
    BY DEF Idle, IsWork
  <2> QED
    BY <2>1, <2>2, <2>3, EmptySeq DEF LifeInit, LifeTypes, FromHooks
<1>3. OpenOK
  BY DEF LifeInit, OpenOK, Booting, Up
<1>4. ASSUME NEW w \in Slots PROVE WorkOK(work[w])
  <2>1. work[w] = Idle /\ "none" \notin Answered
    BY DEF LifeInit, Answered
  <2> QED
    BY <2>1 DEF WorkOK, Idle
<1> QED
  BY <1>2, <1>3, <1>4 DEF LifeInv

LEMMA InvIsEnough == LifeInv => RequestsKeepTheirResources /\ AcceptedRequestsAreAnswered /\ EveryCloserRuns
<1> SUFFICES ASSUME LifeInv PROVE RequestsKeepTheirResources /\ AcceptedRequestsAreAnswered /\ EveryCloserRuns
  OBVIOUS
<1>1. RequestsKeepTheirResources
  BY DEF LifeInv, WorkOK, RequestsKeepTheirResources
<1>2. AcceptedRequestsAreAnswered
  BY DEF LifeInv, WorkOK, AcceptedRequestsAreAnswered
<1>3. EveryCloserRuns
  <2>1. phase = "exited" => \A i \in DOMAIN reg : reg[i] \notin open
    <3>1. \A i \in DOMAIN reg : i > 0
      BY LenProperties DEF LifeInv, LifeTypes
    <3> QED
      BY <3>1 DEF LifeInv, OpenOK, Closed
  <2> QED
    BY <2>1 DEF EveryCloserRuns, ToSet
<1> QED
  BY <1>1, <1>2, <1>3

\* One piece of work moves.
LEMMA WorkMoves ==
  ASSUME LifeInv, NEW w \in Slots, NEW x, IsWork(x), WorkOK(x), work' = [work EXCEPT ![w] = x],
         UNCHANGED <<svc, off, phase, step, open, reg, left, inTime>>
  PROVE  LifeInv'
<1>1. P' = P
  BY DEF P
<1>2. work'[w] = x /\ work' = [v \in Slots |-> work'[v]] /\ \A v \in Slots \ {w} : work'[v] = work[v]
  <2>1. work = [v \in Slots |-> work[v]]
    BY DEF LifeInv, LifeTypes
  <2>2. work' = [v \in Slots |-> IF v = w THEN x ELSE work[v]]
    BY <2>1
  <2> QED
    BY <2>2
<1>3. LifeTypes'
  BY <1>1, <1>2 DEF LifeInv, LifeTypes, IsWork, Distinct, FromHooks
<1>4. OpenOK'
  BY <1>1 DEF LifeInv, OpenOK, Booting, Up, Kept, Called, Guarded, Closed
<1>5. ASSUME NEW v \in Slots PROVE WorkOK(work[v])'
  <2>1. PICK y : y = work'[v]
    OBVIOUS
  <2>2. WorkOK(y)
    BY <1>2, <2>1 DEF LifeInv
  <2> QED
    BY <1>1, <2>1, <2>2 DEF WorkOK, Up, Guarded
<1> QED
  BY <1>3, <1>4, <1>5 DEF LifeInv

LEMMA ServersAre ==
  /\ Answered \subseteq Servers /\ HttpServers \subseteq Servers
  /\ "http" \in Answered /\ "http" \in HttpServers /\ "grpc" \in Servers
  /\ \A k \in Answered : k = "http" \/ k = "grpc"
  /\ "forwarder" \notin Servers /\ "scheduler" \notin Servers
  BY DEF Answered, Servers, HttpServers

\* Wait has called the closer at left, or is calling it.
LEMMA ClosersMove ==
  ASSUME LifeInv, phase = "stopping", left > 0,
         UNCHANGED <<svc, off, phase, step, reg, inTime>>,
         open' = open \ {reg[left]}, left' = left \/ left' = left - 1,
         left' = left - 1 /\ inTime =>
             reg[left] \notin Answered \/ (reg[left] \notin open /\ InFlight(reg[left]) = {}),
         work' = [w \in Slots |-> work'[w]],
         \A w \in Slots : work'[w] = work[w] \/ (~inTime /\ work'[w] = [work[w] EXCEPT !.st = "cut"])
  PROVE  LifeInv'
<1>1. P' = P
  BY DEF P
<1>2. PICK l \in Nat, m \in Nat : /\ l = left /\ m = left' /\ l > 0 /\ (m = l \/ m = l - 1)
                                /\ l \in DOMAIN reg /\ m <= l /\ m \in 0 .. Len(reg)
  <2>1. left \in 0 .. Len(reg) /\ Len(reg) \in Nat /\ DOMAIN reg = 1 .. Len(reg)
    BY LenProperties DEF LifeInv, LifeTypes
  <2>2. left \in Nat /\ left' \in Nat /\ left \in DOMAIN reg /\ left' <= left /\ left' \in 0 .. Len(reg)
    BY <2>1
  <2> QED
    BY <2>2
<1>3. DOMAIN reg \subseteq Nat
  BY LenProperties DEF LifeInv, LifeTypes
<1>4. \A w \in Slots : IsWork(work'[w])
  <2>1. ASSUME NEW w \in Slots PROVE IsWork(work'[w])
    <3>1. IsWork(work[w])
      BY DEF LifeInv, LifeTypes
    <3>2. CASE work'[w] = work[w]
      BY <3>1, <3>2
    <3>3. CASE work'[w] = [work[w] EXCEPT !.st = "cut"]
      BY <3>1, <3>3 DEF IsWork
    <3> QED
      BY <3>2, <3>3
  <2> QED
    BY <2>1
<1>5. LifeTypes'
  BY <1>1, <1>2, <1>4 DEF LifeInv, LifeTypes, Distinct, FromHooks
<1>6. \A r : Kept(r) => Kept(r)'
  BY <1>2, <1>3 DEF Kept, Called
<1>7. Closed'
  BY <1>2, <1>3 DEF LifeInv, OpenOK, Closed
<1>8. ASSUME NEW k \in Answered, inTime, Guarded(k),
             k \in open' \/ \E w \in Slots : work[w].kind = k /\ work[w].st = "running"
      PROVE  Guarded(k)'
  <2>1. PICK i \in DOMAIN reg : reg[i] = k /\ i <= l
    BY <1>2, <1>8 DEF Guarded
  <2>2. CASE m = l
    BY <1>2, <2>1, <2>2 DEF Guarded
  <2>3. CASE m = l - 1
    <3>1. i # l
      BY <1>2, <1>8, <2>1, <2>3 DEF InFlight
    <3>2. i <= m
      BY <1>2, <1>3, <2>1, <2>3, <3>1
    <3> QED
      BY <1>2, <2>1, <3>2 DEF Guarded
  <2> QED
    BY <1>2, <2>2, <2>3
<1>9. OpenOK'
  <2>1. ASSUME NEW r \in ToSet(P.boot) \ Servers PROVE (r \in off) \/ Kept(r)'
    BY <1>6 DEF LifeInv, OpenOK, Up
  <2>2. ASSUME NEW k \in Answered \cap open', inTime PROVE Guarded(k)'
    BY <1>8, <2>2 DEF LifeInv, OpenOK, Up
  <2> QED
    BY <1>1, <1>7, <2>1, <2>2 DEF OpenOK, Up
<1>10. ASSUME NEW w \in Slots PROVE WorkOK(work[w])'
  <2>1. PICK x, y : x = work[w] /\ y = work'[w]
    OBVIOUS
  <2>2. WorkOK(x) /\ IsWork(x)
    BY <2>1 DEF LifeInv, LifeTypes
  <2>3. y.kind = x.kind /\ y.todo = x.todo /\ (y = x \/ (~inTime /\ y.st = "cut"))
    BY <2>1, <2>2 DEF IsWork
  <2>4. x.kind \in Answered /\ inTime /\ y.st = "running" => Guarded(x.kind)'
    BY <1>8, <2>1, <2>2, <2>3 DEF WorkOK
  <2>5. y.kind \in Answered => /\ y.st = "running" => y.kind \in DOMAIN P.needs /\ y.todo \subseteq P.needs[y.kind] \ off
                               /\ y.st = "cut" => ~inTime
                               /\ y.st = "refused" /\ inTime => y.todo \subseteq ClosedUnder(P, y.kind)
    BY <2>2, <2>3 DEF WorkOK
  <2> QED
    BY <1>1, <2>1, <2>3, <2>4, <2>5 DEF WorkOK, Up
<1> QED
  BY <1>5, <1>9, <1>10 DEF LifeInv

LEMMA ClosersKeep == ASSUME LifeInv, StopsAccepting \/ Drained \/ DeadlinePasses \/ Release PROVE LifeInv'
<1>0. work = [w \in Slots |-> work[w]]
  BY DEF LifeInv, LifeTypes
<1>1. CASE StopsAccepting
  <2>1. /\ phase = "stopping" /\ left > 0 /\ left' = left /\ open' = open \ {reg[left]}
        /\ UNCHANGED <<svc, off, phase, step, reg, inTime, work>>
    BY <1>1 DEF StopsAccepting, Current
  <2>2. left' # left - 1
    BY <2>1 DEF LifeInv, LifeTypes
  <2> QED
    BY <1>0, <2>1, <2>2, ClosersMove
<1>2. CASE Drained
  <2>1. /\ phase = "stopping" /\ left > 0 /\ left' = left - 1 /\ reg[left] \notin open
        /\ UNCHANGED <<svc, off, phase, step, open, reg, inTime, work>>
        /\ reg[left] \notin Answered \/ InFlight(reg[left]) = {}
    BY <1>2, ServersAre DEF Drained, Current, Return
  <2>2. open' = open \ {reg[left]}
    BY <2>1
  <2> QED
    BY <1>0, <2>1, <2>2, ClosersMove
<1>3. CASE DeadlinePasses
  <2>1. /\ phase = "stopping" /\ left > 0 /\ left' = left - 1 /\ ~inTime /\ open' = open \ {reg[left]}
        /\ UNCHANGED <<svc, off, phase, step, reg, inTime>>
    BY <1>3 DEF DeadlinePasses, Current, Return
  <2>2. /\ work' = [w \in Slots |-> work'[w]]
        /\ \A w \in Slots : work'[w] = work[w] \/ (~inTime /\ work'[w] = [work[w] EXCEPT !.st = "cut"])
    BY <1>3 DEF DeadlinePasses
  <2> QED
    BY <2>1, <2>2, ClosersMove
<1>4. CASE Release
  <2>1. /\ phase = "stopping" /\ left > 0 /\ left' = left - 1 /\ open' = open \ {reg[left]}
        /\ UNCHANGED <<svc, off, phase, step, reg, inTime, work>>
        /\ reg[left] \notin Answered
    BY <1>4, ServersAre DEF Release, Current, Return
  <2> QED
    BY <1>0, <2>1, ClosersMove
<1> QED
  BY <1>1, <1>2, <1>3, <1>4

LEMMA BootKeeps == ASSUME LifeInv, BootStep \/ BootStepFails \/ KilledDuringBoot PROVE LifeInv'
<1>1. P' = P /\ ProfileOK(P) /\ UNCHANGED <<svc, reg, left, inTime, work>> /\ phase = "boot"
  BY ShapeOfP DEF LifeInv, LifeTypes, P, BootStep, BootStepFails, KilledDuringBoot
<1>2. step \in 0 .. Len(P.boot) /\ Len(P.boot) \in Nat /\ P.boot \in Seq(STRING) /\ DOMAIN P.boot = 1 .. Len(P.boot)
  BY <1>1, LenProperties DEF LifeInv, LifeTypes, ProfileOK
<1>3. Booting(open, off) /\ reg = <<>>
  BY <1>1 DEF LifeInv, OpenOK
<1>4. phase' \in {"boot", "dead"}
  BY <1>1 DEF BootStep, BootStepFails, KilledDuringBoot
<1>5. phase' = "boot" => step' \in 0 .. Len(P.boot) /\ Booting(open, off)'
  <2>1. CASE BootStep
    <3>1. PICK n \in 1 .. Len(P.boot) : n = step + 1 /\ step' = n /\ off' = off /\ open' = open \cup ({P.boot[n]} \ off)
      BY <1>2, <2>1 DEF BootStep
    <3>2. \A i \in 1 .. n : i \in 1 .. step \/ i = n
      BY <1>2, <3>1
    <3>3. \A i \in 1 .. n : P.boot[i] \in open' \cup off'
      BY <1>3, <3>1, <3>2 DEF Booting
    <3>4. open' \subseteq ToSet(P.boot)
      BY <1>2, <1>3, <3>1 DEF Booting, ToSet
    <3> QED
      BY <1>1, <3>1, <3>3, <3>4 DEF Booting
  <2>2. CASE BootStepFails /\ phase' = "boot"
    <3>1. PICK n \in 1 .. Len(P.boot) : n = step + 1 /\ step' = n /\ off' = off \cup {P.boot[n]} /\ open' = open
      BY <1>2, <2>2 DEF BootStepFails
    <3>2. \A i \in 1 .. n : i \in 1 .. step \/ i = n
      BY <1>2, <3>1
    <3>3. \A i \in 1 .. n : P.boot[i] \in open' \cup off'
      BY <1>3, <3>1, <3>2 DEF Booting
    <3> QED
      BY <1>1, <1>3, <3>1, <3>3 DEF Booting
  <2>3. CASE KilledDuringBoot
    BY <2>3 DEF KilledDuringBoot
  <2> QED
    BY <2>1, <2>2, <2>3
<1>6. step' \in 0 .. Len(P.boot)
  <2>1. phase' = "dead" => step' = step
    BY <1>1 DEF BootStep, BootStepFails, KilledDuringBoot
  <2> QED
    BY <1>2, <1>4, <1>5, <2>1
<1>7. LifeTypes'
  BY <1>1, <1>4, <1>6 DEF LifeInv, LifeTypes, Distinct, FromHooks
<1>8. OpenOK'
  BY <1>1, <1>3, <1>4, <1>5 DEF OpenOK, Up
<1>9. ASSUME NEW w \in Slots PROVE WorkOK(work[w])'
  <2>1. PICK x : x = work[w]
    OBVIOUS
  <2>2. x.kind \in Answered => x.st = "idle"
    BY <1>1, <2>1 DEF LifeInv, WorkOK
  <2> QED
    BY <1>1, <1>4, <2>1, <2>2 DEF WorkOK
<1> QED
  BY <1>7, <1>8, <1>9 DEF LifeInv

LEMMA StartKeeps == ASSUME LifeInv, StartServing PROVE LifeInv'
<1>1. /\ P' = P /\ ProfileOK(P) /\ UNCHANGED <<svc, off, step, left, inTime, work>> /\ phase = "boot"
      /\ phase' = "serving" /\ step = Len(P.boot) /\ open' = open \cup (HttpServers \cap ToSet(P.hooks))
      /\ reg' = RegisterAll(P.hooks, open \cup Servers \cup {"runner"})
  BY ShapeOfP DEF LifeInv, LifeTypes, P, StartServing, Registered
<1>2. Booting(open, off) /\ reg = <<>> /\ left = 0
  BY <1>1, EmptySeq DEF LifeInv, OpenOK, LifeTypes
<1>3. Registers(reg', P.hooks, open \cup Servers \cup {"runner"}, Len(P.hooks))
  BY <1>1, RegisterAllIs DEF ProfileOK, Distinct
<1>4. P.hooks \in Seq(STRING) /\ DOMAIN P.hooks = 1 .. Len(P.hooks) /\ P.boot \in Seq(STRING) /\ DOMAIN P.boot = 1 .. step
  BY <1>1, LenProperties DEF ProfileOK
<1>5. LifeTypes'
  <2>1. reg' \in Seq(STRING) /\ Distinct(reg')
    BY <1>3 DEF Registers
  <2>2. left' \in 0 .. Len(reg')
    BY <1>1, <1>2, <2>1
  <2>3. FromHooks'
    <3>1. PICK q, h, n : q = reg' /\ h = P.hooks /\ n = Len(P.hooks)
      OBVIOUS
    <3>2. DOMAIN h = 1 .. n /\ Registers(q, h, open \cup Servers \cup {"runner"}, n)
      BY <1>3, <1>4, <3>1
    <3>3. /\ \A j \in DOMAIN q : \E i \in DOMAIN h : q[j] = h[i]
          /\ \A j1, j2 \in DOMAIN q : \A i1, i2 \in DOMAIN h : q[j1] = h[i1] /\ q[j2] = h[i2] /\ j1 < j2 => i1 < i2
      BY <3>2, Zenon DEF Registers
    <3> QED
      BY <1>1, <3>1, <3>3 DEF FromHooks
  <2> QED
    BY <1>1, <2>1, <2>2, <2>3 DEF LifeInv, LifeTypes, Distinct
<1>6. \A k \in Servers \cap ToSet(P.hooks) : \E i \in DOMAIN reg' : reg'[i] = k
  BY <1>3, <1>4 DEF Registers, ToSet
<1>7. \A r \in ToSet(P.boot) \ Servers : r \in off \/ r \in open'
  BY <1>1, <1>2, <1>4 DEF Booting, ToSet
<1>8. \A k \in Answered \cap open' : k \in ToSet(P.hooks)
  BY <1>1, <1>2 DEF Booting, ProfileOK
<1>9. OpenOK'
  BY <1>1, <1>2, <1>6, <1>7, <1>8, ServersAre DEF OpenOK, Up, Kept, Guarded
<1>10. ASSUME NEW w \in Slots PROVE WorkOK(work[w])'
  <2>1. PICK x : x = work[w]
    OBVIOUS
  <2>2. x.kind \in Answered => x.st = "idle"
    BY <1>1, <2>1 DEF LifeInv, WorkOK
  <2> QED
    BY <1>1, <2>1, <2>2 DEF WorkOK
<1> QED
  BY <1>5, <1>9, <1>10 DEF LifeInv

LEMMA SignalKeeps == ASSUME LifeInv, Signal \/ GraceExpires \/ Exit \/ \E s \in HttpServers : ListenFails(s) PROVE LifeInv'
<1>0. P' = P /\ UNCHANGED <<svc, off, step, reg>> /\ Up
  BY DEF P, Signal, GraceExpires, Exit, ListenFails, Up
<1>1. /\ DOMAIN reg = 1 .. Len(reg) /\ Len(reg) \in Nat /\ left \in 0 .. Len(reg)
      /\ work = [w \in Slots |-> work[w]] /\ \A w \in Slots : IsWork(work[w]) /\ WorkOK(work[w])
  BY LenProperties DEF LifeInv, LifeTypes
<1>2. /\ \A r \in ToSet(P.boot) \ Servers : r \in off \/ Kept(r)
      /\ \A kind \in Answered \cap open : inTime => Guarded(kind)
  BY <1>0 DEF LifeInv, OpenOK
<1>3. CASE Signal
  <2>1. /\ phase = "serving" /\ phase' = "stopping" /\ left' = Len(reg) /\ UNCHANGED <<open, inTime, work>>
    BY <1>3 DEF Signal
  <2>2. \A kind : Guarded(kind) => Guarded(kind)'
    BY <1>0, <1>1, <2>1 DEF Guarded
  <2>3. LifeTypes'
    BY <1>0, <1>1, <2>1 DEF LifeInv, LifeTypes, Distinct, FromHooks
  <2>4. Closed'
    BY <1>0, <1>1, <2>1 DEF Closed
  <2>5. OpenOK'
    BY <1>0, <1>2, <2>1, <2>2, <2>4 DEF OpenOK, Up, Kept
  <2>6. ASSUME NEW w \in Slots PROVE WorkOK(work[w])'
    <3>1. PICK x : x = work[w] /\ x = work'[w]
      BY <2>1
    <3>2. WorkOK(x)
      BY <1>1, <3>1
    <3>3. x.kind \in Answered /\ x.st = "running" /\ inTime => Guarded(x.kind)'
      BY <2>1, <2>2, <3>2 DEF WorkOK
    <3>4. phase # "boot" /\ phase' # "boot" /\ phase # "exited" /\ phase' # "exited" /\ Up' /\ inTime' = inTime
      BY <2>1 DEF Up
    <3>5. phase' # "serving"
      BY <2>1
    <3> QED
      BY <1>0, <3>1, <3>2, <3>3, <3>4, <3>5 DEF WorkOK
  <2> QED
    BY <2>3, <2>5, <2>6 DEF LifeInv
<1>4. CASE GraceExpires
  <2>1. /\ phase = "stopping" /\ ~inTime' /\ UNCHANGED <<phase, open, left, work>>
    BY <1>4 DEF GraceExpires
  <2>2. LifeTypes'
    <3>1. FromHooks' /\ Distinct(reg)'
      BY <1>0 DEF LifeInv, LifeTypes, Distinct, FromHooks
    <3> QED
      BY <1>0, <1>4, <2>1, <3>1 DEF LifeInv, LifeTypes, GraceExpires
  <2>3. OpenOK'
    BY <1>0, <1>2, <2>1 DEF LifeInv, OpenOK, Up, Kept, Called, Closed
  <2>4. ASSUME NEW w \in Slots PROVE WorkOK(work[w])'
    BY <1>0, <1>1, <2>1 DEF WorkOK, Up
  <2> QED
    BY <2>2, <2>3, <2>4 DEF LifeInv
<1>5. CASE Exit
  <2>1. /\ phase = "stopping" /\ phase' = "exited" /\ left = 0 /\ UNCHANGED <<open, inTime, left>>
        /\ work' = [w \in Slots |-> IF work[w].st = "running" THEN [work[w] EXCEPT !.st = "cut"] ELSE work[w]]
    BY <1>5 DEF Exit
  <2>2. \A kind : ~Guarded(kind)
    BY <1>1, <2>1 DEF Guarded
  <2>3. \A w \in Slots : IsWork(work'[w])
    BY <1>1, <2>1 DEF IsWork
  <2>4. LifeTypes'
    BY <1>0, <1>1, <2>1, <2>3 DEF LifeInv, LifeTypes, Distinct, FromHooks
  <2>5. OpenOK'
    BY <1>0, <2>1 DEF LifeInv, OpenOK, Up, Closed
  <2>6. ASSUME NEW w \in Slots PROVE WorkOK(work[w])'
    <3>1. PICK x, y : x = work[w] /\ y = work'[w]
      OBVIOUS
    <3>2. IsWork(x) /\ WorkOK(x) /\ y = IF x.st = "running" THEN [x EXCEPT !.st = "cut"] ELSE x
      BY <1>1, <2>1, <3>1
    <3>3. y.kind = x.kind /\ y.todo = x.todo /\ y.st = IF x.st = "running" THEN "cut" ELSE x.st
      BY <3>2 DEF IsWork
    <3>4. x.kind \in Answered /\ x.st = "running" => ~inTime
      BY <2>1, <2>2, <3>2 DEF WorkOK
    <3> QED
      BY <1>0, <2>1, <3>1, <3>2, <3>3, <3>4 DEF WorkOK
  <2> QED
    BY <2>4, <2>5, <2>6 DEF LifeInv
<1>6. CASE \E s \in HttpServers : ListenFails(s)
  <2>1. PICK s \in HttpServers : ListenFails(s)
    BY <1>6
  <2>2. phase = "serving" /\ open' = open \ {s} /\ UNCHANGED <<phase, inTime, left, work>>
    BY <2>1 DEF ListenFails
  <2>3. LifeTypes'
    BY <1>0, <2>2 DEF LifeInv, LifeTypes, Distinct, FromHooks
  <2>4. OpenOK'
    BY <1>0, <1>2, <2>2, ServersAre DEF LifeInv, OpenOK, Up, Kept, Guarded
  <2>5. ASSUME NEW w \in Slots PROVE WorkOK(work[w])'
    <3>1. PICK x : x = work[w] /\ x = work'[w]
      BY <2>2
    <3>2. WorkOK(x)
      BY <1>1, <3>1
    <3>3. Guarded(x.kind)' = Guarded(x.kind)
      BY <1>0, <2>2 DEF Guarded
    <3> QED
      BY <1>0, <2>2, <3>1, <3>2, <3>3 DEF WorkOK, Up
  <2> QED
    BY <2>3, <2>4, <2>5 DEF LifeInv
<1> QED
  BY <1>3, <1>4, <1>5, <1>6

LEMMA WorkKeeps ==
  ASSUME LifeInv, NEW w \in Slots,
         (\E kind \in DOMAIN P.needs : AcceptWork(w, kind)) \/ Finish(w) \/ \E r \in work[w].todo : Touch(w, r)
  PROVE  LifeInv'
<1>1. /\ UNCHANGED <<svc, off, phase, step, open, reg, left, inTime>> /\ Up
      /\ phase # "boot" /\ phase # "exited"
  BY DEF AcceptWork, Finish, Touch, Running, Up
<1>2. PICK u : u = work[w]
  OBVIOUS
<1>3. IsWork(u) /\ WorkOK(u) /\ OpenOK /\ Distinct(reg) /\ ProfileOK(P)
  BY <1>2, ShapeOfP DEF LifeInv, LifeTypes
<1>4. CASE \E kind \in DOMAIN P.needs : AcceptWork(w, kind)
  <2>1. PICK kind \in DOMAIN P.needs : AcceptWork(w, kind)
    BY <1>4
  <2>2. PICK x : x = [kind |-> kind, st |-> "running", todo |-> P.needs[kind] \ off] /\ work' = [work EXCEPT ![w] = x]
    BY <2>1 DEF AcceptWork
  <2>3. x.kind = kind /\ x.st = "running" /\ x.todo = P.needs[kind] \ off /\ IsWork(x)
    BY <2>2 DEF IsWork
  <2>4. kind \in Answered => kind \in open
    <3>1. kind \in Answered => kind # "msg" /\ kind # "tick"
      BY DEF Answered
    <3> QED
      BY <2>1, <3>1 DEF AcceptWork, Arrives
  <2>5. kind \in Answered /\ inTime => Guarded(kind)
    BY <1>1, <1>3, <2>4 DEF OpenOK
  <2>6. kind \in Answered => P.needs[kind] \subseteq ToSet(P.boot) \ Servers
    BY <1>3 DEF ProfileOK
  <2>7. WorkOK(x)
    BY <1>1, <2>3, <2>5, <2>6 DEF WorkOK
  <2> QED
    BY <1>1, <2>2, <2>3, <2>7, WorkMoves
<1>5. CASE Finish(w)
  <2>1. PICK x : x = [u EXCEPT !.st = "done"] /\ work' = [work EXCEPT ![w] = x]
    BY <1>2, <1>5 DEF Finish
  <2>2. x.st = "done" /\ IsWork(x)
    BY <1>3, <2>1 DEF IsWork
  <2>3. WorkOK(x)
    BY <1>1, <2>2 DEF WorkOK
  <2> QED
    BY <1>1, <2>1, <2>2, <2>3, WorkMoves
<1>6. CASE \E r \in work[w].todo : Touch(w, r)
  <2>1. PICK r \in u.todo : Touch(w, r)
    BY <1>2, <1>6
  <2>2. PICK x : /\ x = IF r \in open THEN [u EXCEPT !.todo = u.todo \ {r}]
                                      ELSE [u EXCEPT !.st = "refused", !.todo = {r}]
                 /\ work' = [work EXCEPT ![w] = x]
    <3>0. work = [v \in Slots |-> work[v]]
      BY DEF LifeInv, LifeTypes
    <3>1. work' = IF r \in open THEN [work EXCEPT ![w].todo = work[w].todo \ {r}]
                             ELSE [work EXCEPT ![w].st = "refused", ![w].todo = {r}]
      BY <2>1 DEF Touch
    <3>2. CASE r \in open
      <4>1. work' = [work EXCEPT ![w] = [u EXCEPT !.todo = u.todo \ {r}]]
        BY <1>2, <3>1, <3>2
      <4> QED
        BY <3>2, <4>1
    <3>3. CASE r \notin open
      <4>1. work' = [work EXCEPT ![w] = [u EXCEPT !.st = "refused", !.todo = {r}]]
        BY <1>2, <1>3, <3>0, <3>1, <3>3 DEF IsWork
      <4> QED
        BY <3>3, <4>1
    <3> QED
      BY <3>2, <3>3
  <2>3. /\ IsWork(x) /\ x.kind = u.kind /\ u.st = "running"
        /\ r \in open => x.st = "running" /\ x.todo = u.todo \ {r}
        /\ r \notin open => x.st = "refused" /\ x.todo = {r}
    BY <1>2, <1>3, <2>1, <2>2 DEF IsWork, Touch, Running
  <2>4. u.kind \in Answered => /\ u.kind \in DOMAIN P.needs /\ u.todo \subseteq P.needs[u.kind] \ off
                               /\ (inTime => Guarded(u.kind))
    BY <1>1, <1>3, <2>3 DEF WorkOK
  <2>5. ASSUME u.kind \in Answered, r \notin open
        PROVE  phase # "serving" /\ (inTime => r \in ClosedUnder(P, u.kind))
    <3>1. r \in P.needs[u.kind] /\ r \in ToSet(P.boot) \ Servers /\ r \notin off
      BY <1>3, <2>1, <2>4, <2>5 DEF ProfileOK
    <3>2. phase = "stopping" /\ Called(r, left)
      BY <1>1, <1>3, <2>5, <3>1 DEF OpenOK, Kept
    <3>3. PICK i \in DOMAIN reg : i >= left /\ reg[i] = r
      BY <3>2 DEF Called
    <3>4. ASSUME inTime PROVE r \in ClosedUnder(P, u.kind)
      <4>1. PICK j \in DOMAIN reg : j <= left /\ reg[j] = u.kind
        BY <2>4, <2>5, <3>2, <3>4 DEF Guarded
      <4>2. r # u.kind
        BY <2>5, <3>1, ServersAre
      <4>3. i \in Nat /\ j \in Nat /\ left \in Nat
        BY LenProperties DEF LifeInv, LifeTypes
      <4>4. j < i
        BY <3>3, <4>1, <4>2, <4>3
      <4>5. FromHooks
        BY DEF LifeInv, LifeTypes
      <4>6. PICK hi \in DOMAIN P.hooks, hj \in DOMAIN P.hooks : reg[i] = P.hooks[hi] /\ reg[j] = P.hooks[hj]
        BY <3>3, <4>1, <4>5 DEF FromHooks
      <4>7. hj < hi
        BY <3>3, <4>1, <4>4, <4>5, <4>6 DEF FromHooks
      <4> QED
        BY <3>1, <3>3, <4>1, <4>6, <4>7 DEF ClosedUnder
    <3> QED
      BY <3>2, <3>4
  <2>6. WorkOK(x)
    <3>1. CASE r \in open
      BY <1>1, <2>3, <2>4, <3>1 DEF WorkOK
    <3>2. CASE r \notin open
      BY <1>1, <2>3, <2>5, <3>2 DEF WorkOK
    <3> QED
      BY <3>1, <3>2
  <2> QED
    BY <1>1, <2>2, <2>3, <2>6, WorkMoves
<1> QED
  BY <1>4, <1>5, <1>6

LEMMA LifeNextInv == LifeInv /\ [LifeNext]_lifeVars => LifeInv'
<1> SUFFICES ASSUME LifeInv, [LifeNext]_lifeVars PROVE LifeInv'
  OBVIOUS
<1>1. CASE BootStep \/ BootStepFails \/ KilledDuringBoot
  BY <1>1, BootKeeps
<1>2. CASE StartServing
  BY <1>2, StartKeeps
<1>3. CASE (\E s \in HttpServers : ListenFails(s)) \/ Signal \/ GraceExpires \/ Exit
  BY <1>3, SignalKeeps
<1>4. CASE (\E w \in Slots, kind \in DOMAIN P.needs : AcceptWork(w, kind))
           \/ \E w \in Slots : Finish(w) \/ \E r \in work[w].todo : Touch(w, r)
  BY <1>4, WorkKeeps
<1>5. CASE StopsAccepting \/ Drained \/ DeadlinePasses \/ Release
  BY <1>5, ClosersKeep
<1>6. CASE UNCHANGED lifeVars
  BY <1>6 DEF lifeVars, LifeInv, LifeTypes, Distinct, IsWork, OpenOK, Booting, Called, Up, Guarded, Kept,
              Closed, WorkOK, FromHooks, P
<1> QED
  BY <1>1, <1>2, <1>3, <1>4, <1>5, <1>6 DEF LifeNext, CallCloser

(* In any service: a request is refused nothing before the signal, and     *)
(* until the deadline nothing whose closer run() registers before its      *)
(* server's.  A service that registers all of them before keeps the        *)
(* promise of graceful.go:3-6; of the others it says what they break.      *)
THEOREM ShutdownOrder == LifeSpec => []RequestsKeepTheirResources
<1>1. LifeSpec => []LifeInv
  BY LifeInitInv, LifeNextInv, PTL DEF LifeSpec
<1> QED
  BY <1>1, InvIsEnough, PTL

(* A shutdown within the grace period cuts no accepted request: the        *)
(* server's closer is registered, and returns only when none is in flight. *)
THEOREM RequestsAnswered == LifeSpec => []AcceptedRequestsAreAnswered
<1>1. LifeSpec => []LifeInv
  BY LifeInitInv, LifeNextInv, PTL DEF LifeSpec
<1> QED
  BY <1>1, InvIsEnough, PTL

(* Whatever closers fail or time out, a process that leaves Wait holds     *)
(* nothing it registered a closer for: errors do not end the loop.         *)
THEOREM ClosersRun == LifeSpec => []EveryCloserRuns
<1>1. LifeSpec => []LifeInv
  BY LifeInitInv, LifeNextInv, PTL DEF LifeSpec
<1> QED
  BY <1>1, InvIsEnough, PTL

=============================================================================
