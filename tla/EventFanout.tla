---------------------------- MODULE EventFanout ----------------------------
(***************************************************************************)
(* What becomes of an event on events.v1.  The bus hands one copy to each  *)
(* queue group (to one of its replicas) and none back on an error.  The    *)
(* groups: event-service (ring and SSE clients, all under one mutex),      *)
(* realtime-hub (a read-locked fan-out against clients leaving), and       *)
(* notification-service (webhooks with retries and a dead-letter table).   *)
(***************************************************************************)
EXTENDS Integers, Sequences, FiniteSets, SequencesExt

CONSTANTS Events,        \* event ids, in publication order: 1..n
          Tenants,
          Clients,       \* connections, each made and left once
          ClientTenant,  \* the tenant a connection filters by
          Replicas,      \* replicas of event-service
          SseClients,    \* the clients of event-service; the rest are the hub's
          Home,          \* the replica an SSE client is connected to
          RingCap,       \* capacity of a replica's ring
          MaxLimit,      \* most events a search returns, 500 in the code
          ChanCap,       \* capacity of a client's channel
          Endpoints,     \* webhook endpoints
          OwnerOf,       \* their tenant
          MaxAttempts,   \* Endpoint.MaxAttempts
          MaxBusFaults   \* faults of the environment (bound)

ASSUME FanoutAssumption ==
    /\ IsFiniteSet(Events) /\ Events = 1..Cardinality(Events)
    /\ RingCap \in Nat /\ MaxLimit \in Nat \ {0} /\ ChanCap \in Nat \ {0} /\ MaxAttempts \in Nat \ {0} /\ MaxBusFaults \in Nat
    /\ SseClients \subseteq Clients /\ Home \in [SseClients -> Replicas]
    /\ ClientTenant \in [Clients -> Tenants] /\ OwnerOf \in [Endpoints -> Tenants]
    /\ "no one" \notin Clients

VARIABLES up,         \* groups with a replica running
          published,  \* tenant of each event published, in order
          inbox,      \* copies the bus holds for each queue group
          ring,       \* Ring.events of each event-service replica
          client,     \* the connections
          hub,        \* the running Hub.Publish
          notify,     \* the running webhook delivery
          rows,       \* registered endpoints
          settled,    \* <<event, endpoint>> delivered or dead-lettered
          busFaults

fanVars == <<up, published, inbox, ring, client, hub, notify, rows, settled, busFaults>>

Groups == {"event-service", "realtime-hub", "notification-service"}
HubClients == Clients \ SseClients

(* Publish is idle, or holds the read lock with clients still to visit; to *)
(* is the client whose closed flag it has just read as false.              *)
NoOne   == "no one"
HubIdle == [ev |-> 0, todo |-> {}, to |-> NoOne]
Waiting == [ev |-> 0, all |-> {}, left |-> {}, ep |-> NoOne, attempt |-> 0]

TenantOf(e) == published[e]
Wants(c, e) == ClientTenant[c] = TenantOf(e)

NewClient == [st |-> "new", chan |-> <<>>, got |-> <<>>, due |-> 0, missed |-> 0]

FanInit ==
    /\ up \in SUBSET Groups
    /\ published = <<>>
    /\ inbox = [g \in Groups |-> <<>>]
    /\ ring = [r \in Replicas |-> <<>>]
    /\ client = [c \in Clients |-> NewClient]
    /\ hub = HubIdle /\ notify = Waiting
    /\ rows \in SUBSET Endpoints
    /\ settled = {}
    /\ busFaults = 0

-----------------------------------------------------------------------------
(* The bus.                                                                *)

(* A rule fires: one copy per queue group that has a subscriber.           *)
PublishEvent(t) ==
    /\ Len(published) < Cardinality(Events)
    /\ published' = Append(published, t)
    /\ inbox' = [g \in Groups |-> IF g \in up THEN Append(inbox[g], Len(published')) ELSE inbox[g]]
    /\ UNCHANGED <<up, ring, client, hub, notify, rows, settled, busFaults>>

(* Core NATS: a copy no replica of the group receives is gone.             *)
BusDrops(g) ==
    /\ inbox[g] # <<>> /\ busFaults < MaxBusFaults
    /\ inbox' = [inbox EXCEPT ![g] = Tail(@)]
    /\ busFaults' = busFaults + 1
    /\ UNCHANGED <<up, published, ring, client, hub, notify, rows, settled>>

-----------------------------------------------------------------------------
(* A client's channel: a send never blocks.                                *)

Offer(cl, e) == IF Len(cl.chan) < ChanCap THEN [cl EXCEPT !.chan = Append(@, e)]
                                          ELSE [cl EXCEPT !.missed = @ + 1]

TakeFrom(cl) == [cl EXCEPT !.chan = Tail(@), !.got = Append(@, Head(cl.chan))]

(* The SSE handler of event-service writes the next event.                 *)
SseReceive(c) ==
    /\ c \in SseClients /\ client[c].st = "on" /\ client[c].chan # <<>>
    /\ client' = [client EXCEPT ![c] = TakeFrom(@)]
    /\ UNCHANGED <<up, published, inbox, ring, hub, notify, rows, settled, busFaults>>

(* A WebSocket or SSE handler of the hub; a failed write ends it, and      *)
(* Unsubscribe starts.                                                     *)
HubReceive(c, written) ==
    /\ c \in HubClients /\ client[c].st = "on" /\ client[c].chan # <<>>
    /\ client' = [client EXCEPT ![c] = IF written THEN TakeFrom(@) ELSE [TakeFrom(@) EXCEPT !.st = "marked"]]
    /\ UNCHANGED <<up, published, inbox, ring, hub, notify, rows, settled, busFaults>>

-----------------------------------------------------------------------------
(* event-service: Ring.                                                    *)

SseSubscribe(c) ==
    /\ c \in SseClients /\ client[c].st = "new" /\ "event-service" \in up
    /\ client' = [client EXCEPT ![c].st = "on"]
    /\ UNCHANGED <<up, published, inbox, ring, hub, notify, rows, settled, busFaults>>

SseCancel(c) ==
    /\ c \in SseClients /\ client[c].st = "on"
    /\ client' = [client EXCEPT ![c].st = "closed"]
    /\ UNCHANGED <<up, published, inbox, ring, hub, notify, rows, settled, busFaults>>

Kept(events) == IF Len(events) > RingCap THEN SubSeq(events, Len(events) - RingCap + 1, Len(events)) ELSE events

(* Mutant: a full subscriber ends the loop over the map. *)
FanOutStops(r, e) ==
    LET full == {c \in SseClients : client[c].st = "on" /\ Home[c] = r /\ Wants(c, e) /\ Len(client[c].chan) = ChanCap}
    IN [c \in Clients |->
          IF c \notin SseClients \/ client[c].st # "on" \/ Home[c] # r \/ ~Wants(c, e) THEN client[c]
          ELSE IF full = {} \/ c \in full THEN [Offer(client[c], e) EXCEPT !.due = @ + 1]
          ELSE [client[c] EXCEPT !.due = @ + 1]]

(* Every matching subscriber of this replica.                              *)
FanOut(r, e) ==
    [c \in Clients |->
        IF c \in SseClients /\ client[c].st = "on" /\ Home[c] = r /\ Wants(c, e)
          THEN [Offer(client[c], e) EXCEPT !.due = @ + 1] ELSE client[c]]

(* Consumer's handler on replica r, and Ring.Append.                       *)
RingAppend(r) ==
    /\ inbox["event-service"] # <<>>
    /\ LET e == Head(inbox["event-service"])
       IN ring' = [ring EXCEPT ![r] = Kept(Append(@, e))] /\ client' = FanOut(r, e)
    /\ inbox' = [inbox EXCEPT !["event-service"] = Tail(@)]
    /\ UNCHANGED <<up, published, hub, notify, rows, settled, busFaults>>

(* The newest of one tenant: behind fewer than limit newer ones.           *)
Newer(r, t, i) == {j \in DOMAIN ring[r] : j > i /\ TenantOf(ring[r][j]) = t}
List(r, t, limit) ==
    {ring[r][i] : i \in {j \in DOMAIN ring[r] : TenantOf(ring[r][j]) = t /\ Cardinality(Newer(r, t, j)) < limit}}

(* GET /v1/events: the query text narrows what the clamped limit left.     *)
Search(r, t, matching, limit) ==
    List(r, t, IF limit = 0 THEN 50 ELSE IF limit > MaxLimit THEN MaxLimit ELSE limit) \cap matching

-----------------------------------------------------------------------------
(* realtime-hub.  A client is on, marked (its closed flag is set), removed *)
(* from the map, or closed (its channel is).                               *)

HubLocked == hub.ev # 0

HubSubscribe(c) ==
    /\ c \in HubClients /\ client[c].st = "new" /\ "realtime-hub" \in up /\ ~HubLocked
    /\ client' = [client EXCEPT ![c].st = "on"]
    /\ UNCHANGED <<up, published, inbox, ring, hub, notify, rows, settled, busFaults>>

Mark(c) ==
    /\ c \in HubClients /\ client[c].st = "on"
    /\ client' = [client EXCEPT ![c].st = "marked"]
    /\ UNCHANGED <<up, published, inbox, ring, hub, notify, rows, settled, busFaults>>

(* Mutant: Unsubscribe does not take the lock. *)
RemoveUnlocked(c) ==
    /\ c \in HubClients /\ client[c].st = "marked"
    /\ client' = [client EXCEPT ![c].st = "removed"]
    /\ UNCHANGED <<up, published, inbox, ring, hub, notify, rows, settled, busFaults>>

RemoveFromMap(c) ==
    /\ c \in HubClients /\ client[c].st = "marked" /\ ~HubLocked
    /\ client' = [client EXCEPT ![c].st = "removed"]
    /\ UNCHANGED <<up, published, inbox, ring, hub, notify, rows, settled, busFaults>>

CloseChannel(c) ==
    /\ c \in HubClients /\ client[c].st = "removed"
    /\ client' = [client EXCEPT ![c].st = "closed"]
    /\ UNCHANGED <<up, published, inbox, ring, hub, notify, rows, settled, busFaults>>

(* Publish takes the read lock; the map does not change under it.          *)
HubPublish ==
    /\ inbox["realtime-hub"] # <<>> /\ ~HubLocked
    /\ LET e == Head(inbox["realtime-hub"]) IN
         /\ hub' = [ev |-> e, todo |-> {c \in HubClients : client[c].st \in {"on", "marked"}}, to |-> NoOne]
         /\ client' = [c \in Clients |-> IF c \in HubClients /\ client[c].st = "on" /\ Wants(c, e)
                                           THEN [client[c] EXCEPT !.due = @ + 1] ELSE client[c]]
    /\ inbox' = [inbox EXCEPT !["realtime-hub"] = Tail(@)]
    /\ UNCHANGED <<up, published, ring, notify, rows, settled, busFaults>>

(* The closed flag and the filter of the next client of the map.           *)
HubVisit(c) ==
    /\ HubLocked /\ hub.to = NoOne /\ c \in hub.todo
    /\ hub' = [hub EXCEPT !.todo = @ \ {c},
                          !.to = IF client[c].st = "on" /\ Wants(c, hub.ev) THEN c ELSE NoOne]
    /\ UNCHANGED <<up, published, inbox, ring, client, notify, rows, settled, busFaults>>

HubSend ==
    /\ hub.to # NoOne
    /\ client' = [client EXCEPT ![hub.to] = Offer(@, hub.ev)]
    /\ hub' = [hub EXCEPT !.to = NoOne]
    /\ UNCHANGED <<up, published, inbox, ring, notify, rows, settled, busFaults>>

HubDone ==
    /\ HubLocked /\ hub.todo = {} /\ hub.to = NoOne
    /\ hub' = HubIdle
    /\ UNCHANGED <<up, published, inbox, ring, client, notify, rows, settled, busFaults>>

-----------------------------------------------------------------------------
(* notification-service.  The handler of its subscription works on one     *)
(* event at a time.                                                        *)

Registered(t) == {ep \in rows : OwnerOf[ep] = t}

(* POST /v1/webhooks.                                                      *)
CreateEndpoint(ep) ==
    /\ ep \notin rows /\ "notification-service" \in up
    /\ rows' = rows \cup {ep}
    /\ UNCHANGED <<up, published, inbox, ring, client, hub, notify, settled, busFaults>>

(* ListByTenant, once per event; its error ends the handler.               *)
NotifyTake ==
    /\ notify = Waiting /\ inbox["notification-service"] # <<>>
    /\ LET e == Head(inbox["notification-service"])
           eps == Registered(TenantOf(e))
       IN notify' = [ev |-> e, all |-> eps, left |-> eps, ep |-> NoOne, attempt |-> 0]
    /\ inbox' = [inbox EXCEPT !["notification-service"] = Tail(@)]
    /\ UNCHANGED <<up, published, ring, client, hub, rows, settled, busFaults>>

NotifyListFails ==
    /\ notify = Waiting /\ inbox["notification-service"] # <<>> /\ busFaults < MaxBusFaults
    /\ inbox' = [inbox EXCEPT !["notification-service"] = Tail(@)]
    /\ busFaults' = busFaults + 1
    /\ UNCHANGED <<up, published, ring, client, hub, notify, rows, settled>>

Deliver(ep) ==
    /\ notify.ev # 0 /\ notify.ep = NoOne /\ ep \in notify.left
    /\ notify' = [notify EXCEPT !.ep = ep, !.attempt = 1]
    /\ UNCHANGED <<up, published, inbox, ring, client, hub, rows, settled, busFaults>>

Settle(how) ==
    /\ settled' = settled \cup {<<notify.ev, notify.ep, how>>}
    /\ notify' = [notify EXCEPT !.left = @ \ {notify.ep}, !.ep = NoOne, !.attempt = 0]

(* 2xx.                                                                    *)
AttemptSucceeds ==
    /\ notify.ep # NoOne /\ notify.attempt <= MaxAttempts
    /\ Settle("delivered")
    /\ UNCHANGED <<up, published, inbox, ring, client, hub, rows, busFaults>>

(* Mutant: the last failed attempt is not recorded. *)
GiveUp == notify' = [notify EXCEPT !.left = @ \ {notify.ep}, !.ep = NoOne, !.attempt = 0] /\ UNCHANGED settled

(* The last attempt failed: RecordDLQ and notifications.dlq.v1.            *)
DeadLetter == Settle("dead-lettered")

(* An error or another status: back off and try again, or give up.         *)
AttemptFails ==
    /\ notify.ep # NoOne
    /\ IF notify.attempt < MaxAttempts
         THEN notify' = [notify EXCEPT !.attempt = @ + 1] /\ UNCHANGED settled
         ELSE DeadLetter
    /\ UNCHANGED <<up, published, inbox, ring, client, hub, rows, busFaults>>

(* RecordDLQ's error is dropped; the DLQ message is published all the      *)
(* same, and nothing consumes it.                                          *)
RecordDLQFails ==
    /\ notify.ep # NoOne /\ notify.attempt = MaxAttempts /\ busFaults < MaxBusFaults
    /\ notify' = [notify EXCEPT !.left = @ \ {notify.ep}, !.ep = NoOne, !.attempt = 0]
    /\ busFaults' = busFaults + 1
    /\ UNCHANGED <<up, published, inbox, ring, client, hub, rows, settled>>

NotifyDone ==
    /\ notify.ev # 0 /\ notify.left = {}
    /\ notify' = Waiting
    /\ UNCHANGED <<up, published, inbox, ring, client, hub, rows, settled, busFaults>>

(* The process ends in the middle: the event is not handed out again.      *)
NotifyCrash ==
    /\ notify.ev # 0 /\ busFaults < MaxBusFaults
    /\ notify' = Waiting
    /\ busFaults' = busFaults + 1
    /\ UNCHANGED <<up, published, inbox, ring, client, hub, rows, settled>>

-----------------------------------------------------------------------------
NotifyStep == NotifyTake \/ (\E ep \in Endpoints : Deliver(ep)) \/ AttemptSucceeds \/ AttemptFails \/ NotifyDone
HubStep    == HubPublish \/ (\E c \in Clients : HubVisit(c)) \/ HubSend \/ HubDone

FanNext ==
    \/ \E t \in Tenants : PublishEvent(t)
    \/ \E g \in Groups : BusDrops(g)
    \/ \E c \in Clients : SseReceive(c) \/ SseSubscribe(c) \/ SseCancel(c)
    \/ \E c \in Clients, written \in BOOLEAN : HubReceive(c, written)
    \/ \E c \in Clients : HubSubscribe(c) \/ Mark(c) \/ RemoveFromMap(c) \/ CloseChannel(c)
    \/ \E r \in Replicas : RingAppend(r)
    \/ HubStep \/ NotifyStep
    \/ \E ep \in Endpoints : CreateEndpoint(ep)
    \/ NotifyListFails \/ RecordDLQFails \/ NotifyCrash

FanSpec == FanInit /\ [][FanNext]_fanVars

-----------------------------------------------------------------------------
(* The hub never sends on a channel Unsubscribe has closed (which would    *)
(* panic): the flag is read, and the channel used, under a lock the        *)
(* removal needs before the close.                                         *)
HubNeverSendsOnClosed == hub.to # NoOne => client[hub.to].st # "closed"

(* A search for as many events as one may ask for finds an event, unless   *)
(* that many newer ones of the tenant, or a ring full of newer ones, are   *)
(* before it.                                                              *)
StillFound(r, t, e) ==
    \/ e \in Search(r, t, Events, MaxLimit)
    \/ \E i \in DOMAIN ring[r] : ring[r][i] = e /\ Cardinality(Newer(r, t, i)) >= MaxLimit
    \/ Len(ring[r]) = RingCap /\ \A i \in DOMAIN ring[r] : e < ring[r][i]

(* A slow connection costs only itself: when nothing is being fanned out,  *)
(* every event handled while a client was connected is in its hands, in    *)
(* its channel, or was dropped because its own channel was full; and they  *)
(* reach it in publication order.  What an SSE client was pushed, a search *)
(* on its replica finds until newer events fill its answer or the ring.    *)
SlowClientsCostOnlyThemselves ==
    \A c \in Clients :
        LET cl == client[c]
            seen == cl.got \o cl.chan
        IN /\ \A i \in 1..(Len(seen) - 1) : seen[i] < seen[i + 1]
           /\ cl.st = "on" /\ ~HubLocked => cl.due = Len(seen) + cl.missed
           /\ c \in SseClients => \A e \in ToSet(seen) : StillFound(Home[c], ClientTenant[c], e)

(* Every endpoint registered when the event was taken gets it, or a        *)
(* dead-letter row, within MaxAttempts, however slow or dead the others.   *)
WebhooksSettle ==
    notify.ev # 0 ~>
        \/ busFaults > 0
        \/ notify.ev # 0 /\ \A ep \in notify.all :
              \E how \in {"delivered", "dead-lettered"} : <<notify.ev, ep, how>> \in settled

=============================================================================
