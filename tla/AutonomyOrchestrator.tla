------------------------ MODULE AutonomyOrchestrator ------------------------
(***************************************************************************)
(* Continuous autonomy: the schedule table and its hot copy, the cron      *)
(* loops and the signal router (pkg/autonomy/scheduler.go), the bus        *)
(* callback and the handlers of one autonomy-orchestrator process          *)
(* (cmd/autonomy-orchestrator/main.go) and the run table                   *)
(* (internal/store/store.go).                                              *)
(*                                                                         *)
(* A schedule keeps its tenant, trigger and subject; a POST creates it,    *)
(* pauses it or takes it out of the pause.  A slot is one execution of the *)
(* handler startFire returns: InsertRun, StartSession, UpdateRunStatus.    *)
(***************************************************************************)
EXTENDS Integers, Sequences, FiniteSets

CONSTANTS
  Schedules,   \* schedule ids
  Cron,        \* the ones with a cron trigger; the others wait for a signal
  Tenants,
  Tenant,      \* Tenant[s], or NoTenant
  Prefixes,    \* values of signal_subject
  Prefix,      \* Prefix[s], for a signal schedule
  PrefixLen,   \* len of a prefix
  Signals,     \* subjects of inbound messages
  Covers,      \* Covers[sig]: the prefixes of subject sig
  Subs,        \* bus subscriptions, each with its own delivery goroutine
  SubOf,       \* SubOf[sig]: the subscription that receives sig
  Rank,        \* position in ListSchedules (ORDER BY tenant_id, id)
  Posts,       \* POST /v1/autonomy/schedules requests that run at once
  Slots,       \* handler executions that run at once
  MaxPosts,    \* bound on POSTs
  MaxFires,    \* bound on handler executions
  MaxFaults    \* bound on failed statements, failed calls and crashes

NoTenant == "notenant"   \* an empty tenant_id

ASSUME AutonomyAssumption ==
  /\ IsFiniteSet(Schedules) /\ IsFiniteSet(Prefixes)
  /\ Cron \subseteq Schedules
  /\ Tenant \in [Schedules -> Tenants \cup {NoTenant}]
  /\ Prefix \in [Schedules \ Cron -> Prefixes]
  /\ PrefixLen \in [Prefixes -> Nat \ {0}]
  /\ Covers \in [Signals -> SUBSET Prefixes]
  /\ SubOf \in [Signals -> Subs]
  /\ Rank \in [Schedules -> Nat]
  /\ MaxPosts \in Nat /\ MaxFires \in Nat /\ MaxFaults \in Nat

VARIABLES
  table,    \* autonomy_schedules: "none", "active" or "paused"
  cache,    \* scheduleByID
  loops,    \* Scheduler: how many Entries, each with its loop, a schedule has
  running,  \* the Entries <<s, i>> whose running flag is set
  router,   \* SignalRouter.handlers: prefix -> schedule of the closure
  post,     \* per POST: "idle", "list", "cache" (waits for the lock), "register"
  snap,     \* ... what its ListSchedules returned
  cb,       \* per subscription, its callback: [sig, left, waits] or NoCallback
  slot,     \* per slot: [pc, sched, src, entry, run, result]
  runs,     \* autonomy_runs, in order of insertion: [sched, src, status]
  sessions, \* agent sessions that were opened: [run, tenant]
  cutOff,   \* history: the runs whose handler died or whose last UPDATE failed
  up,
  posts, fires, faults

memory == <<cache, loops, running, router, post, snap, cb, slot>>
tables == <<table, runs, sessions, cutOff>>
counts == <<posts, fires, faults>>
vars   == <<memory, tables, up, counts>>

NoSchedule == "noschedule"
NoSlot     == "noslot"
NoCallback == [sig |-> "nosignal"]
Rows       == {"none", "active", "paused"}
Outcomes   == {"completed", "awaiting_gate", "failed"}   \* mapStatus
IdleSlot   == [pc |-> "idle"]
NoRows     == [s \in Schedules |-> "none"]

Idle(f) == slot[f] = IdleSlot

-----------------------------------------------------------------------------
(* loadAll                                                                 *)

ActiveCron(rows) == {s \in Cron : rows[s] = "active"}

\* The active signal schedules with prefix p; the last in list order wins.
Claims(rows, p) == {s \in Schedules \ Cron : rows[s] = "active" /\ Prefix[s] = p}
Winner(rows, p) == CHOOSE s \in Claims(rows, p) :
                     \A t \in Claims(rows, p) : Rank[t] <= Rank[s]

\* Every unpaused cron schedule gets one more Entry, every unpaused signal
\* schedule takes over its prefix; nothing is ever taken away.
Registers(rows) ==
  /\ loops' = [s \in Schedules |-> loops[s] + IF s \in ActiveCron(rows) THEN 1 ELSE 0]
  /\ router' = [p \in Prefixes |-> IF Claims(rows, p) # {} THEN Winner(rows, p) ELSE router[p]]

\* POST /v1/autonomy/schedules: the upsert, then loadAll in three steps.
Upsert(q, s, to) ==
  /\ up
  /\ post[q] = "idle"
  /\ posts < MaxPosts
  /\ table' = [table EXCEPT ![s] = to]
  /\ post' = [post EXCEPT ![q] = "list"]
  /\ posts' = posts + 1
  /\ UNCHANGED <<cache, loops, running, router, snap, cb, slot, runs, sessions,
                 cutOff, up, fires, faults>>

List(q) ==
  /\ post[q] = "list"
  /\ snap' = [snap EXCEPT ![q] = table]
  /\ post' = [post EXCEPT ![q] = "cache"]
  /\ UNCHANGED <<cache, loops, running, router, cb, slot, tables, up, counts>>

\* loadAll's error is dropped: the POST answers 201.
ListFails(q) ==
  /\ post[q] = "list"
  /\ faults < MaxFaults
  /\ post' = [post EXCEPT ![q] = "idle"]
  /\ faults' = faults + 1
  /\ UNCHANGED <<cache, loops, running, router, snap, cb, slot, tables, up, posts, fires>>

\* schedulesMu.Lock() waits for the callbacks, which hold the read lock.
SwapCache(q) ==
  /\ post[q] = "cache"
  /\ \A u \in Subs : cb[u] = NoCallback
  /\ cache' = snap[q]
  /\ post' = [post EXCEPT ![q] = "register"]
  /\ UNCHANGED <<loops, running, router, snap, cb, slot, tables, up, counts>>

RegisterAll(q) ==
  /\ post[q] = "register"
  /\ Registers(snap[q])
  /\ post' = [post EXCEPT ![q] = "idle"]
  /\ snap' = [snap EXCEPT ![q] = NoRows]
  /\ UNCHANGED <<cache, running, cb, slot, tables, up, counts>>

-----------------------------------------------------------------------------
(* What starts a handler: a cron loop, a request, a bus callback.          *)

Fires(f, s, src, entry) ==
  /\ Idle(f)
  /\ slot' = [slot EXCEPT ![f] = [pc |-> "insert", sched |-> s, src |-> src,
                                  entry |-> entry, run |-> 0, result |-> "failed"]]

\* Mutant: PreventOverlap is not looked at.
AlwaysFree(s, i) == TRUE
EntryFree(s, i) == <<s, i>> \notin running

\* Scheduler.loop: a tick of the i-th Entry of s; a tick that is skipped
\* changes nothing.
CronTick(f, s, i) ==
  /\ up
  /\ i \in 1..loops[s]
  /\ EntryFree(s, i)
  /\ fires < MaxFires
  /\ Fires(f, s, "cron", i)
  /\ running' = running \cup {<<s, i>>}
  /\ fires' = fires + 1
  /\ UNCHANGED <<cache, loops, router, post, snap, cb, tables, up, posts, faults>>

\* POST /v1/autonomy/schedules/{id}/trigger, of a paused schedule too.
Trigger(f, s) ==
  /\ up
  /\ table[s] # "none"
  /\ fires < MaxFires
  /\ Fires(f, s, "manual", 0)
  /\ fires' = fires + 1
  /\ UNCHANGED <<cache, loops, running, router, post, snap, cb, tables, up, posts, faults>>

\* Mutant: readers overtake a waiting writer.
LockBarges == TRUE
\* sync.RWMutex: a waiting writer keeps new readers out.
LockFree == \A q \in Posts : post[q] # "cache"

\* The cached schedules a message is for; one without a tenant takes anybody's.
Matching(sig, t) ==
  {s \in Schedules \ Cron : /\ cache[s] = "active"
                            /\ Tenant[s] \in {t, NoTenant}
                            /\ Prefix[s] \in Covers[sig]}

\* The callback takes the read lock and keeps it until it returns.
SignalArrives(sig, t) ==
  /\ up
  /\ cb[SubOf[sig]] = NoCallback
  /\ LockFree
  /\ fires + Cardinality(Matching(sig, t)) <= MaxFires
  /\ cb' = [cb EXCEPT ![SubOf[sig]] = [sig |-> sig, left |-> Matching(sig, t), waits |-> NoSlot]]
  /\ fires' = fires + Cardinality(Matching(sig, t))
  /\ UNCHANGED <<cache, loops, running, router, post, snap, slot, tables, up, posts, faults>>

\* SignalRouter.Route: the handler with the longest prefix.
Registered(sig) == {p \in Covers[sig] : router[p] # NoSchedule}
Longest(sig)    == CHOOSE p \in Registered(sig) :
                     \A o \in Registered(sig) : PrefixLen[o] <= PrefixLen[p]

Route(u, f, s) ==
  LET h == router[Longest(cb[u].sig)] IN
  /\ cb[u] # NoCallback
  /\ cb[u].waits = NoSlot
  /\ s \in cb[u].left
  /\ Registered(cb[u].sig) # {}
  /\ Fires(f, h, "signal", 0)
  /\ cb' = [cb EXCEPT ![u].left = @ \ {s}, ![u].waits = f]
  /\ UNCHANGED <<cache, loops, running, router, post, snap, tables, up, counts>>

\* Between the swap of the cache and the registration nobody takes it.
RouteNobody(u, s) ==
  /\ cb[u] # NoCallback
  /\ cb[u].waits = NoSlot
  /\ s \in cb[u].left
  /\ Registered(cb[u].sig) = {}
  /\ cb' = [cb EXCEPT ![u].left = @ \ {s}]
  /\ UNCHANGED <<cache, loops, running, router, post, snap, slot, tables, up, counts>>

CallbackReturns(u) ==
  /\ cb[u] # NoCallback
  /\ cb[u].waits = NoSlot
  /\ cb[u].left = {}
  /\ cb' = [cb EXCEPT ![u] = NoCallback]
  /\ UNCHANGED <<cache, loops, running, router, post, snap, slot, tables, up, counts>>

-----------------------------------------------------------------------------
(* The handler: InsertRun, StartSession, UpdateRunStatus.                  *)

\* defer e.running.Store(false)
FlagReset(f) == running' = running \ {<<slot[f].sched, slot[f].entry>>}

\* The handler returns: the Entry is free again, the callback goes on.
Returns(f) ==
  /\ slot' = [slot EXCEPT ![f] = IdleSlot]
  /\ IF slot[f].src = "cron" THEN FlagReset(f) ELSE UNCHANGED running
  /\ cb' = [u \in Subs |-> IF cb[u] # NoCallback /\ cb[u].waits = f
                           THEN [cb[u] EXCEPT !.waits = NoSlot] ELSE cb[u]]

InsertRun(f) ==
  /\ slot[f].pc = "insert"
  /\ runs' = Append(runs, [sched |-> slot[f].sched, src |-> slot[f].src, status |-> "running"])
  /\ slot' = [slot EXCEPT ![f].pc = "start", ![f].run = Len(runs) + 1]
  /\ UNCHANGED <<cache, loops, running, router, post, snap, cb, table, sessions, cutOff,
                 up, counts>>

\* Mutant: a failed InsertRun is only logged.
StartsAnyway(f) == slot' = [slot EXCEPT ![f].pc = "start"] /\ UNCHANGED <<running, cb>>
AfterInsertError(f) == Returns(f)

InsertFails(f) ==
  /\ slot[f].pc = "insert"
  /\ faults < MaxFaults
  /\ AfterInsertError(f)
  /\ faults' = faults + 1
  /\ UNCHANGED <<cache, loops, router, post, snap, tables, up, posts, fires>>

Session(f) == [run |-> slot[f].run, tenant |-> Tenant[slot[f].sched]]

StartSession(f, result) ==
  /\ slot[f].pc = "start"
  /\ sessions' = sessions \cup {Session(f)}
  /\ slot' = [slot EXCEPT ![f].pc = "update", ![f].result = result]
  /\ UNCHANGED <<cache, loops, running, router, post, snap, cb, table, runs, cutOff,
                 up, counts>>

\* An error or the client's timeout; agent-service may run the session anyway.
StartFails(f) ==
  /\ slot[f].pc = "start"
  /\ faults < MaxFaults
  /\ sessions' \in {sessions, sessions \cup {Session(f)}}
  /\ slot' = [slot EXCEPT ![f].pc = "update", ![f].result = "failed"]
  /\ faults' = faults + 1
  /\ UNCHANGED <<cache, loops, running, router, post, snap, cb, table, runs, cutOff,
                 up, posts, fires>>

\* Mutant: the failing path leaves the row as it is.
OnlySuccessWritten(f) ==
  IF slot[f].result = "failed" THEN UNCHANGED runs
  ELSE runs' = [runs EXCEPT ![slot[f].run].status = slot[f].result]
Settled(f) == runs' = [runs EXCEPT ![slot[f].run].status = slot[f].result]

UpdateRunStatus(f) ==
  /\ slot[f].pc = "update"
  /\ Settled(f)
  /\ Returns(f)
  /\ UNCHANGED <<cache, loops, router, post, snap, table, sessions, cutOff,
                 up, counts>>

\* The UPDATE's error is dropped.
UpdateFails(f) ==
  /\ slot[f].pc = "update"
  /\ faults < MaxFaults
  /\ cutOff' = cutOff \cup {slot[f].run}
  /\ Returns(f)
  /\ faults' = faults + 1
  /\ UNCHANGED <<cache, loops, router, post, snap, table, runs, sessions, up, posts, fires>>

\* A manual trigger runs in its request's context: once the client is gone
\* StartSession returns an error and the UPDATE that should say so fails too.
ClientLeaves(f) ==
  /\ slot[f].pc = "start"
  /\ slot[f].src = "manual"
  /\ faults < MaxFaults
  /\ sessions' \in {sessions, sessions \cup {Session(f)}}
  /\ cutOff' = cutOff \cup {slot[f].run}
  /\ Returns(f)
  /\ faults' = faults + 1
  /\ UNCHANGED <<cache, loops, router, post, snap, table, runs, up, posts, fires>>

-----------------------------------------------------------------------------
(* The process.                                                            *)

NoMemory ==
  /\ cache = NoRows
  /\ loops = [s \in Schedules |-> 0]
  /\ running = {}
  /\ router = [p \in Prefixes |-> NoSchedule]
  /\ post = [q \in Posts |-> "idle"]
  /\ snap = [q \in Posts |-> NoRows]
  /\ cb = [u \in Subs |-> NoCallback]
  /\ slot = [f \in Slots |-> IdleSlot]

\* The runs whose handler has inserted their row and not returned.
UnderWay == {slot[f].run : f \in {g \in Slots : slot[g].pc \in {"start", "update"}}}

Crash ==
  /\ up
  /\ faults < MaxFaults
  /\ up' = FALSE
  /\ cache' = NoRows
  /\ loops' = [s \in Schedules |-> 0]
  /\ running' = {}
  /\ router' = [p \in Prefixes |-> NoSchedule]
  /\ post' = [q \in Posts |-> "idle"]
  /\ snap' = [q \in Posts |-> NoRows]
  /\ cb' = [u \in Subs |-> NoCallback]
  /\ slot' = [f \in Slots |-> IdleSlot]
  /\ cutOff' = cutOff \cup UnderWay
  /\ faults' = faults + 1
  /\ UNCHANGED <<table, runs, sessions, posts, fires>>

\* main: loadAll before the subscriptions and the server.
Boot ==
  /\ ~up
  /\ up' = TRUE
  /\ cache' = table
  /\ Registers(table)
  /\ UNCHANGED <<running, post, snap, cb, slot, tables, counts>>

-----------------------------------------------------------------------------
Init ==
  /\ table = NoRows
  /\ NoMemory
  /\ runs = << >>
  /\ sessions = {}
  /\ cutOff = {}
  /\ up = TRUE
  /\ posts = 0
  /\ fires = 0
  /\ faults = 0

PostStep(q)  == List(q) \/ SwapCache(q) \/ RegisterAll(q)
FireStep(f)  == InsertRun(f) \/ (\E o \in Outcomes : StartSession(f, o)) \/ UpdateRunStatus(f)
CallbackStep(u) == \/ \E f \in Slots, s \in Schedules : Route(u, f, s)
                   \/ \E s \in Schedules : RouteNobody(u, s)
                   \/ CallbackReturns(u)

Next ==
  \/ \E q \in Posts, s \in Schedules, to \in {"active", "paused"} : Upsert(q, s, to)
  \/ \E q \in Posts : PostStep(q)
  \/ \E q \in Posts : ListFails(q)
  \/ \E f \in Slots : \E s \in Cron : \E i \in 1..loops[s] : CronTick(f, s, i)
  \/ \E f \in Slots, s \in Schedules : Trigger(f, s)
  \/ \E sig \in Signals, t \in Tenants : SignalArrives(sig, t)
  \/ \E u \in Subs : CallbackStep(u)
  \/ \E f \in Slots : FireStep(f)
  \/ \E f \in Slots : InsertFails(f)
  \/ \E f \in Slots : StartFails(f)
  \/ \E f \in Slots : UpdateFails(f)
  \/ \E f \in Slots : ClientLeaves(f)
  \/ Crash
  \/ Boot

Spec == Init /\ [][Next]_vars

\* Requests, callbacks and handlers that are under way go on (StartSession has
\* a 60 s timeout) and a dead pod is restarted; nothing has to be triggered.
FairSpec ==
  /\ Spec
  /\ WF_vars(Boot)
  /\ \A u \in Subs : WF_vars(CallbackStep(u))
  /\ \A q \in Posts : WF_vars(PostStep(q))
  /\ \A f \in Slots : WF_vars(FireStep(f))

-----------------------------------------------------------------------------
(* Properties.                                                             *)

\* Scheduler.loop's guard: an Entry never has two handlers in flight, and an
\* Entry whose flag is set has one (a flag that stays would silence it).
EntryGuard ==
  /\ \A f, g \in Slots :
       /\ ~Idle(f) /\ ~Idle(g) /\ f # g
       /\ slot[f].src = "cron" /\ slot[g].src = "cron"
       => <<slot[f].sched, slot[f].entry>> # <<slot[g].sched, slot[g].entry>>
  /\ \A e \in running :
       \E f \in Slots : ~Idle(f) /\ slot[f].src = "cron" /\ e = <<slot[f].sched, slot[f].entry>>

\* ADR-0022 "Every fire produces an AutonomyRun row": a session was opened for
\* a row that exists and for that row's tenant, and a row that says completed
\* or awaiting_gate has its session, whatever failed or crashed in between.
SessionsAreRecorded ==
  /\ \A x \in sessions : x.run \in DOMAIN runs /\ Tenant[runs[x.run].sched] = x.tenant
  /\ \A i \in DOMAIN runs : runs[i].status \in {"completed", "awaiting_gate"} =>
       [run |-> i, tenant |-> Tenant[runs[i].sched]] \in sessions

\* A POST gets through a storm of signals, although a callback keeps the read
\* lock for the length of the agent sessions it starts.
PostsComplete == \A q \in Posts : post[q] # "idle" ~> post[q] = "idle"

Unsettled(i) == i \in DOMAIN runs /\ runs[i].status = "running"

\* ADR-0022 "AutonomyRun is persisted with the resulting status": every run
\* leaves "running", those of a failed or timed-out StartSession and those that
\* run beside a crash or an error of something else included.  Excused is only
\* the run whose own handler a crash cut off or whose own last UPDATE failed.
RunsSettle ==
  \A i \in 1..MaxFires :
    Unsettled(i) ~> ~Unsettled(i) \/ i \in cutOff

=============================================================================
