--------------------------- MODULE AutonomyProofs ---------------------------
(***************************************************************************)
(* AutonomyOrchestrator, for any schedules, signals and subscriptions, any *)
(* number of requests and handlers at once: PreventOverlap keeps an Entry  *)
(* to one handler and never silences it, and sessions and run rows agree.  *)
(***************************************************************************)
EXTENDS AutonomyOrchestrator, SetSums

Running   == [pc : {"insert", "start", "update"}, sched : Schedules,
              src : {"cron", "manual", "signal"}, entry : Nat, run : Nat, result : Outcomes]
Callbacks == [sig : Signals, left : SUBSET Schedules, waits : Slots \cup {NoSlot}]
Runs      == [sched : Schedules, src : {"cron", "manual", "signal"}, status : {"running"} \cup Outcomes]

TypeOK ==
  /\ table \in [Schedules -> Rows]
  /\ cache \in [Schedules -> Rows]
  /\ loops \in [Schedules -> Nat]
  /\ router \in [Prefixes -> Schedules \cup {NoSchedule}]
  /\ post \in [Posts -> {"idle", "list", "cache", "register"}]
  /\ snap \in [Posts -> [Schedules -> Rows]]
  /\ cb \in [Subs -> Callbacks \cup {NoCallback}]
  /\ slot \in [Slots -> Running \cup {IdleSlot}]
  /\ runs \in Seq(Runs)

CronFire(f) == ~Idle(f) /\ slot[f].src = "cron"
EntryOf(f)  == <<slot[f].sched, slot[f].entry>>

\* The flag of an Entry is set exactly while its one handler runs.
FlagsAreHandlers ==
  /\ \A f \in Slots : CronFire(f) => EntryOf(f) \in running
  /\ EntryGuard

\* A handler past InsertRun has its row, past a successful StartSession its
\* session.
HandlerHasRow(f) ==
  /\ slot[f].pc \in {"start", "update"} =>
       slot[f].run \in DOMAIN runs /\ runs[slot[f].run].sched = slot[f].sched
  /\ slot[f].pc = "update" /\ slot[f].result \in {"completed", "awaiting_gate"} =>
       Session(f) \in sessions

AutonomyInv ==
  /\ TypeOK
  /\ FlagsAreHandlers
  /\ \A f \in Slots : HandlerHasRow(f)
  /\ SessionsAreRecorded

-----------------------------------------------------------------------------
\* A finite set has a member that is greatest by a measure.
LEMMA Greatest ==
  ASSUME NEW S, IsFiniteSet(S), S # {}, NEW w, \A x \in S : w[x] \in Nat
  PROVE  \E x \in S : \A y \in S : w[y] <= w[x]
<1> DEFINE Above(x) == {y \in S : w[y] > w[x]}
           F == {Above(x) : x \in S}
<1>1. PICK T \in F : \A U \in F : U \subseteq T => U = T
  <2>1. F \subseteq SUBSET S /\ F # {}
    OBVIOUS
  <2> HIDE DEF F
  <2>2. QED
    BY <2>1, SmallestSubset
<1>2. PICK x \in S : T = Above(x)
  OBVIOUS
<1>3. ASSUME NEW y \in S PROVE w[y] <= w[x]
  <2>1. SUFFICES ASSUME w[y] > w[x] PROVE FALSE
    BY <1>2
  <2>2. Above(y) \subseteq Above(x) /\ y \in Above(x) /\ y \notin Above(y) /\ Above(y) \in F
    BY <1>2, <2>1
  <2>3. QED
    BY <1>1, <1>2, <2>2
<1>4. QED
  BY <1>3

\* The handler Route picks and the schedule loadAll registers exist.
LEMMA LongestIsRegistered ==
  ASSUME TypeOK, NEW s \in Signals, Registered(s) # {}
  PROVE  Longest(s) \in Prefixes /\ router[Longest(s)] \in Schedules
<1>1. Registered(s) \subseteq Prefixes /\ IsFiniteSet(Prefixes)
  BY AutonomyAssumption DEF Registered
<1>2. IsFiniteSet(Registered(s)) /\ \A p \in Registered(s) : PrefixLen[p] \in Nat
  BY <1>1, AutonomyAssumption, FS_Subset
<1>3. \E p \in Registered(s) : \A o \in Registered(s) : PrefixLen[o] <= PrefixLen[p]
  <2> DEFINE R == Registered(s)
  <2> HIDE DEF R
  <2>1. IsFiniteSet(R) /\ R # {} /\ \A p \in R : PrefixLen[p] \in Nat
    BY <1>2 DEF R
  <2>2. \E p \in R : \A o \in R : PrefixLen[o] <= PrefixLen[p]
    BY <2>1, Greatest
  <2>3. QED
    BY <2>2 DEF R
<1>4. Longest(s) \in Registered(s)
  BY <1>3 DEF Longest
<1>5. QED
  BY <1>1, <1>4 DEF Registered, TypeOK

LEMMA WinnerClaims ==
  ASSUME NEW rows, NEW p, Claims(rows, p) # {}
  PROVE  Winner(rows, p) \in Schedules
<1> DEFINE C == Claims(rows, p)
<1>1. C \subseteq Schedules
  BY DEF Claims
<1>2. IsFiniteSet(C) /\ \A s \in C : Rank[s] \in Nat
  BY <1>1, AutonomyAssumption, FS_Subset
<1> HIDE DEF C
<1>3. \E s \in C : \A t \in C : Rank[t] <= Rank[s]
  BY <1>2, Greatest DEF C
<1>4. Winner(rows, p) \in C
  BY <1>3 DEF Winner, C
<1>5. QED
  BY <1>1, <1>4

LEMMA RegistersType ==
  ASSUME TypeOK, NEW rows, Registers(rows)
  PROVE  /\ loops' \in [Schedules -> Nat]
         /\ router' \in [Prefixes -> Schedules \cup {NoSchedule}]
<1>1. loops' \in [Schedules -> Nat]
  BY DEF Registers, TypeOK
<1>2. QED
  BY <1>1, WinnerClaims DEF Registers, TypeOK

-----------------------------------------------------------------------------
\* Steps that leave handlers, rows and sessions alone.
LEMMA HandlersUntouched ==
  ASSUME AutonomyInv, TypeOK', UNCHANGED <<slot, running, runs, sessions>>
  PROVE  AutonomyInv'
<1>1. FlagsAreHandlers'
  BY DEF AutonomyInv, FlagsAreHandlers, EntryGuard, CronFire, EntryOf, Idle
<1>2. ASSUME NEW f \in Slots PROVE HandlerHasRow(f)'
  BY DEF AutonomyInv, HandlerHasRow, Session
<1>3. SessionsAreRecorded'
  BY DEF AutonomyInv, SessionsAreRecorded
<1>4. QED
  BY <1>1, <1>2, <1>3 DEF AutonomyInv

\* The requests that change the schedules, and the restart.
LEMMA PostKeeps ==
  ASSUME AutonomyInv,
         \/ \E q \in Posts, s \in Schedules, to \in {"active", "paused"} : Upsert(q, s, to)
         \/ \E q \in Posts : PostStep(q) \/ ListFails(q)
         \/ Boot
  PROVE  AutonomyInv'
<1>1. TypeOK
  BY DEF AutonomyInv
<1>2. NoRows \in [Schedules -> Rows]
  BY DEF NoRows, Rows
<1>3. CASE \E q \in Posts, s \in Schedules, to \in {"active", "paused"} : Upsert(q, s, to)
  <2>1. TypeOK'
    BY <1>1, <1>3 DEF Upsert, TypeOK, Rows
  <2>2. QED
    BY <1>3, <2>1, HandlersUntouched DEF Upsert
<1>4. CASE \E q \in Posts : List(q) \/ ListFails(q) \/ SwapCache(q)
  <2>1. PICK q \in Posts : List(q) \/ ListFails(q) \/ SwapCache(q)
    BY <1>4
  <2>2. List(q) => TypeOK'
    BY <1>1 DEF List, TypeOK, tables
  <2>3. ListFails(q) => TypeOK'
    BY <1>1 DEF ListFails, TypeOK, tables
  <2>4. SwapCache(q) => TypeOK'
    BY <1>1 DEF SwapCache, TypeOK, tables
  <2>5. TypeOK'
    BY <2>1, <2>2, <2>3, <2>4
  <2>6. QED
    BY <1>4, <2>5, HandlersUntouched DEF List, ListFails, SwapCache, tables
<1>5. CASE \E q \in Posts : RegisterAll(q)
  <2>1. PICK q \in Posts : RegisterAll(q)
    BY <1>5
  <2>2. loops' \in [Schedules -> Nat] /\ router' \in [Prefixes -> Schedules \cup {NoSchedule}]
    BY <1>1, <2>1, RegistersType DEF RegisterAll
  <2>3. TypeOK'
    BY <1>1, <1>2, <2>1, <2>2 DEF RegisterAll, TypeOK, tables
  <2>4. QED
    BY <2>1, <2>3, HandlersUntouched DEF RegisterAll, tables
<1>6. CASE Boot
  <2>1. loops' \in [Schedules -> Nat] /\ router' \in [Prefixes -> Schedules \cup {NoSchedule}]
    BY <1>1, <1>6, RegistersType DEF Boot
  <2>2. TypeOK'
    BY <1>1, <1>6, <2>1 DEF Boot, TypeOK, tables
  <2>3. QED
    BY <1>6, <2>2, HandlersUntouched DEF Boot, tables
<1>7. QED
  BY <1>3, <1>4, <1>5, <1>6 DEF PostStep

\* A bus callback takes its schedules, drops one nobody handles, returns.
LEMMA CallbackKeeps ==
  ASSUME AutonomyInv,
         \/ \E x \in Signals, t \in Tenants : SignalArrives(x, t)
         \/ \E u \in Subs, s \in Schedules : RouteNobody(u, s)
         \/ \E u \in Subs : CallbackReturns(u)
  PROVE  AutonomyInv'
<1>1. TypeOK
  BY DEF AutonomyInv
<1>2. UNCHANGED <<table, cache, loops, router, post, snap, slot, running, runs, sessions>>
  BY DEF SignalArrives, RouteNobody, CallbackReturns, tables
<1>3. cb' \in [Subs -> Callbacks \cup {NoCallback}]
  <2>1. CASE \E x \in Signals, t \in Tenants : SignalArrives(x, t)
    <3>1. PICK x \in Signals, t \in Tenants : SignalArrives(x, t)
      BY <2>1
    <3>2. [sig |-> x, left |-> Matching(x, t), waits |-> NoSlot] \in Callbacks
      BY DEF Callbacks, Matching
    <3>3. QED
      BY <1>1, <3>1, <3>2 DEF SignalArrives, TypeOK
  <2>2. CASE \E u \in Subs, s \in Schedules : RouteNobody(u, s)
    <3>1. PICK u \in Subs, s \in Schedules : RouteNobody(u, s)
      BY <2>2
    <3>2. cb[u] \in Callbacks
      BY <1>1, <3>1 DEF RouteNobody, TypeOK
    <3>3. [cb[u] EXCEPT !.left = @ \ {s}] \in Callbacks
      BY <3>2 DEF Callbacks
    <3>4. QED
      BY <1>1, <3>1, <3>3 DEF RouteNobody, TypeOK
  <2>3. CASE \E u \in Subs : CallbackReturns(u)
    BY <1>1, <2>3 DEF CallbackReturns, TypeOK
  <2>4. QED
    BY <2>1, <2>2, <2>3
<1>4. TypeOK'
  BY <1>1, <1>2, <1>3 DEF TypeOK
<1>5. QED
  BY <1>2, <1>4, HandlersUntouched

\* A handler begins in a free slot; a cron tick also takes the Entry's flag.
LEMMA FiresKeeps ==
  ASSUME AutonomyInv, TypeOK', NEW f \in Slots, NEW s \in Schedules,
         NEW src \in {"cron", "manual", "signal"}, NEW i \in Nat, Fires(f, s, src, i),
         UNCHANGED <<runs, sessions>>,
         \/ src = "cron" /\ EntryFree(s, i) /\ running' = running \cup {<<s, i>>}
         \/ src # "cron" /\ running' = running
  PROVE  AutonomyInv'
<1>1. TypeOK /\ Idle(f)
  BY DEF AutonomyInv, Fires
<1>2. /\ slot'[f] = [pc |-> "insert", sched |-> s, src |-> src, entry |-> i, run |-> 0, result |-> "failed"]
      /\ \A g \in Slots \ {f} : slot'[g] = slot[g]
  BY <1>1 DEF TypeOK, Fires
<1>3. /\ slot'[f].pc = "insert" /\ slot'[f].sched = s /\ slot'[f].src = src /\ slot'[f].entry = i
      /\ slot'[f] # IdleSlot
  BY <1>2 DEF IdleSlot
<1>4. \A g \in Slots \ {f} : (CronFire(g))' <=> CronFire(g)
  BY <1>2 DEF CronFire, Idle
<1>5. \A g \in Slots \ {f} : slot'[g].sched = slot[g].sched /\ slot'[g].entry = slot[g].entry
  BY <1>2
<1>6. CronFire(f)' <=> src = "cron"
  BY <1>3 DEF CronFire, Idle
<1>7. \A g \in Slots : CronFire(g) => g # f /\ EntryOf(g) \in running
  BY <1>1 DEF CronFire, AutonomyInv, FlagsAreHandlers
<1>8. ASSUME NEW g \in Slots, CronFire(g)' PROVE EntryOf(g)' \in running'
  <2>1. CASE g = f
    BY <1>3, <1>6, <1>8, <2>1 DEF EntryOf
  <2>2. CASE g # f
    BY <1>4, <1>5, <1>7, <1>8, <2>2 DEF EntryOf
  <2>3. QED
    BY <2>1, <2>2
<1>9. ASSUME NEW g \in Slots, NEW h \in Slots, g # h, CronFire(g)', CronFire(h)'
      PROVE  EntryOf(g)' # EntryOf(h)'
  <2>1. CASE g # f /\ h # f
    <3>1. EntryOf(g) # EntryOf(h)
      BY <1>4, <1>9, <2>1 DEF AutonomyInv, FlagsAreHandlers, EntryGuard, CronFire, EntryOf
    <3>2. QED
      BY <1>5, <2>1, <3>1 DEF EntryOf
  <2>2. CASE g = f \/ h = f
    <3>1. PICK k \in Slots \ {f} : {g, h} = {f, k} /\ CronFire(k)
      BY <1>4, <1>9, <2>2
    <3>2. EntryOf(k) \in running /\ <<s, i>> \notin running
      BY <1>6, <1>7, <1>9, <2>2, <3>1 DEF EntryFree
    <3>3. EntryOf(f)' = <<s, i>> /\ EntryOf(k)' = EntryOf(k)
      BY <1>3, <1>5 DEF EntryOf
    <3>4. QED
      BY <3>1, <3>2, <3>3
  <2>3. QED
    BY <2>1, <2>2
<1>10. ASSUME NEW e \in running'
       PROVE  \E g \in Slots : CronFire(g)' /\ e = EntryOf(g)'
  <2>1. CASE e \in running
    <3>1. PICK g \in Slots : CronFire(g) /\ e = EntryOf(g)
      BY <2>1 DEF AutonomyInv, FlagsAreHandlers, EntryGuard, CronFire, EntryOf
    <3>2. QED
      BY <1>4, <1>5, <1>7, <3>1 DEF EntryOf
  <2>2. CASE e \notin running
    BY <1>3, <1>6, <1>10, <2>2 DEF EntryOf
  <2>3. QED
    BY <2>1, <2>2
<1>11. FlagsAreHandlers'
  BY <1>8, <1>9, <1>10 DEF FlagsAreHandlers, EntryGuard, CronFire, EntryOf
<1>12. ASSUME NEW g \in Slots PROVE HandlerHasRow(g)'
  BY <1>2, <1>3 DEF AutonomyInv, HandlerHasRow, Session
<1>13. SessionsAreRecorded'
  BY DEF AutonomyInv, SessionsAreRecorded
<1>14. QED
  BY <1>11, <1>12, <1>13 DEF AutonomyInv

LEMMA StartsKeep ==
  ASSUME AutonomyInv,
         \/ \E f \in Slots : \E s \in Cron : \E i \in 1..loops[s] : CronTick(f, s, i)
         \/ \E f \in Slots, s \in Schedules : Trigger(f, s)
         \/ \E u \in Subs : \E f \in Slots, s \in Schedules : Route(u, f, s)
  PROVE  AutonomyInv'
<1>1. TypeOK
  BY DEF AutonomyInv
<1>2. \A s \in Schedules, src \in {"cron", "manual", "signal"}, i \in Nat :
        [pc |-> "insert", sched |-> s, src |-> src, entry |-> i, run |-> 0, result |-> "failed"] \in Running
  BY DEF Running, Outcomes
<1>3. CASE \E f \in Slots : \E s \in Cron : \E i \in 1..loops[s] : CronTick(f, s, i)
  <2>1. PICK f \in Slots, s \in Cron : \E i \in 1..loops[s] : CronTick(f, s, i)
    BY <1>3
  <2>2. PICK i \in 1..loops[s] : CronTick(f, s, i)
    BY <2>1
  <2>3. s \in Schedules /\ i \in Nat
    BY <1>1, AutonomyAssumption DEF TypeOK
  <2>4. TypeOK'
    BY <1>1, <1>2, <2>2, <2>3 DEF CronTick, Fires, TypeOK, tables
  <2>5. QED
    BY <2>2, <2>3, <2>4, FiresKeeps DEF CronTick, tables
<1>4. CASE \E f \in Slots, s \in Schedules : Trigger(f, s)
  <2>1. PICK f \in Slots, s \in Schedules : Trigger(f, s)
    BY <1>4
  <2>2. TypeOK'
    BY <1>1, <1>2, <2>1 DEF Trigger, Fires, TypeOK, tables
  <2>3. QED
    BY <2>1, <2>2, FiresKeeps DEF Trigger, tables
<1>5. CASE \E u \in Subs : \E f \in Slots, s \in Schedules : Route(u, f, s)
  <2>1. PICK u \in Subs, f \in Slots, s \in Schedules : Route(u, f, s)
    BY <1>5
  <2>2. cb[u] \in Callbacks /\ cb[u].sig \in Signals
    BY <1>1, <2>1 DEF Route, TypeOK, Callbacks
  <2>3. PICK h \in Schedules : h = router[Longest(cb[u].sig)]
    BY <1>1, <2>1, <2>2, LongestIsRegistered DEF Route
  <2>4. Fires(f, h, "signal", 0)
    BY <2>1, <2>3 DEF Route
  <2>5. cb' = [cb EXCEPT ![u] = [cb[u] EXCEPT !.left = @ \ {s}, !.waits = f]]
    BY <1>1, <2>1 DEF Route, TypeOK
  <2>6. [cb[u] EXCEPT !.left = @ \ {s}, !.waits = f] \in Callbacks
    BY <2>2 DEF Callbacks
  <2>7. cb' \in [Subs -> Callbacks \cup {NoCallback}]
    BY <1>1, <2>5, <2>6 DEF TypeOK
  <2>8. /\ UNCHANGED <<table, cache, loops, running, router, post, snap, runs, sessions>>
    BY <2>1 DEF Route, tables
  <2>9. slot' \in [Slots -> Running \cup {IdleSlot}]
    BY <1>1, <1>2, <2>4 DEF Fires, TypeOK
  <2>10. TypeOK'
    BY <1>1, <2>7, <2>8, <2>9 DEF TypeOK
  <2>11. QED
    BY <2>4, <2>8, <2>10, FiresKeeps
<1>6. QED
  BY <1>3, <1>4, <1>5

\* The handler goes on: no Entry and no flag is involved.
LEMMA HandlerGoesOn ==
  ASSUME AutonomyInv, NEW f \in Slots, slot[f] \in Running, slot'[f] \in Running,
         slot'[f].sched = slot[f].sched, slot'[f].src = slot[f].src, slot'[f].entry = slot[f].entry,
         \A g \in Slots \ {f} : slot'[g] = slot[g],
         running' = running
  PROVE  FlagsAreHandlers'
<1>1. slot[f] # IdleSlot /\ slot'[f] # IdleSlot
  BY DEF Running, IdleSlot
<1>2. \A g \in Slots : (slot'[g] = IdleSlot <=> slot[g] = IdleSlot) /\ slot'[g].src = slot[g].src
                       /\ slot'[g].sched = slot[g].sched /\ slot'[g].entry = slot[g].entry
  BY <1>1
<1>3. QED
  BY <1>2 DEF AutonomyInv, FlagsAreHandlers, EntryGuard, CronFire, EntryOf, Idle

LEMMA InsertKeeps ==
  ASSUME AutonomyInv, NEW f \in Slots, InsertRun(f)
  PROVE  AutonomyInv'
<1> DEFINE row == [sched |-> slot[f].sched, src |-> slot[f].src, status |-> "running"]
<1>1. /\ TypeOK /\ slot[f] \in Running
  BY DEF AutonomyInv, InsertRun, TypeOK, IdleSlot
<1>2. /\ runs' = Append(runs, row)
      /\ slot' = [slot EXCEPT ![f] = [slot[f] EXCEPT !.pc = "start", !.run = Len(runs) + 1]]
      /\ UNCHANGED <<table, cache, loops, running, router, post, snap, cb, sessions>>
  BY <1>1 DEF InsertRun, TypeOK
<1>3. row \in Runs /\ row.sched = slot[f].sched /\ row.status = "running"
  BY <1>1 DEF Running, Runs
<1> HIDE DEF row
<1>4. /\ runs' \in Seq(Runs) /\ Len(runs) \in Nat /\ DOMAIN runs = 1..Len(runs)
      /\ DOMAIN runs' = 1..Len(runs) + 1
      /\ runs'[Len(runs) + 1] = row
      /\ \A i \in DOMAIN runs : runs'[i] = runs[i]
  BY <1>1, <1>2, <1>3 DEF TypeOK
<1>5. /\ slot'[f] = [slot[f] EXCEPT !.pc = "start", !.run = Len(runs) + 1]
      /\ \A g \in Slots \ {f} : slot'[g] = slot[g]
  BY <1>1, <1>2 DEF TypeOK
<1>6. /\ slot'[f] \in Running
      /\ slot'[f].sched = slot[f].sched /\ slot'[f].src = slot[f].src
      /\ slot'[f].entry = slot[f].entry
      /\ slot'[f].run = Len(runs) + 1 /\ slot'[f].pc = "start"
  <2> DEFINE n == Len(runs) + 1
  <2>1. n \in Nat /\ slot'[f] = [slot[f] EXCEPT !.pc = "start", !.run = n]
    BY <1>4, <1>5
  <2> HIDE DEF n
  <2>2. /\ slot'[f] \in Running
        /\ slot'[f].sched = slot[f].sched /\ slot'[f].src = slot[f].src
        /\ slot'[f].entry = slot[f].entry
        /\ slot'[f].run = n /\ slot'[f].pc = "start"
    BY <1>1, <2>1 DEF Running
  <2>3. QED
    BY <2>2 DEF n
<1>7. slot' \in [Slots -> Running \cup {IdleSlot}]
  BY <1>1, <1>2, <1>5, <1>6 DEF TypeOK
<1>8. TypeOK'
  BY <1>1, <1>2, <1>4, <1>7 DEF TypeOK
<1>9. FlagsAreHandlers'
  BY <1>1, <1>2, <1>5, <1>6, HandlerGoesOn
<1>10. ASSUME NEW g \in Slots PROVE HandlerHasRow(g)'
  <2>1. CASE g = f
    BY <1>3, <1>4, <1>6, <2>1 DEF HandlerHasRow
  <2>2. CASE g # f
    <3>1. HandlerHasRow(g) /\ slot'[g] = slot[g]
      BY <1>5, <2>2 DEF AutonomyInv
    <3>2. \A i \in DOMAIN runs : i \in DOMAIN runs' /\ runs'[i].sched = runs[i].sched
      BY <1>4
    <3>3. sessions' = sessions
      BY <1>2
    <3>4. QED
      BY <3>1, <3>2, <3>3 DEF HandlerHasRow, Session
  <2>3. QED
    BY <2>1, <2>2
<1>11. SessionsAreRecorded'
  <2>1. \A i \in DOMAIN runs' : i \in DOMAIN runs \/ i = Len(runs) + 1
    BY <1>4
  <2>2. QED
    BY <1>2, <1>3, <1>4, <2>1 DEF AutonomyInv, SessionsAreRecorded
<1>12. QED
  BY <1>8, <1>9, <1>10, <1>11 DEF AutonomyInv

\* StartSession: the session is opened, or the call failed and may have opened it.
LEMMA StartKeeps ==
  ASSUME AutonomyInv, NEW f \in Slots,
         StartFails(f) \/ \E o \in Outcomes : StartSession(f, o)
  PROVE  AutonomyInv'
<1>1. PICK o \in Outcomes :
        /\ slot[f].pc = "start"
        /\ slot' = [slot EXCEPT ![f].pc = "update", ![f].result = o]
        /\ sessions' \in {sessions, sessions \cup {Session(f)}}
        /\ o = "failed" \/ sessions' = sessions \cup {Session(f)}
        /\ UNCHANGED <<table, cache, loops, running, router, post, snap, cb, runs>>
  BY DEF StartFails, StartSession, Outcomes
<1>2. TypeOK /\ slot[f] \in Running
  BY <1>1 DEF AutonomyInv, TypeOK, IdleSlot
<1>3. /\ slot'[f] = [slot[f] EXCEPT !.pc = "update", !.result = o]
      /\ \A g \in Slots \ {f} : slot'[g] = slot[g]
  BY <1>1, <1>2 DEF TypeOK
<1>4. /\ slot'[f] \in Running
      /\ slot'[f].sched = slot[f].sched /\ slot'[f].src = slot[f].src
      /\ slot'[f].entry = slot[f].entry /\ slot'[f].run = slot[f].run
      /\ slot'[f].pc = "update" /\ slot'[f].result = o
  BY <1>2, <1>3 DEF Running
<1>5. slot' \in [Slots -> Running \cup {IdleSlot}]
  BY <1>1, <1>2, <1>3, <1>4 DEF TypeOK
<1>6. TypeOK'
  BY <1>1, <1>2, <1>5 DEF TypeOK
<1>7. FlagsAreHandlers'
  BY <1>1, <1>2, <1>3, <1>4, HandlerGoesOn
<1>8. slot[f].run \in DOMAIN runs /\ runs[slot[f].run].sched = slot[f].sched
  BY <1>1 DEF AutonomyInv, HandlerHasRow
<1>9. Session(f)' = Session(f)
  BY <1>4 DEF Session
<1>10. ASSUME NEW g \in Slots PROVE HandlerHasRow(g)'
  <2>1. CASE g = f
    BY <1>1, <1>4, <1>8, <1>9, <2>1 DEF HandlerHasRow
  <2>2. CASE g # f
    <3>1. HandlerHasRow(g) /\ slot'[g] = slot[g] /\ sessions \subseteq sessions'
      BY <1>1, <1>3, <2>2 DEF AutonomyInv
    <3>2. QED
      BY <1>1, <3>1 DEF HandlerHasRow, Session
  <2>3. QED
    BY <2>1, <2>2
<1>11. SessionsAreRecorded'
  <2>1. \A x \in sessions' : x \in sessions \/ x = Session(f)
    BY <1>1
  <2>2. Session(f).run = slot[f].run /\ Session(f).tenant = Tenant[slot[f].sched]
    BY DEF Session
  <2>3. \A x \in sessions' : x.run \in DOMAIN runs /\ Tenant[runs[x.run].sched] = x.tenant
    BY <1>8, <2>1, <2>2 DEF AutonomyInv, SessionsAreRecorded
  <2>4. QED
    BY <1>1, <2>3 DEF AutonomyInv, SessionsAreRecorded
<1>12. QED
  BY <1>6, <1>7, <1>10, <1>11 DEF AutonomyInv

\* The handler returns: its flag goes, and only its own.
LEMMA ReturnsKeep ==
  ASSUME AutonomyInv, NEW f \in Slots, slot[f] # IdleSlot, Returns(f)
  PROVE  /\ cb' \in [Subs -> Callbacks \cup {NoCallback}]
         /\ slot' \in [Slots -> Running \cup {IdleSlot}]
         /\ slot'[f] = IdleSlot /\ \A g \in Slots \ {f} : slot'[g] = slot[g]
         /\ FlagsAreHandlers'
<1>1. TypeOK
  BY DEF AutonomyInv
<1>2. slot' \in [Slots -> Running \cup {IdleSlot}] /\ slot'[f] = IdleSlot
      /\ \A g \in Slots \ {f} : slot'[g] = slot[g]
  BY <1>1 DEF Returns, TypeOK
<1>3. cb' \in [Subs -> Callbacks \cup {NoCallback}]
  <2>1. \A u \in Subs : cb[u] # NoCallback => [cb[u] EXCEPT !.waits = NoSlot] \in Callbacks
    BY <1>1 DEF TypeOK, Callbacks
  <2>2. QED
    BY <1>1, <2>1 DEF Returns, TypeOK
<1>4. \A g \in Slots : CronFire(g)' <=> g # f /\ CronFire(g)
  BY <1>2 DEF CronFire, Idle
<1>5. \A g \in Slots \ {f} : slot'[g].sched = slot[g].sched /\ slot'[g].entry = slot[g].entry
  BY <1>2
<1>6. running' = IF CronFire(f) THEN running \ {EntryOf(f)} ELSE running
  BY DEF Returns, FlagReset, CronFire, EntryOf, Idle
<1>7. \A g \in Slots : CronFire(g) => EntryOf(g) \in running
  BY DEF AutonomyInv, FlagsAreHandlers
<1>8. \A g, h \in Slots : CronFire(g) /\ CronFire(h) /\ g # h => EntryOf(g) # EntryOf(h)
  BY DEF AutonomyInv, FlagsAreHandlers, EntryGuard, CronFire, EntryOf
<1>9. \A e \in running : \E g \in Slots : CronFire(g) /\ e = EntryOf(g)
  BY DEF AutonomyInv, FlagsAreHandlers, EntryGuard, CronFire, EntryOf
<1>10. \A g \in Slots \ {f} : EntryOf(g)' = EntryOf(g)
  BY <1>5 DEF EntryOf
<1>11. \A g \in Slots : CronFire(g)' => EntryOf(g)' \in running'
  BY <1>4, <1>6, <1>7, <1>8, <1>10
<1>12. \A g, h \in Slots : CronFire(g)' /\ CronFire(h)' /\ g # h => EntryOf(g)' # EntryOf(h)'
  BY <1>4, <1>8, <1>10
<1>13. \A e \in running' : \E g \in Slots : CronFire(g)' /\ e = EntryOf(g)'
  <2> SUFFICES ASSUME NEW e \in running' PROVE \E g \in Slots : CronFire(g)' /\ e = EntryOf(g)'
    OBVIOUS
  <2>1. PICK g \in Slots : CronFire(g) /\ e = EntryOf(g)
    BY <1>6, <1>9
  <2>2. g # f
    BY <1>6, <2>1
  <2>3. QED
    BY <1>4, <1>10, <2>1, <2>2
<1>14. FlagsAreHandlers'
  BY <1>11, <1>12, <1>13 DEF FlagsAreHandlers, EntryGuard, CronFire, EntryOf
<1>15. QED
  BY <1>2, <1>3, <1>14

LEMMA EndsKeep ==
  ASSUME AutonomyInv, NEW f \in Slots, InsertFails(f) \/ UpdateFails(f) \/ UpdateRunStatus(f)
  PROVE  AutonomyInv'
<1>1. /\ TypeOK
      /\ Returns(f) /\ slot[f].pc \in {"insert", "update"}
      /\ UNCHANGED <<table, cache, loops, router, post, snap, sessions>>
  BY DEF AutonomyInv, InsertFails, AfterInsertError, UpdateFails, UpdateRunStatus, tables
<1>2. slot[f] # IdleSlot /\ slot[f] \in Running
  BY <1>1 DEF IdleSlot, TypeOK
<1>3. /\ cb' \in [Subs -> Callbacks \cup {NoCallback}]
      /\ slot' \in [Slots -> Running \cup {IdleSlot}]
      /\ slot'[f] = IdleSlot /\ \A g \in Slots \ {f} : slot'[g] = slot[g]
      /\ FlagsAreHandlers'
  BY <1>1, <1>2, ReturnsKeep
<1>4. /\ runs' \in Seq(Runs) /\ DOMAIN runs' = DOMAIN runs
      /\ \A i \in DOMAIN runs : runs'[i].sched = runs[i].sched
      /\ \A i \in DOMAIN runs : \/ runs'[i].status = runs[i].status
                                \/ /\ slot[f].pc = "update" /\ i = slot[f].run
                                   /\ runs'[i].status = slot[f].result
  <2>1. CASE runs' = runs
    BY <1>1, <2>1 DEF TypeOK
  <2>2. CASE UpdateRunStatus(f)
    <3>1. /\ slot[f].pc = "update" /\ slot[f].run \in DOMAIN runs
          /\ slot[f].result \in Outcomes
      BY <1>2, <2>2 DEF UpdateRunStatus, AutonomyInv, HandlerHasRow, Running
    <3> DEFINE k == slot[f].run
    <3>2. runs' = [runs EXCEPT ![k] = [runs[k] EXCEPT !.status = slot[f].result]]
      BY <1>1, <2>2 DEF UpdateRunStatus, Settled, TypeOK
    <3>3. runs[k] \in Runs
      BY <1>1, <3>1 DEF TypeOK
    <3>4. /\ [runs[k] EXCEPT !.status = slot[f].result] \in Runs
          /\ [runs[k] EXCEPT !.status = slot[f].result].sched = runs[k].sched
          /\ [runs[k] EXCEPT !.status = slot[f].result].status = slot[f].result
      BY <3>1, <3>3 DEF Runs
    <3> HIDE DEF k
    <3>5. runs' \in Seq(Runs) /\ DOMAIN runs' = DOMAIN runs
      BY <1>1, <3>1, <3>2, <3>4 DEF TypeOK, k
    <3>6. QED
      BY <1>1, <3>1, <3>2, <3>4, <3>5 DEF TypeOK, k
  <2>3. QED
    BY <2>1, <2>2 DEF InsertFails, UpdateFails, tables
<1>5. TypeOK'
  BY <1>1, <1>3, <1>4 DEF TypeOK
<1>6. ASSUME NEW g \in Slots PROVE HandlerHasRow(g)'
  <2>1. CASE g = f
    BY <1>3, <2>1 DEF HandlerHasRow, IdleSlot
  <2>2. CASE g # f
    <3>1. HandlerHasRow(g) /\ slot'[g] = slot[g]
      BY <1>3, <2>2 DEF AutonomyInv
    <3>2. QED
      BY <1>1, <1>4, <3>1 DEF HandlerHasRow, Session
  <2>3. QED
    BY <2>1, <2>2
<1>7. SessionsAreRecorded'
  <2>1. \A x \in sessions' : x.run \in DOMAIN runs' /\ Tenant[runs'[x.run].sched] = x.tenant
    BY <1>1, <1>4 DEF AutonomyInv, SessionsAreRecorded
  <2>2. ASSUME NEW i \in DOMAIN runs', runs'[i].status \in {"completed", "awaiting_gate"}
        PROVE  [run |-> i, tenant |-> Tenant[runs'[i].sched]] \in sessions'
    <3>1. CASE runs'[i].status = runs[i].status
      BY <1>1, <1>4, <2>2, <3>1 DEF AutonomyInv, SessionsAreRecorded
    <3>2. CASE slot[f].pc = "update" /\ i = slot[f].run /\ runs'[i].status = slot[f].result
      <4>1. Session(f) \in sessions /\ runs[i].sched = slot[f].sched
        BY <2>2, <3>2 DEF AutonomyInv, HandlerHasRow
      <4>2. QED
        BY <1>1, <1>4, <2>2, <3>2, <4>1 DEF Session
    <3>3. QED
      BY <1>4, <2>2, <3>1, <3>2
  <2>3. QED
    BY <2>1, <2>2 DEF SessionsAreRecorded
<1>8. QED
  BY <1>3, <1>5, <1>6, <1>7 DEF AutonomyInv

\* The client of a manual trigger is gone: its row stays as it is.
LEMMA LeaveKeeps ==
  ASSUME AutonomyInv, NEW f \in Slots, ClientLeaves(f)
  PROVE  AutonomyInv'
<1>1. /\ TypeOK
      /\ Returns(f) /\ slot[f].pc = "start"
      /\ sessions' \in {sessions, sessions \cup {Session(f)}}
      /\ UNCHANGED <<table, cache, loops, router, post, snap, runs>>
  BY DEF AutonomyInv, ClientLeaves
<1>2. slot[f] # IdleSlot
  BY <1>1 DEF IdleSlot
<1>3. /\ cb' \in [Subs -> Callbacks \cup {NoCallback}]
      /\ slot' \in [Slots -> Running \cup {IdleSlot}]
      /\ slot'[f] = IdleSlot /\ \A g \in Slots \ {f} : slot'[g] = slot[g]
      /\ FlagsAreHandlers'
  BY <1>1, <1>2, ReturnsKeep
<1>4. TypeOK'
  BY <1>1, <1>3 DEF TypeOK
<1>5. ASSUME NEW g \in Slots PROVE HandlerHasRow(g)'
  <2>1. CASE g = f
    BY <1>3, <2>1 DEF HandlerHasRow, IdleSlot
  <2>2. CASE g # f
    <3>1. HandlerHasRow(g) /\ slot'[g] = slot[g] /\ sessions \subseteq sessions'
      BY <1>1, <1>3, <2>2 DEF AutonomyInv
    <3>2. QED
      BY <1>1, <3>1 DEF HandlerHasRow, Session
  <2>3. QED
    BY <2>1, <2>2
<1>6. SessionsAreRecorded'
  <2>1. slot[f].run \in DOMAIN runs /\ runs[slot[f].run].sched = slot[f].sched
    BY <1>1 DEF AutonomyInv, HandlerHasRow
  <2>2. Session(f).run = slot[f].run /\ Session(f).tenant = Tenant[slot[f].sched]
    BY DEF Session
  <2>3. \A x \in sessions' : x.run \in DOMAIN runs /\ Tenant[runs[x.run].sched] = x.tenant
    BY <1>1, <2>1, <2>2 DEF AutonomyInv, SessionsAreRecorded
  <2>4. QED
    BY <1>1, <2>3 DEF AutonomyInv, SessionsAreRecorded
<1>7. QED
  BY <1>3, <1>4, <1>5, <1>6 DEF AutonomyInv

-----------------------------------------------------------------------------
\* Nothing runs in a process that just died or has not begun.
LEMMA EmptyMemory ==
  ASSUME NoMemory
  PROVE  /\ cache \in [Schedules -> Rows] /\ loops \in [Schedules -> Nat]
         /\ router \in [Prefixes -> Schedules \cup {NoSchedule}]
         /\ post \in [Posts -> {"idle", "list", "cache", "register"}]
         /\ snap \in [Posts -> [Schedules -> Rows]]
         /\ cb \in [Subs -> Callbacks \cup {NoCallback}]
         /\ slot \in [Slots -> Running \cup {IdleSlot}]
         /\ FlagsAreHandlers /\ \A f \in Slots : HandlerHasRow(f)
<1>1. NoRows \in [Schedules -> Rows]
  BY DEF NoRows, Rows
<1>2. \A f \in Slots : slot[f] = IdleSlot
  BY DEF NoMemory
<1>3. QED
  BY <1>1, <1>2 DEF NoMemory, FlagsAreHandlers, EntryGuard, CronFire, EntryOf, Idle, HandlerHasRow, IdleSlot

LEMMA AutonomyInitInv == Init => AutonomyInv
<1> SUFFICES ASSUME Init PROVE AutonomyInv
  OBVIOUS
<1>1. table \in [Schedules -> Rows] /\ runs \in Seq(Runs) /\ DOMAIN runs = {} /\ sessions = {}
  BY DEF Init, NoRows, Rows
<1>2. QED
  BY <1>1, EmptyMemory DEF Init, AutonomyInv, TypeOK, SessionsAreRecorded

LEMMA CrashKeeps == ASSUME AutonomyInv, Crash PROVE AutonomyInv'
<1>1. UNCHANGED <<table, runs, sessions>>
  BY DEF Crash, tables
<1>2. NoRows \in [Schedules -> Rows]
  BY DEF NoRows, Rows
<1>3. TypeOK'
  BY <1>1, <1>2 DEF Crash, AutonomyInv, TypeOK
<1>4. \A f \in Slots : slot'[f] = IdleSlot
  BY DEF Crash
<1>5. running' = {}
  BY DEF Crash
<1>6. FlagsAreHandlers'
  BY <1>4, <1>5 DEF FlagsAreHandlers, EntryGuard, CronFire, EntryOf, Idle
<1>7. \A f \in Slots : HandlerHasRow(f)'
  BY <1>4 DEF HandlerHasRow, IdleSlot
<1>8. QED
  BY <1>1, <1>3, <1>6, <1>7 DEF AutonomyInv, SessionsAreRecorded

LEMMA AutonomyNextInv == AutonomyInv /\ [Next]_vars => AutonomyInv'
<1> SUFFICES ASSUME AutonomyInv, [Next]_vars PROVE AutonomyInv'
  OBVIOUS
<1>1. CASE \E f \in Slots : FireStep(f)
  BY <1>1, InsertKeeps, StartKeeps, EndsKeep DEF FireStep
<1>2. CASE \E f \in Slots : InsertFails(f) \/ StartFails(f) \/ UpdateFails(f) \/ ClientLeaves(f)
  BY <1>2, StartKeeps, EndsKeep, LeaveKeeps
<1>3. CASE \E u \in Subs : CallbackStep(u)
  BY <1>3, StartsKeep, CallbackKeeps DEF CallbackStep
<1>4. CASE UNCHANGED vars
  <2>1. TypeOK' /\ UNCHANGED <<slot, running, runs, sessions>>
    BY <1>4 DEF AutonomyInv, TypeOK, vars, memory, tables
  <2>2. QED
    BY <2>1, HandlersUntouched
<1>5. QED
  BY <1>1, <1>2, <1>3, <1>4, StartsKeep, CallbackKeeps, PostKeeps, CrashKeeps DEF Next

\* An Entry never has two handlers in flight, and its flag is never left set.
THEOREM EntriesAreGuarded == Spec => []EntryGuard
<1>1. AutonomyInv => EntryGuard
  BY DEF AutonomyInv, FlagsAreHandlers
<1>2. QED
  BY <1>1, AutonomyInitInv, AutonomyNextInv, PTL DEF Spec

\* Rows and sessions agree, whatever statement or call failed and wherever the
\* process died.
THEOREM RunsAreRecorded == Spec => []SessionsAreRecorded
<1>1. AutonomyInv => SessionsAreRecorded
  BY DEF AutonomyInv
<1>2. QED
  BY <1>1, AutonomyInitInv, AutonomyNextInv, PTL DEF Spec
=============================================================================
