# AegisVision: TLA+ models and proofs

AegisVision is a computer-vision platform of thirty-five Go services over a set of shared packages.
This directory models the parts whose correctness depends on the order in which processes, replicas,
messages, time and crashes interleave, checks them with TLC and proves the central invariants with TLAPS.
All paths are relative to the repository root.

1. [Inventory](#1-inventory) · 2. [Modules](#2-modules) · 3. [Runs](#3-runs) · 4. [Proofs](#4-proofs) ·
5. [Divergences](#5-where-code-and-documents-differ) · 6. [Not modelled](#6-what-is-not-modelled) · 7. [Plan](#7-plan)

## 1. Inventory

| Part | State it keeps | Operations | What is hard about it | What makes it correct |
|---|---|---|---|---|
| **edge-gateway** queue | one file per message, an in-memory list, byte counter, next sequence number | Put, Peek, AckThrough, Drain, replay at boot, eviction at the caps | crashes inside Put and AckThrough, torn writes, two drains at once, a link that drops what it buffered | an accepted message is neither lost silently nor stuck |
| **canary-controller**, `pkg/canary` | plan rows: status, rung, time of last change, observations | create, reconcile tick, pause, resume | two replicas ticking one table, statements that fail half way, a hold measured from a column the tick rewrites | rungs in order and after their hold; regressions roll back; announcements are true |
| **agent-service**, `pkg/agent` | session and step tables; in-flight loops | start, LLM/tool loop with tiers and gates, resume by HTTP and by bus | resumes racing each other and the start handler; disconnects; budgets | the trail of the Agent that started a session survives, but for failed INSERTs; a session waits for its own gate; loops end |
| **policy-gate-service** | gate rows | open, decide, announce | several approvers and replicas; UPDATE and read-back are two statements | the first decision stands and is announced at most once |
| **autonomy-orchestrator**, `pkg/autonomy` | schedule and run tables, hot copy under an RWMutex, cron loops, prefix handlers | upsert and reload, cron tick, signal callback, manual trigger, run handler | reload beside running loops, callbacks holding the read lock for minutes, client timeout against a session that goes on | every session recorded; runs settle; posts complete |
| **every service's process**, `pkg/platform/shutdown` | open resources, registered closers | boot, serve, signal, close in order under a deadline | closers that use what an earlier one closed, one shared deadline, servers that drain late | every closer runs; accepted requests are answered; the process exits |
| **metering-service** and **inference-router** | buffered counters, day table; retries in flight | answer, publish, buffer, overflow flush, ticker flush, close | maps swapped out of one buffer by three flushers, failures half way | every answered inference counted once, or lost by a named failure |
| **rule-engine** | state per track and rule | evaluate, collect garbage, reload | capture times of several cameras, cooldowns, composition | an alert is earned |
| **event-service**, **realtime-hub**, **notification-service** | ring and client channels, webhook endpoints, dead letters | append, subscribe, publish, deliver with retries | slow and leaving clients, a closed channel, dead endpoints | slow clients cost only themselves; webhooks settle |
| **audit-service**, audit middleware, `pkg/bus` | audit table; Kafka offsets | emit, fetch, append, commit | crash between append and commit, duplicates, rejected records | published records are lost only where the transport forgets: on NATS, or before a Kafka group's first commit |
| **api-gateway**, `pkg/platform` idempotency, auth | stored answers, key cache | write with a key, authenticate, list | attempts that overlap, eviction, expiry, key rotation | a retry gets the first answer; dropped keys expire; pages cover everything |
| **pipeline-service**, **stream-manager**, **model-registry** | one table each | create, deploy, delete, list, promote | reads and updates as separate statements | releases are gated |
| **gpu-scheduler** | reservations by id and by GPU | register, place, release | two indexes, a GPU that shrinks, restarts | implements an allocator |
| **dataplane-runner**, `pkg/dataplane` | channels of a chain, claim-check ring, tracks, dwell state | run, cancel, put, get, track, evaluate | closing channels behind frames, a ring shared by runs, missed frames | streams end clean, up to what the bus refused; frames read their own pixels; one event per stay |
| **shadow-inference-service** | pending frames and baselines, windows | observe, compare, flush, peek | reordered and repeated messages, late answers | windows add up to the comparisons made |
| **active-learning-service**, **drift-detection-service** | policies, budgeters, samples; rolling windows, signals | sample, label; observe, evaluate | counts in memory against rows, policies that change under a decision | budgets hold from start to start; signals count what was seen |
| tenant-service, annotation, dataset, training, slo-watchdog, media, cost | one or two tables each | CRUD, status updates | single statements | see 6 |
| llm-gateway, search, knowledge, nlq, prefetch, compliance, console | adapters, indexes, metadata | request/response | I/O | see 6 |

How they interact. An agent opens a gate over HTTP, the gate service announces the decision on
`gate.resolved.>`, agent-service resumes the session. The canary controller announces on `canary.*`; the
orchestrator subscribes to `canary.rollback.>` and `autonomy.signal.>` and starts sessions at agent-service.
The data plane and, from the field, the edge gateway publish detections, which feed rules, drift detection
and active learning; the rule engine publishes `events.v1`, which feeds the event ring, the realtime hub and webhooks;
inference completions feed metering and shadow inference, whose windows go back to the canary controller.
The gateway calls pipeline-service and stream-manager over gRPC. Each service owns its table; the only
shared memory is inside one process. Replicas share the table and, for subscriptions, a queue group.

`PROJECT.json` lists every component with its status and every hazard at its line.

## 2. Modules

| Module | Models | Checked through |
|---|---|---|
| `EdgeQueue` | queue, forwarder, NATS buffer, disk, crashes | `MCEdgeQueue`, `EdgeQueueProofs` |
| `CanaryController` | plan table, `Next`, ticks of every replica, operator | `MCCanaryController`, `CanaryProofs` |
| `PolicyGate` | the gate table and its approvers, a specification of its own (`GateSpec`) | `AgentSessions`, `AgentSessionsProofs` |
| `AgentSessions` | agent loop, session and step tables, resumes, composed with `PolicyGate` and the bus | `MCAgentSessions`, `AgentSessionsProofs` |
| `AutonomyOrchestrator` | schedules, scheduler, router, run handler | `MCAutonomyOrchestrator`, `AutonomyProofs` |
| `Lifecycle` | `run()` of a service and the shutdown runner, for any services | `MCLifecycle`, `ControlPlaneProofs` |
| `Services` | the thirty-five services as `Lifecycle` sees them | `MCLifecycle` |
| `UsagePath` | inference-router's answer and completion, metering's buffer and flushes | `MCEvents`, `EventsProofs` |
| `RuleEngine` | every rule kind, cooldown, garbage collection, reload | `MCEvents`, `EventsProofs` |
| `EventFanout` | `events.v1` through ring and SSE, hub, webhooks | `MCEvents`, `EventsProofs` |
| `AuditTrail` | audit records over Kafka or NATS into the table | `MCEvents`, `EventsProofs` |
| `Sampling` | active learning: policies, budgeters, samples | `MCEvents`, `EventsProofs` |
| `DriftWindow` | drift detection: windows, evaluation, signals | `MCEvents`, `EventsProofs` |
| `AnswerOnce` | **abstract**: what an Idempotency-Key promises | refined by `Gateway` |
| `Gateway` | idempotency store and middleware, pipeline and stream writes behind it | `MCControlPlane`, `ControlPlaneProofs` |
| `Keyset` | token authentication and its key cache | `MCControlPlane`, `ControlPlaneProofs` |
| `Listing` | page tokens over SQL and in-memory stores | `MCControlPlane`, `ControlPlaneProofs` |
| `ModelRegistry` | models, versions, gated promotion | `MCControlPlane`, `ControlPlaneProofs` |
| `Allocator` | **abstract**: what gpu-scheduler promises | refined by `GpuLedger` |
| `GpuLedger` | the two indexes of the reservation ledger | `MCDataplane`, `DataPlaneProofs` |
| `FrameChain` | goroutines and channels of `Pipeline.Run` | `MCLifecycle`, `MCFrameChain` |
| `FrameRing` | claim-check ring shared by the chains of a stream | `MCDataplane`, `DataPlaneProofs` |
| `Dwell` | tracker and dwell rule | `MCDataplane`, `DataPlaneProofs` |
| `ShadowEngine` | pairing, windows and flush of shadow inference | `MCDataplane`, `DataPlaneProofs` |
| `SetSums` | lemmas about sums over finite sets | used by the proofs that keep books |

A definition whose comment starts with *Mutant* is a plausible bug of the definition below it; it is used
by nothing else and documents what a property of the run would catch. `MCEvents`, `MCControlPlane`,
`MCDataplane` and `MCLifecycle` check components that share no state: a variable `focus` chooses one per behaviour, so their
state spaces add up instead of multiplying.

### EdgeQueue

`disk` is the directory (sequence number → what `replay()` tells apart of a file: declared length and bytes
present), `items` the in-memory list, `next`/`curBytes` the fields, and `pc`, `batch`, `lastAck`, `link`,
`buf` belong to one `FlushNow` call each. Queue methods hold `q.mu`, so each is one step; `Drain` is
`StartFlush`, `Peek`, `Publish` per item, `AckBatch`, `FlushDone`, in any interleaving with another drain.
`persist` may stop at any of three cuts (`PutFails`), the process may die in `Put` at the same cuts, before
the 202 (`CrashInPut`), between two removals of an eviction (`CrashInEviction`) or of `AckThrough`
(`CrashInAck`), or anywhere else (`Crash`). `Publish`
puts a payload into the connection's buffer; `LinkFlush` delivers it, `LinkDrop` loses it. `replay`'s slice
arithmetic is in `uint16`, as in the code, including the wrap-around and the panic (`Panics`). `os.Remove`
is assumed to succeed.

### CanaryController

The plan row is `status`, `step`, `age` (time since `last_step_at`). A tick is `TickList`, then per plan
`TickAssess` (reads and decides), `TickApply` (the UPDATE), `TickEmit` (the publish), each of which may fail;
`Restart` drops a replica's local state. The statistics of `AssessRegression` are abstracted to the three
verdicts `Next` distinguishes; `Observe` may change the verdict at any time. A plan is created with any status,
rung of its ladder and age, as the body may say; `ListActive` returns at most `ListLimit` rows (500 in the
code), in no order. `cleared` and `written` are history: the rungs a tick found held, and the decisions that
ticks applied.

### PolicyGate and AgentSessions

`PolicyGate` has the gate row (`decision`), the requests that decide (`deciding`, `changed`), and the
messages (`resolved`). `Decide` is the guarded UPDATE, `DecideReplies` the read-back with the announcement,
`DecideDies` a request that ends in between. `AgentSessions` extends it: a run is one execution of
`Agent.loop` with its step index, pending calls and message; `ChatFinal`/`ChatCalls` are any answer of the
model; `Calls` writes the `tool_call` row, whose tier against `Ceiling` decides between `ToolReturns` and
`CallGated`/`AwaitGate`; `Settle` is the handler's trailing `SetStatus`. `ResumeHTTP` and `AutoResume` are the
two ways back. A step row is which Agent wrote it, the one that started the session or one that resumed it.
`Record` is `recordStep`, which drops the error of its INSERT, be the number taken or the statement failed
(`unwritten`, history); so does `SetStatus`. `ran` (history) counts the steps of the starting Agent. A step of the
composition is a step of `GateSpec` or leaves the gates alone.

### AutonomyOrchestrator

`table` is the schedule table, `cache` the hot map, `loops[s]` how many Entries the scheduler has for `s`
(a reload adds, nothing removes), `router` the handler of each prefix. A POST is `Upsert`, `List`,
`SwapCache`, `RegisterAll`; `SwapCache` is `schedulesMu.Lock()`, which waits for every callback and keeps
new ones out (`LockFree`, the writer preference of `sync.RWMutex`). Each of the subscriptions has its own
callback, which holds the read lock until the sessions it routed have returned. A slot is one execution of
the handler: `InsertRun`, `StartSession`, `UpdateRunStatus`, each of which may fail; a timed-out
`StartSession` may or may not have opened the session. A manual trigger runs in its request's context, so a
client that leaves takes `StartSession` and the update after it down together (`ClientLeaves`). `cutOff`
remembers the runs whose own handler died or whose own last UPDATE failed: `RunsSettle` excuses those and no
others, so a `StartSession` that fails, and any fault of something else, must still settle the row. A schedule
with an empty tenant takes any tenant's signals (`Matching`); no handler writes one, a row put in the table by
hand may have it. One process is modelled; a schedule keeps its tenant, trigger and subject; ticks happen
at any time (the cron arithmetic and jitter are left out).

### Lifecycle

A service is a profile: what `run()` acquires in order, the closers it registers in order, and what each kind
of work uses. `Services` has all thirty-five, read from their `main.go`; `Lifecycle` takes any that are as
`ProfileOK` says: a closer is registered once, one is registered for a server that listens during boot, and
what a handler uses is opened by `run()`. `BootStep` and `BootStepFails` walk
through `run()`; `Signal`, `StopsAccepting`, `Drained`, `DeadlinePasses`, `Release` and `Exit` are
`Runner.Wait`, last registered first, under one deadline; `AcceptWork`, `Touch`, `Finish` is one piece of work
whose handler uses resources that may be closed under it. Eighteen services register their server before what its
requests use, so `Wait` closes the database or the bus first and drains afterwards (section 5): `LateClosers`
in `MCLifecycle` names them, and TLC checks on every run that the list is what the profiles say. Of these
`RequestsKeepTheirResources` says that only such a resource is ever refused and none before the signal; of the
others, that before the deadline none is.

### The event path: UsagePath, RuleEngine, EventFanout, AuditTrail, Sampling, DriftWindow

`UsagePath` follows a call from `Infer` with its retries through the published completion (`wire`) into the
buffer and, by any of three flushers (`SwapOut`, `Increment`), into rows; `Increment` may fail before or after
its write, and a failure gives one key back and drops the rest of the map, as the code does. `RuleEngine`
keeps the code's state record per track and rule; geometry is what the rules ask of a position; nothing checks
that rule ids differ (`loadRules`), so `AlertsAreEarned` speaks of the rules that have theirs to themselves. In
`EventFanout` the ring works under one mutex and is one step; `Hub.Publish` is split at its lock (`HubVisit`,
`HubSend`) against `Unsubscribe` (`Mark`, `RemoveFromMap`, `CloseChannel`); webhooks are one attempt per step.
A search returns at most `MaxLimit` events (500 in the code), so what a client was pushed is found until newer
events fill its answer or the ring (10000).
`AuditTrail` has both transports: Kafka's log and committed offset, core NATS without memory; it tells records
that were lost with an error (`failed`, `unsent`) from those whose loss nobody hears of (`unheard`). In `Sampling`
the handler is split where another request or midnight may come in between: list, charge, insert.
`DriftWindow` splits `evalAll` at the end of its lock; scores and divergences are floating-point numbers and
their verdicts a choice.

### The control plane: Gateway, Keyset, Listing, ModelRegistry

`Gateway` runs attempts through `idempotency.Store.Get`, the handler, its gRPC call and `Put`, each a step,
with expiry, eviction at `MaxItems` and restarts. `AnswerOnce` says what a client may rely on; the mapping
takes an attempt's answers given before it began (`Due`) and its own (`Given`). `Keyset` splits a refresh at
the network. `Listing` walks the tokens over both kinds of store; the in-memory ones read ids and rows under
two locks. `ModelRegistry` splits a promotion at read and update.

### The data plane: GpuLedger, FrameChain, FrameRing, Dwell, ShadowEngine

`GpuLedger` keeps reservations by id and by GPU as the code does; `Allocator` knows only who holds what.
`FrameChain` has one step per channel operation of each operator, its two forwarders and its closing
goroutine; the bus may refuse what emit publishes (`MaxUnsent`). `FrameRing` splits `Put` between the index
and the lock and keeps several chains on one ring.
`Dwell` computes intersections on a line, tracker greedy as in the code and rule by rule over the frame's list,
and compares the events of every rule that none before it can disturb (`Undisturbed`) with a definition over
the whole history. `ShadowEngine` splits the candidate's goroutine from the windows it
records in and the flusher's clock from its lock.

## 3. Runs

| Run | Instance | Shows |
|---|---|---|
| `edge_queue` | 2 payloads (1 and 600 bytes), 2 drains, both caps reachable, 2 faults | `NoSilentLoss`: what was accepted is on disk, evicted or handed to the bus. `BytesAccounted`: the counter kept in four places is the sum. `MemoryMatchesDisk`: every listed item has its file and no file collides with the next number. `EventuallyForwarded`: every accepted payload is published or evicted, unless a file makes `replay` panic at each boot (`BootLoop`, section 5) |
| `canary` | 1 plan, 3 rungs, 1 replica, 2 operator requests, 2 faults | of one replica: `AdvancesAfterHold`, `TerminalUntilOperator`, `AnnouncedIsCommitted`; under fairness `HealthyIsPromoted` and `RegressionRollsBack` |
| `agent_safety` | 2 sessions, 2 runs, 2 gates, 1 call per answer, 2 faults | `StepsAreAccountedFor`: a number is missing from a trail only if its INSERT failed, the first Agent's rows survive every resume, no run outlasts its budget and one answer; `WaitsForOwnGate` |
| `agent_gates` | 1 session, 3 gates, 2 runs, 2 approvers with 2 requests | `AnnouncedOnce`, `DecisionIsFinal` among running agents; `RunsEnd` |
| `autonomy` | a cron and a signal schedule, 2 subscriptions, 2 handlers at once, 2 changes, 1 fault | `EntryGuard`, `SessionsAreRecorded`; under fairness `PostsComplete` and `RunsSettle` (all but the runs cut off themselves) |
| `lifecycle` | how a process and a chain end: all 35 services, each optional resource or not, 2 pieces of work; 3 frames, buffers of 1, 1 bus error | `RequestsKeepTheirResources`, `AcceptedRequestsAreAnswered`, `EveryCloserRuns`; under fairness `StopsEventually`, `StreamEndsClean`; the list `LateClosers` |
| `events` | 1 track and 2 camera clocks; 3 events, 4 clients, 2 endpoints; 3 audit records; 3 calls and a buffer of 1 key; 3 detections over 2 days and 2 starts; 2 drift windows | `AlertsAreEarned`, `HubNeverSendsOnClosed`, `SlowClientsCostOnlyThemselves`, `OnlyKnownLosses`, `UsageConserved`, `BudgetPerStart`, `SignalsRestOnTheWindow`; under fairness `WebhooksSettle`, `EventuallyBilled` |
| `control_plane` | 3 attempts under 2 keys with room for 1; 2 keys rotated under 2 callers; 5 rows in pages of 2; 2 versions, 2 promoters | `RetriesGetTheSameAnswer` (refinement), `DroppedKeysExpire`, `PagesCoverEverything`, `PromotionsAreGated` |
| `dataplane` | 2 GPUs, 3 placements, 2 boots; a ring of 2, 3 chains; 7 frames and 2 rules of dwell; 2 shadow frames | `LedgerImplementsAllocator` (refinement), `DetectsItsOwnPixels`, `DwellFiresOncePerStay`, `ObservationsAddUp` |
| `edge_queue_at_least_once`, `canary_concurrent`, `chain_wait` | smallest instances | violated: see 5 |

**Bounds.** The `Max...` constants cap the environment, never the code under test. They are chosen so that the
second of everything happens: two drains and two payloads are what acknowledging by number across a concurrent
ack needs; one eviction by each cap; two faults allow a crash after a torn write; three rungs have a first, a
middle and a last; two runs and two gates are the smallest instance in which a run can hold another's gate (several calls in
one answer do not fit into five minutes beside two faults: of them `FirstTrailIsKept` speaks, for any number);
two handlers and two schedule changes the smallest in which an Entry registered twice overlaps itself; three
attempts under two keys with room for one make a key be evicted between two attempts; three events overflow a
ring of two and a channel of one; three chains on a ring of two wrap it between an index and its lock; three
detections exceed a budget of two. Of the services behind a queue group one replica is modelled where
replicas share nothing but rows (metering, sampling, drift, shadow); section 5 says what that means for
them. Symmetry is used in `agent_safety` and `control_plane`, which have no liveness property. Where the
environment's bound ends all behaviour the configuration turns the deadlock check off, and so does `edge_queue`, whose gateway may be down for good
(`BootLoop`); the canary controller never stops and is checked for deadlock.

**Fairness**, and what in the code justifies it:

- edge: `WF` of each drain's steps and of `Boot` — a 2 s ticker (`cmd/edge-gateway/main.go:104-128`) and a
  pod that is restarted. Puts, link events and crashes are not fair.
- canary: `WF` of each tick step and of time — the ticker of `runTicker` (15 s).
- agents: `WF` of a run's step (the LLM call has a 60 s step timeout, the gateway client 15 s, the tools
  10 s, so each step returns) and of the delivery of a message that is there. Approvers need not decide.
- autonomy: `WF` of callbacks, requests and handlers under way (the client's 60 s timeout; `RWMutex` hands
  the lock to a waiting writer) and of `Boot`. Nobody has to post, tick or signal.
- lifecycle: `WF` of the runner's loop, of the deadline and of a background loop's round; a request may hang.
- events: `WF` of the goroutine of a subscription (delivery of what is on the wire, one webhook attempt with
  its client timeout, one fan-out step) and of the 1 s flush ticker and a flush under way.
- chain: `WF` of the goroutines together: none of their steps can be undone, so it is enough that one runs.

## 4. Proofs

All theorems hold for every value of the constants that satisfies the named `...Assumption` of the module
the constants are declared in; TLC evaluates each assumption in the run that extends its module. They say that
bounds are numbers, that "none" values are not members of the sets they stand outside of, and that what is
summed, ranked or listed (calls, attempts, schedules, prefixes, labels, events, rows, classes) is finite; `Lifecycle`'s
says that the profiles are `ProfileOK`, which TLC evaluates on the thirty-five.

Each argument has the same shape: an inductive invariant that implies the property, one lemma per action (or
one step per action), and a last step that combines them. What each adds to its property, and why:

| Theorem | Property | What the inductive invariant adds |
|---|---|---|
| `EdgeQueueProofs!TypeCorrect` | `TypeOK` | |
| `EdgeQueueProofs!NothingLostSilently` | `NoSilentLoss` | `AckThrough` removes by number, so one must know what a drain holds: an item is its file's message (`ItemsAreFiles`), what is queued at or below `lastAck` was published and what is queued below an element of a batch is published or in the batch (`DrainSound`), torn files are newer than readable ones (`DiskShape`) |
| `EdgeQueueProofs!ListMatchesDirectory` | `MemoryMatchesDisk` | the same `IInv` |
| `EdgeQueueProofs!BytesAreAccounted` | `BytesAccounted` | the same `IInv`: items have distinct numbers, so that the sum over them loses exactly what is removed |
| `AgentSessionsProofs!GateInvariant`, `GateAnnouncedOnce`, `GateDecisionIsFinal` | `AnnouncedOnce`, `DecisionIsFinal` | one request ever changes a gate, has not announced it yet, and what was announced is decided |
| `AgentSessionsProofs!AgentsImplementGates` | refinement `Spec => GateSpec` | every step of agents, bus and approvers is a gate step or leaves the gates alone, so the gate theorems carry over (`AgentGatesSound`) |
| `AgentSessionsProofs!AgentTypeCorrect`, `SessionsWaitForOwnGate` | `WaitsForOwnGate` | a run on its way to `SetStatus` holds a gate its session opened; a busy run and an existing gate have a session; owners never change |
| `AgentSessionsProofs!FirstTrailIsKept` | `StepsAreAccountedFor` | below a run's counter every number is in the table or its INSERT failed, and the counter can go only so far given what is left of the answer in hand (`RunInOrder`); the Agent that started a session is alone with it until it has returned, because until then the row names no gate (`FirstAlone`), and afterwards the primary key keeps its rows |
| `CanaryProofs!RungsCleared`, `SettledPlansRest`, `AnnouncedAfterWritten` | `RungsWereCleared`, `SettledIsFinal`, `AnnouncementsWereWritten`, of any number of replicas | nothing is locked between `ListActive` and `ApplyDecision` and nothing is compared, so a row in hand may be old; what it says of the rungs below stays true, because `cleared` only grows (`RowIsCleared`), and so it is of a decision (`DecisionIsCleared`); a plan that no replica has in hand and that is over is picked up by none |
| `AutonomyProofs!EntriesAreGuarded` | `EntryGuard` | a cron handler's flag is set (`FlagsAreHandlers`) |
| `AutonomyProofs!RunsAreRecorded` | `SessionsAreRecorded` | a handler past `InsertRun` has its row and, past a successful `StartSession`, its session (`HandlerHasRow`) |
| `ControlPlaneProofs!DroppedKeysAreRefused` | `DroppedKeysExpire` | how old a document can be when it is stored: a fetch lives for `RefreshTimeout` and reads after it began (`FetchOK`) |
| `ControlPlaneProofs!PromotionsStayGated` | `PromotionsAreGated` | what the gates look at is never written again, so an answer read before the update is true after it (`PromotionOK`); versions count updates |
| `ControlPlaneProofs!GatewayAnswersOnce` | `RetriesGetTheSameAnswer` (refinement of `AnswerOnce`) | store and answers told agree on every live key, whatever expires, is evicted or overwritten (`StoreOK`, `AttemptsOK`); minted ids are fresh (`MintOK`) |
| `ControlPlaneProofs!PagesCovered` | `PagesCoverEverything` | what was shown rises up to the token in hand, and every row that stood and is not above it was shown (`WalkGoesOn`); an in-memory scan's ids still name every row that stood |
| `ControlPlaneProofs!ShutdownOrder`, `RequestsAnswered`, `ClosersRun` | `RequestsKeepTheirResources`, `AcceptedRequestsAreAnswered`, `EveryCloserRuns` | the closers called are `run()`'s in its order (`FromHooks`); while there is time, the closer of a running request's server has not returned (`Guarded`, `WorkOK`), and what `run()` opened is open unless its closer was called (`Kept`); a closer called has closed (`Closed`) |
| `DataPlaneProofs!LedgerImplements` | `LedgerImplementsAllocator` (refinement of `Allocator`) | `byGPU` is `resv` sorted by GPU (`IndexesAgree`), both finite and of integers, ids are at most `placed` |
| `DataPlaneProofs!LocatorsReadTheirFrame` | `DetectsItsOwnPixels` | a generation tells frames apart because no payload is written twice: frames of a run carry smaller numbers than the one its ingest is writing (`OfChain`), only the head of its queue is redacted (`Queued`), and an older generation in a slot means other pixels (`ReadsOwn`) |
| `DataPlaneProofs!ComparisonsAreReportedOnce` | `ObservationsAddUp` | the baseline's side is one ahead exactly while a goroutine holds the lock between its two records (`Half`, `Balanced`); a window that was sent is gone and over, and so is not the one a later record opens (`SentOnce`) |
| `DataPlaneProofs!DwellOncePerStay` | `DwellFiresOncePerStay` | tracks and the rule's map can be read off the frames: a live track is of a target seen at most `MaxMissing` frames ago, with its last box (`Following`); the map's entry for it is where its stay began and whether it has lasted (`Recalled`); ids of closed tracks never return. Per frame, the association gives each target the track of its class (`Assigned`), and a rule touches its own keys only (`Evaluated`) |
| `EventsProofs!UsageIsConserved` | `UsageConserved` | a message is not on the wire twice (`WireOK`), a flush that is not writing holds nothing (`BooksOK`) |
| `EventsProofs!LossesAreKnown` | `OnlyKnownLosses` | the same of what was committed, because a restart goes back there; that a verdict is about the record in hand; and that on Kafka nothing beyond the first commit was lost unheard |
| `EventsProofs!HubSendsOnOpenChannels` | `HubNeverSendsOnClosed` | the client `Publish` is about to send to is still in the map |
| `EventsProofs!SlowClientsPayAlone` | `SlowClientsCostOnlyThemselves` | inboxes, the hub's event, rings and what a client was sent are increasing, each before the next (`SeenOK`, `HubOK`), so nothing comes late or twice; a client the hub is still to visit is owed one event (`Owed`); what a client was pushed is in its replica's ring or behind a full one (`HeldAt`) |
| `EventsProofs!AlertsEarned` | `AlertsAreEarned` | what a rule's state remembers of a track is bounded by what the engine was shown of it: the entry no earlier than the stay, the firing the last alert (`DwellOK`), the place the one it is in since (`StillOK`), whatever was collected, reloaded or evaluated by other rules (`StatesKept`) |
| `EventsProofs!BudgetsHoldPerStart` | `BudgetPerStart` | the budgeter of the current start was charged for what is queued and for the sample about to be (`Charged`), and was within a limit the policy had when it was last charged (`Within`); starts that are over keep to theirs |
| `EventsProofs!SignalsRest` | `SignalsRestOnTheWindow` | a bucket counts what was seen in its second and what is in no bucket is older than the window (`RollOK`), so the sum over the buckets a snapshot keeps is the number of sightings in the window (`SnapOK`), and stays so until it is judged |

**Sums.** `SetSums` proves that a sum over a finite set does not depend on the order in which
`SumFunctionOnSet` picks, what adding, removing, changing and splitting off elements does to it, and that
counting by the values of a function counts every element once (`SumCounts`). The library's induction theorems
take an operator, which the provers cannot instantiate; the lemmas take instead a smallest counterexample
among the subsets of the set (`WFMin` with the strict-subset order), which needs none. `Positions0` does the same
along `0 .. n`: what the recursive functions compute (the rules of an engine one after the other, the targets
of a frame, the closers registered, the rows of a page) is proved position by position with it.

**Only model-checked**: the liveness properties (`EventuallyForwarded`, `HealthyIsPromoted`,
`RegressionRollsBack`, `RunsEnd`, `PostsComplete`, `RunsSettle`, `StopsEventually`, `WebhooksSettle`,
`EventuallyBilled`, `StreamEndsClean`), because fairness and `ENABLED` are out of the prover's reach; and
`AdvancesAfterHold`, `TerminalUntilOperator` and `AnnouncedIsCommitted`, which are checked of one replica
and are not all true of two (`canary_concurrent`), while the chart deploys two: what the three `CanaryProofs`
theorems say instead holds of any number. Every other property of a passing run is proved.

## 5. Where code and documents differ

Shown by a run:

- `edge_queue_at_least_once`: `queue.go:131` acknowledges on `nc.Publish` returning nil, which is before
  delivery; `queue.go:6` promises at-least-once.
- `canary_concurrent`: the UPDATE at `store.go:112` compares nothing, so with the chart's two replicas a
  rollback can be overwritten; `loop.go:24` says ticks are safe to run concurrently.
- `chain_wait`: the forwarders of `pkg/dataplane/runtime.go:63` send without looking at ctx, so after a
  cancellation under backpressure `wait` may never return, although its comment says it does.

In the models as state changes (TLC finds them when asked), stated here instead of by a run of their own:

- edge: `replay` slices by the declared length without looking at how much data the file holds
  (`queue.go:199`). After a torn write (the header, no data) of a payload that does not fit behind its header
  into the 512 bytes `ReadFile` allocates, so of about 500 bytes and more, it slices past the buffer's capacity
  and panics, at this and at every later boot; nothing that was accepted is forwarded any more, although
  `:30-31` says that boot rebuilds the list. `Panics` and `BootLoop` in the model; `edge_queue` reaches it with its
  second payload, and `EventuallyForwarded` excuses exactly this. A smaller torn payload comes back as zero bytes
  and is forwarded so. A payload just under 64 KiB panics in the same place by a wrapped `uint16` bound; larger
  ones come back cut. Numbers of acknowledged messages are reused after a restart (`:202`); after a torn write the
  rolled-back number meets `O_EXCL` until a restart (`:71`); caps are not applied to what `replay` loads.
- canary: a pause is overwritten by a tick in flight (`loop.go:86`); `GateRequired` is computed and never
  read (`state.go:75`, `main.go:181`); a regression after the last rung is not looked at (`loop.go:62`); a
  rollback whose publish failed is never announced (`loop.go:107`). `ListActive` reads 500 rows in no order
  (`store.go:87`), drafts and paused plans among them, so with more some may never be ticked; a plan created
  with `current_step` beyond its ladder is never looked at.
- agent: a resume makes a new Agent that counts from 0 (`main.go:296`, `agent.go:241`), its rows meet the key
  `(session_id, idx)` of the first Agent's, and `agent.go:361` drops the error: the `gate_resolved` row and as many
  more as the first Agent wrote are in no table, against `store.go:8` ("audit every step") and `main.go:11-13`
  (`gate_resolved` is appended, "the session record is the audit trail"). Any other failed INSERT leaves a hole the
  same way, and what an Agent does after its client has gone is recorded nowhere. `StepsAreAccountedFor` says
  what is left: the first Agent's trail. Of two resumes of one session the later to end writes the status, so a
  failed session may come to be completed, against `store.go:11` ("monotonic"). An approval faster than the start handler's `SetStatus` is dropped (`main.go:395`, against `:144`);
  a resumed run that is gated again stores `awaiting_gate` with an empty gate id (`main.go:304`, against
  `store.go:72`); HTTP and bus may resume a session twice (`main.go:288`, `:395`); `MaxSteps` is checked
  between answers only (`agent.go:248`); a ceiling of 3 runs tier-3 tools unasked (`:294`), one of 0 becomes
  2 (`:145`); the HTTP resume does not look at the decision (`main.go:288`).
- autonomy: matching is by tenant, dispatch by the longest prefix only, so another tenant's schedule may take
  a signal (`main.go:217`, against `:204`); each reload adds loops beside the old ones (`:183`, against
  `docs/adr/0022:35`); two overlapping reloads may leave the older list in the cache; a pause leaves loops
  and prefix in place (`:173`); a run that awaits a gate is never updated and no sweeper exists (`:14-17`). A crash, a failed UPDATE
  (`:146`, `:155`) or a client that leaves a manual trigger (`:287`) leaves its row "running" for ever, against
  `docs/adr/0022:43`; a fire whose `InsertRun` fails leaves no row at all (`:135`, against `:62` there).
  `Scheduler.Close` waits for loops whose context ends only after it, so it always takes the whole grace
  period. The chart's two replicas each run their own cron loops.
- shutdown: `graceful.go:3-6` says that the runner waits for in-flight work to finish and then calls the closers;
  it calls them last registered first and nothing else waits. The eighteen services of `LateClosers` register
  their server first (`autonomy-orchestrator/main.go:298-303`, `policy-gate-service/main.go:216-220`,
  `drift-detection-service/main.go:241-245`, for instance), so bus and database are closed while requests are
  accepted and running, and these are answered with an error. The shadow service and prefetch do the same to
  their background loops, whose last round may find the bus closed. Deliveries of the bus are waited for nowhere.
- metering: a failed `Increment` puts one key back and drops the rest of the drained map
  (`consumer.go:203`); `Close` flushes after the database is closed (its closer runs later than the
  database's). The rule engine publishes the header `tenant`, metering reads `tenant_id`, so rule events are
  never billed.
- rule-engine: `POST /v1/rules:eval` is documented as a dry run and changes the live engine; `loadRules`
  never sets the parameters of line, rate and composite rules; its replicas share a queue group and split
  the state of a track.
- events: replicas of event-service share the queue group, so each SSE client sees a part
  (`consumer/nats.go:19`, against the README's `:90-92`), and the store it describes (ClickHouse) is not
  wired; the hub's drop counter adds a cumulative count again and again.
- audit: `consumer.go:12-16` says "we MUST NOT drop messages silently" and promises redelivery of what failed.
  The NATS subscription drops the error (`nats.go:65`) and Kafka commits past it (`kafka.go:162-164`); both
  leave a log line. Nothing at all tells of a record that NATS delivers while nobody has subscribed or that was
  in hand when the service stopped, nor of those that a Kafka group skips when it starts again before its
  first commit (`kafka.go:136`, `LastOffset`): `unheard` in the model, and `OnlyKnownLosses` says that this is
  all. Nor is the trail fail-closed as `services/audit-service/README.md:27-30`, `docs/security.md:137` and
  `services/policy-gate-service/README.md:67` have it: policy-gate writes the decision first
  (`main.go:194`) and drops the error of the audit record's `Publish` (`main.go:234-241`), as does the middleware
  (`audit.go`), and tenant-service publishes no audit record of a
  deletion (its lifecycle events drop their errors too). policy-gate's records have
  no `id`, so each is rejected. `kafkaSub.Unsubscribe` after `Drain` closes a closed channel.
- gateway: two attempts under one key that overlap both run the handler and the later `Put` wins; key and
  fingerprint leave out the path; the store is per replica. `Deploy` and the stream `Delete` lack the tenant
  check `Get` has; deleting a stream dispatches no stop; nothing moves a pipeline on from DEPLOYING; an
  in-memory listing ends early when the row of its cursor is deleted.
- model-registry: `sql.go:159-160`, `model_registry.proto:7` and `model.proto:57` require a fairness evaluation
  of face and of person models; the gate looks at the kind FACE only (`sql.go:178`), and a model of people is
  registered as a detector, which reaches STABLE without one. `README.md:36` of the service says that a
  promotion requires a resolved gate of policy-gate, and `docs/compliance/eu-ai-act.md:56` that it goes through
  the bounded-autonomy gate; nothing in the service asks either. `PromotionsAreGated` is about the two gates there
  are. Two promotions at once are told the same version number; the channel UNSPECIFIED and versions of
  unknown models are accepted.
- data plane: emit logs a failed `Publish` and passes the frame on (`emit.go:72-80`), so the frame's events are
  lost and nothing retries: `unsent` in `FrameChain`, excused in `StreamEndsClean`. `operator.control` is a
  queue group, so a stop may reach a replica that does not run the pipeline; a stop and a start overlap the old and the new chain; finished pipelines stay in
  `runner.running`; redact leaves the original payload in its slot; frames gone stale are dropped with a log
  line only; `rule.go:115` overwrites the first detection of the frame, so that with several targets the rules
  after the one that fired judge one of them twice and another not at all (hence `Undisturbed`).
- gpu-scheduler: the comment says a tenant-locked GPU matches first, the code has no such rule; `SlicesUsed`
  may be negative.
- shadow: `OnFrame` is called idempotent on repeated frames and is not once a pair was compared; the route
  "peek" drains (`main.go:222-225`).
- active learning: `main.go:108` says the SQL `CountToday` gates across restarts; it has no caller, so each
  start and each replica has the whole budget again (`BudgetPerStart` states what is left). With fewer
  samples a day than diversity classes the share of every class is 0 and nothing is sampled
  (`sampler.go:90`). `AssignSample` has no caller.
- drift: the first detection fixes the width of a window for the life of the process, `main.go:110-111` says
  the policy overrides it on demand; the window spans width + 1 seconds (`window.go:65`); `MinSamples` is
  compared with one replica's share of the detections.
- Triton: the documented timeout is per attempt, not per request. Kafka, `DualBus`, the audit middleware,
  `auth-proxy/internal/jwks`, the DAG compiler and the cost collector are wired by no service.

Met while reading parts that are not modelled: training jobs in a terminal state are overwritten by
`UpdateProgress` and by a cancel that read earlier (`service.go:8` calls them immutable); annotation's Review
enforces neither four eyes nor its terminal states (`service.go:50-53`); their routes are `/{id}/cancel` and
`/{id}/review` where the docs say `{id}:cancel`; tenant creation inserts quotas one by one and a data-subject
request drops its publish error; an SLO query that fails counts as a success ratio of 0 when another one
answers (`slo-watchdog/main.go`, `tick`); `migrate.applyOne` uses `?` placeholders on Postgres.

## 6. What is not modelled

- Formatting, metrics, tracing and read-only handlers change no state.
- Floating-point statistics (regression tests, divergence, burn rates, uncertainty, predictors), image
  operators and vector arithmetic are out of TLC's reach; where they decide something their verdict is a
  choice of the environment.
- Adapters to external services (LLM providers, the wire format of Triton, object stores, Temporal) are I/O.
- tenant-service, annotation, dataset, training-orchestrator, media and cost-accounting beyond their
  processes: single statements on one row each. What their documents promise beyond that the code does not
  enforce (section 5), so there is no property that holds to check.
- slo-watchdog keeps nothing between ticks. compliance-evidence, search, knowledge, nlq and llm-gateway own
  no protocol state; prefetch is a predictor in floating point.
- Code wired by no service: `DualBus`, event-service's `PersistentStore`, `auth-proxy/internal/jwks`, the DAG
  compiler, `CountToday`, `AssignSample`, `UpdateHealth`.
- `os.Remove` errors, more than one orchestrator process, schedules that change tenant or trigger, clocks
  that go backwards, and protobuf code generated from the interface definitions.

## 7. Plan

Models to come: two replicas of the orchestrator over one table;
training jobs and annotations once their services enforce what they document.
