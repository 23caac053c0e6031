----------------------------- MODULE Lifecycle -----------------------------
(***************************************************************************)
(* The life of one service process: run() in every cmd/<service>/main.go,  *)
(* the shutdown.Runner all of them end in (pkg/platform/shutdown) and the  *)
(* readiness probe (pkg/platform/health).                                  *)
(*                                                                         *)
(* A service is a profile: the resources run() acquires, in order; the     *)
(* closers it registers, in registration order; what each kind of work it  *)
(* accepts (HTTP and gRPC requests, bus messages, ticks of a background    *)
(* loop) uses; what it can run without.  Closers run last-registered first *)
(* under one shared deadline.  Services holds the profiles of the code;    *)
(* handler bodies are modelled in the components' own modules.             *)
(***************************************************************************)
EXTENDS Naturals, Sequences, FiniteSets, SequencesExt

CONSTANTS Profiles,        \* the services: [boot, hooks, needs, optional, lenient]
          MaxWork          \* pieces of work one process accepts (bound)

(* HTTP servers are bound before Wait, by ListenAndServe in a goroutine;   *)
(* gRPC listens during boot.  Answered: the work a caller waits for.       *)
HttpServers == {"http", "health"}
Servers     == HttpServers \cup {"grpc"}
Answered    == {"http", "grpc"}
Loops       == {"ticker", "forwarder", "scheduler"}

(* Every run() registers a closer once, and one for a server that listens  *)
(* during boot; its handlers use what it has opened, and no server.        *)
ProfileOK(p) ==
    /\ p.boot \in Seq(STRING) /\ p.hooks \in Seq(STRING)
    /\ \A i, j \in DOMAIN p.hooks : p.hooks[i] = p.hooks[j] => i = j
    /\ ToSet(p.boot) \cap Answered \subseteq ToSet(p.hooks)
    /\ \A kind \in Answered \cap DOMAIN p.needs : p.needs[kind] \subseteq ToSet(p.boot) \ Servers

ASSUME LifecycleAssumption ==
    /\ MaxWork \in Nat
    /\ \A s \in DOMAIN Profiles : ProfileOK(Profiles[s])

VARIABLES svc,     \* which service the process runs
          off,     \* optional resources it runs without
          phase,   \* boot, serving, stopping, exited or dead (without closers)
          step,    \* boot steps done
          open,    \* resources acquired, servers listening
          reg,     \* closers registered with shutdown.Runner
          left,    \* closers Runner.Wait has still to call
          inTime,  \* the grace period has not run out
          clean,   \* no closer has returned an error
          work     \* the pieces of work and what became of them

lifeVars == <<svc, off, phase, step, open, reg, left, inTime, clean, work>>

P == Profiles[svc]

Slots == 1..MaxWork
Idle  == [kind |-> "none", st |-> "idle", todo |-> {}]

-----------------------------------------------------------------------------
LifeInit ==
    /\ svc \in DOMAIN Profiles
    /\ off \in {{}, P.optional}
    /\ phase = "boot" /\ step = 0
    /\ open = {} /\ reg = <<>> /\ left = 0
    /\ inTime = TRUE /\ clean = TRUE
    /\ work = [w \in Slots |-> Idle]

(* One step of run() succeeds; sqldb.Open has pinged, migrate.Apply has    *)
(* committed.                                                              *)
BootStep ==
    /\ phase = "boot" /\ step < Len(P.boot)
    /\ step' = step + 1
    /\ open' = open \cup ({P.boot[step + 1]} \ off)
    /\ UNCHANGED <<svc, off, phase, reg, left, inTime, clean, work>>

(* A step fails: run() returns the error and main exits with status 1, or, *)
(* for a lenient one, goes on without.                                     *)
BootStepFails ==
    /\ phase = "boot" /\ step < Len(P.boot)
    /\ LET r == P.boot[step + 1] IN
         /\ r \notin off
         /\ IF r \in P.lenient
              THEN off' = off \cup {r} /\ step' = step + 1 /\ phase' = phase
              ELSE phase' = "dead" /\ UNCHANGED <<off, step>>
    /\ UNCHANGED <<svc, open, reg, left, inTime, clean, work>>

(* Wait installs the signal handler, so a SIGTERM before it ends the       *)
(* process with Go's default action.                                       *)
KilledDuringBoot ==
    /\ phase = "boot"
    /\ phase' = "dead"
    /\ UNCHANGED <<svc, off, step, open, reg, left, inTime, clean, work>>

(* Register is called for what the process has, in the order of run().     *)
RegisterAll(hooks, have) ==
    LET registered[n \in 0 .. Len(hooks)] ==
            IF n = 0 THEN <<>>
            ELSE IF hooks[n] \in have THEN Append(registered[n - 1], hooks[n]) ELSE registered[n - 1]
    IN registered[Len(hooks)]

Registered == RegisterAll(P.hooks, open \cup Servers \cup {"runner"})

StartServing ==
    /\ phase = "boot" /\ step = Len(P.boot)
    /\ reg' = Registered
    /\ phase' = "serving"
    /\ open' = open \cup (HttpServers \cap ToSet(P.hooks))
    /\ UNCHANGED <<svc, off, step, left, inTime, clean, work>>

(* ListenAndServe fails in its goroutine: logged or dropped, the process   *)
(* stays up and its other servers too.                                     *)
ListenFails(s) ==
    /\ phase = "serving" /\ s \in open
    /\ open' = open \ {s}
    /\ UNCHANGED <<svc, off, phase, step, reg, left, inTime, clean, work>>

-----------------------------------------------------------------------------
(* Work.                                                                   *)

Arrives(kind) ==
    CASE kind \in Answered -> kind \in open
      [] kind = "msg"      -> {"bus", "sub"} \subseteq open
      [] kind = "tick"     -> Loops \cap open # {}

AcceptWork(w, kind) ==
    /\ phase \in {"serving", "stopping"}
    /\ work[w].st = "idle" /\ Arrives(kind)
    /\ work' = [work EXCEPT ![w] = [kind |-> kind, st |-> "running", todo |-> P.needs[kind] \ off]]
    /\ UNCHANGED <<svc, off, phase, step, open, reg, left, inTime, clean>>

Running(w) == work[w].st = "running" /\ phase \in {"serving", "stopping"}

(* The handler's next effect; on a closed database or connection it is     *)
(* refused.                                                                *)
Touch(w, r) ==
    /\ Running(w) /\ r \in work[w].todo
    /\ work' = IF r \in open THEN [work EXCEPT ![w].todo = @ \ {r}]
                             ELSE [work EXCEPT ![w].st = "refused", ![w].todo = {r}]
    /\ UNCHANGED <<svc, off, phase, step, open, reg, left, inTime, clean>>

Finish(w) ==
    /\ Running(w) /\ work[w].todo = {}
    /\ work' = [work EXCEPT ![w].st = "done"]
    /\ UNCHANGED <<svc, off, phase, step, open, reg, left, inTime, clean>>

-----------------------------------------------------------------------------
(* Runner.Wait.                                                            *)

Signal ==
    /\ phase = "serving"
    /\ phase' = "stopping" /\ left' = Len(reg)
    /\ UNCHANGED <<svc, off, step, open, reg, inTime, clean, work>>

GraceExpires ==
    /\ phase = "stopping" /\ inTime /\ left > 0
    /\ inTime' = FALSE
    /\ UNCHANGED <<svc, off, phase, step, open, reg, left, clean, work>>

(* Mutant: first registered first. *)
CurrentInOrder == reg[Len(reg) + 1 - left]

(* The closer Wait is calling: last registered first.                      *)
Current == reg[left]

(* Mutant: Shutdown does not wait. *)
NothingInFlight(kind) == {}

InFlight(kind) == {w \in Slots : work[w].kind = kind /\ work[w].st = "running"}

(* Closers that wait: Shutdown of a server first stops accepting, and the  *)
(* edge forwarder's cancels its loop.                                      *)
StopsAccepting ==
    /\ phase = "stopping" /\ left > 0
    /\ Current \in Servers \cup {"forwarder"} /\ Current \in open
    /\ open' = open \ {Current}
    /\ UNCHANGED <<svc, off, phase, step, reg, left, inTime, clean, work>>

(* Mutant: the first error ends the loop. *)
ReturnOnError(err) ==
    /\ left' = IF err THEN 0 ELSE left - 1
    /\ clean' = (clean /\ ~err)

Return(err) ==
    /\ left' = left - 1
    /\ clean' = (clean /\ ~err)

(* Server.Shutdown returns once its requests are answered, ...             *)
Drained ==
    /\ phase = "stopping" /\ left > 0
    /\ \/ Current \in Servers /\ InFlight(Current) = {}
       \/ Current = "forwarder" /\ InFlight("tick") = {}
    /\ Current \notin open
    /\ Return(FALSE)
    /\ UNCHANGED <<svc, off, phase, step, open, reg, inTime, work>>

(* Mutant: Shutdown gets a context without the deadline. *)
NoDeadlineForServers ==
    /\ phase = "stopping" /\ left > 0 /\ ~inTime
    /\ Current = "scheduler"
    /\ open' = open \ {Current}
    /\ Return(TRUE)
    /\ UNCHANGED <<svc, off, phase, step, reg, inTime, work>>

(* ... or at the deadline: HTTP handlers keep running, gRPC's Stop cuts    *)
(* its calls; Scheduler.Close waits for loops that end only after Wait.    *)
DeadlinePasses ==
    /\ phase = "stopping" /\ left > 0 /\ ~inTime
    /\ Current \in Servers \cup {"scheduler"}
    /\ Current \in Servers => Current \notin open
    /\ open' = open \ {Current}
    /\ work' = [w \in Slots |-> IF Current = "grpc" /\ w \in InFlight("grpc")
                                  THEN [work[w] EXCEPT !.st = "cut"] ELSE work[w]]
    /\ Return(TRUE)
    /\ UNCHANGED <<svc, off, phase, step, reg, inTime>>

(* The others release at once: db.Close, NATSConn.Close (its Drain is      *)
(* asynchronous), Subscription.Drain, the tracer, client connections.      *)
Release ==
    /\ phase = "stopping" /\ left > 0
    /\ Current \notin Servers \cup {"forwarder", "scheduler"}
    /\ open' = open \ {Current}
    /\ \E err \in BOOLEAN : Return(err)
    /\ UNCHANGED <<svc, off, phase, step, reg, inTime, work>>

(* Wait returns, run() returns, the process exits with what still runs.    *)
Exit ==
    /\ phase = "stopping" /\ left = 0
    /\ phase' = "exited"
    /\ work' = [w \in Slots |-> IF work[w].st = "running" THEN [work[w] EXCEPT !.st = "cut"] ELSE work[w]]
    /\ UNCHANGED <<svc, off, step, open, reg, left, inTime, clean>>

CallCloser == StopsAccepting \/ Drained \/ DeadlinePasses \/ Release \/ Exit

LoopStep(w) == work[w].kind = "tick" /\ (Finish(w) \/ \E r \in work[w].todo : Touch(w, r))

LifeNext ==
    \/ BootStep \/ BootStepFails \/ KilledDuringBoot \/ StartServing
    \/ \E s \in HttpServers : ListenFails(s)
    \/ \E w \in Slots, kind \in DOMAIN P.needs : AcceptWork(w, kind)
    \/ \E w \in Slots : Finish(w) \/ \E r \in work[w].todo : Touch(w, r)
    \/ Signal \/ GraceExpires \/ CallCloser

(* The runner keeps calling closers, the 25 s pass, and one round of a     *)
(* background loop ends (its calls carry a context); a request may hang.   *)
Fairness ==
    /\ WF_lifeVars(CallCloser)
    /\ WF_lifeVars(GraceExpires)
    /\ \A w \in Slots : WF_lifeVars(LoopStep(w))

LifeSpec == LifeInit /\ [][LifeNext]_lifeVars /\ Fairness

-----------------------------------------------------------------------------
(* The readiness probe: the health server answers and every check passes;  *)
(* the services with a database check it with a ping, the others nothing.  *)
Ready == "health" \in open /\ ("db" \in ToSet(P.boot) => "db" \in open)

(* What a request of that kind uses and Wait closes before its server:     *)
(* run() registers that closer after the server's.                         *)
ClosedUnder(p, kind) ==
    {r \in p.needs[kind] : \E i, j \in DOMAIN p.hooks : p.hooks[i] = kind /\ p.hooks[j] = r /\ i < j}

(* "Waits for in-flight work to finish" holds of what run() registers      *)
(* before its server, and of nothing else (LateClosers in MCLifecycle      *)
(* names the services this leaves out): a request is refused a closed      *)
(* resource in no service before the signal, and until the deadline only   *)
(* one that is registered after the server.                                *)
RequestsKeepTheirResources ==
    \A w \in Slots :
        work[w].kind \in Answered /\ work[w].st = "refused" =>
            /\ phase # "serving"
            /\ inTime => work[w].todo \subseteq ClosedUnder(P, work[w].kind)

(* Server.Shutdown waits: a shutdown that stays within the grace period    *)
(* leaves no accepted request without its answer, in any service.          *)
AcceptedRequestsAreAnswered ==
    phase = "exited" /\ inTime =>
        \A w \in Slots : work[w].kind \in Answered => work[w].st # "cut"

(* "The rest still run": whatever closers fail or time out, a process that *)
(* leaves Wait has released everything it registered.                      *)
EveryCloserRuns == phase = "exited" => ToSet(reg) \cap open = {}

(* A signalled process exits, even with a request that never ends.         *)
StopsEventually == phase = "stopping" ~> phase = "exited"

=============================================================================
