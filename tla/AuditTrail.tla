----------------------------- MODULE AuditTrail -----------------------------
(***************************************************************************)
(* The audit trail: a record per mutating request (the audit middleware)   *)
(* or gate decision (policy-gate-service), carried on audit.v1 by either   *)
(* transport of pkg/bus, and appended by audit-service to a table whose    *)
(* primary key is the record's id.                                         *)
(*                                                                         *)
(* Kafka keeps a log and one committed offset per group; core NATS keeps   *)
(* nothing.  The subscriptions to audit.v1 and audit.> share one queue     *)
(* group, so a record reaches one handler.                                 *)
(***************************************************************************)
EXTENDS Integers, Sequences, FiniteSets, SequencesExt

CONSTANTS Records,         \* what is to be audited
          GateRecords,     \* the ones policy-gate-service writes
          MaxAuditFaults   \* faults of the environment (bound)

Nobody == "nothing"

ASSUME AuditAssumption == MaxAuditFaults \in Nat /\ GateRecords \subseteq Records /\ Nobody \notin Records

VARIABLES transport,  \* kafka or nats
          log,        \* records published, in partition order
          pos,        \* records the consumer has fetched
          committed,  \* committed offset of the group, Unset before the first
          hand,       \* record the handler is working on
          verdict,    \* what the handler returned, before the commit
          table,      \* audit_records
          failed,     \* records a handler returned an error for, with a log line
          unsent,     \* records whose Publish returned an error
          unheard,    \* published records that were lost without a word
          auditFaults

auditVars == <<transport, log, pos, committed, hand, verdict, table, failed, unsent, unheard, auditFaults>>

Unset == -1

AuditInit ==
    /\ transport \in {"kafka", "nats"}
    /\ log = <<>> /\ pos = 0 /\ committed = Unset
    /\ hand = Nobody /\ verdict = "none"
    /\ table = {} /\ failed = {} /\ unsent = {} /\ unheard = {}
    /\ auditFaults = 0

Fault == auditFaults < MaxAuditFaults /\ auditFaults' = auditFaults + 1

Outstanding(r) == r \notin ToSet(log) \cup unsent \cup unheard

(* Audit runs after the handler, for mutating requests, denied ones too.   *)
Emit(r) ==
    /\ Outstanding(r)
    /\ log' = Append(log, r)
    /\ UNCHANGED <<transport, pos, committed, hand, verdict, table, failed, unsent, unheard, auditFaults>>

(* Publish's error is dropped; the request succeeded.                      *)
EmitFails(r) ==
    /\ Outstanding(r) /\ Fault
    /\ unsent' = unsent \cup {r}
    /\ UNCHANGED <<transport, log, pos, committed, hand, verdict, table, failed, unheard>>

-----------------------------------------------------------------------------
(* The subscription's goroutine: fetch, handle, commit.                    *)

(* Mutant: the offset is committed as soon as the record is fetched. *)
FetchCommits ==
    /\ hand = Nobody /\ pos < Len(log)
    /\ hand' = log[pos + 1] /\ pos' = pos + 1
    /\ committed' = IF transport = "kafka" THEN pos + 1 ELSE committed
    /\ UNCHANGED <<transport, log, verdict, table, failed, unsent, unheard, auditFaults>>

Fetch ==
    /\ hand = Nobody /\ pos < Len(log)
    /\ hand' = log[pos + 1] /\ pos' = pos + 1
    /\ UNCHANGED <<transport, log, committed, verdict, table, failed, unsent, unheard, auditFaults>>

(* AppendJSON insists on an id, which a gate record has not.               *)
HasId(r) == r \notin GateRecords

(* The row is inserted, or was there: a duplicate is not an error.         *)
AppendRow ==
    /\ hand # Nobody /\ verdict = "none" /\ HasId(hand)
    /\ table' = table \cup {hand} /\ verdict' = "ok"
    /\ UNCHANGED <<transport, log, pos, committed, hand, failed, unsent, unheard, auditFaults>>

Reject == verdict' = "error" /\ failed' = failed \cup {hand}

AppendRejected ==
    /\ hand # Nobody /\ verdict = "none" /\ ~HasId(hand)
    /\ Reject
    /\ UNCHANGED <<transport, log, pos, committed, hand, table, unsent, unheard, auditFaults>>

(* The database fails.                                                     *)
AppendFails ==
    /\ hand # Nobody /\ verdict = "none" /\ HasId(hand) /\ Fault
    /\ Reject
    /\ UNCHANGED <<transport, log, pos, committed, hand, table, unsent, unheard>>

(* CommitMessages of this record, whatever became of the ones before; NATS *)
(* drops the verdict.                                                      *)
Acknowledge ==
    /\ verdict # "none"
    /\ committed' = IF transport = "kafka" /\ verdict = "ok" THEN pos ELSE committed
    /\ hand' = Nobody /\ verdict' = "none"
    /\ UNCHANGED <<transport, log, pos, table, failed, unsent, unheard, auditFaults>>

CommitFails ==
    /\ transport = "kafka" /\ verdict = "ok" /\ Fault
    /\ hand' = Nobody /\ verdict' = "none"
    /\ UNCHANGED <<transport, log, pos, committed, table, failed, unsent, unheard>>

(* The consumer ends and starts again: at the committed offset, or, for a  *)
(* group that never committed, at the end of the log (StartOffset).  NATS  *)
(* does not hand the record out again.                                     *)
ConsumerRestarts ==
    /\ Fault
    /\ hand' = Nobody /\ verdict' = "none"
    /\ pos' = IF transport = "nats" THEN pos ELSE IF committed = Unset THEN Len(log) ELSE committed
    /\ unheard' = unheard \cup ((IF transport = "nats" THEN {hand} \ {Nobody}
                                 ELSE IF committed = Unset THEN ToSet(log) ELSE {}) \ (table \cup failed))
    /\ UNCHANGED <<transport, log, committed, table, failed, unsent>>

(* No subscriber when the record came.                                     *)
NatsDrops ==
    /\ transport = "nats" /\ hand = Nobody /\ pos < Len(log) /\ Fault
    /\ pos' = pos + 1 /\ unheard' = unheard \cup {log[pos + 1]}
    /\ UNCHANGED <<transport, log, committed, hand, verdict, table, failed, unsent>>

(* POST /v1/audit: the same insert without the bus; a duplicate is a 500.  *)
Ingest(r) ==
    /\ r \in failed \cup unsent \cup unheard /\ HasId(r)
    /\ table' = table \cup {r}
    /\ UNCHANGED <<transport, log, pos, committed, hand, verdict, failed, unsent, unheard, auditFaults>>

ConsumerStep == Fetch \/ AppendRow \/ AppendRejected \/ Acknowledge

AuditNext ==
    \/ \E r \in Records : Emit(r) \/ EmitFails(r) \/ Ingest(r)
    \/ ConsumerStep
    \/ AppendFails \/ CommitFails \/ ConsumerRestarts \/ NatsDrops

AuditSpec == AuditInit /\ [][AuditNext]_auditVars

-----------------------------------------------------------------------------
(* consumer.go:12 "we MUST NOT drop messages silently", as far as the code *)
(* keeps it.  A published record is in the table, still to be fetched, in  *)
(* the handler's hands, or was rejected with an error the service logs;    *)
(* unless nobody heard of its loss: over NATS it came when nobody had      *)
(* subscribed or was in hand at a restart, over Kafka it came before the   *)
(* first record that its group committed.  No crash between append and     *)
(* commit, no failed commit and no restart loses any other.                *)
OnlyKnownLosses ==
    \A i \in DOMAIN log :
        \/ log[i] \in table \cup failed
        \/ i > pos
        \/ i = pos /\ hand = log[i]
        \/ log[i] \in unheard /\ (transport = "nats" \/ committed = Unset \/ i <= committed)

=============================================================================
