------------------------------- MODULE Audit -------------------------------
(***************************************************************************)
(* The audit trail of the workflow callbacks and of session revocation:    *)
(* internal/service/audit and the JetStream publisher behind it.           *)
(*                                                                         *)
(* A handler commits its change, starts a goroutine (LogAsync) and answers *)
(* the caller.  The goroutine inserts the audit_logs row and, when NATS    *)
(* is configured, starts another that publishes the event to audit7's      *)
(* stream.  The stop of the process waits for handlers, never for these.   *)
(***************************************************************************)
EXTENDS Naturals, FiniteSets

CONSTANTS
    Changes,        \* changes the handlers make
    Forwarding,     \* TRUE: a forwarder is set, and with it a logger
    Failures,       \* TRUE: Postgres and NATS may fail
    Stops,          \* TRUE: the process may be told to stop
    Crashes         \* TRUE: the process may crash

AuditAssumption == {Forwarding, Failures, Stops, Crashes} \subseteq BOOLEAN

VARIABLES
    stage,      \* how far a change and its goroutine are
    rows,       \* changes with a row in audit_logs
    stream,     \* changes with an event in the stream
    told,       \* changes whose failure the service has logged
    proc,       \* the process
    nats, db    \* its connections

vars == <<stage, rows, stream, told, proc, nats, db>>

Init ==
    /\ stage = [c \in Changes |-> "none"]
    /\ rows = {} /\ stream = {} /\ told = {}
    /\ proc = "running" /\ nats = TRUE /\ db = TRUE

\* A handler has committed its change and not yet called LogAsync.
Commit(c) ==
    /\ proc = "running" /\ stage[c] = "none"
    /\ stage' = [stage EXCEPT ![c] = "committed"]
    /\ UNCHANGED <<rows, stream, told, proc, nats, db>>
LogAsync(c) ==
    /\ proc \in {"running", "stopping"} /\ stage[c] = "committed"
    /\ stage' = [stage EXCEPT ![c] = "create"]
    /\ UNCHANGED <<rows, stream, told, proc, nats, db>>

\* Mutant: the event is sent without a row.
LogEvent(c) ==
    /\ stage[c] = "create" /\ db
    /\ \E inserted \in BOOLEAN : rows' = IF inserted THEN rows \cup {c} ELSE rows
    /\ stage' = [stage EXCEPT ![c] = IF Forwarding THEN "forward" ELSE "ended"]
    /\ UNCHANGED <<stream, told, proc, nats, db>>
\* Log: the row is inserted, then the event handed to the forwarder.
Log(c) ==
    /\ stage[c] = "create" /\ db
    /\ rows' = rows \cup {c}
    /\ stage' = [stage EXCEPT ![c] = IF Forwarding THEN "forward" ELSE "ended"]
    /\ UNCHANGED <<stream, told, proc, nats, db>>
\* The logger that reports is the forwarder's; without one it discards.
Report(c) == told' = IF Forwarding THEN told \cup {c} ELSE told
\* An error or the timeout of five seconds; the row may have been inserted.
LogFails(c) ==
    /\ stage[c] = "create" /\ (Failures \/ ~ db)
    /\ \E inserted \in {FALSE, db} : rows' = IF inserted THEN rows \cup {c} ELSE rows
    /\ Report(c)
    /\ stage' = [stage EXCEPT ![c] = "ended"]
    /\ UNCHANGED <<stream, proc, nats, db>>

PublishStream(c) ==
    /\ stage[c] = "forward" /\ nats
    /\ stream' = stream \cup {c}
    /\ stage' = [stage EXCEPT ![c] = "ended"]
    /\ UNCHANGED <<rows, told, proc, nats, db>>
\* Mutant: the error is dropped.
PublishFailsSilently(c) ==
    /\ stage[c] = "forward" /\ (Failures \/ ~ nats)
    /\ stage' = [stage EXCEPT ![c] = "ended"]
    /\ UNCHANGED <<rows, stream, told, proc, nats, db>>
\* No ack; the stream may have stored the event.  There is no retry.
PublishFails(c) ==
    /\ stage[c] = "forward" /\ (Failures \/ ~ nats)
    /\ \E stored \in {FALSE, nats} : stream' = IF stored THEN stream \cup {c} ELSE stream
    /\ Report(c)
    /\ stage' = [stage EXCEPT ![c] = "ended"]
    /\ UNCHANGED <<rows, proc, nats, db>>

\* The goroutines of a process that is gone are gone.
Drop == stage' = [c \in Changes |-> IF stage[c] = "none" THEN "none" ELSE "ended"]
Stop ==
    /\ Stops /\ proc = "running" /\ proc' = "stopping"
    /\ UNCHANGED <<stage, rows, stream, told, nats, db>>
\* httpServer.Shutdown has waited for the handlers.
Shutdown ==
    /\ proc = "stopping" /\ \A c \in Changes : stage[c] # "committed"
    /\ proc' = "closing"
    /\ UNCHANGED <<stage, rows, stream, told, nats, db>>
CloseNATS ==
    /\ proc = "closing" /\ nats /\ nats' = FALSE
    /\ UNCHANGED <<stage, rows, stream, told, proc, db>>
CloseDB ==
    /\ proc = "closing" /\ db /\ db' = FALSE
    /\ UNCHANGED <<stage, rows, stream, told, proc, nats>>
Restart ==
    /\ Drop
    /\ proc' = "running" /\ nats' = TRUE /\ db' = TRUE
    /\ UNCHANGED <<rows, stream, told>>
Exit == proc = "closing" /\ ~ nats /\ ~ db /\ Restart
Crash == Crashes /\ Restart

Task(c) == Log(c) \/ LogFails(c) \/ PublishStream(c) \/ PublishFails(c)
Next ==
    \/ \E c \in Changes : Commit(c) \/ LogAsync(c) \/ Task(c)
    \/ Stop \/ Shutdown \/ CloseNATS \/ CloseDB \/ Exit \/ Crash
Spec == Init /\ [][Next]_vars

-----------------------------------------------------------------------------
\* Every event in audit7's stream has its row in audit_logs, the record that
\* is authoritative (Log inserts before it forwards).
EventHasRow == stream \subseteq rows
=============================================================================
