----------------------------- MODULE MCProgress ----------------------------
(* For TLC: what must eventually happen, under the fairness each component  *)
(* justifies.  A behaviour runs one of the settings below; the variables of *)
(* the other components are then None.                                      *)
EXTENDS Naturals, TLC

CONSTANTS None, One, Two, Orgs, Sites, Offices

VARIABLES setting, param, since, events, handled, cache, reader,
          row, open, last, tx, got,
          src, owned, table, pass, steady, changes,
          stage, rows, stream, told, proc, nats, db

cacheVars == <<param, since, events, handled, cache, reader>>
assignVars == <<row, open, last, tx, got>>
syncVars == <<src, owned, table, pass, steady, changes>>
auditVars == <<stage, rows, stream, told, proc, nats, db>>
vars == <<setting, cacheVars, assignVars, syncVars, auditVars>>

\* One evaluation at a time, and NATS may lose every event.
Cache == INSTANCE PolicyCache WITH
    Readers <- One, Branches <- Sites, ParamName <- "operational_hours", Lossy <- TRUE, TTL <- 2,
    Latency <- 1, MaxVer <- 2
\* Two callbacks for one user that meet on both branches.
Assign == INSTANCE BranchAssign WITH
    Handlers <- Two, Branches <- Offices, Home <- None, Failures <- FALSE, Reads <- FALSE
\* One poller, and two pages that change at any time.
Sync == INSTANCE BranchSync WITH
    Pollers <- One, Order <- <<"b1", "b2">>, Codes <- {"k1", "k2"}, PerPage <- 1,
    MaxChanges <- 2, Midpass <- TRUE, Empties <- FALSE, CodeReuse <- FALSE, db <- table
\* A process that runs on, while Postgres and NATS may fail.
Trail == INSTANCE Audit WITH
    Changes <- Two, Forwarding <- TRUE, Failures <- TRUE, Stops <- FALSE, Crashes <- FALSE

ASSUME /\ Cache!PolicyCacheAssumption /\ Assign!BranchAssignAssumption
       /\ Sync!BranchSyncAssumption /\ Trail!AuditAssumption

CacheOff == /\ param = None /\ since = None /\ events = None /\ handled = None /\ cache = None
            /\ reader = None
AssignOff == row = None /\ open = None /\ last = None /\ tx = None /\ got = None
SyncOff == /\ src = None /\ owned = None /\ table = None /\ pass = None /\ steady = None
           /\ changes = None
AuditOff == /\ stage = None /\ rows = None /\ stream = None /\ told = None /\ proc = None
            /\ nats = None /\ db = None

Init ==
    \/ setting = "cache" /\ Cache!Init /\ AssignOff /\ SyncOff /\ AuditOff
    \/ setting = "assign" /\ Assign!Init /\ CacheOff /\ SyncOff /\ AuditOff
    \/ setting = "sync" /\ Sync!Init /\ CacheOff /\ AssignOff /\ AuditOff
    \/ setting = "trail" /\ Trail!Init /\ CacheOff /\ AssignOff /\ SyncOff

NotCache == UNCHANGED <<setting, assignVars, syncVars, auditVars>>
NotSync == UNCHANGED <<setting, cacheVars, assignVars, auditVars>>

Next ==
    \/ setting = "cache" /\ Cache!Next /\ NotCache
    \/ /\ setting = "assign" /\ Assign!Next
       /\ UNCHANGED <<setting, cacheVars, syncVars, auditVars>>
    \/ setting = "sync" /\ Sync!Next /\ NotSync
    \/ /\ setting = "trail" /\ Trail!Next
       /\ UNCHANGED <<setting, cacheVars, assignVars, syncVars>>

\* Time passes and the ticker keeps ticking.  One setting runs at a time, so
\* this is the fairness of either action.
ClockFairness ==
    WF_vars(\/ setting = "cache" /\ Cache!Tick /\ NotCache
            \/ setting = "sync" /\ \E p \in One : Sync!StartPass(p) /\ NotSync)
\* An evaluation that began ends (the HTTP client times out), and so does a
\* goroutine of the audit trail (it succeeds, fails or times out).
TaskFairness ==
    /\ \A r \in One : WF_cacheVars(setting = "cache" /\ Cache!ReaderStep(r))
    /\ \A c \in Two : WF_auditVars(setting = "trail" /\ (Trail!LogAsync(c) \/ Trail!Task(c)))
\* A callback runs on, and Postgres serves the queue of a row lock in order.
CallbackFairness == \A p \in Two : SF_assignVars(setting = "assign" /\ Assign!TxStep(p))
\* No step of a pass fails for ever, whichever of the two pages it is at.
PassFairness ==
    \A p \in One :
        /\ \A n \in 1..2 :
              /\ SF_syncVars(setting = "sync" /\ pass[p].page = n /\ Sync!FetchPage(p))
              /\ SF_syncVars(setting = "sync" /\ pass[p].page = n /\ Sync!UpsertBatch(p))
        /\ SF_syncVars(setting = "sync" /\ Sync!DeactivateAbsent(p))

Spec == /\ Init /\ [][Next]_vars
        /\ ClockFairness /\ TaskFairness /\ CallbackFairness /\ PassFairness

-----------------------------------------------------------------------------
\* Once the parameters stop changing the decision point ends up using their
\* current values for good, even when every event is lost (Cache.Get's expiry).
EventuallyFresh == <>[](setting = "cache" => \A k \in Cache!Keys : Cache!Fresh(k))

\* Every set-branches callback ends, also when two wait for each other's rows
\* (handleWfSetBranches; Postgres breaks the deadlock).
CallbackEnds ==
    \A p \in Two : (setting = "assign" /\ tx[p].pc # "idle") ~> (setting = "assign" /\ tx[p].pc = "idle")


\* A change that was committed comes to audit7's stream, or its failure is
\* reported (forward).
Delivered ==
    \A c \in Two : (setting = "trail" /\ stage[c] = "committed")
                           ~> (setting = "trail" /\ c \in stream \cup told)
=============================================================================
