---------------------------- MODULE PolicyCache ----------------------------
(***************************************************************************)
(* The operational-hours cache of the policy decision point:               *)
(* internal/service/opacache filled by TimeWindowEvaluator from policy7    *)
(* and invalidated by the NATS handlers of internal/messaging/nats.        *)
(*                                                                         *)
(* A parameter value is its version number.  Durations are kept relative   *)
(* to the present (time left, time since), so the clock has no bound.      *)
(***************************************************************************)
EXTENDS Naturals, FiniteSets

CONSTANTS
    Readers,        \* concurrent evaluations
    Orgs, Branches, \* tenants and branches
    None,           \* no organisation, no branch
    ParamName,      \* Policy7Config.ParamName: the parameter that is fetched
    Lossy,          \* TRUE: NATS may lose an event (disconnected, at most once)
    TTL,            \* lifetime of an entry (5 minutes)
    Latency,        \* longest time from a miss to the Set (5 s HTTP timeout)
    MaxVer          \* bound on the changes of each parameter

PolicyCacheAssumption ==
    /\ Lossy \in BOOLEAN
    /\ {TTL, MaxVer} \subseteq Nat \ {0}
    /\ Latency \in Nat
    /\ None \notin Orgs \cup Branches

VARIABLES
    param,      \* external: the parameter at policy7
    since,      \* external: time since each version ceased to be current
    events,     \* external: NATS messages not yet delivered
    handled,    \* the newest version whose event was handled (history)
    cache,      \* Cache.entries
    reader      \* the evaluations

vars == <<param, since, events, handled, cache, reader>>

Keys == Orgs \X Branches
Versions == 0..MaxVer
\* Long enough ago for every bound below.
Ancient == TTL + Latency + 1

\* left is the time to expiresAt.  before and after are history fields: the
\* newest event handled when the fetch began and when the entry was set.
Entry == [val : Versions, left : 0..TTL, before : Versions, after : Versions]
Absent == [val |-> 0, left |-> 0, before |-> 0, after |-> 0]
ReaderRec == [pc : {"idle", "fetch", "set"}, org : Orgs \cup {None},
              branch : Branches \cup {None}, val : Versions,
              before : Versions, age : 0..Latency]
Idle == [pc |-> "idle", org |-> None, branch |-> None, val |-> 0,
         before |-> 0, age |-> 0]

Init ==
    /\ param = [o \in Orgs |-> [ver |-> 1, exists |-> TRUE]]
    /\ since = [o \in Orgs |-> [v \in Versions |-> 0]]
    /\ events = {}
    /\ handled = [o \in Orgs |-> 0]
    /\ cache = [k \in Keys |-> Absent]
    /\ reader = [r \in Readers |-> Idle]

\* Cache.Get: the entry is there and not past expiresAt.
Live(k) == cache[k].left > 0

-----------------------------------------------------------------------------
(* External: policy7 changes or deletes the parameter of an organisation   *)
(* and publishes policy7.params.updated or .deleted.                       *)

ChangeParam(o, exists) ==
    /\ param[o].ver < MaxVer
    /\ param[o].exists \/ exists
    /\ param' = [param EXCEPT ![o] = [ver |-> @.ver + 1, exists |-> exists]]
    /\ since' = [since EXCEPT ![o][param[o].ver] = 0]
    /\ events' = events \cup {[org |-> o, ver |-> param[o].ver + 1,
                               deleted |-> ~exists]}
    /\ UNCHANGED <<handled, cache, reader>>

LoseEvent(e) ==
    /\ Lossy
    /\ events' = events \ {e}
    /\ UNCHANGED <<param, since, handled, cache, reader>>

-----------------------------------------------------------------------------
(* The NATS handlers.                                                      *)

\* The keys are opa:<org>:operational_hours:<branch>, whatever the name of
\* the parameter that was fetched.
KeyName == "operational_hours"

\* Cache.InvalidateByPrefix for the keys of an organisation.
Invalidated(o) == [k \in Keys |-> IF k[1] = o THEN Absent ELSE cache[k]]

Handled(e) == [handled EXCEPT ![e.org] = IF e.ver > @ THEN e.ver ELSE @]

\* Mutant: the exact key is deleted, which no entry has.
HandleUpdatedExact(e) ==
    /\ ~e.deleted
    /\ events' = events \ {e}
    /\ handled' = Handled(e)
    /\ UNCHANGED <<param, since, cache, reader>>

\* The prefix is opa:<org>:<name of the parameter in the event>.
HandleParamUpdated(e) ==
    /\ ~e.deleted
    /\ events' = events \ {e}
    /\ handled' = Handled(e)
    /\ cache' = IF ParamName = KeyName THEN Invalidated(e.org) ELSE cache
    /\ UNCHANGED <<param, since, reader>>

\* The prefix is opa:<org>:, every entry of the organisation.
HandleParamDeleted(e) ==
    /\ e.deleted
    /\ events' = events \ {e}
    /\ handled' = Handled(e)
    /\ cache' = Invalidated(e.org)
    /\ UNCHANGED <<param, since, reader>>

-----------------------------------------------------------------------------
(* Cache.GetOrFetch, called by TimeWindowEvaluator.operationalHours.  A hit *)
(* changes nothing.                                                        *)

Miss(r, o, b) ==
    /\ reader[r].pc = "idle"
    /\ ~Live(<<o, b>>)
    /\ reader' = [reader EXCEPT ![r] =
           [pc |-> "fetch", org |-> o, branch |-> b, val |-> 0,
            before |-> handled[o], age |-> 0]]
    /\ UNCHANGED <<param, since, events, handled, cache>>

\* policy7 answers with the value current at that moment.
Fetch(r) ==
    LET o == reader[r].org IN
    /\ reader[r].pc = "fetch"
    /\ param[o].exists
    /\ reader' = [reader EXCEPT ![r].pc = "set", ![r].val = param[o].ver]
    /\ UNCHANGED <<param, since, events, handled, cache>>

\* policy7 is unreachable, has no such parameter, or sends what cannot be
\* parsed: Evaluate answers fail-open or fail-closed and nothing is cached.
FetchFails(r) ==
    /\ reader[r].pc = "fetch"
    /\ reader' = [reader EXCEPT ![r] = Idle]
    /\ UNCHANGED <<param, since, events, handled, cache>>

\* Cache.Set overwrites whatever is there.
Set(r) ==
    LET k == <<reader[r].org, reader[r].branch>> IN
    /\ reader[r].pc = "set"
    /\ cache' = [cache EXCEPT ![k] =
           [val |-> reader[r].val, left |-> TTL,
            before |-> reader[r].before, after |-> handled[k[1]]]]
    /\ reader' = [reader EXCEPT ![r] = Idle]
    /\ UNCHANGED <<param, since, events, handled>>

\* Cache.cleanup, every TTL / 2.
Cleanup ==
    /\ cache' = [k \in Keys |-> IF Live(k) THEN cache[k] ELSE Absent]
    /\ cache' # cache
    /\ UNCHANGED <<param, since, events, handled, reader>>

\* Mutant: entries do not age.
TickNoExpiry ==
    /\ \A r \in Readers : reader[r].pc # "idle" => reader[r].age < Latency
    /\ since' = [o \in Orgs |-> [v \in Versions |->
           IF v < param[o].ver /\ since[o][v] < Ancient
           THEN since[o][v] + 1 ELSE since[o][v]]]
    /\ reader' = [r \in Readers |-> IF reader[r].pc = "idle" THEN reader[r]
                      ELSE [reader[r] EXCEPT !.age = @ + 1]]
    /\ UNCHANGED <<param, events, handled, cache>>

\* Time passes; an evaluation ends within Latency.
Tick ==
    /\ \A r \in Readers : reader[r].pc # "idle" => reader[r].age < Latency
    /\ since' = [o \in Orgs |-> [v \in Versions |->
           IF v < param[o].ver /\ since[o][v] < Ancient
           THEN since[o][v] + 1 ELSE since[o][v]]]
    /\ cache' = [k \in Keys |-> IF Live(k) THEN [cache[k] EXCEPT !.left = @ - 1]
                                           ELSE cache[k]]
    /\ reader' = [r \in Readers |-> IF reader[r].pc = "idle" THEN reader[r]
                      ELSE [reader[r] EXCEPT !.age = @ + 1]]
    /\ UNCHANGED <<param, events, handled>>

ReaderStep(r) == Fetch(r) \/ FetchFails(r) \/ Set(r)

Deliver(e) == HandleParamUpdated(e) \/ HandleParamDeleted(e)

Next ==
    \/ Tick
    \/ Cleanup
    \/ \E o \in Orgs, exists \in BOOLEAN : ChangeParam(o, exists)
    \/ \E e \in events : Deliver(e) \/ LoseEvent(e)
    \/ \E r \in Readers :
          \/ \E o \in Orgs, b \in Branches : Miss(r, o, b)
          \/ ReaderStep(r)

Spec == Init /\ [][Next]_vars

-----------------------------------------------------------------------------
(* Properties.                                                             *)

\* Entries and evaluations have the shapes the code gives them.
TypeOK ==
    /\ param \in [Orgs -> [ver : Versions, exists : BOOLEAN]]
    /\ since \in [Orgs -> [Versions -> 0..Ancient]]
    /\ events \subseteq [org : Orgs, ver : Versions, deleted : BOOLEAN]
    /\ handled \in [Orgs -> Versions]
    /\ cache \in [Keys -> Entry]
    /\ reader \in [Readers -> ReaderRec]

Fresh(k) == Live(k) => cache[k].val = param[k[1]].ver

\* Whatever becomes of the events, a value is used at most TTL plus one fetch
\* after policy7 replaced it (Get and Set with their expiry).
BoundedStaleness ==
    /\ \A k \in Keys : Live(k) /\ ~Fresh(k) =>
           since[k[1]][cache[k].val] + cache[k].left <= TTL + Latency
    /\ \A r \in Readers : reader[r].pc = "set" =>
           since[reader[r].org][reader[r].val] <= reader[r].age

\* An entry older than an event already handled was fetched before and set
\* after an event: invalidation never leaves an entry behind, only a fetch in
\* flight across it can bring an old value back (InvalidateByPrefix, Set).
StaleOnlyByRace ==
    \A k \in Keys :
        Live(k) /\ cache[k].val < handled[k[1]] => cache[k].before < cache[k].after

\* An evaluation that begins once the event of a change was handled does not
\* get an older value from an entry that was set before the change.
InvalidatedOnUpdate ==
    \A k \in Keys : Live(k) => cache[k].after >= handled[k[1]]

=============================================================================
