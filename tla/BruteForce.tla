---------------------------- MODULE BruteForce -----------------------------
(***************************************************************************)
(* BruteForceProtector of internal/api/middleware/bruteforce.go: failed    *)
(* logins are counted per user and per address in Redis, and Middleware    *)
(* refuses a request when either counter has reached the first threshold.  *)
(* Of the thresholds 4, 6 and 10 the first one met decides; the cooldown   *)
(* key it looks up is never set, so the lock lasts as long as a counter.   *)
(***************************************************************************)
EXTENDS Naturals, FiniteSets

CONSTANTS
    Handlers,       \* requests running at once
    Users,
    Addresses,
    None,
    MaxCount,       \* bound on the failures of a user
    Failures        \* TRUE: Redis may fail, a request may be cut off

BruteForceAssumption == MaxCount \in Nat /\ Failures \in BOOLEAN

VARIABLES
    user,       \* Redis bruteforce:user:<name>
    ip,         \* Redis bruteforce:ip:<address>
    req,        \* the requests
    total       \* a user's failures since it last signed in, and those of its
                \* counter whose login was let pass unchecked (history)

vars == <<user, ip, req, total>>

\* NewBruteForceProtector
FirstThreshold == 4
Zero == [n |-> 0, ttl |-> FALSE]
Idle == [pc |-> "idle", u |-> None, i |-> None, n |-> 0, checked |-> TRUE]

Init ==
    /\ user = [u \in Users |-> Zero] /\ ip = [i \in Addresses |-> Zero]
    /\ req = [h \in Handlers |-> Idle]
    /\ total = [u \in Users |-> [all |-> 0, unchecked |-> 0]]

\* IsLocked: the counter of the user, then that of the address.
ReadUser(h, u, i) ==
    /\ req[h] = Idle /\ total[u].all < MaxCount
    /\ req' = [req EXCEPT ![h] = [Idle EXCEPT !.pc = "ip", !.u = u, !.i = i, !.n = user[u].n]]
    /\ UNCHANGED <<user, ip, total>>
MaxOf(a, b) == IF a > b THEN a ELSE b
\* Mutant: the count of the address replaces that of the user.
IsLockedByIP(h) ==
    /\ req[h].pc = "ip"
    /\ req' = [req EXCEPT ![h] =
          IF ip[req[h].i].n >= FirstThreshold THEN Idle ELSE [@ EXCEPT !.pc = "login"]]
    /\ UNCHANGED <<user, ip, total>>
IsLocked(h) ==
    /\ req[h].pc = "ip"
    /\ req' = [req EXCEPT ![h] =
          IF MaxOf(req[h].n, ip[req[h].i].n) >= FirstThreshold THEN Idle
          ELSE [@ EXCEPT !.pc = "login"]]
    /\ UNCHANGED <<user, ip, total>>
\* An error of Redis lets the request pass.
IsLockedFails(h) ==
    /\ Failures /\ req[h].pc = "ip"
    /\ req' = [req EXCEPT ![h].pc = "login", ![h].checked = FALSE]
    /\ UNCHANGED <<user, ip, total>>

RecordFailure(h) ==
    /\ req[h].pc = "login"
    /\ user' = [user EXCEPT ![req[h].u] = [n |-> @.n + 1, ttl |-> TRUE]]
    /\ ip' = [ip EXCEPT ![req[h].i] = [n |-> @.n + 1, ttl |-> TRUE]]
    /\ total' = [total EXCEPT ![req[h].u] =
          [all |-> @.all + 1,
           unchecked |-> IF req[h].checked THEN @.unchecked ELSE @.unchecked + 1]]
    /\ req' = [req EXCEPT ![h] = Idle]
RecordSuccess(h) ==
    /\ req[h].pc = "login"
    /\ user' = [user EXCEPT ![req[h].u] = Zero]
    /\ ip' = [ip EXCEPT ![req[h].i] = Zero]
    /\ total' = [total EXCEPT ![req[h].u] = [all |-> 0, unchecked |-> 0]]
    /\ req' = [req EXCEPT ![h] = Idle]
\* RecordLoginResult drops the error of either.
RecordFails(h) ==
    /\ Failures /\ req[h].pc = "login"
    /\ req' = [req EXCEPT ![h] = Idle]
    /\ UNCHANGED <<user, ip, total>>

\* An hour after the last failure, and a day.
UserExpires(u) ==
    /\ user[u].ttl /\ user' = [user EXCEPT ![u] = Zero]
    /\ total' = [total EXCEPT ![u].unchecked = 0]
    /\ UNCHANGED <<ip, req>>
IPExpires(i) ==
    /\ ip[i].ttl /\ ip' = [ip EXCEPT ![i] = Zero]
    /\ UNCHANGED <<user, req, total>>

Next ==
    \/ \E h \in Handlers :
          \/ \E u \in Users, i \in Addresses : ReadUser(h, u, i)
          \/ IsLocked(h) \/ IsLockedFails(h)
          \/ RecordFailure(h) \/ RecordSuccess(h) \/ RecordFails(h)
    \/ \E u \in Users : UserExpires(u)
    \/ \E i \in Addresses : IPExpires(i)
Spec == Init /\ [][Next]_vars

-----------------------------------------------------------------------------
\* Requests under way that read the user's counter below the threshold.
Running(u) == Cardinality({h \in Handlers : req[h].u = u /\ req[h].n < FirstThreshold})

\* A user's counter passes the threshold by no more than the requests that
\* were under way when it was reached, and those let pass because Redis did
\* not answer (IsLocked before RecordFailure).
Overshoot ==
    \A u \in Users :
        user[u].n + Running(u) <= FirstThreshold - 1 + Cardinality(Handlers) + total[u].unchecked
=============================================================================
