---------------------------- MODULE AdminLimiter ----------------------------
(***************************************************************************)
(* The gate of /admin/v1: the bearer token (bearerMW of admin_routes.go),  *)
(* then AdminAuth of internal/api/middleware/admin.go with its rate        *)
(* limiter, role and organisation checks, then the organisation the        *)
(* handler works on (requireOrgID of admin/helpers.go).                    *)
(*                                                                         *)
(* Every instance keeps the times of the requests it admitted from an      *)
(* address during the last window, and refuses while there are BurstLimit  *)
(* of them.  The clock is read under the lock.  RateLimit is stored and    *)
(* never read.                                                             *)
(***************************************************************************)
EXTENDS Naturals, Sequences, FiniteSetsExt

CONSTANTS
    Instances,
    Addresses,
    Orgs, None,     \* organisations; no organisation
    Burst,          \* AdminAuthConfig.BurstLimit
    Window,         \* one second, in ticks
    MaxTime,        \* bound on the clock
    MaxMade         \* bound on the requests at one time

AdminLimiterAssumption ==
    /\ {Burst, Window} \subseteq Nat \ {0}
    /\ {MaxTime, MaxMade} \subseteq Nat
    /\ None \notin Orgs

VARIABLES
    now,
    tokens,     \* instance, address |-> times of requests admitted
    admitted,   \* instance, address |-> requests admitted at each time (history)
    refused,    \* instance, address |-> TRUE: the last request was refused (history)
    made,       \* requests made at this time (history)
    served      \* the last request a handler worked on, or None (history)

vars == <<now, tokens, admitted, refused, made, served>>

Times == 0 .. MaxTime
Keys == Instances \X Addresses
\* The claims of an access token that verifies; roles other than the two the
\* gate knows make no difference.
Claims == [org : Orgs \cup {None}, roles : SUBSET {"admin", "super_admin"}]

\* NewAdminRateLimiter on every instance.
Init ==
    /\ now = 0 /\ made = 0 /\ served = None
    /\ tokens = [k \in Keys |-> <<>>]
    /\ admitted = [k \in Keys |-> [t \in Times |-> 0]]
    /\ refused = [k \in Keys |-> FALSE]

Tick ==
    /\ now < MaxTime /\ now' = now + 1 /\ made' = 0
    /\ refused' = [k \in Keys |-> FALSE]
    /\ served' = None
    /\ UNCHANGED <<tokens, admitted>>

Valid(k) == SelectSeq(tokens[k], LAMBDA t : t + Window > now)
\* Mutant: the comparison is strict.
FullBeyond(k) == Len(Valid(k)) > Burst
Full(k) == Len(Valid(k)) >= Burst

\* AdminAuth after the limiter: one of the roles, and no query for another
\* organisation than the token's; a token of none must be a super_admin's.
Authorised(c, query) ==
    /\ c.roles # {}
    /\ IF c.org = None THEN "super_admin" \in c.roles ELSE query \in {None, c.org}

\* requireOrgID; None is answered with 400.
RequireOrgID(c, query) == IF c.org = None THEN query ELSE c.org

\* A request with a token that verifies; any other is answered with 401 by
\* bearerMW, before the limiter, and changes nothing.
Allow(k, c, query) ==
    /\ made < MaxMade /\ made' = made + 1
    /\ IF Full(k)
       THEN /\ tokens' = [tokens EXCEPT ![k] = Valid(k)]
            /\ refused' = [refused EXCEPT ![k] = TRUE]
            /\ served' = None
            /\ UNCHANGED admitted
       ELSE /\ tokens' = [tokens EXCEPT ![k] = Append(Valid(k), now)]
            /\ admitted' = [admitted EXCEPT ![k][now] = @ + 1]
            /\ refused' = [refused EXCEPT ![k] = FALSE]
            /\ served' = IF Authorised(c, query) /\ RequireOrgID(c, query) # None
                         THEN [claims |-> c, org |-> RequireOrgID(c, query)] ELSE None
    /\ UNCHANGED now

Next == Tick \/ \E k \in Keys, c \in Claims, query \in Orgs \cup {None} : Allow(k, c, query)
Spec == Init /\ [][Next]_vars

-----------------------------------------------------------------------------
\* Requests admitted in the span that ends at t.
InSpan(k, t, span) ==
    FoldSet(LAMBDA s, acc : admitted[k][s] + acc, 0, {s \in Times : s <= t /\ t < s + span})

\* An instance admits no more than Burst requests of an address in any
\* span as long as the window (Allow).
BurstKept == \A k \in Keys, t \in Times : InSpan(k, t, Window) <= Burst
\* A request is refused only when Burst requests of its address were
\* admitted by the same instance within the window (Allow).
RefusedRightly == \A k \in Keys : refused[k] => InSpan(k, now, Window) >= Burst
\* A handler that asks requireOrgID works on the organisation of the token;
\* only a super_admin's token of no organisation lets the query choose
\* (AdminAuth, requireOrgID).
OrgScope ==
    served # None =>
        IF served.claims.org = None THEN "super_admin" \in served.claims.roles
                                    ELSE served.org = served.claims.org /\ served.claims.roles # {}
=============================================================================
