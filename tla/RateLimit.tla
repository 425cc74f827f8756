----------------------------- MODULE RateLimit -----------------------------
(***************************************************************************)
(* The Redis rate limiter of internal/api/middleware/ratelimit.go.         *)
(* checkLimit keeps one counter per window, reads the previous window's,   *)
(* reads the clock again, increments the current one and weighs the two.   *)
(* Requests run concurrently and the key names no client.  A limiter       *)
(* without Redis, and one whose Redis fails, let every request pass.       *)
(***************************************************************************)
EXTENDS Integers, FiniteSets, FiniteSetsExt

CONSTANTS
    Handlers,       \* requests running at once
    Clients,
    None,
    Window,         \* RateLimitConfig.Window, in ticks
    MaxRequests,    \* RateLimitConfig.MaxRequests
    MaxTime,        \* bound on the clock
    MaxMade,        \* bound on the requests
    Slow,           \* TRUE: the clock may advance during a request
    Failures        \* TRUE: Redis may fail

RateLimitAssumption ==
    /\ Window \in Nat \ {0} /\ {MaxRequests, MaxTime, MaxMade} \subseteq Nat
    /\ {Slow, Failures} \subseteq BOOLEAN

VARIABLES
    now,
    count,      \* Redis ratelimit:<id>:<window>: requests counted
    req,        \* the requests
    made,       \* requests of each client in each window (history)
    passed,     \* requests allowed by each window's counter before its end (history)
    wronged     \* clients refused within their own limit (history)

vars == <<now, count, req, made, passed, wronged>>

Windows == 0 .. MaxTime \div Window
WindowOf(t) == t \div Window
Idle == [pc |-> "idle", client |-> None, w |-> 0, prev |-> 0]
SumOf(f, S) == FoldSet(LAMBDA x, acc : f[x] + acc, 0, S)
Made == SumOf([c \in Clients |-> SumOf(made[c], Windows)], Clients)

Init ==
    /\ now = 0 /\ count = [w \in Windows |-> 0]
    /\ req = [h \in Handlers |-> Idle]
    /\ made = [c \in Clients |-> [w \in Windows |-> 0]]
    /\ passed = [w \in Windows |-> 0]
    /\ wronged = {}

Tick ==
    /\ now < MaxTime
    /\ Slow \/ \A h \in Handlers : req[h] = Idle
    /\ now' = now + 1
    /\ UNCHANGED <<count, req, made, passed, wronged>>

\* The clock is read, the window named and the previous counter read; an
\* error reads as zero.
CheckLimit(h, c) ==
    /\ req[h] = Idle /\ Made < MaxMade
    /\ LET w == WindowOf(now)
       IN  \E prev \in {IF w = 0 THEN 0 ELSE count[w - 1]} \cup (IF Failures THEN {0} ELSE {}) :
              /\ req' = [req EXCEPT ![h] = [pc |-> "incr", client |-> c, w |-> w, prev |-> prev]]
              /\ made' = [made EXCEPT ![c][w] = @ + 1]
    /\ UNCHANGED <<now, count, passed, wronged>>

\* int(float64(currentCount) + prevCount * (1 - weight)), truncated.
TotalCount(h) ==
    LET n == (count[req[h].w] + 1) * Window
             + req[h].prev * (Window - (now - req[h].w * Window))
    IN  IF n >= 0 THEN n \div Window ELSE -((-n) \div Window)
OwnCount(h) ==
    LET c == req[h].client  w == req[h].w
    IN  made[c][w] + (IF w = 0 THEN 0 ELSE made[c][w - 1])

\* A request that outlasted its window is not counted (history).
Admit(h) == passed' = IF WindowOf(now) = req[h].w THEN [passed EXCEPT ![req[h].w] = @ + 1] ELSE passed

\* Mutant: the counter is compared before it is incremented.
IncrAfter(h) ==
    /\ req[h].pc = "incr"
    /\ count' = [count EXCEPT ![req[h].w] = @ + 1]
    /\ IF TotalCount(h) - 1 <= MaxRequests
       THEN Admit(h) /\ UNCHANGED wronged
       ELSE /\ wronged' = IF OwnCount(h) <= MaxRequests THEN wronged \cup {req[h].client} ELSE wronged
            /\ UNCHANGED passed
    /\ req' = [req EXCEPT ![h] = Idle]
    /\ UNCHANGED <<now, made>>
\* The clock is read again, the counter incremented, the request decided.
Incr(h) ==
    /\ req[h].pc = "incr"
    /\ count' = [count EXCEPT ![req[h].w] = @ + 1]
    /\ IF TotalCount(h) <= MaxRequests
       THEN Admit(h) /\ UNCHANGED wronged
       ELSE /\ wronged' = IF OwnCount(h) <= MaxRequests THEN wronged \cup {req[h].client} ELSE wronged
            /\ UNCHANGED passed
    /\ req' = [req EXCEPT ![h] = Idle]
    /\ UNCHANGED <<now, made>>
\* Limit lets the request pass, whether Redis counted it or not.
RedisFails(h) ==
    /\ Failures /\ req[h].pc = "incr"
    /\ \E n \in 0 .. 1 : count' = [count EXCEPT ![req[h].w] = @ + n]
    /\ req' = [req EXCEPT ![h] = Idle]
    /\ UNCHANGED <<now, made, passed, wronged>>

Next ==
    \/ Tick
    \/ \E h \in Handlers : Incr(h) \/ RedisFails(h) \/ \E c \in Clients : CheckLimit(h, c)
Spec == Init /\ [][Next]_vars

-----------------------------------------------------------------------------
\* No more than MaxRequests of the requests decided within one window are
\* allowed, whatever ran over from the window before (checkLimit).
PerWindow == \A w \in Windows : passed[w] <= MaxRequests
\* A client is refused only after more than MaxRequests requests of its own
\* in this window and the one before (Limit).
OwnLimit == wronged = {}
=============================================================================
