-------------------------- MODULE LifecycleProofs --------------------------
(***************************************************************************)
(* The shutdown of a process, for any number of requests at once.  The     *)
(* property speaks of requests and of the end; the invariant follows what  *)
(* is open through the start, so that it is known when the first request   *)
(* comes, and what is registered, so that it is known when the last        *)
(* function has run.                                                       *)
(***************************************************************************)
EXTENDS Lifecycle, TLAPS

LifecycleInv ==
    /\ step \in 1 .. 9 /\ http \in Nat
    /\ phase \in {"starting", "serving", "draining", "closing", "down", "failed"}
    /\ phase = "starting" => http = 0 /\ open = opened
    /\ phase = "starting" /\ step > 2 => "primary" \in open
    /\ phase = "starting" /\ step > 5 => "redis" \in open
    /\ phase = "starting" /\ step > 7 => closers = open
    /\ phase \in {"serving", "draining"} =>
           closers = open /\ open = opened /\ {"primary", "redis"} \subseteq open
    /\ phase = "closing" => closers = open /\ (http > 0 => late)
    /\ phase \in {"down", "failed"} => http = 0

\* As long as the shutdown is in time, requests in flight have what the start
\* opened, and all of it is closed at the end (runStart).
THEOREM ShutdownDrains == Spec => []DrainedFirst
<1>1. Init => LifecycleInv
  BY DEF Init, LifecycleInv
<1>2. LifecycleInv /\ [Next]_vars => LifecycleInv'
  <2> SUFFICES ASSUME LifecycleInv, [Next]_vars PROVE LifecycleInv'
    OBVIOUS
  <2> USE DEF LifecycleInv
  <2>1. CASE OpenNext
    <3>1. /\ step \in 1 .. 8 /\ step # 7 /\ step' = step + 1 /\ phase = "starting"
      BY <2>1 DEF OpenNext, Advance, Start
    <3>2. step = 2 => Start[step] = "primary"
      BY DEF Start
    <3>3. step = 5 => Start[step] = "redis"
      BY DEF Start
    <3>4. step = 8 => Start[step] = "grpc"
      BY DEF Start
    <3>5. open' = open \cup ({Start[step]} \ {"maker"}) /\ opened' = open'
      BY <2>1 DEF OpenNext
    <3>6. closers' = closers \cup ({Start[step]} \cap {"grpc"})
      BY <2>1 DEF OpenNext
    <3>7. UNCHANGED <<phase, http>>
      BY <2>1 DEF OpenNext
    <3>8. CASE step = 8
      <4>1. open' = open \cup {"grpc"} /\ closers' = closers \cup {"grpc"}
        BY <3>4, <3>5, <3>6, <3>8
      <4> QED BY <3>1, <3>5, <3>7, <3>8, <4>1
    <3>9. step' > 2 => "primary" \in open'
      BY <3>1, <3>2, <3>5
    <3>10. step' > 5 => "redis" \in open'
      BY <3>1, <3>3, <3>5
    <3>11. CASE step < 7
      BY <3>1, <3>5, <3>7, <3>9, <3>10, <3>11
    <3> QED BY <3>1, <3>8, <3>11
  <2>2. CASE SkipNext
    <3>1. step \in {1, 3, 6, 8} /\ step' = step + 1
      BY <2>2 DEF SkipNext, Advance, Start, Optional
    <3> QED BY <2>2, <3>1 DEF SkipNext
  <2>3. CASE StartFails
    BY <2>3 DEF StartFails
  <2>4. CASE RegisterClosers
    <3>1. step = 7 /\ step' = step + 1
      BY <2>4 DEF RegisterClosers, Advance, Start
    <3> QED BY <2>4, <3>1 DEF RegisterClosers
  <2>5. CASE Listen
    <3>1. step = 9
      BY <2>5 DEF Listen, Start
    <3> QED BY <2>5, <3>1 DEF Listen
  <2>6. CASE ServerFails \/ Stopped
    BY <2>6 DEF ServerFails, Stopped
  <2>7. CASE HttpBegins \/ HttpEnds
    BY <2>7 DEF HttpBegins, HttpEnds
  <2>8. CASE RpcBegins \/ RpcEnds \/ Signal
    BY <2>8 DEF RpcBegins, RpcEnds, Signal
  <2>9. CASE Shutdown \/ Expire \/ Drained
    BY <2>9 DEF Shutdown, Expire, Drained
  <2>10. ASSUME NEW r \in closers, CloseOne(r) PROVE LifecycleInv'
    BY <2>10 DEF CloseOne
  <2>11. CASE UNCHANGED vars
    BY <2>11 DEF vars
  <2> QED BY <2>1, <2>2, <2>3, <2>4, <2>5, <2>6, <2>7, <2>8, <2>9, <2>10, <2>11 DEF Next
<1>3. LifecycleInv => DrainedFirst
  BY DEF LifecycleInv, DrainedFirst
<1> QED BY <1>1, <1>2, <1>3, PTL DEF Spec

=============================================================================
