----------------------------- MODULE Lifecycle -----------------------------
(***************************************************************************)
(* One process from runStart (cmd/server/start.go) to its end: what it     *)
(* opens and in which order, which failures end the start and which are    *)
(* only logged, the HTTP and gRPC requests it serves, and the shutdown on  *)
(* a signal.  shutdown.Manager is a library: when Wait is called it runs   *)
(* the registered functions, in an order it does not promise, or gives up. *)
(* The two functions registered for NATS are one here, and the function    *)
(* registered for a tracer that is off, which does nothing, is left out.   *)
(***************************************************************************)
EXTENDS Naturals, Sequences

CONSTANTS MaxInFlight, MaxServed    \* bounds on requests at once, and on requests

LifecycleAssumption == {MaxInFlight, MaxServed} \subseteq Nat

VARIABLES
    step,       \* the step of Start that comes next
    phase,      \* starting, serving, draining, closing, down or failed
    open,       \* what is open
    opened,     \* what the start has opened (history)
    closers,    \* what is registered with the shutdown manager
    signal,     \* SIGTERM has been received: ctx is cancelled
    http, rpc,  \* requests in flight
    served,     \* requests begun (history)
    late        \* the time of shutdownCtx or of the shutdown manager has passed

vars == <<step, phase, open, opened, closers, signal, http, rpc, served, late>>

Start == <<"tracer", "primary", "replica", "maker", "redis", "nats", "register", "grpc", "listen">>
Optional == {"tracer", "replica", "nats", "grpc"}       \* off by configuration
Required == {"tracer", "primary", "replica", "maker", "redis"}  \* a failure ends the start
Pinged == {"primary", "replica", "redis"}               \* a Ping with ctx follows

Init ==
    /\ step = 1 /\ phase = "starting"
    /\ open = {} /\ opened = {} /\ closers = {} /\ signal = FALSE
    /\ http = 0 /\ rpc = 0 /\ served = 0 /\ late = FALSE

Advance == step' = step + 1

OpenNext ==
    /\ phase = "starting" /\ Start[step] \notin {"register", "listen"}
    /\ ~(signal /\ Start[step] \in Pinged)
    /\ open' = open \cup ({Start[step]} \ {"maker"})
    /\ opened' = open'
    \* The gRPC server is registered where it is opened.
    /\ closers' = closers \cup ({Start[step]} \cap {"grpc"})
    /\ Advance
    /\ UNCHANGED <<phase, signal, http, rpc, served, late>>

\* Disabled, or failed and not required: the service runs without it.
SkipNext ==
    /\ phase = "starting" /\ Start[step] \in Optional
    /\ Advance
    /\ UNCHANGED <<phase, open, opened, closers, signal, http, rpc, served, late>>

\* runStart returns and the process ends; nothing is closed.
StartFails ==
    /\ phase = "starting" /\ Start[step] \in Required
    /\ phase' = "failed" /\ open' = {} /\ rpc' = 0
    /\ UNCHANGED <<step, opened, closers, signal, http, served, late>>

RegisterClosers ==
    /\ phase = "starting" /\ Start[step] = "register"
    /\ closers' = open
    /\ Advance
    /\ UNCHANGED <<phase, open, opened, signal, http, rpc, served, late>>

\* ListenAndServe in its own goroutine, while runStart waits in its select.
Listen ==
    /\ phase = "starting" /\ Start[step] = "listen"
    /\ phase' = "serving"
    /\ UNCHANGED <<step, open, opened, closers, signal, http, rpc, served, late>>

\* serverErr: runStart returns and the process ends; nothing is closed.
ServerFails ==
    /\ phase = "serving"
    /\ phase' = "failed" /\ open' = {} /\ http' = 0 /\ rpc' = 0
    /\ UNCHANGED <<step, opened, closers, signal, served, late>>

-----------------------------------------------------------------------------
HttpBegins ==
    /\ phase = "serving" /\ http < MaxInFlight /\ served < MaxServed
    /\ http' = http + 1 /\ served' = served + 1
    /\ UNCHANGED <<step, phase, open, opened, closers, signal, rpc, late>>

HttpEnds ==
    /\ http > 0 /\ http' = http - 1
    /\ UNCHANGED <<step, phase, open, opened, closers, signal, rpc, served, late>>

\* The gRPC server serves from the moment it is opened, and is not told of
\* the signal before its closer runs.
RpcBegins ==
    /\ "grpc" \in open /\ rpc < MaxInFlight /\ served < MaxServed
    /\ rpc' = rpc + 1 /\ served' = served + 1
    /\ UNCHANGED <<step, phase, open, opened, closers, signal, http, late>>

RpcEnds ==
    /\ rpc > 0 /\ rpc' = rpc - 1
    /\ UNCHANGED <<step, phase, open, opened, closers, signal, http, served, late>>

Signal ==
    /\ ~signal /\ phase \in {"starting", "serving"}
    /\ signal' = TRUE
    /\ UNCHANGED <<step, phase, open, opened, closers, http, rpc, served, late>>

-----------------------------------------------------------------------------
\* httpServer.Shutdown refuses new requests and waits for those in flight.
Shutdown ==
    /\ phase = "serving" /\ signal
    /\ phase' = "draining"
    /\ UNCHANGED <<step, open, opened, closers, signal, http, rpc, served, late>>

Expire ==
    /\ phase \in {"draining", "closing"} /\ ~late
    /\ late' = TRUE
    /\ UNCHANGED <<step, phase, open, opened, closers, signal, http, rpc, served>>

\* Mutant: Wait is called without waiting for Shutdown.
DrainedAtOnce ==
    /\ phase = "draining"
    /\ phase' = "closing"
    /\ UNCHANGED <<step, open, opened, closers, signal, http, rpc, served, late>>
Drained ==
    /\ phase = "draining" /\ (http = 0 \/ late)
    /\ phase' = "closing"
    /\ UNCHANGED <<step, open, opened, closers, signal, http, rpc, served, late>>

\* One registered function; GracefulStop of the gRPC server ends its requests.
CloseOne(r) ==
    /\ phase = "closing" /\ r \in closers
    /\ r = "grpc" => rpc = 0
    /\ open' = open \ {r} /\ closers' = closers \ {r}
    /\ UNCHANGED <<step, phase, opened, signal, http, rpc, served, late>>

\* All functions have run, or Wait gives up; runStart returns.
Stopped ==
    /\ phase = "closing" /\ (closers = {} \/ late)
    /\ phase' = "down" /\ open' = {} /\ http' = 0 /\ rpc' = 0
    /\ UNCHANGED <<step, opened, closers, signal, served, late>>

Next ==
    \/ OpenNext \/ SkipNext \/ StartFails \/ RegisterClosers \/ Listen \/ ServerFails
    \/ HttpBegins \/ HttpEnds \/ RpcBegins \/ RpcEnds \/ Signal
    \/ Shutdown \/ Expire \/ Drained \/ Stopped
    \/ \E r \in closers : CloseOne(r)

Spec == Init /\ [][Next]_vars

-----------------------------------------------------------------------------
\* As long as the time for the shutdown has not passed, an HTTP request in flight has
\* everything the start opened, the database and Redis among it; and a process
\* that ends in time on a signal has closed all of it (runStart).
DrainedFirst ==
    /\ http > 0 /\ ~late => open = opened /\ {"primary", "redis"} \subseteq open
    /\ phase = "closing" /\ ~late /\ closers = {} => open = {}
=============================================================================
