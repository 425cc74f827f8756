----------------------------- MODULE MCSession -----------------------------
(* For TLC: every operation of Session in one instance. *)
EXTENDS Session, TLC

Symmetry == Permutations(Handlers)

\* Bound: logins and refreshes overlap; any other request runs alone, and starts
\* before the clock first moves.
Overlap ==
    \A p \in Handlers : h[p].pc # "idle" /\ h[p].op \notin {"login", "refresh"} =>
        h[p].start = 1 /\ \A q \in Handlers \ {p} : h[q].pc = "idle"

\* Bound: no request is in flight when the service restarts.
RestartBound == Restart => AllIdle \/ \E p \in Handlers : RequestFails(p)
=============================================================================
