----------------------------- MODULE Acceptance ----------------------------
(***************************************************************************)
(* What the session service promises whoever checks an access token: the   *)
(* tokens accepted are issued, expire, and end with their session, and an  *)
(* ended session never gets or regains one.  Session implements it.        *)
(***************************************************************************)
CONSTANT Sessions

VARIABLES
    accepted,       \* the tokens that verify; a.sid is the session of a
    ended           \* the sessions that have been revoked

vars == <<accepted, ended>>

Init == accepted = {} /\ ended = {}

Issue ==
    /\ \E a \in accepted' : a.sid \notin ended /\ accepted' = accepted \cup {a}
    /\ UNCHANGED ended

End ==
    \E s \in Sessions :
        /\ ended' = ended \cup {s}
        /\ accepted' = {a \in accepted : a.sid # s}

\* Tokens run out, or a restart loses the keys they were signed with.
Expire == accepted' \subseteq accepted /\ UNCHANGED ended

Next == Issue \/ End \/ Expire

Spec == Init /\ [][Next]_vars
=============================================================================
