-------------------------- MODULE AcceptanceProofs -------------------------
(***************************************************************************)
(* Session implements Acceptance, for every instance of Session.  Three    *)
(* kinds of step can be seen by a caller of VerifyAccessToken: a token is  *)
(* signed, a session is blacklisted, and tokens run out.                   *)
(***************************************************************************)
EXTENDS SessionProofs

\* A request that signs a token of session s with expiry e, in time: Accepted
\* gains at most that token, and only if s has not been revoked.
LEMMA SignedIsIssue ==
    ASSUME SessionInv, NEW s \in Sids, NEW u, NEW e \in Nat,
           blExp[s] > 0 => e <= blExp[s],
           atoks' = atoks \cup {[sid |-> s, user |-> u, exp |-> e]},
           now' = now, blExp' = blExp
    PROVE  [Promise!Next]_(Promise!vars)
<1> DEFINE a == [sid |-> s, user |-> u, exp |-> e]
<1>1. a.sid = s /\ a.exp = e
  OBVIOUS
<1>2. atoks' = atoks \cup {a}
  OBVIOUS
<1> HIDE DEF a
<1>3. \A b : VerifyAccessToken(b)' <=> VerifyAccessToken(b)
  BY DEF VerifyAccessToken, SessionRevoked
<1>4. Accepted' = IF VerifyAccessToken(a) THEN Accepted \cup {a} ELSE Accepted
  BY ZenonT(60), <1>2, <1>3 DEF Accepted
<1>5. Ended' = Ended
  BY DEF Ended
<1>6. CASE VerifyAccessToken(a)
  <2>1. blExp[s] \in Nat /\ now \in Nat
    BY DEF SessionInv, TypeOK
  <2>2. ~(blExp[s] > 0)
    BY <1>1, <1>6, <2>1 DEF VerifyAccessToken, SessionRevoked
  <2>3. a.sid \notin Ended
    BY <1>1, <2>2 DEF Ended
  <2> QED BY <1>4, <1>5, <1>6, <2>3 DEF Promise!Next, Promise!Issue
<1>7. CASE ~VerifyAccessToken(a)
  BY <1>4, <1>5, <1>7 DEF Promise!vars
<1> QED BY <1>6, <1>7

\* AddSession revokes session c: none of its tokens verifies from now on.
LEMMA BlacklistIsEnd ==
    ASSUME SessionInv, NEW c \in Sids, UNCHANGED <<now, atoks>>,
           blExp' = [blExp EXCEPT ![c] = now + BlacklistTTL]
    PROVE  Promise!End
<1>1. TypeOK
  BY DEF SessionInv
<1>2. now \in Nat /\ now + BlacklistTTL > 0 /\ now + BlacklistTTL > now
  <2>1. now \in Nat
    BY <1>1 DEF TypeOK
  <2>2. BlacklistTTL \in Nat \ {0}
    BY SessionAssumption
  <2> QED BY <2>1, <2>2
<1>3. /\ blExp'[c] = now + BlacklistTTL
      /\ \A s \in Sids : s # c => blExp'[s] = blExp[s]
  BY <1>1 DEF TypeOK
<1>4. Ended' = Ended \cup {c}
  BY <1>2, <1>3 DEF Ended
<1>5. ASSUME NEW a \in atoks
      PROVE  VerifyAccessToken(a)' <=> VerifyAccessToken(a) /\ a.sid # c
  <2>1. a.sid \in Sids
    BY <1>1 DEF TypeOK, AccessTok
  <2>2. CASE a.sid = c
    BY <1>2, <1>3, <2>2 DEF VerifyAccessToken, SessionRevoked
  <2>3. CASE a.sid # c
    BY <1>3, <2>1, <2>3 DEF VerifyAccessToken, SessionRevoked
  <2> QED BY <2>2, <2>3
<1>6. Accepted' = {a \in Accepted : a.sid # c}
  BY <1>5 DEF Accepted
<1> QED BY <1>4, <1>6 DEF Promise!End

\* The clock moves: no token starts to verify again, for the blacklist entry
\* of its session expires after the token.
LEMMA TickIsExpire == ASSUME SessionInv, Tick PROVE Promise!Expire
<1>1. TypeOK /\ TokensCovered
  BY DEF SessionInv
<1>2. now' = now + 1 /\ UNCHANGED <<blExp, atoks>> /\ now \in Nat
  BY <1>1 DEF Tick, TypeOK
<1>3. ASSUME NEW a \in atoks, VerifyAccessToken(a)' PROVE VerifyAccessToken(a)
  <2>1. blExp[a.sid] \in Nat /\ a.exp \in Nat
    BY <1>1 DEF TypeOK, AccessTok
  <2>2. blExp[a.sid] > 0 => a.exp <= blExp[a.sid]
    BY <1>1 DEF TokensCovered
  <2>3. now + 1 < a.exp /\ ~(blExp[a.sid] > now + 1)
    BY <1>2, <1>3 DEF VerifyAccessToken, SessionRevoked
  <2> QED BY <1>2, <2>1, <2>2, <2>3 DEF VerifyAccessToken, SessionRevoked
<1>4. Accepted' \subseteq Accepted
  BY <1>2, <1>3 DEF Accepted
<1>5. Ended' = Ended
  BY <1>2 DEF Ended
<1> QED BY <1>4, <1>5 DEF Promise!Expire

\* A step that leaves clock, blacklist and tokens alone cannot be seen.
LEMMA HiddenStep ==
    ASSUME UNCHANGED <<now, blExp, atoks>>
    PROVE  UNCHANGED Promise!vars
<1>1. \A a : VerifyAccessToken(a)' <=> VerifyAccessToken(a)
  BY DEF VerifyAccessToken, SessionRevoked
<1> QED BY <1>1 DEF Promise!vars, Accepted, Ended

\* Whatever the handlers do, a caller of VerifyAccessToken sees tokens that are
\* issued for live sessions, end with their session and never come back.
THEOREM SessionKeepsPromise == Spec => KeepsPromise
<1>1. Init => Promise!Init
  BY SMTT(60) DEF Init, Promise!Init, Accepted, Ended
<1>2. SessionInv /\ [Next]_vars => [Promise!Next]_(Promise!vars)
  <2> SUFFICES ASSUME SessionInv, [Next]_vars PROVE [Promise!Next]_(Promise!vars)
    OBVIOUS
  <2>1. CASE UNCHANGED <<now, blExp, atoks>>
    BY <2>1, HiddenStep
  <2>2. CASE Tick
    BY <2>2, TickIsExpire DEF Promise!Next
  <2>3. CASE Restart
    <3>1. Accepted' = {} /\ Ended' = Ended
      BY <2>3 DEF Restart, Accepted, Ended
    <3> QED BY <3>1 DEF Promise!Next, Promise!Expire
  <2>4. ASSUME NEW p \in Handlers, RevokeBlacklist(p)
        PROVE  [Promise!Next]_(Promise!vars)
    <3>1. h[p].cur \in Sids
      BY SMTT(60), <2>4, HandlerFacts DEF Ready, RevokeBlacklist
    <3>2. CASE blExp' = blExp
      BY <2>4, <3>2, HiddenStep DEF RevokeBlacklist
    <3>3. CASE blExp' = [blExp EXCEPT ![h[p].cur] = now + BlacklistTTL]
      <4>1. UNCHANGED <<now, atoks>>
        BY <2>4 DEF RevokeBlacklist
      <4> QED BY <3>1, <3>3, <4>1, BlacklistIsEnd DEF Promise!Next
    <3> QED BY SMTT(60), <2>4, <3>2, <3>3 DEF RevokeBlacklist
  <2>5. ASSUME NEW p \in Handlers, IssueTokens(p) \/ IssueDelegated(p) \/ StoreSession(p)
        PROVE  [Promise!Next]_(Promise!vars)
    <3>1. h[p].pc \in {"issue", "delegate", "store"}
      BY ZenonT(60), <2>5 DEF IssueTokens, IssueDelegated, StoreSession
    <3>2. PICK e \in {now + AccessTTL, h[p].start + AccessTTL} :
             /\ atoks' = atoks \cup {[sid |-> h[p].sid, user |-> h[p].user, exp |-> e]}
             /\ now' = now /\ blExp' = blExp
      BY ZenonT(60), <2>5 DEF IssueTokens, IssueDelegated, StoreSession
    <3>3. /\ h[p].sid \in Sids /\ e \in Nat
          /\ blExp[h[p].sid] > 0 => e <= blExp[h[p].sid]
      BY <3>1, <3>2, SignedInTime
    <3> QED BY ZenonT(60), <3>2, <3>3, SignedIsIssue
  <2>6. ASSUME NEW p \in Handlers, Request(p) PROVE UNCHANGED <<now, blExp, atoks>>
    BY ZenonT(60), <2>6 DEF Request, Login, OAuthIssue, HandleLogout, Delegate, SwitchBranch,
       AdminRevoke, ValidateSession, RefreshTokens, RevokeAllOrgSessions
  <2>7. ASSUME NEW p \in Handlers, Step(p), ~RevokeBlacklist(p), ~IssueTokens(p),
               ~IssueDelegated(p), ~StoreSession(p)
        PROVE  UNCHANGED <<now, blExp, atoks>>
    BY ZenonT(60), <2>7 DEF Step, ScanUser, RevokeDelete, RevokeDeleteFails,
       CreateSession, RequestFails, UpdateGet, UpdateSet, DropSession, CheckReuse,
       GetTokenSession, MarkUsedGet, MarkUsedSet, RevokeFamilyGet, RevokeFamilySet
  <2>8. CASE UNCHANGED vars
    BY <2>1, <2>8 DEF vars
  <2> QED BY <2>1, <2>2, <2>3, <2>4, <2>5, <2>6, <2>7, <2>8 DEF Next
<1> QED BY <1>1, <1>2, SessionInvariant, PTL DEF Spec, KeepsPromise, Promise!Spec

=============================================================================
