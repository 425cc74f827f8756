------------------------------- MODULE OAuth -------------------------------
(***************************************************************************)
(* The OAuth2 authorization-code and client-credentials grants:            *)
(* internal/api/rest/oauth2.go over internal/service/oauth2 and            *)
(* internal/store/postgres/oauth2.go, with the client lifecycle driven by  *)
(* dynamic registration and by the workflow7 callbacks.                    *)
(*                                                                         *)
(* Every SQL statement is one atomic step.  A handler keeps the row it     *)
(* read (ac) while other handlers change the table.                        *)
(***************************************************************************)
EXTENDS Naturals, FiniteSets

CONSTANTS
    Handlers,       \* concurrently running request handlers
    None,           \* no client, no challenge, no address
    Clients,        \* the client ids that can be generated
    Hosts,          \* redirect addresses without their trailing slashes
    Verifiers,      \* PKCE code verifiers
    Ops,            \* the operations callers invoke in this instance
    Failures,       \* TRUE: a write to Postgres may fail
    CodeTTL,        \* lifetime of a code (5 minutes)
    Latency,        \* longest time a handler is in flight
    MaxCode, MaxIssued, MaxTime  \* bounds on codes, on tokens after which no
                                 \* grant begins, and on the clock

AllOps == {"authorize", "exchange", "machine", "update"}

OAuthAssumption ==
    /\ Ops \subseteq AllOps
    /\ Failures \in BOOLEAN
    /\ None \notin Clients \cup Hosts \cup Verifiers
    /\ CodeTTL \in Nat \ {0}
    /\ {Latency, MaxCode, MaxIssued, MaxTime} \subseteq Nat

VARIABLES
    now,        \* wall clock
    client,     \* table oauth2_clients
    active,     \* the last time each client was active (a history variable)
    code,       \* table oauth2_authorization_codes
    issued,     \* access tokens delivered (code = 0: client credentials)
    h           \* the handlers

vars == <<now, client, active, code, issued, h>>

Codes == 1..MaxCode
\* The other grant types do what authorization_code does, and the other client
\* types what web does.
Grants == {"authorization_code", "client_credentials"}
ClientTypes == {"web", "machine"}
\* A redirect_uri as received: the address, and whether a "/" trails it.
URIs == [host : Hosts, slash : BOOLEAN]
NoURI == [host |-> None, slash |-> FALSE]

\* exp = 0: no such code yet.
CodeRec == [client : Clients \cup {None}, uri : URIs \cup {NoURI},
            challenge : Verifiers \cup {None}, exp : Nat, used : BOOLEAN]
NoCode == [client |-> None, uri |-> NoURI, challenge |-> None, exp |-> 0,
           used |-> FALSE]
ClientRec == [state : {"none", "active", "inactive", "deleted"},
              uris : SUBSET Hosts, machine : BOOLEAN]
\* seen is the last time the client was active (history).
TokenRec == [jti : Nat, code : Codes \cup {0}, client : Clients,
             uri : URIs \cup {NoURI}, verifier : Verifiers \cup {None},
             at : Nat, seen : Nat]
HandlerRec == [pc : {"idle", "create", "nobranch", "get", "mark", "client",
                     "issue", "machine"},
               code : Codes \cup {0}, client : Clients \cup {None},
               uri : URIs \cup {NoURI}, verifier : Verifiers \cup {None},
               ac : CodeRec, start : Nat]
Idle == [pc |-> "idle", code |-> 0, client |-> None, uri |-> NoURI,
         verifier |-> None, ac |-> NoCode, start |-> 0]

Init ==
    /\ now = 1
    /\ client = [c \in Clients |-> [state |-> "none", uris |-> {},
                                    machine |-> FALSE]]
    /\ active = [c \in Clients |-> 0]
    /\ code = [k \in Codes |-> NoCode]
    /\ issued = {}
    /\ h = [p \in Handlers |-> Idle]

Begin(p, op, f) ==
    /\ op \in Ops
    /\ h[p].pc = "idle"
    /\ h' = [h EXCEPT ![p] = [f EXCEPT !.start = now]]

Goto(p, pc) == h' = [h EXCEPT ![p].pc = pc]

Finish(p) == h' = [h EXCEPT ![p] = Idle]

\* GetByClientID finds the row.
Exists(c) == client[c].state \in {"active", "inactive"}
IsActive(c) == client[c].state = "active"
\* The time to remember for a client whose row is about to change.
LastActive(c) == IF IsActive(c) THEN now ELSE active[c]
NextJti == Cardinality(issued) + 1

-----------------------------------------------------------------------------
(* The client lifecycle.                                                   *)

\* CreateWithSecretHash and adminOAuth2ClientSvc.CreateClient: active from
\* the start.
NewClient(us, machine) == [state |-> "active", uris |-> us, machine |-> machine]

\* The insert, under a fresh id.
InsertClient(c, row) ==
    /\ client[c].state = "none"
    /\ client' = [client EXCEPT ![c] = row]
    /\ UNCHANGED <<now, active, code, issued, h>>

\* handleDCR: the grant types asked for decide whether it is a machine.
RegisterClient(c, us, grants) ==
    InsertClient(c, NewClient(us, "client_credentials" \in grants))

\* The create callback names the type.
WfCreateClient(c, us, type) ==
    /\ "update" \in Ops
    /\ InsertClient(c, NewClient(us, type = "machine"))

\* adminOAuth2ClientSvc.UpdateClient: the client type and the authentication
\* method are written back as they were read and never change.
Edited(row, us, on) ==
    [row EXCEPT !.uris = us, !.state = IF on THEN "active" ELSE "inactive"]

\* The update callback sends every editable field.
UpdateClient(c, us, on) ==
    /\ "update" \in Ops
    /\ Exists(c)
    /\ client' = [client EXCEPT ![c] = Edited(@, us, on)]
    /\ active' = [active EXCEPT ![c] = LastActive(c)]
    /\ UNCHANGED <<now, code, issued, h>>

\* Authorization codes do not reference the row and stay behind.
DeleteClient(c) ==
    /\ "update" \in Ops
    /\ Exists(c)
    /\ client' = [client EXCEPT ![c].state = "deleted"]
    /\ active' = [active EXCEPT ![c] = LastActive(c)]
    /\ UNCHANGED <<now, code, issued, h>>

-----------------------------------------------------------------------------
(* Authorization.                                                          *)

\* Client.ValidateRedirectURI drops trailing slashes on both sides.
ValidateRedirectURI(c, uri) == uri.host \in client[c].uris

\* What both authorize handlers ask of the client they read.
MayAuthorize(c, uri) == IsActive(c) /\ ValidateRedirectURI(c, uri)

\* handleAuthorize names no branch, so that its insert will be refused.
Authorize(p, c, uri) ==
    /\ MayAuthorize(c, uri)
    /\ Begin(p, "authorize", [Idle EXCEPT !.pc = "nobranch"])
    /\ UNCHANGED <<now, client, active, code, issued>>

\* handleAuthorizeWithSession takes the branch of the access token.
AuthorizeWithSession(p, c, uri, ch) ==
    /\ MayAuthorize(c, uri)
    /\ Begin(p, "authorize", [Idle EXCEPT !.pc = "create", !.client = c,
                                          !.uri = uri, !.verifier = ch])
    /\ UNCHANGED <<now, client, active, code, issued>>

\* CreateAuthCode keeps the redirect_uri as received.
CreateAuthCode(p) ==
    /\ h[p].pc = "create"
    /\ \E k \in Codes :
          /\ code[k].exp = 0
          /\ \A j \in Codes : j < k => code[j].exp > 0
          /\ code' = [code EXCEPT ![k] =
                 [client |-> h[p].client, uri |-> h[p].uri,
                  challenge |-> h[p].verifier, exp |-> now + CodeTTL,
                  used |-> FALSE]]
    /\ Finish(p)
    /\ UNCHANGED <<now, client, active, issued>>

\* The insert is refused, an empty branch_id being no UUID, or fails: an access
\* token made before a branch was chosen has an empty one too.
CreateFails(p) ==
    /\ h[p].pc \in {"create", "nobranch"}
    /\ Finish(p)
    /\ UNCHANGED <<now, client, active, code, issued>>

-----------------------------------------------------------------------------
(* Redemption.                                                             *)

\* handleTokenExchange authenticates the client named in the request; a
\* public client has no secret.  Nothing ties it to the code.
TokenExchange(p, c, k, uri, v) ==
    /\ Cardinality(issued) < MaxIssued
    /\ Exists(c)
    /\ Begin(p, "exchange", [Idle EXCEPT !.pc = "get", !.code = k,
                                         !.uri = uri, !.verifier = v])
    /\ UNCHANGED <<now, client, active, code, issued>>

VerifyCodeChallenge(v, challenge) == v = challenge

\* Mutant: a code is accepted without its verifier.
RedeemableNoPKCE(k, v) ==
    /\ code[k].exp > 0
    /\ ~code[k].used
    /\ now <= code[k].exp

\* Mutant: the used flag is not looked at.
RedeemableAgain(k, v) ==
    /\ code[k].exp > 0
    /\ now <= code[k].exp
    /\ code[k].challenge = None \/ VerifyCodeChallenge(v, code[k].challenge)

\* What ExchangeAuthCode demands of the row it read.
Redeemable(k, v) ==
    /\ code[k].exp > 0
    /\ ~code[k].used
    /\ now <= code[k].exp
    /\ code[k].challenge = None \/ VerifyCodeChallenge(v, code[k].challenge)

GetByCode(p) ==
    /\ h[p].pc = "get"
    /\ h' = [h EXCEPT ![p] =
           IF Redeemable(h[p].code, h[p].verifier)
           THEN [@ EXCEPT !.pc = "mark", !.ac = code[h[p].code]]
           ELSE Idle]
    /\ UNCHANGED <<now, client, active, code, issued>>

\* ExchangeCodeForTokens compares the addresses once the code is spent.
AfterMark(p) ==
    IF h[p].uri = h[p].ac.uri THEN Goto(p, "client") ELSE Finish(p)

\* Mutant: the row is written back as it was read.
MarkStale(p) ==
    /\ h[p].pc = "mark"
    /\ code' = [code EXCEPT ![h[p].code].used = h[p].ac.used]
    /\ AfterMark(p)
    /\ UNCHANGED <<now, client, active, issued>>

\* MarkUsed does not look at the flag it overwrites.
MarkUsed(p) ==
    /\ h[p].pc = "mark"
    /\ code' = [code EXCEPT ![h[p].code].used = TRUE]
    /\ AfterMark(p)
    /\ UNCHANGED <<now, client, active, issued>>

\* Its error is ignored.
MarkUsedFails(p) ==
    /\ Failures
    /\ h[p].pc = "mark"
    /\ AfterMark(p)
    /\ UNCHANGED <<now, client, active, code, issued>>

\* Mutant: the state of the code's client is not looked at.
CheckClientExists(p) ==
    /\ h[p].pc = "client"
    /\ IF Exists(h[p].ac.client) THEN Goto(p, "issue") ELSE Finish(p)
    /\ UNCHANGED <<now, client, active, code, issued>>

\* GetByClientID for the client the code was made for.
CheckClient(p) ==
    /\ h[p].pc = "client"
    /\ IF IsActive(h[p].ac.client) THEN Goto(p, "issue") ELSE Finish(p)
    /\ UNCHANGED <<now, client, active, code, issued>>

\* The token is signed and answered; storing the session may fail unnoticed.
IssueTokens(p) ==
    /\ h[p].pc = "issue"
    /\ issued' = issued \cup
           {[jti |-> NextJti, code |-> h[p].code, client |-> h[p].ac.client,
             uri |-> h[p].uri, verifier |-> h[p].verifier, at |-> now,
             seen |-> LastActive(h[p].ac.client)]}
    /\ Finish(p)
    /\ UNCHANGED <<now, client, active, code>>

-----------------------------------------------------------------------------
(* Client credentials.                                                     *)

\* handleClientCredentials: the client is active and knows its secret.
ClientCredentials(p, c) ==
    /\ Cardinality(issued) < MaxIssued
    /\ IsActive(c)
    /\ Begin(p, "machine", [Idle EXCEPT !.pc = "machine", !.client = c])
    /\ UNCHANGED <<now, client, active, code, issued>>

\* TokenService.ClientCredentials reads the client again.
IssueMachine(p) ==
    LET c == h[p].client IN
    /\ h[p].pc = "machine"
    /\ issued' = IF Exists(c) /\ client[c].machine
                 THEN issued \cup
                      {[jti |-> NextJti, code |-> 0, client |-> c,
                        uri |-> NoURI, verifier |-> None, at |-> now,
                        seen |-> LastActive(c)]}
                 ELSE issued
    /\ Finish(p)
    /\ UNCHANGED <<now, client, active, code>>

\* The server's timeouts end a request.
Tick ==
    /\ now < MaxTime
    /\ \A p \in Handlers : h[p].pc # "idle" => now < h[p].start + Latency
    /\ now' = now + 1
    /\ UNCHANGED <<client, active, code, issued, h>>

Next ==
    \/ Tick
    \/ \E c \in Clients :
          \/ \E us \in SUBSET Hosts :
                \/ \E grants \in SUBSET Grants : RegisterClient(c, us, grants)
                \/ \E type \in ClientTypes : WfCreateClient(c, us, type)
                \/ \E on \in BOOLEAN : UpdateClient(c, us, on)
          \/ DeleteClient(c)
    \/ \E p \in Handlers :
          \/ \E c \in Clients, uri \in URIs, v \in Verifiers \cup {None} :
                \/ AuthorizeWithSession(p, c, uri, v)
                \/ \E k \in Codes : TokenExchange(p, c, k, uri, v)
          \/ \E c \in Clients, uri \in URIs : Authorize(p, c, uri)
          \/ \E c \in Clients : ClientCredentials(p, c)
          \/ CreateAuthCode(p)
          \/ CreateFails(p)
          \/ GetByCode(p)
          \/ MarkUsed(p)
          \/ MarkUsedFails(p)
          \/ CheckClient(p)
          \/ IssueTokens(p)
          \/ IssueMachine(p)

Spec == Init /\ [][Next]_vars

-----------------------------------------------------------------------------
(* Properties.                                                             *)

\* Tables, tokens and handlers have the shapes the code gives them.
TypeOK ==
    /\ now \in Nat
    /\ client \in [Clients -> ClientRec]
    /\ active \in [Clients -> Nat]
    /\ code \in [Codes -> CodeRec]
    /\ issued \subseteq TokenRec
    /\ h \in [Handlers -> HandlerRec]

Tokens(k) == {t \in issued : t.code = k}

\* Exchanges that have accepted the code and not yet answered.
Redeeming(k) == {p \in Handlers : /\ h[p].code = k
                                  /\ h[p].pc \in {"mark", "client", "issue"}}

\* Every token obtained with a code was asked for with the redirect_uri of
\* the authorization, with its PKCE verifier if it had a challenge, and
\* names the client the code was made for, whoever redeemed it
\* (handleTokenExchange, ExchangeAuthCode, ExchangeCodeForTokens).
TokenMatchesCode ==
    \A t \in issued : t.code # 0 =>
        /\ t.client = code[t.code].client
        /\ t.uri = code[t.code].uri
        /\ code[t.code].challenge \in {None, t.verifier}

\* A token is answered at most one request after its code expired and at
\* most one request after its client was deactivated or deleted, although
\* both are checked before later steps (ExchangeAuthCode, CheckClient, and
\* the two reads of the client-credentials grant).
IssuedInTime ==
    \A t \in issued :
        /\ t.at <= t.seen + Latency
        /\ t.code # 0 => t.at <= code[t.code].exp + Latency

\* A code that is marked used and that no exchange has in hand is dead: no
\* later exchange accepts it, in any interleaving (GetByCode, MarkUsed).
Settled(k) == code[k].used /\ Redeeming(k) = {}
SettledStep == \A k \in Codes : Settled(k) => Settled(k)' /\ Tokens(k)' = Tokens(k)
SettledIsFinal == [][SettledStep]_vars

\* As long as MarkUsed succeeds, a code yields at most one token for each
\* exchange that can run at once: only exchanges that read the row before
\* the first MarkUsed get through.
RedemptionsBounded == \A k \in Codes : Cardinality(Tokens(k)) <= Cardinality(Handlers)

=============================================================================
