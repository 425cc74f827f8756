------------------------------ MODULE Account ------------------------------
(***************************************************************************)
(* One account: its users row, its password credential with the history    *)
(* of retired ones, and the verification tokens mailed to its owner.       *)
(*                                                                         *)
(* The handlers of internal/api/rest/auth.go, the user service of          *)
(* internal/api/rest/admin_routes.go behind the workflow callbacks, and    *)
(* internal/service/identity.go, as concurrent requests.  Every call of a  *)
(* repository is a step: only CredentialRepository.Replace is a            *)
(* transaction.  UserRepository.Update writes back the whole row that was  *)
(* read before.                                                            *)
(***************************************************************************)
EXTENDS Naturals, Sequences, FiniteSets

CONSTANTS
    Handlers,       \* requests running at once
    None,           \* no password, no session, no token
    Initial,        \* the password the account is created with
    Passwords,      \* the new passwords offered; all satisfy PasswordPolicy
    Tokens,         \* verification tokens (a bound: then their INSERT fails)
    HistoryCount,   \* PasswordPolicy.HistoryCount
    Ops,            \* the operations of this instance
    TokenColumn,    \* TRUE: verification_tokens has the column "token"
    Failures        \* TRUE: a statement may fail, a request may be cut off

AllOps == {"register", "create", "forgot", "reset", "change", "initial", "login",
           "lock", "unlock", "suspend", "profile", "delete",
           "verify", "sreset", "schange"}

AccountAssumption ==
    /\ None \notin Passwords \cup {Initial} \cup Tokens
    /\ HistoryCount \in Nat \ {0}
    /\ Ops \subseteq AllOps
    /\ {TokenColumn, Failures} \subseteq BOOLEAN

VARIABLES
    user,       \* the users row
    cred,       \* user_credentials, the row of type password
    history,    \* user_credential_history, newest first
    token,      \* verification_tokens
    session,    \* the one live session of the user
    temp,       \* the account was created with require_password_change (history)
    locked,     \* the last change of status an admin made is the lock (history)
    req         \* the requests

vars == <<user, cred, history, token, session, temp, locked, req>>

Secrets == Passwords \cup {Initial}
Statuses == {"pending", "active", "locked", "suspended", "deleted"}
Row == [status : Statuses, mustChange : BOOLEAN]
NoRow == [status |-> "absent", mustChange |-> FALSE]
NoCred == [id |-> 0, pw |-> None]
NoToken == [state |-> "free", type |-> "email", spent |-> 0]
Idle == [op |-> "login", pc |-> "idle", cur |-> None, new |-> None, tok |-> None,
         snap |-> NoRow]

Init ==
    /\ user = NoRow /\ cred = NoCred /\ history = <<>>
    /\ token = [t \in Tokens |-> NoToken]
    /\ session = None /\ temp = FALSE /\ locked = FALSE
    /\ req = [h \in Handlers |-> Idle]

\* GetByID, GetByUsername and GetByEmail: WHERE deleted_at IS NULL.
Visible == user # NoRow /\ user.status # "deleted"
\* VerificationToken.IsValid
IsValid(t) == token[t].state = "live"

Start(h, op, pc, cur, new, tok, snap) ==
    /\ op \in Ops /\ req[h].pc = "idle"
    /\ req' = [req EXCEPT ![h] = [op |-> op, pc |-> pc, cur |-> cur, new |-> new,
                                  tok |-> tok, snap |-> snap]]
Goto(h, pc) == req' = [req EXCEPT ![h].pc = pc]
Done(h) == req' = [req EXCEPT ![h] = Idle]
At(h, pc) == req[h].pc = pc
Write(h, r) == req' = [req EXCEPT ![h].pc = "update", ![h].snap = r]
Quiet == \A h \in Handlers : req[h].pc = "idle"

-----------------------------------------------------------------------------
(* Creating the account.                                                   *)

\* HandleRegister and IdentityService.Register
Register(h) ==
    /\ ~Visible
    /\ Start(h, "register", "insert", None, Initial, None,
             [status |-> "pending", mustChange |-> FALSE])
    /\ UNCHANGED <<user, cred, history, token, session, temp, locked>>

\* adminUserSvc.CreateUser; without a password there is no credential.
CreateUser(h, must, pw) ==
    /\ Start(h, "create", "insert", None, pw, None,
             [status |-> "active", mustChange |-> must])
    /\ UNCHANGED <<user, cred, history, token, session, temp, locked>>

\* UserRepository.Create: username and email are UNIQUE, deleted rows included.
InsertUser(h) ==
    /\ At(h, "insert")
    /\ IF user = NoRow
       THEN /\ user' = req[h].snap /\ temp' = req[h].snap.mustChange
            /\ IF req[h].new = None THEN Done(h) ELSE Goto(h, "credential")
       ELSE Done(h) /\ UNCHANGED <<user, temp>>
    /\ UNCHANGED <<cred, history, token, session, locked>>

\* CredentialRepository.Create: (user_id, credential_type) is UNIQUE.
InsertCredential(h) ==
    /\ At(h, "credential")
    /\ IF cred = NoCred
       THEN /\ cred' = [id |-> 1, pw |-> req[h].new]
            /\ CASE req[h].op = "register" -> Goto(h, "token")
                 [] req[h].op = "create" -> Done(h)
                 [] req[h].op = "reset" -> Goto(h, "mark")
                 [] req[h].op = "sreset" -> Goto(h, "update")
       ELSE Done(h) /\ UNCHANGED cred
    /\ token' = IF cred = NoCred /\ req[h].tok # None
                THEN [token EXCEPT ![req[h].tok].spent = @ + 1] ELSE token
    /\ UNCHANGED <<user, history, session, temp, locked>>

-----------------------------------------------------------------------------
(* Verification tokens.                                                    *)

\* HandleForgotPassword and IdentityService.RecoverPassword
ForgotPassword(h) ==
    /\ Visible
    /\ Start(h, "forgot", "token", None, None, None, NoRow)
    /\ UNCHANGED <<user, cred, history, token, session, temp, locked>>

\* VerificationTokenRepository.Create
InsertToken(h) ==
    /\ At(h, "token")
    /\ Done(h)
    /\ \/ /\ TokenColumn
          /\ \E t \in Tokens :
                /\ token[t].state = "free"
                /\ token' = [token EXCEPT ![t] = [@ EXCEPT !.state = "live",
                       !.type = IF req[h].op = "register" THEN "email" ELSE "recovery"]]
       \/ /\ ~TokenColumn \/ \A t \in Tokens : token[t].state # "free"
          /\ UNCHANGED token
    /\ UNCHANGED <<user, cred, history, session, temp, locked>>

\* The clock passes expires_at.
Expire(t) ==
    /\ IsValid(t)
    /\ token' = [token EXCEPT ![t].state = "expired"]
    /\ UNCHANGED <<user, cred, history, session, temp, locked, req>>

\* VerificationTokenRepository.MarkUsed
MarkUsed(h) ==
    /\ At(h, "mark")
    /\ token' = [token EXCEPT ![req[h].tok].state = "used"]
    /\ IF req[h].op = "reset" THEN Goto(h, "reread") ELSE Done(h)
    /\ UNCHANGED <<user, cred, history, session, temp, locked>>

\* IdentityService.VerifyEmail: any type of token will do.
VerifyEmail(h, t) ==
    /\ IsValid(t) /\ Visible
    /\ Start(h, "verify", "update", None, None, t, [user EXCEPT !.status = "active"])
    /\ UNCHANGED <<user, cred, history, token, session, temp, locked>>

-----------------------------------------------------------------------------
(* Changing the password.                                                  *)

\* HandleResetPassword: the token is read and judged.
ResetPassword(h, t, new) ==
    /\ IsValid(t) /\ token[t].type = "recovery"
    /\ Start(h, "reset", "current", None, new, t, NoRow)
    /\ UNCHANGED <<user, cred, history, token, session, temp, locked>>

\* IdentityService.ResetPassword: it does not ask for the type of the token.
ServiceReset(h, t, new) ==
    /\ IsValid(t) /\ Visible
    /\ Start(h, "sreset", "history", None, new, t, [user EXCEPT !.mustChange = FALSE])
    /\ UNCHANGED <<user, cred, history, token, session, temp, locked>>

\* HandleChangePassword, for the bearer of an access token.
ChangePassword(h, cur, new) ==
    /\ Start(h, "change", "verify", cur, new, None, NoRow)
    /\ UNCHANGED <<user, cred, history, token, session, temp, locked>>

\* IdentityService.ChangePassword
ServiceChange(h, cur, new) ==
    /\ Visible
    /\ Start(h, "schange", "verify", cur, new, None, user)
    /\ UNCHANGED <<user, cred, history, token, session, temp, locked>>

\* HandleInitialChangePassword
InitialChange(h, cur, new) ==
    /\ Visible /\ user.mustChange
    /\ Start(h, "initial", "verify", cur, new, None, [user EXCEPT !.mustChange = FALSE])
    /\ UNCHANGED <<user, cred, history, token, session, temp, locked>>

\* GetCurrentByUserID and hasher.Verify of the current password.
VerifyCurrent(h) ==
    /\ At(h, "verify")
    /\ IF cred.pw # req[h].cur THEN Done(h)
       ELSE Goto(h, IF req[h].op = "schange" THEN "history" ELSE "replace")
    /\ UNCHANGED <<user, cred, history, token, session, temp, locked>>

\* GetHistory and the comparison with every retired password.
CheckHistory(h) ==
    /\ At(h, "history")
    /\ IF \E i \in DOMAIN history : history[i].pw = req[h].new THEN Done(h)
       ELSE Goto(h, IF req[h].op = "schange" THEN "replace" ELSE "current")
    /\ UNCHANGED <<user, cred, history, token, session, temp, locked>>

\* Mutant: the token is used up before the password is written.
FindCurrentMarks(h) ==
    /\ At(h, "current")
    /\ Goto(h, IF cred = NoCred THEN "credential" ELSE "replace")
    /\ token' = [token EXCEPT ![req[h].tok].state = "used"]
    /\ UNCHANGED <<user, cred, history, session, temp, locked>>
\* The resets ask whether there is a credential at all.
FindCurrent(h) ==
    /\ At(h, "current")
    /\ Goto(h, IF cred = NoCred THEN "credential" ELSE "replace")
    /\ UNCHANGED <<user, cred, history, token, session, temp, locked>>

\* user_credential_history.id is the primary key, and the archived row keeps
\* the id of the credential, which UPDATE does not change.
ArchiveConflict == \E i \in DOMAIN history : history[i].id = cred.id

AfterReplace(op) == CASE op = "reset" -> "mark" [] op = "change" -> "reread" [] OTHER -> "update"

\* Mutant: nothing is pruned, and the archived row gets an id of its own.
ReplaceUnpruned(h) ==
    /\ At(h, "replace")
    /\ history' = <<cred>> \o history
    /\ cred' = [cred EXCEPT !.pw = req[h].new]
    /\ token' = IF req[h].tok = None THEN token
                ELSE [token EXCEPT ![req[h].tok].spent = @ + 1]
    /\ Goto(h, AfterReplace(req[h].op))
    /\ UNCHANGED <<user, session, temp, locked>>
\* CredentialRepository.Replace: archive, prune, update, in one transaction.
Replace(h) ==
    /\ At(h, "replace")
    /\ IF ArchiveConflict
       THEN Done(h) /\ UNCHANGED <<cred, history, token>>
       ELSE /\ history' = SubSeq(<<cred>> \o history, 1,
                  IF Len(history) < HistoryCount THEN Len(history) + 1 ELSE HistoryCount)
            /\ cred' = [cred EXCEPT !.pw = req[h].new]
            /\ token' = IF req[h].tok = None THEN token
                        ELSE [token EXCEPT ![req[h].tok].spent = @ + 1]
            /\ Goto(h, AfterReplace(req[h].op))
    /\ UNCHANGED <<user, session, temp, locked>>

\* GetByID after the credential was written.
Reread(h) ==
    /\ At(h, "reread")
    /\ IF ~Visible THEN Done(h)
       ELSE Write(h, [user EXCEPT !.mustChange = @ /\ req[h].op # "change"])
    /\ UNCHANGED <<user, cred, history, token, session, temp, locked>>

-----------------------------------------------------------------------------
(* The users row.                                                          *)

AdminStatus == [lock |-> "locked", unlock |-> "active", suspend |-> "suspended"]

\* adminUserSvc.LockUser, UnlockUser, SuspendUser, and UpdateUser when it sets
\* one of these statuses, read the row.
SetStatus(h, op) ==
    /\ Visible
    /\ Start(h, op, "update", None, None, None, [user EXCEPT !.status = AdminStatus[op]])
    /\ UNCHANGED <<user, cred, history, token, session, temp, locked>>

\* HandleUpdateProfile reads the row; what it edits is not modelled.
UpdateProfile(h) ==
    /\ Visible
    /\ Start(h, "profile", "update", None, None, None, user)
    /\ UNCHANGED <<user, cred, history, token, session, temp, locked>>

\* UserRepository.Update: every column, WHERE deleted_at IS NULL.
UpdateUser(h) ==
    /\ At(h, "update")
    /\ user' = IF Visible THEN req[h].snap ELSE user
    /\ locked' = IF Visible /\ req[h].op \in DOMAIN AdminStatus
                 THEN req[h].op = "lock" ELSE locked
    /\ IF req[h].op \in {"sreset", "verify"} THEN Goto(h, "mark") ELSE Done(h)
    /\ UNCHANGED <<cred, history, token, session, temp>>

\* UserRepository.Delete
DeleteUser ==
    /\ "delete" \in Ops /\ user # NoRow
    /\ user' = [user EXCEPT !.status = "deleted"]
    /\ UNCHANGED <<cred, history, token, session, temp, locked, req>>

-----------------------------------------------------------------------------
(* HandleLogin, up to the session; MFA and branches are other modules.     *)

Login(h, p) ==
    /\ Visible /\ user.status = "active"
    /\ Start(h, "login", "login", p, None, None, user)
    /\ UNCHANGED <<user, cred, history, token, session, temp, locked>>

\* Mutant: must_change_password is not looked at.
LoginUnforced(h) ==
    /\ At(h, "login")
    /\ session' = IF cred.pw = req[h].cur THEN [pw |-> req[h].cur] ELSE session
    /\ Done(h)
    /\ UNCHANGED <<user, cred, history, token, temp, locked>>

\* The credential is read, then the sessions of the user are revoked and a
\* new one is made.
LoginChecked(h) ==
    /\ At(h, "login")
    /\ session' = IF cred.pw = req[h].cur /\ ~req[h].snap.mustChange
                  THEN [pw |-> req[h].cur] ELSE session
    /\ Done(h)
    /\ UNCHANGED <<user, cred, history, token, temp, locked>>

-----------------------------------------------------------------------------
(* A statement fails and the handler answers 500, or the request dies.     *)
Fail(h) ==
    /\ Failures /\ req[h].pc # "idle"
    /\ Done(h)
    /\ UNCHANGED <<user, cred, history, token, session, temp, locked>>

\* HandleResetPassword does not look at the error of MarkUsed.
MarkFails(h) ==
    /\ Failures /\ At(h, "mark") /\ req[h].op = "reset"
    /\ Goto(h, "reread")
    /\ UNCHANGED <<user, cred, history, token, session, temp, locked>>

StepOf(h) ==
    \/ InsertUser(h) \/ InsertCredential(h) \/ InsertToken(h) \/ MarkUsed(h)
    \/ VerifyCurrent(h) \/ CheckHistory(h) \/ FindCurrent(h) \/ Replace(h)
    \/ Reread(h) \/ UpdateUser(h) \/ LoginChecked(h)

Next ==
    \/ \E h \in Handlers :
          \/ StepOf(h) \/ Fail(h) \/ MarkFails(h)
          \/ Register(h) \/ ForgotPassword(h) \/ UpdateProfile(h)
          \/ \E must \in BOOLEAN, p \in {Initial, None} : CreateUser(h, must, p)
          \/ \E op \in DOMAIN AdminStatus : SetStatus(h, op)
          \/ \E p \in Secrets : Login(h, p)
          \/ \E t \in Tokens : VerifyEmail(h, t)
          \/ \E t \in Tokens, p \in Passwords : ResetPassword(h, t, p) \/ ServiceReset(h, t, p)
          \/ \E c \in Secrets, p \in Passwords :
                ChangePassword(h, c, p) \/ ServiceChange(h, c, p) \/ InitialChange(h, c, p)
    \/ \E t \in Tokens : Expire(t)
    \/ DeleteUser

Spec == Init /\ [][Next]_vars

-----------------------------------------------------------------------------
\* The rows and requests keep their types; the history never has more than
\* HistoryCount entries (Replace, step 2).
TypeOK ==
    /\ user \in Row \cup {NoRow}
    /\ cred \in {NoCred} \cup [id : {1}, pw : Secrets]
    /\ Len(history) <= HistoryCount
    /\ \A i \in DOMAIN history : history[i] \in [id : {1}, pw : Secrets]
    /\ token \in [Tokens -> [state : {"free", "live", "used", "expired"},
                             type : {"email", "recovery"}, spent : 0..2]]
    /\ session = None \/ session \in [pw : Secrets]
    /\ temp \in BOOLEAN /\ locked \in BOOLEAN
    /\ \A h \in Handlers : /\ req[h].op \in AllOps
                           /\ req[h].snap \in Row \cup {NoRow}
                           /\ req[h].tok \in Tokens \cup {None}

\* HandleLogin "Force a password change before issuing any tokens": an account
\* created with require_password_change has no session opened with the
\* password it was created with, whatever the requests that race.
ForcedChange == temp /\ session # None => session.pw # Initial

\* A recovery token is used up only after the password was written: the owner
\* whose reset failed can follow the link again (HandleResetPassword marks it
\* after Replace).
SpentMeansReplaced ==
    \A t \in Tokens : token[t].state = "used" /\ token[t].type = "recovery"
                        => token[t].spent > 0

\* A recovery token writes the password at most once (GetByToken, IsValid,
\* Replace and MarkUsed of HandleResetPassword are separate statements).
TokenSpentOnce == \A t \in Tokens : token[t].spent <= 1


\* Replace archives the current credential whenever it is called.
ArchiveSucceeds == \A h \in Handlers : At(h, "replace") => ~ArchiveConflict

=============================================================================
