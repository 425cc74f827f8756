------------------------------- MODULE Roles -------------------------------
(***************************************************************************)
(* Roles and permissions of a user: the workflow7 callbacks of             *)
(* internal/api/rest/wfcallback (user.go, role.go) that write user_roles   *)
(* and role_permissions, and ResolveAuthContext, with which the policy     *)
(* decision point reads them.                                              *)
(*                                                                         *)
(* One user, the rows of different users being independent.  Every SQL     *)
(* statement is one atomic step; none of these callbacks uses a            *)
(* transaction.  Maps are walked in any order.                             *)
(***************************************************************************)
EXTENDS Naturals, FiniteSets

CONSTANTS
    Handlers,       \* callbacks running at once
    Readers,        \* decisions running at once
    None,           \* no set of roles
    Codes,          \* role codes
    Perms,          \* permissions
    Ops,            \* the callbacks workflow7 makes in this instance
    Failures        \* TRUE: a statement may fail, a callback may be cut off

AllOps == {"create", "set-roles", "create-role", "set-permissions", "delete-role"}

RolesAssumption ==
    /\ Ops \subseteq AllOps
    /\ Failures \in BOOLEAN
    /\ None \notin Codes

VARIABLES
    user,       \* the row of the user exists (UNIQUE username)
    grant,      \* table user_roles, org-wide rows of the user, by role
    exists,     \* table roles, by code
    perms,      \* table role_permissions, by role
    done,       \* roles of the last callback that set them and succeeded, None
                \* once another one begins (history)
    w,          \* the callbacks
    rd          \* the decisions

vars == <<user, grant, exists, perms, done, w, rd>>

WriterRec == [pc : {"idle", "credential", "initial", "load", "revoke", "assign",
                    "clear", "insert"},
              want : SUBSET Codes, cur : SUBSET Codes, todo : SUBSET Codes,
              role : Codes \cup {None}, left : SUBSET Perms]
Idle == [pc |-> "idle", want |-> {}, cur |-> {}, todo |-> {}, role |-> None,
         left |-> {}]

\* todo are the roles whose permissions are still to be read, got what was
\* read.  The rest is history: sure are the permissions of held roles that
\* were there in every state since the decision began, roles and pairs the
\* roles held and the permissions granted to roles in some state since then.
ReaderRec == [pc : {"idle", "read"}, todo : SUBSET Codes, got : SUBSET Perms,
              sure : SUBSET (Codes \X Perms), roles : SUBSET Codes,
              pairs : SUBSET (Codes \X Perms)]
NoRead == [pc |-> "idle", todo |-> {}, got |-> {}, sure |-> {}, roles |-> {},
           pairs |-> {}]

Init ==
    /\ user = FALSE
    /\ grant = [r \in Codes |-> "none"]
    /\ exists = [r \in Codes |-> FALSE]
    /\ perms = [r \in Codes |-> {}]
    /\ done = None
    /\ w = [p \in Handlers |-> Idle]
    /\ rd = [q \in Readers |-> NoRead]

\* UserRoleRepository.GetByUser: revoked_at IS NULL.
Active == {r \in Codes : grant[r] = "active"}
Pairs == {x \in Codes \X Perms : x[2] \in perms[x[1]]}
\* What the tables say the user may do.
Held == {x \in Pairs : x[1] \in Active}

\* The history of the decisions in progress, after a write.
Observe ==
    rd' = [q \in Readers |->
        IF rd[q].pc = "idle" THEN rd[q]
        ELSE [rd[q] EXCEPT !.sure = @ \cap Held', !.roles = @ \cup Active',
                           !.pairs = @ \cup Pairs']]

Fail(p) == w' = [w EXCEPT ![p] = Idle]

-----------------------------------------------------------------------------
(* handleWfCreate: the user, its credential, then each initial role.       *)

CreateUser(p, rs) ==
    /\ "create" \in Ops
    /\ w[p].pc = "idle"
    /\ IF user
       THEN UNCHANGED <<user, done, w>>
       ELSE /\ user' = TRUE
            /\ done' = None
            /\ w' = [w EXCEPT ![p] = [Idle EXCEPT !.pc = "credential",
                                                  !.want = rs, !.todo = rs]]
    /\ UNCHANGED <<grant, exists, perms>>
    /\ Observe

CreateCredential(p) ==
    /\ w[p].pc = "credential"
    /\ w' = [w EXCEPT ![p].pc = "initial"]
    /\ UNCHANGED <<user, grant, exists, perms, done, rd>>

\* UserRoleRepository.Create is a plain INSERT: the role must exist and there
\* may be no row for (user, role), revoked or not.
CanInsert(r) == exists[r] /\ grant[r] = "none"

AssignRole(p, r) ==
    /\ w[p].pc \in {"initial", "assign"}
    /\ r \in w[p].todo
    /\ IF CanInsert(r)
       THEN /\ grant' = [grant EXCEPT ![r] = "active"]
            /\ w' = [w EXCEPT ![p].todo = @ \ {r}]
       ELSE /\ UNCHANGED grant
            /\ Fail(p)
    /\ UNCHANGED <<user, exists, perms, done>>
    /\ Observe

\* Every role is assigned (and, on creation, the primary branch inserted: see
\* BranchAssign): the callback answers with success.
Answer(p) ==
    /\ w[p].pc \in {"initial", "assign"}
    /\ w[p].todo = {}
    /\ done' = w[p].want
    /\ w' = [w EXCEPT ![p] = Idle]
    /\ UNCHANGED <<user, grant, exists, perms, rd>>

-----------------------------------------------------------------------------
(* handleWfSetRoles: load, revoke what is not wanted, assign what is not   *)
(* there.                                                                  *)

SetRoles(p, rs) ==
    /\ "set-roles" \in Ops
    /\ user
    /\ w[p].pc = "idle"
    /\ done' = None
    /\ w' = [w EXCEPT ![p] = [Idle EXCEPT !.pc = "load", !.want = rs]]
    /\ UNCHANGED <<user, grant, exists, perms, rd>>

LoadRoles(p) ==
    /\ w[p].pc = "load"
    /\ w' = [w EXCEPT ![p].pc = "revoke", ![p].cur = Active,
                      ![p].todo = Active \ w[p].want]
    /\ UNCHANGED <<user, grant, exists, perms, done, rd>>

\* Mutant: every current role is revoked, those still wanted included.
RevokeEveryRole(p) ==
    /\ w[p].pc = "revoke"
    /\ grant' = [r \in Codes |-> IF r \in w[p].cur THEN "revoked" ELSE grant[r]]
    /\ w' = [w EXCEPT ![p].pc = "assign", ![p].todo = w[p].want]
    /\ UNCHANGED <<user, exists, perms, done>>
    /\ Observe

\* RevokeByUserAndRole for one role, or the end of the loop.
RevokeRoles(p) ==
    /\ w[p].pc = "revoke"
    /\ \/ \E r \in w[p].todo :
             /\ grant' = [grant EXCEPT ![r] = IF @ = "active" THEN "revoked" ELSE @]
             /\ w' = [w EXCEPT ![p].todo = @ \ {r}]
       \/ /\ w[p].todo = {}
          /\ w' = [w EXCEPT ![p].pc = "assign",
                            ![p].todo = w[p].want \ w[p].cur]
          /\ UNCHANGED grant
    /\ UNCHANGED <<user, exists, perms, done>>
    /\ Observe

-----------------------------------------------------------------------------
(* The role callbacks.  AssignPermissions deletes the role's permissions   *)
(* and inserts the new ones one by one.                                    *)

CreateRole(p, r, ps) ==
    /\ "create-role" \in Ops
    /\ w[p].pc = "idle"
    /\ ~exists[r]       \* UNIQUE (org_id, code)
    /\ exists' = [exists EXCEPT ![r] = TRUE]
    /\ w' = IF ps = {} THEN w
            ELSE [w EXCEPT ![p] = [Idle EXCEPT !.pc = "clear", !.role = r,
                                               !.left = ps]]
    /\ UNCHANGED <<user, grant, perms, done, rd>>

SetPermissions(p, r, ps) ==
    /\ "set-permissions" \in Ops
    /\ w[p].pc = "idle"
    /\ exists[r]
    /\ w' = [w EXCEPT ![p] = [Idle EXCEPT !.pc = "clear", !.role = r, !.left = ps]]
    /\ UNCHANGED <<user, grant, exists, perms, done, rd>>

DeleteByRole(p) ==
    /\ w[p].pc = "clear"
    /\ perms' = [perms EXCEPT ![w[p].role] = {}]
    /\ w' = [w EXCEPT ![p].pc = "insert"]
    /\ UNCHANGED <<user, grant, exists, done>>
    /\ Observe

\* RolePermissionRepository.Assign for one permission, or the end of the loop.
\* The role may have been deleted meanwhile: the insert violates its key.
AssignPermissions(p) ==
    /\ w[p].pc = "insert"
    /\ \/ \E x \in w[p].left :
             IF exists[w[p].role]
             THEN /\ perms' = [perms EXCEPT ![w[p].role] = @ \cup {x}]
                  /\ w' = [w EXCEPT ![p].left = @ \ {x}]
             ELSE /\ UNCHANGED perms
                  /\ Fail(p)
       \/ /\ w[p].left = {}
          /\ w' = [w EXCEPT ![p] = Idle]
          /\ UNCHANGED perms
    /\ UNCHANGED <<user, grant, exists, done>>
    /\ Observe

\* Mutant: rows that refer to the role do not prevent its deletion.
DeleteRoleReferred(p, r) ==
    /\ "delete-role" \in Ops
    /\ w[p].pc = "idle"
    /\ exists[r]
    /\ exists' = [exists EXCEPT ![r] = FALSE]
    /\ UNCHANGED <<user, grant, perms, done, w, rd>>

\* Foreign keys refuse to delete a role that rows refer to, revoked or not.
DeleteRole(p, r) ==
    /\ "delete-role" \in Ops
    /\ w[p].pc = "idle"
    /\ exists[r]
    /\ grant[r] = "none"
    /\ perms[r] = {}
    /\ exists' = [exists EXCEPT ![r] = FALSE]
    /\ UNCHANGED <<user, grant, perms, done, w, rd>>

\* A statement fails or the request is cut off: the rest is not done.
CallbackFails(p) ==
    /\ Failures
    /\ w[p].pc # "idle"
    /\ Fail(p)
    /\ UNCHANGED <<user, grant, exists, perms, done, rd>>

-----------------------------------------------------------------------------
(* ResolveAuthContext: the roles in one query, then the permissions of     *)
(* each role in one query of its own.                                      *)

GetUserRoles(q) ==
    /\ rd[q].pc = "idle"
    /\ rd' = [rd EXCEPT ![q] = [pc |-> "read", todo |-> Active, got |-> {},
                                sure |-> Held, roles |-> Active, pairs |-> Pairs]]
    /\ UNCHANGED <<user, grant, exists, perms, done, w>>

\* Mutant: the first role decides.
GetPermissionsOnce(q, r) ==
    /\ rd[q].pc = "read"
    /\ r \in rd[q].todo
    /\ rd' = [rd EXCEPT ![q].got = @ \cup perms[r], ![q].todo = {}]
    /\ UNCHANGED <<user, grant, exists, perms, done, w>>

GetPermissions(q, r) ==
    /\ rd[q].pc = "read"
    /\ r \in rd[q].todo
    /\ rd' = [rd EXCEPT ![q].got = @ \cup perms[r], ![q].todo = @ \ {r}]
    /\ UNCHANGED <<user, grant, exists, perms, done, w>>

\* CheckPermission answers from what was read, or a query failed.
Decide(q) ==
    /\ rd[q].pc = "read"
    /\ rd[q].todo = {} \/ Failures
    /\ rd' = [rd EXCEPT ![q] = NoRead]
    /\ UNCHANGED <<user, grant, exists, perms, done, w>>

-----------------------------------------------------------------------------

WriterStep(p) ==
    \/ CreateCredential(p)
    \/ \E r \in Codes : AssignRole(p, r)
    \/ Answer(p)
    \/ LoadRoles(p)
    \/ RevokeRoles(p)
    \/ DeleteByRole(p)
    \/ AssignPermissions(p)
    \/ CallbackFails(p)

Next ==
    \/ \E p \in Handlers :
          \/ \E rs \in SUBSET Codes : CreateUser(p, rs) \/ SetRoles(p, rs)
          \/ \E r \in Codes :
                \/ \E ps \in SUBSET Perms :
                      CreateRole(p, r, ps) \/ SetPermissions(p, r, ps)
                \/ DeleteRole(p, r)
          \/ WriterStep(p)
    \/ \E q \in Readers :
          \/ GetUserRoles(q)
          \/ \E r \in Codes : GetPermissions(q, r)
          \/ Decide(q)

Spec == Init /\ [][Next]_vars

-----------------------------------------------------------------------------
(* Properties.                                                             *)

\* Tables and locals have the shapes the code gives them; roles that are
\* referred to exist.
TypeOK ==
    /\ user \in BOOLEAN
    /\ grant \in [Codes -> {"none", "active", "revoked"}]
    /\ exists \in [Codes -> BOOLEAN]
    /\ perms \in [Codes -> SUBSET Perms]
    /\ done = None \/ done \subseteq Codes
    /\ w \in [Handlers -> WriterRec]
    /\ rd \in [Readers -> ReaderRec]
    /\ \A r \in Codes : grant[r] # "none" \/ perms[r] # {} => exists[r]

\* Whatever callbacks run meanwhile, a decision finds every permission the
\* user held throughout by one role, and none but those of roles held at some
\* time during it that were granted to them at some time during it.  (One
\* that moves from role to role can be missed.)  ResolveAuthContext.
ReadWithinWindow ==
    \A q \in Readers : rd[q].pc = "read" =>
        /\ rd[q].got \subseteq {x[2] : x \in {y \in rd[q].pairs : y[1] \in rd[q].roles}}
        /\ rd[q].todo = {} => {x[2] : x \in rd[q].sure} \subseteq rd[q].got

\* A set-roles callback that is under way or has failed half way never took
\* away a role that was held and is wanted, and never gave one that was
\* neither (handleWfSetRoles).  A creation under way has given exactly the
\* roles it is through with, whatever creations were refused or cut off
\* before it (handleWfCreate).  Both for one callback at a time.
PartialIsBetween ==
    \A p \in Handlers :
        /\ w[p].pc \in {"revoke", "assign"} =>
              /\ w[p].cur \cap w[p].want \subseteq Active
              /\ Active \subseteq w[p].cur \cup w[p].want
        /\ w[p].pc \in {"credential", "initial"} => Active = w[p].want \ w[p].todo

\* When the last callback that set the roles answered with success the user
\* holds exactly the roles it sent ("REPLACE-the-whole-set semantics").
ReplaceWholeSet ==
    (done # None /\ \A p \in Handlers : w[p].pc = "idle") => Active = done

=============================================================================
