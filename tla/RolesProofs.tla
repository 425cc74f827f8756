---------------------------- MODULE RolesProofs ----------------------------
(***************************************************************************)
(* What a decision reads while role callbacks run, for any number of       *)
(* callbacks, decisions, roles and permissions.                            *)
(*                                                                         *)
(* ReadWithinWindow is not inductive: it says nothing of the roles whose   *)
(* permissions are still to be read.  WindowInv adds, for each decision in *)
(* progress, that its history has kept up with the tables and that what    *)
(* the user held throughout was read already or belongs to a role that     *)
(* is still to be read.                                                    *)
(***************************************************************************)
EXTENDS Roles, TLAPS

\* A decision between GetUserRoles and its answer.
Reading(f) ==
    /\ Active \subseteq f.roles /\ Pairs \subseteq f.pairs
    /\ f.sure \subseteq Held /\ f.todo \subseteq f.roles
    /\ \A y \in f.got : \E x \in f.pairs : x[1] \in f.roles /\ x[2] = y
    /\ \A x \in f.sure : x[1] \in f.todo \/ x[2] \in f.got

WindowInv == TypeOK /\ \A q \in Readers : rd[q].pc = "read" => Reading(rd[q])

-----------------------------------------------------------------------------
(* Types.                                                                  *)

\* Idle and NoRead are records of their types.
LEMMA IdleTypes == Idle \in WriterRec /\ NoRead \in ReaderRec
BY DEF Idle, WriterRec, NoRead, ReaderRec

\* Observe keeps the types of the decisions, whatever is written.
LEMMA ObserveType ==
    ASSUME rd \in [Readers -> ReaderRec], Observe
    PROVE  rd' \in [Readers -> ReaderRec]
<1>1. Active' \subseteq Codes /\ Pairs' \subseteq Codes \X Perms
  BY DEF Active, Pairs
<1>2. SUFFICES ASSUME NEW q \in Readers PROVE rd'[q] \in ReaderRec
  BY DEF Observe
<1>3. rd[q] \in ReaderRec
  OBVIOUS
<1>4. CASE rd[q].pc = "idle"
  BY <1>3, <1>4 DEF Observe
<1>5. CASE rd[q].pc # "idle"
  <2>1. rd'[q] = [rd[q] EXCEPT !.sure = @ \cap Held', !.roles = @ \cup Active',
                               !.pairs = @ \cup Pairs']
    BY <1>5 DEF Observe
  <2>2. /\ rd[q].sure \cap Held' \in SUBSET (Codes \X Perms)
        /\ rd[q].roles \cup Active' \in SUBSET Codes
        /\ rd[q].pairs \cup Pairs' \in SUBSET (Codes \X Perms)
    BY <1>1, <1>3 DEF ReaderRec
  <2> QED BY <1>3, <2>1, <2>2 DEF ReaderRec
<1> QED BY <1>4, <1>5

\* A step of one callback replaces its record.
LEMMA WriterType ==
    ASSUME w \in [Handlers -> WriterRec], NEW p \in Handlers, NEW f \in WriterRec,
           w' = [w EXCEPT ![p] = f]
    PROVE  w' \in [Handlers -> WriterRec]
OBVIOUS

\* What the steps that write the tables of roles leave: a role that a row
\* refers to exists.
LEMMA TypeStep == ASSUME TypeOK, Next PROVE TypeOK'
<1> USE IdleTypes
<1>1. ASSUME NEW p \in Handlers, NEW rs \in SUBSET Codes, CreateUser(p, rs)
      PROVE  TypeOK'
  <2>1. [Idle EXCEPT !.pc = "credential", !.want = rs, !.todo = rs] \in WriterRec
    BY DEF Idle, WriterRec
  <2> QED BY <1>1, <2>1, ObserveType, WriterType DEF CreateUser, TypeOK
<1>2. ASSUME NEW p \in Handlers, NEW rs \in SUBSET Codes, SetRoles(p, rs)
      PROVE  TypeOK'
  <2>1. [Idle EXCEPT !.pc = "load", !.want = rs] \in WriterRec
    BY DEF Idle, WriterRec
  <2> QED BY <1>2, <2>1, WriterType DEF SetRoles, TypeOK
<1>3. ASSUME NEW p \in Handlers, NEW r \in Codes, NEW ps \in SUBSET Perms,
             CreateRole(p, r, ps) \/ SetPermissions(p, r, ps)
      PROVE  TypeOK'
  <2>1. [Idle EXCEPT !.pc = "clear", !.role = r, !.left = ps] \in WriterRec
    BY DEF Idle, WriterRec
  <2>2. w' \in [Handlers -> WriterRec]
    BY <1>3, <2>1, WriterType DEF CreateRole, SetPermissions, TypeOK
  <2>3. exists' \in [Codes -> BOOLEAN] /\ \A c \in Codes : exists[c] => exists'[c]
    BY <1>3 DEF CreateRole, SetPermissions, TypeOK
  <2> QED BY <1>3, <2>2, <2>3 DEF CreateRole, SetPermissions, TypeOK
<1>4. ASSUME NEW p \in Handlers, NEW r \in Codes, DeleteRole(p, r) PROVE TypeOK'
  BY <1>4 DEF DeleteRole, TypeOK
<1>5. ASSUME NEW p \in Handlers, WriterStep(p) PROVE TypeOK'
  <2> DEFINE f == w[p]
  <2>0. f \in WriterRec
    BY DEF TypeOK
  <2>1. CASE CreateCredential(p)
    <3>1. [f EXCEPT !.pc = "initial"] \in WriterRec
      BY <2>0 DEF WriterRec
    <3> QED BY <2>1, <3>1, WriterType DEF CreateCredential, TypeOK
  <2>2. ASSUME NEW r \in Codes, AssignRole(p, r) PROVE TypeOK'
    <3>1. [f EXCEPT !.todo = @ \ {r}] \in WriterRec
      BY <2>0 DEF WriterRec
    <3>2. w' \in [Handlers -> WriterRec]
      BY <2>2, <3>1, WriterType DEF AssignRole, Fail, TypeOK
    <3> QED BY <2>2, <3>2, ObserveType DEF AssignRole, CanInsert, TypeOK
  <2>3. CASE Answer(p)
    <3>1. f.want \subseteq Codes
      BY <2>0 DEF WriterRec
    <3> QED BY <2>3, <3>1, WriterType DEF Answer, TypeOK
  <2>4. CASE LoadRoles(p)
    <3>1. [f EXCEPT !.pc = "revoke", !.cur = Active, !.todo = Active \ f.want]
              \in WriterRec
      BY <2>0 DEF WriterRec, Active
    <3> QED BY <2>4, <3>1, WriterType DEF LoadRoles, TypeOK
  <2>5. CASE RevokeRoles(p)
    <3>1. \A r : [f EXCEPT !.todo = @ \ {r}] \in WriterRec
      BY <2>0 DEF WriterRec
    <3>2. [f EXCEPT !.pc = "assign", !.todo = f.want \ f.cur] \in WriterRec
      BY <2>0 DEF WriterRec
    <3>3. w' \in [Handlers -> WriterRec]
      BY <2>5, <3>1, <3>2, WriterType DEF RevokeRoles, TypeOK
    <3>4. /\ grant' \in [Codes -> {"none", "active", "revoked"}]
          /\ \A r \in Codes : grant'[r] # "none" => grant[r] # "none"
      BY <2>5 DEF RevokeRoles, TypeOK
    <3> QED BY <2>5, <3>3, <3>4, ObserveType DEF RevokeRoles, TypeOK
  <2>6. CASE DeleteByRole(p)
    <3>1. [f EXCEPT !.pc = "insert"] \in WriterRec
      BY <2>0 DEF WriterRec
    <3> QED BY <2>6, <3>1, ObserveType, WriterType DEF DeleteByRole, TypeOK
  <2>7. CASE AssignPermissions(p)
    <3>1. \A x : [f EXCEPT !.left = @ \ {x}] \in WriterRec
      BY <2>0 DEF WriterRec
    <3>2. w' \in [Handlers -> WriterRec]
      BY <2>7, <3>1, WriterType DEF AssignPermissions, Fail, TypeOK
    <3>3. f.left \subseteq Perms
      BY <2>0 DEF WriterRec
    <3>4. /\ perms' \in [Codes -> SUBSET Perms]
          /\ \A r \in Codes : perms'[r] # {} => perms[r] # {} \/ exists[r]
      BY <2>7, <3>3 DEF AssignPermissions, TypeOK
    <3> QED BY <2>7, <3>2, <3>4, ObserveType DEF AssignPermissions, TypeOK
  <2>8. CASE CallbackFails(p)
    BY <2>8, WriterType DEF CallbackFails, Fail, TypeOK
  <2> QED BY <1>5, <2>1, <2>2, <2>3, <2>4, <2>5, <2>6, <2>7, <2>8 DEF WriterStep
<1>6. ASSUME NEW q \in Readers, GetUserRoles(q) \/ Decide(q) PROVE TypeOK'
  <2>1. [pc |-> "read", todo |-> Active, got |-> {}, sure |-> Held,
         roles |-> Active, pairs |-> Pairs] \in ReaderRec
    BY DEF ReaderRec, Active, Held, Pairs
  <2> QED BY <1>6, <2>1 DEF GetUserRoles, Decide, TypeOK
<1>7. ASSUME NEW q \in Readers, NEW r \in Codes, GetPermissions(q, r) PROVE TypeOK'
  <2>1. rd[q] \in ReaderRec /\ perms[r] \subseteq Perms
    BY DEF TypeOK
  <2>2. [rd[q] EXCEPT !.got = @ \cup perms[r], !.todo = @ \ {r}] \in ReaderRec
    BY <2>1 DEF ReaderRec
  <2> QED BY <1>7, <2>2 DEF GetPermissions, TypeOK
<1> QED BY <1>1, <1>2, <1>3, <1>4, <1>5, <1>6, <1>7 DEF Next

-----------------------------------------------------------------------------
(* The window of a decision.                                               *)

\* Whatever a callback writes, the decisions in progress stay within their
\* windows: Observe is all that the argument needs to know of the write.
LEMMA ObserveWindow ==
    ASSUME WindowInv, Observe, NEW q \in Readers, rd'[q].pc = "read"
    PROVE  Reading(rd[q])'
<1>1. rd[q] \in ReaderRec
  BY DEF WindowInv, TypeOK
<1>2. rd[q].pc # "idle"
  BY <1>1 DEF Observe, ReaderRec
<1>3. Reading(rd[q])
  BY <1>1, <1>2 DEF WindowInv, ReaderRec
<1>4. rd'[q] = [rd[q] EXCEPT !.sure = @ \cap Held', !.roles = @ \cup Active',
                             !.pairs = @ \cup Pairs']
  BY <1>2 DEF Observe
<1>5. /\ rd'[q].sure = rd[q].sure \cap Held'
      /\ rd'[q].roles = rd[q].roles \cup Active'
      /\ rd'[q].pairs = rd[q].pairs \cup Pairs'
      /\ rd'[q].todo = rd[q].todo /\ rd'[q].got = rd[q].got
  BY <1>1, <1>4 DEF ReaderRec
<1> QED BY <1>3, <1>5 DEF Reading

\* A step that writes neither table and touches no decision.
LEMMA QuietWindow ==
    ASSUME WindowInv, UNCHANGED <<grant, perms, rd>>, NEW q \in Readers,
           rd'[q].pc = "read"
    PROVE  Reading(rd[q])'
BY DEF WindowInv, Reading, Active, Pairs, Held

\* A decision begins with what the tables say.
LEMMA BeginWindow ==
    ASSUME WindowInv, NEW r \in Readers, GetUserRoles(r), NEW q \in Readers,
           rd'[q].pc = "read"
    PROVE  Reading(rd[q])'
<1>1. Active' = Active /\ Pairs' = Pairs /\ Held' = Held
  BY DEF GetUserRoles, Active, Pairs, Held
<1>2. CASE q = r
  <2>1. rd'[q] = [pc |-> "read", todo |-> Active, got |-> {}, sure |-> Held,
                  roles |-> Active, pairs |-> Pairs]
    BY <1>2 DEF GetUserRoles, WindowInv, TypeOK
  <2>2. \A x \in Held : x[1] \in Active
    BY DEF Held
  <2> QED BY <1>1, <2>1, <2>2 DEF Reading
<1>3. CASE q # r
  <2>1. rd'[q] = rd[q]
    BY <1>3 DEF GetUserRoles, WindowInv, TypeOK
  <2> QED BY <1>1, <2>1 DEF WindowInv, Reading
<1> QED BY <1>2, <1>3

\* The permissions of one role are read.
LEMMA ReadWindow ==
    ASSUME WindowInv, NEW r \in Readers, NEW c \in Codes, GetPermissions(r, c),
           NEW q \in Readers, rd'[q].pc = "read"
    PROVE  Reading(rd[q])'
<1>1. Active' = Active /\ Pairs' = Pairs /\ Held' = Held
  BY DEF GetPermissions, Active, Pairs, Held
<1>2. CASE q = r
  <2>1. rd[q] \in ReaderRec /\ perms[c] \subseteq Perms /\ c \in rd[q].todo
    BY <1>2 DEF GetPermissions, WindowInv, TypeOK
  <2>2. rd'[q] = [rd[q] EXCEPT !.got = @ \cup perms[c], !.todo = @ \ {c}]
    BY <1>2 DEF GetPermissions, WindowInv, TypeOK
  <2>3. /\ rd'[q].got = rd[q].got \cup perms[c] /\ rd'[q].todo = rd[q].todo \ {c}
        /\ rd'[q].sure = rd[q].sure /\ rd'[q].roles = rd[q].roles
        /\ rd'[q].pairs = rd[q].pairs
    BY <2>1, <2>2 DEF ReaderRec
  <2>4. Reading(rd[q])
    BY <1>2 DEF GetPermissions, WindowInv
  <2>5. ASSUME NEW y \in perms[c]
        PROVE  \E x \in rd[q].pairs : x[1] \in rd[q].roles /\ x[2] = y
    <3>1. <<c, y>> \in Pairs
      BY <2>1 DEF Pairs
    <3>2. <<c, y>> \in rd[q].pairs /\ c \in rd[q].roles
      BY <2>1, <2>4, <3>1 DEF Reading
    <3> QED BY <3>2
  <2>6. ASSUME NEW x \in rd[q].sure, x[1] = c PROVE x[2] \in perms[c]
    BY <2>4, <2>6 DEF Reading, Held, Pairs
  <2> QED BY <1>1, <2>3, <2>4, <2>5, <2>6 DEF Reading
<1>3. CASE q # r
  <2>1. rd'[q] = rd[q]
    BY <1>3 DEF GetPermissions, WindowInv, TypeOK
  <2> QED BY <1>1, <2>1 DEF WindowInv, Reading
<1> QED BY <1>2, <1>3

\* A decision ends; the others go on.
LEMMA EndWindow ==
    ASSUME WindowInv, NEW r \in Readers, Decide(r), NEW q \in Readers,
           rd'[q].pc = "read"
    PROVE  Reading(rd[q])'
<1>1. Active' = Active /\ Pairs' = Pairs /\ Held' = Held
  BY DEF Decide, Active, Pairs, Held
<1>2. q # r
  BY DEF Decide, NoRead, WindowInv, TypeOK
<1>3. rd'[q] = rd[q]
  BY <1>2 DEF Decide, WindowInv, TypeOK
<1> QED BY <1>1, <1>3 DEF WindowInv, Reading

\* Every step keeps the strengthened invariant.
LEMMA WindowStep == ASSUME WindowInv, [Next]_vars PROVE WindowInv'
<1>1. CASE Next
  <2>1. TypeOK'
    BY <1>1, TypeStep DEF WindowInv
  <2>2. ASSUME NEW q \in Readers, rd'[q].pc = "read" PROVE Reading(rd[q])'
    <3>1. ASSUME NEW p \in Handlers, NEW rs \in SUBSET Codes,
                 CreateUser(p, rs) \/ SetRoles(p, rs)
          PROVE  Reading(rd[q])'
      BY <2>2, <3>1, ObserveWindow, QuietWindow DEF CreateUser, SetRoles
    <3>2. ASSUME NEW p \in Handlers, NEW r \in Codes, NEW ps \in SUBSET Perms,
                 CreateRole(p, r, ps) \/ SetPermissions(p, r, ps)
          PROVE  Reading(rd[q])'
      BY <2>2, <3>2, QuietWindow DEF CreateRole, SetPermissions
    <3>3. ASSUME NEW p \in Handlers, NEW r \in Codes, DeleteRole(p, r)
          PROVE  Reading(rd[q])'
      BY <2>2, <3>3, QuietWindow DEF DeleteRole
    <3>4. ASSUME NEW p \in Handlers, WriterStep(p) PROVE Reading(rd[q])'
      <4>1. Observe \/ UNCHANGED <<grant, perms, rd>>
        BY <3>4 DEF WriterStep, CreateCredential, AssignRole, Answer, LoadRoles,
                    RevokeRoles, DeleteByRole, AssignPermissions, CallbackFails
      <4> QED BY <2>2, <4>1, ObserveWindow, QuietWindow
    <3>5. ASSUME NEW r \in Readers,
                 \/ GetUserRoles(r)
                 \/ \E c \in Codes : GetPermissions(r, c)
                 \/ Decide(r)
          PROVE  Reading(rd[q])'
      BY <2>2, <3>5, BeginWindow, ReadWindow, EndWindow
    <3> QED BY <1>1, <3>1, <3>2, <3>3, <3>4, <3>5 DEF Next
  <2> QED BY <2>1, <2>2 DEF WindowInv
<1>2. CASE UNCHANGED vars
  BY <1>2 DEF WindowInv, TypeOK, Reading, Active, Pairs, Held, vars
<1> QED BY <1>1, <1>2

\* The initial state: no decision is in progress.
LEMMA WindowInit == ASSUME Init PROVE WindowInv
<1>1. TypeOK
  BY IdleTypes DEF Init, TypeOK
<1>2. \A q \in Readers : rd[q].pc = "idle"
  BY DEF Init, NoRead
<1> QED BY <1>1, <1>2 DEF WindowInv

\* Whatever role callbacks run meanwhile and wherever they fail, a decision
\* finds every permission the user held throughout by one role and none from
\* outside its window (ResolveAuthContext).
THEOREM DecisionWindow == Spec => []ReadWithinWindow
<1>1. Init => WindowInv
  BY WindowInit
<1>2. WindowInv /\ [Next]_vars => WindowInv'
  BY WindowStep
<1>3. WindowInv => ReadWithinWindow
  <2>1. SUFFICES ASSUME WindowInv, NEW q \in Readers, rd[q].pc = "read"
                 PROVE  /\ \A y \in rd[q].got : \E x \in rd[q].pairs :
                                                   x[1] \in rd[q].roles /\ x[2] = y
                        /\ rd[q].todo = {} => \A x \in rd[q].sure : x[2] \in rd[q].got
    BY DEF ReadWithinWindow
  <2> QED BY <2>1 DEF WindowInv, Reading
<1> QED BY <1>1, <1>2, <1>3, PTL DEF Spec

\* A role that a grant, revoked or not, or a permission refers to exists, and
\* the tables keep their shapes (the foreign keys of user_roles and
\* role_permissions).
THEOREM RolesTypes == Spec => []TypeOK
<1>1. Init => WindowInv
  BY WindowInit
<1>2. WindowInv /\ [Next]_vars => WindowInv'
  BY WindowStep
<1>3. WindowInv => TypeOK
  BY DEF WindowInv
<1> QED BY <1>1, <1>2, <1>3, PTL DEF Spec

=============================================================================
