---------------------------- MODULE AuditProofs ----------------------------
(***************************************************************************)
(* The audit trail, for any number of changes under way at once, with any  *)
(* failure, stop and crash.  What carries EventHasRow is that a task       *)
(* reaches the forwarder with its row inserted, and that a crash or a stop *)
(* ends tasks but moves none to the forwarder.                             *)
(***************************************************************************)
EXTENDS Audit, TLAPS

\* A task that is about to publish has its row.
AuditInv ==
    /\ DOMAIN stage = Changes /\ stage = [c \in Changes |-> stage[c]]
    /\ \A c \in Changes : stage[c] = "forward" => c \in rows
    /\ stream \subseteq rows

\* A task that goes on to any stage but the forwarder, with no event added,
\* keeps AuditInv.
LEMMA StageStep ==
    ASSUME AuditInv, NEW c \in Changes, NEW s, s # "forward",
           stage' = [stage EXCEPT ![c] = s], rows \subseteq rows', stream' = stream
    PROVE  AuditInv'
BY DEF AuditInv

\* Every event in the stream has its row, whatever fails and whenever the process
\* stops (Log inserts before it forwards, and nothing deletes a row).
THEOREM EventsHaveRows == Spec => []EventHasRow
<1>1. Init => AuditInv
  BY DEF Init, AuditInv
<1>2. AuditInv /\ [Next]_vars => AuditInv'
  <2> SUFFICES ASSUME AuditInv, [Next]_vars PROVE AuditInv'
    OBVIOUS
  <2>1. ASSUME NEW c \in Changes, Commit(c) \/ LogAsync(c) PROVE AuditInv'
    BY <2>1, StageStep DEF Commit, LogAsync
  <2>2. ASSUME NEW c \in Changes, Log(c) PROVE AuditInv'
    BY <2>2 DEF Log, AuditInv
  <2>3. ASSUME NEW c \in Changes, LogFails(c) PROVE AuditInv'
    <3>1. rows \subseteq rows'
      BY <2>3 DEF LogFails
    <3> QED BY <2>3, <3>1, StageStep DEF LogFails
  <2>4. ASSUME NEW c \in Changes, PublishStream(c) \/ PublishFails(c) PROVE AuditInv'
    <3>1. c \in rows /\ stream' \subseteq stream \cup {c}
      BY <2>4 DEF PublishStream, PublishFails, AuditInv
    <3>2. stage' = [stage EXCEPT ![c] = "ended"] /\ rows' = rows
      BY <2>4 DEF PublishStream, PublishFails
    <3> QED BY <3>1, <3>2 DEF AuditInv
  <2>5. CASE Exit \/ Crash
    BY <2>5 DEF Exit, Crash, Restart, Drop, AuditInv
  <2>6. CASE Stop \/ Shutdown \/ CloseNATS \/ CloseDB
    BY <2>6 DEF Stop, Shutdown, CloseNATS, CloseDB, AuditInv
  <2>7. CASE UNCHANGED vars
    BY <2>7 DEF vars, AuditInv
  <2> QED BY <2>1, <2>2, <2>3, <2>4, <2>5, <2>6, <2>7 DEF Next, Task
<1>3. AuditInv => EventHasRow
  BY DEF AuditInv, EventHasRow
<1> QED BY <1>1, <1>2, <1>3, PTL DEF Spec

=============================================================================
