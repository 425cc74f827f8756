-------------------------- MODULE PolicyCacheProofs ------------------------
(***************************************************************************)
(* How old a cached value of the operational hours can be, for any number  *)
(* of evaluations, organisations and branches, any TTL and any latency.    *)
(*                                                                         *)
(* BoundedStaleness speaks of values that were replaced.  To be inductive  *)
(* it has to hold of current ones too, for which the time since their      *)
(* replacement is zero, and it needs the order of versions: what is fetched *)
(* or cached is no newer than what policy7 has.  The order of an entry and *)
(* of the events handled needs, besides, that an entry is no older than    *)
(* the last event handled when its fetch began.                            *)
(***************************************************************************)
EXTENDS PolicyCache, TLAPS

\* Time left and time since replacement never add up to more than this.
EntryOK(k) ==
    /\ cache[k].val <= param[k[1]].ver
    /\ since[k[1]][cache[k].val] + cache[k].left <= TTL + Latency
ReaderOK(f) ==
    /\ f.pc # "idle" => f.org \in Orgs /\ f.branch \in Branches
    /\ f.pc = "set" => f.val <= param[f.org].ver /\ since[f.org][f.val] <= f.age

AgeInv ==
    /\ TypeOK
    /\ \A o \in Orgs, v \in Versions : v >= param[o].ver => since[o][v] = 0
    /\ \A k \in Keys : Live(k) => EntryOK(k)
    /\ \A r \in Readers : ReaderOK(reader[r])

-----------------------------------------------------------------------------
(* Types.                                                                  *)

\* Constants.
LEMMA Numbers ==
    ASSUME PolicyCacheAssumption
    PROVE  /\ TTL \in Nat /\ TTL > 0 /\ Latency \in Nat /\ MaxVer \in Nat /\ MaxVer > 0
           /\ Ancient \in Nat /\ Versions \subseteq Nat /\ 0 \in Versions
BY DEF PolicyCacheAssumption, Ancient, Versions

\* The records that stand for no entry and no evaluation have their types.
LEMMA EmptyTypes == ASSUME PolicyCacheAssumption PROVE Absent \in Entry /\ Idle \in ReaderRec
BY Numbers DEF Absent, Entry, Idle, ReaderRec, Versions

\* Every step keeps the types.
LEMMA TypeStep == ASSUME PolicyCacheAssumption, AgeInv, Next PROVE TypeOK'
<1> USE Numbers, EmptyTypes
<1>0. TypeOK
  BY DEF AgeInv
<1> USE <1>0
<1>1. CASE Tick
  <2>1. since' \in [Orgs -> [Versions -> 0..Ancient]]
    <3>1. SUFFICES ASSUME NEW o \in Orgs, NEW v \in Versions
                   PROVE  (IF v < param[o].ver /\ since[o][v] < Ancient
                           THEN since[o][v] + 1 ELSE since[o][v]) \in 0..Ancient
      BY <1>1 DEF Tick
    <3>2. since[o][v] \in 0..Ancient
      BY DEF TypeOK
    <3> QED BY <3>2
  <2>2. cache' \in [Keys -> Entry]
    <3>1. SUFFICES ASSUME NEW k \in Keys, Live(k)
                   PROVE  [cache[k] EXCEPT !.left = @ - 1] \in Entry
      BY <1>1 DEF Tick, TypeOK
    <3>2. cache[k] \in Entry /\ cache[k].left - 1 \in 0..TTL
      BY <3>1 DEF TypeOK, Entry, Live
    <3> QED BY <3>2 DEF Entry
  <2>3. reader' \in [Readers -> ReaderRec]
    <3>1. SUFFICES ASSUME NEW r \in Readers, reader[r].pc # "idle"
                   PROVE  [reader[r] EXCEPT !.age = @ + 1] \in ReaderRec
      BY <1>1 DEF Tick, TypeOK
    <3>2. reader[r] \in ReaderRec /\ reader[r].age + 1 \in 0..Latency
      BY <1>1, <3>1 DEF Tick, TypeOK, ReaderRec
    <3> QED BY <3>2 DEF ReaderRec
  <2> QED BY <1>1, <2>1, <2>2, <2>3 DEF Tick, TypeOK
<1>2. CASE Cleanup
  BY <1>2 DEF Cleanup, TypeOK
<1>3. ASSUME NEW o \in Orgs, NEW exists \in BOOLEAN, ChangeParam(o, exists)
      PROVE  TypeOK'
  <2>1. param[o].ver \in Versions /\ param[o].ver + 1 \in Versions
    BY <1>3 DEF ChangeParam, TypeOK, Versions
  <2>2. param' \in [Orgs -> [ver : Versions, exists : BOOLEAN]]
    BY <1>3, <2>1 DEF ChangeParam, TypeOK
  <2>3. since' \in [Orgs -> [Versions -> 0..Ancient]]
    BY <1>3, <2>1 DEF ChangeParam, TypeOK
  <2>4. events' \subseteq [org : Orgs, ver : Versions, deleted : BOOLEAN]
    <3>1. (~exists) \in BOOLEAN
      OBVIOUS
    <3>2. [org |-> o, ver |-> param[o].ver + 1, deleted |-> ~exists]
              \in [org : Orgs, ver : Versions, deleted : BOOLEAN]
      BY ZenonT(30), <2>1, <3>1
    <3>3. events' = events \cup {[org |-> o, ver |-> param[o].ver + 1, deleted |-> ~exists]}
      BY <1>3 DEF ChangeParam
    <3> QED BY ZenonT(30), <3>2, <3>3 DEF TypeOK
  <2> QED BY <1>3, <2>2, <2>3, <2>4 DEF ChangeParam, TypeOK
<1>4. ASSUME NEW e \in events, Deliver(e) \/ LoseEvent(e) PROVE TypeOK'
  <2>1. e.org \in Orgs /\ e.ver \in Versions
    BY DEF TypeOK
  <2>2. Handled(e) \in [Orgs -> Versions]
    BY <2>1 DEF Handled, TypeOK
  <2>3. Invalidated(e.org) \in [Keys -> Entry]
    BY DEF Invalidated, TypeOK
  <2> QED BY <1>4, <2>2, <2>3 DEF Deliver, HandleParamUpdated, HandleParamDeleted,
                                  LoseEvent, TypeOK
<1>5. ASSUME NEW r \in Readers, NEW o \in Orgs, NEW b \in Branches, Miss(r, o, b)
      PROVE  TypeOK'
  <2>1. [pc |-> "fetch", org |-> o, branch |-> b, val |-> 0, before |-> handled[o],
         age |-> 0] \in ReaderRec
    BY DEF ReaderRec, TypeOK
  <2> QED BY <1>5, <2>1 DEF Miss, TypeOK
<1>6. ASSUME NEW r \in Readers, ReaderStep(r) PROVE TypeOK'
  <2>1. reader[r] \in ReaderRec /\ ReaderOK(reader[r])
    BY DEF AgeInv, TypeOK
  <2>2. CASE Fetch(r)
    <3>1. param[reader[r].org].ver \in Versions
      BY <2>1, <2>2 DEF Fetch, ReaderOK, TypeOK
    <3>2. [reader[r] EXCEPT !.pc = "set", !.val = param[reader[r].org].ver] \in ReaderRec
      BY <2>1, <3>1 DEF ReaderRec
    <3> QED BY <2>2, <3>2 DEF Fetch, TypeOK
  <2>3. CASE FetchFails(r)
    BY <2>3 DEF FetchFails, TypeOK
  <2>4. CASE Set(r)
    <3>1. handled[reader[r].org] \in Versions
      BY <2>1, <2>4 DEF Set, ReaderOK, TypeOK
    <3>2. [val |-> reader[r].val, left |-> TTL, before |-> reader[r].before,
           after |-> handled[reader[r].org]] \in Entry
      BY <2>1, <3>1 DEF ReaderRec, Entry
    <3> QED BY <2>4, <3>2 DEF Set, TypeOK
  <2> QED BY <1>6, <2>2, <2>3, <2>4 DEF ReaderStep
<1> QED BY <1>1, <1>2, <1>3, <1>4, <1>5, <1>6 DEF Next

-----------------------------------------------------------------------------
(* Ages.                                                                   *)

\* Time: what is left shrinks by what is added since the replacement.
LEMMA TickAges == ASSUME PolicyCacheAssumption, AgeInv, Tick, TypeOK' PROVE AgeInv'
<1> USE Numbers
<1>1. param' = param /\ TypeOK
  BY DEF Tick, AgeInv
<1>2. ASSUME NEW o \in Orgs, NEW v \in Versions
      PROVE  /\ since[o][v] \in 0..Ancient /\ since'[o][v] \in 0..Ancient
             /\ since'[o][v] <= since[o][v] + 1
             /\ v >= param[o].ver => since'[o][v] = since[o][v]
  <2>1. since'[o][v] = IF v < param[o].ver /\ since[o][v] < Ancient
                       THEN since[o][v] + 1 ELSE since[o][v]
    BY DEF Tick
  <2>2. since[o][v] \in 0..Ancient /\ param[o].ver \in Nat
    BY <1>1 DEF TypeOK
  <2> QED BY <2>1, <2>2
<1>3. ASSUME NEW k \in Keys, Live(k)' PROVE EntryOK(k)'
  <2>1. cache[k] \in Entry /\ k[1] \in Orgs
    BY <1>1 DEF TypeOK, Keys
  <2>2. Live(k)
    BY <1>3, <2>1 DEF Tick, Live, TypeOK, Entry
  <2>3. cache'[k].val = cache[k].val /\ cache'[k].left = cache[k].left - 1
    BY <2>1, <2>2 DEF Tick, Entry
  <2>4. EntryOK(k) /\ cache[k].val \in Versions /\ cache[k].left \in Nat
    BY <2>1, <2>2 DEF AgeInv, Entry
  <2>5. since'[k[1]][cache[k].val] <= since[k[1]][cache[k].val] + 1
    BY <1>2, <2>1, <2>4
  <2>6. since[k[1]][cache[k].val] \in Nat /\ since'[k[1]][cache[k].val] \in Nat
    BY <1>2, <2>1, <2>4
  <2> QED BY <1>1, <2>3, <2>4, <2>5, <2>6 DEF EntryOK
<1>4. ASSUME NEW r \in Readers PROVE ReaderOK(reader[r])'
  <2>1. reader[r] \in ReaderRec /\ ReaderOK(reader[r])
    BY <1>1 DEF AgeInv, TypeOK
  <2>2. CASE reader[r].pc = "idle"
    BY <2>1, <2>2 DEF Tick, ReaderOK
  <2>3. CASE reader[r].pc # "idle"
    <3>1. reader'[r] = [reader[r] EXCEPT !.age = @ + 1]
      BY <2>3 DEF Tick
    <3>2. /\ reader'[r].pc = reader[r].pc /\ reader'[r].org = reader[r].org
          /\ reader'[r].branch = reader[r].branch /\ reader'[r].val = reader[r].val
          /\ reader'[r].age = reader[r].age + 1 /\ reader[r].age \in Nat
          /\ reader[r].val \in Versions
      BY <2>1, <3>1 DEF ReaderRec
    <3>3. CASE reader[r].pc = "set"
      <4>1. /\ since'[reader[r].org][reader[r].val] <= since[reader[r].org][reader[r].val] + 1
            /\ since[reader[r].org][reader[r].val] \in Nat
            /\ since'[reader[r].org][reader[r].val] \in Nat
        BY <1>2, <2>1, <3>2, <3>3 DEF ReaderOK
      <4> QED BY <1>1, <2>1, <3>2, <3>3, <4>1 DEF ReaderOK
    <3>4. CASE reader[r].pc # "set"
      BY <2>1, <3>2, <3>4 DEF ReaderOK
    <3> QED BY <3>3, <3>4
  <2> QED BY <2>2, <2>3
<1>5. \A o \in Orgs, v \in Versions : v >= param'[o].ver => since'[o][v] = 0
  BY <1>1, <1>2 DEF AgeInv
<1> QED BY <1>3, <1>4, <1>5 DEF AgeInv

\* A change of the parameter starts the clock of the version it replaces.
LEMMA ChangeAges ==
    ASSUME PolicyCacheAssumption, AgeInv, NEW o \in Orgs, NEW exists \in BOOLEAN,
           ChangeParam(o, exists), TypeOK'
    PROVE  AgeInv'
<1> USE Numbers
<1>1. TypeOK /\ cache' = cache /\ reader' = reader
  BY DEF AgeInv, ChangeParam
<1>2. \A q \in Orgs : param[q].ver \in Nat /\ param'[q].ver \in Nat
                      /\ param[q].ver <= param'[q].ver
  BY <1>1 DEF ChangeParam, TypeOK
<1>3. param[o].ver \in Versions /\ since[o][param[o].ver] = 0
  BY <1>1, <1>2 DEF AgeInv, TypeOK
<1>4. \A q \in Orgs, v \in Versions : since'[q][v] = since[q][v]
  BY <1>1, <1>3 DEF ChangeParam, TypeOK
<1>5. ASSUME NEW k \in Keys, Live(k)' PROVE EntryOK(k)'
  <2>1. cache[k] \in Entry /\ k[1] \in Orgs
    BY <1>1 DEF TypeOK, Keys
  <2>2. EntryOK(k) /\ cache[k].val \in Versions
    BY <1>1, <1>5, <2>1 DEF AgeInv, Live, Entry
  <2> QED BY <1>1, <1>2, <1>4, <2>1, <2>2 DEF EntryOK
<1>6. ASSUME NEW r \in Readers PROVE ReaderOK(reader[r])'
  <2>1. reader[r] \in ReaderRec /\ ReaderOK(reader[r])
    BY <1>1 DEF AgeInv, TypeOK
  <2>2. reader[r].val \in Versions
    BY <2>1 DEF ReaderRec
  <2> QED BY <1>1, <1>2, <1>4, <2>1, <2>2 DEF ReaderOK
<1>7. \A q \in Orgs, v \in Versions : v >= param'[q].ver => since'[q][v] = 0
  BY <1>2, <1>4 DEF AgeInv
<1> QED BY <1>5, <1>6, <1>7 DEF AgeInv

\* Entries vanish: an event is handled, or the cache is cleaned.
LEMMA DropAges ==
    ASSUME PolicyCacheAssumption, AgeInv, TypeOK', UNCHANGED <<param, since, reader>>,
           \A k \in Keys : cache'[k] = cache[k] \/ cache'[k] = Absent
    PROVE  AgeInv'
<1>1. ASSUME NEW k \in Keys, Live(k)' PROVE EntryOK(k)'
  <2>1. cache'[k] = cache[k]
    BY <1>1 DEF Live, Absent
  <2> QED BY <1>1, <2>1 DEF AgeInv, Live, EntryOK
<1> QED BY <1>1 DEF AgeInv, ReaderOK

\* An evaluation misses, fetches, or gives up.
LEMMA FetchAges ==
    ASSUME PolicyCacheAssumption, AgeInv, NEW r \in Readers, TypeOK',
           \/ \E o \in Orgs, b \in Branches : Miss(r, o, b)
           \/ Fetch(r)
           \/ FetchFails(r)
    PROVE  AgeInv'
<1> USE Numbers
<1>1. TypeOK /\ UNCHANGED <<param, since, cache>>
  BY DEF AgeInv, Miss, Fetch, FetchFails
<1>2. ASSUME NEW q \in Readers PROVE ReaderOK(reader[q])'
  <2>1. CASE q # r
    <3>1. reader'[q] = reader[q]
      BY <1>1, <2>1 DEF Miss, Fetch, FetchFails, TypeOK
    <3> QED BY <1>1, <3>1 DEF AgeInv, ReaderOK
  <2>2. CASE q = r /\ Fetch(r)
    <3>1. reader[r] \in ReaderRec /\ ReaderOK(reader[r]) /\ reader[r].pc = "fetch"
      BY <1>1, <2>2 DEF AgeInv, TypeOK, Fetch
    <3>2. reader'[r] = [reader[r] EXCEPT !.pc = "set", !.val = param[reader[r].org].ver]
      BY <1>1, <2>2 DEF Fetch, TypeOK
    <3>3. /\ reader'[r].pc = "set" /\ reader'[r].org = reader[r].org
          /\ reader'[r].branch = reader[r].branch /\ reader'[r].age = reader[r].age
          /\ reader'[r].val = param[reader[r].org].ver /\ reader[r].age \in Nat
      BY <3>1, <3>2 DEF ReaderRec
    <3>4. /\ reader[r].org \in Orgs /\ reader[r].branch \in Branches
          /\ param[reader[r].org].ver \in Versions
      BY <1>1, <3>1 DEF ReaderOK, TypeOK
    <3>5. since[reader[r].org][param[reader[r].org].ver] = 0
      BY <3>4 DEF AgeInv
    <3> QED BY <1>1, <2>2, <3>3, <3>4, <3>5 DEF ReaderOK
  <2>3. CASE q = r /\ (FetchFails(r) \/ \E o \in Orgs, b \in Branches : Miss(r, o, b))
    <3>1. CASE FetchFails(r)
      BY <1>1, <2>3, <3>1 DEF FetchFails, ReaderOK, TypeOK, Idle
    <3>2. ASSUME NEW o \in Orgs, NEW b \in Branches, Miss(r, o, b)
          PROVE  ReaderOK(reader[q])'
      <4>1. reader'[r] = [pc |-> "fetch", org |-> o, branch |-> b, val |-> 0,
                          before |-> handled[o], age |-> 0]
        BY <1>1, <3>2 DEF Miss, TypeOK
      <4> QED BY <2>3, <4>1 DEF ReaderOK
    <3> QED BY <2>3, <3>1, <3>2
  <2> QED BY <2>1, <2>2, <2>3
<1> QED BY <1>1, <1>2 DEF AgeInv, Live, EntryOK

\* Cache.Set: a value that took its evaluation at most Latency.
LEMMA SetAges ==
    ASSUME PolicyCacheAssumption, AgeInv, NEW r \in Readers, Set(r), TypeOK'
    PROVE  AgeInv'
<1> USE Numbers
<1> DEFINE k == <<reader[r].org, reader[r].branch>>
<1>1. TypeOK /\ UNCHANGED <<param, since>>
  BY DEF AgeInv, Set
<1>2. reader[r] \in ReaderRec /\ ReaderOK(reader[r]) /\ reader[r].pc = "set"
  BY <1>1 DEF AgeInv, TypeOK, Set
<1>3. k \in Keys /\ k[1] = reader[r].org
  BY <1>2 DEF ReaderOK, Keys
<1>4. ASSUME NEW j \in Keys, Live(j)' PROVE EntryOK(j)'
  <2>1. CASE j = k
    <3>1. cache'[j].val = reader[r].val /\ cache'[j].left = TTL
      BY <1>1, <1>3, <2>1 DEF Set, TypeOK
    <3>2. reader[r].age \in 0..Latency /\ reader[r].val \in Versions
      BY <1>2 DEF ReaderRec
    <3>3. since[reader[r].org][reader[r].val] \in Nat
      BY <1>1, <1>2, <3>2 DEF TypeOK, ReaderOK
    <3> QED BY <1>1, <1>2, <1>3, <2>1, <3>1, <3>2, <3>3 DEF ReaderOK, EntryOK
  <2>2. CASE j # k
    <3>1. cache'[j] = cache[j]
      BY <1>1, <2>2 DEF Set, TypeOK
    <3> QED BY <1>1, <1>4, <3>1 DEF AgeInv, Live, EntryOK
  <2> QED BY <2>1, <2>2
<1>5. ASSUME NEW q \in Readers PROVE ReaderOK(reader[q])'
  BY <1>1 DEF AgeInv, Set, ReaderOK, Idle, TypeOK
<1> QED BY <1>1, <1>4, <1>5 DEF AgeInv

\* Every step keeps the ages in order.
LEMMA AgeStep == ASSUME PolicyCacheAssumption, AgeInv, [Next]_vars PROVE AgeInv'
<1>1. CASE Next
  <2>0. TypeOK'
    BY <1>1, TypeStep
  <2>1. CASE Tick
    BY <2>0, <2>1, TickAges
  <2>2. CASE Cleanup
    BY <2>0, <2>2, DropAges DEF Cleanup
  <2>3. ASSUME NEW e \in events, Deliver(e) \/ LoseEvent(e) PROVE AgeInv'
    <3>1. \A k \in Keys : cache'[k] = cache[k] \/ cache'[k] = Absent
      BY <2>3 DEF Deliver, HandleParamUpdated, HandleParamDeleted, LoseEvent, Invalidated
    <3>2. UNCHANGED <<param, since, reader>>
      BY <2>3 DEF Deliver, HandleParamUpdated, HandleParamDeleted, LoseEvent
    <3> QED BY <2>0, <3>1, <3>2, DropAges
  <2>4. ASSUME NEW o \in Orgs, NEW exists \in BOOLEAN, ChangeParam(o, exists) PROVE AgeInv'
    BY <2>0, <2>4, ChangeAges
  <2>5. ASSUME NEW r \in Readers,
               (\E o \in Orgs, b \in Branches : Miss(r, o, b)) \/ ReaderStep(r)
        PROVE  AgeInv'
    BY <2>0, <2>5, FetchAges, SetAges DEF ReaderStep
  <2> QED BY <1>1, <2>1, <2>2, <2>3, <2>4, <2>5 DEF Next
<1>2. CASE UNCHANGED vars
  BY <1>2 DEF AgeInv, TypeOK, Live, EntryOK, ReaderOK, vars
<1> QED BY <1>1, <1>2

\* The cache starts empty.
LEMMA AgeInit == ASSUME PolicyCacheAssumption, Init PROVE AgeInv
<1> USE Numbers, EmptyTypes
<1>1. TypeOK
  BY DEF Init, TypeOK, Versions, Ancient
<1> QED BY <1>1 DEF AgeInv, Init, Live, Absent, ReaderOK, Idle

\* Whatever becomes of the events, a value is used at most TTL plus one fetch
\* after policy7 replaced it (Cache.Get and Cache.Set with their expiry).
THEOREM StalenessBounded ==
    ASSUME PolicyCacheAssumption PROVE Spec => []BoundedStaleness
<1>1. Init => AgeInv
  BY AgeInit
<1>2. AgeInv /\ [Next]_vars => AgeInv'
  BY AgeStep
<1>3. AgeInv => BoundedStaleness
  BY DEF AgeInv, BoundedStaleness, EntryOK, ReaderOK
<1> QED BY <1>1, <1>2, <1>3, PTL DEF Spec

-----------------------------------------------------------------------------
(* Entries and events.                                                     *)

\* Versions and events stay in order, and no live entry is behind an event
\* that was handled after it was set.
EventInv ==
    /\ AgeInv
    /\ \A e \in events : e.ver <= param[e.org].ver
    /\ \A o \in Orgs : handled[o] <= param[o].ver
    /\ \A r \in Readers :
          /\ reader[r].pc # "idle" => reader[r].before <= handled[reader[r].org]
          /\ reader[r].pc = "set" => reader[r].before <= reader[r].val
    /\ \A k \in Keys : Live(k) => /\ cache[k].before <= cache[k].val
                                  /\ cache[k].after = handled[k[1]]

\* The types that the steps below compare.
LEMMA EventTypes ==
    ASSUME PolicyCacheAssumption, EventInv
    PROVE  /\ TypeOK /\ Versions \subseteq Nat
           /\ \A o \in Orgs : handled[o] \in Nat /\ param[o].ver \in Nat
           /\ \A e \in events : e.org \in Orgs /\ e.ver \in Nat
           /\ \A r \in Readers : /\ reader[r] \in ReaderRec
                                 /\ reader[r].before \in Nat /\ reader[r].val \in Nat
                                 /\ reader[r].pc # "idle" => reader[r].org \in Orgs
           /\ \A k \in Keys : k[1] \in Orgs /\ cache[k] \in Entry
BY Numbers DEF EventInv, AgeInv, TypeOK, ReaderRec, ReaderOK, Keys

\* Steps that write no version, no event and no entry's history.
LEMMA TickEvents ==
    ASSUME PolicyCacheAssumption, EventInv, Tick, AgeInv' PROVE EventInv'
<1>1. UNCHANGED <<param, events, handled>>
  BY DEF Tick
<1>2. ASSUME NEW r \in Readers
      PROVE  /\ reader'[r].pc = reader[r].pc /\ reader'[r].before = reader[r].before
             /\ reader'[r].val = reader[r].val /\ reader'[r].org = reader[r].org
  BY EventTypes DEF Tick, ReaderRec
<1>3. ASSUME NEW k \in Keys, Live(k)'
      PROVE  /\ Live(k) /\ cache'[k].before = cache[k].before
             /\ cache'[k].val = cache[k].val /\ cache'[k].after = cache[k].after
  <2>1. cache[k] \in Entry
    BY EventTypes
  <2>2. Live(k)
    BY <1>3, <2>1 DEF Tick, Live, Entry
  <2> QED BY <2>1, <2>2 DEF Tick, Entry
<1> QED BY <1>1, <1>2, <1>3 DEF EventInv

\* policy7 publishes the version it moves to.
LEMMA ChangeEvents ==
    ASSUME PolicyCacheAssumption, EventInv, NEW o \in Orgs, NEW exists \in BOOLEAN,
           ChangeParam(o, exists), AgeInv'
    PROVE  EventInv'
<1>1. UNCHANGED <<handled, cache, reader>>
  BY DEF ChangeParam
<1>2. /\ \A q \in Orgs : param[q].ver <= param'[q].ver /\ param'[q].ver \in Nat
      /\ param'[o].ver = param[o].ver + 1
  BY EventTypes DEF ChangeParam, TypeOK
<1>3. \A q \in Orgs : handled[q] <= param'[q].ver
  BY <1>2, EventTypes DEF EventInv
<1>4. ASSUME NEW e \in events' PROVE e.ver <= param'[e.org].ver
  <2>1. CASE e \in events
    BY <1>2, <2>1, EventTypes DEF EventInv
  <2>2. CASE e \notin events
    <3>1. e = [org |-> o, ver |-> param[o].ver + 1, deleted |-> ~exists]
      BY ZenonT(30), <2>2 DEF ChangeParam
    <3>2. e.org = o /\ e.ver = param[o].ver + 1
      BY ZenonT(30), <3>1
    <3> QED BY <1>2, <3>2, EventTypes
  <2> QED BY <2>1, <2>2
<1> QED BY <1>1, <1>3, <1>4 DEF EventInv, Live

\* An event is handled: every entry it could have made old is gone.
LEMMA DeliverEvents ==
    ASSUME PolicyCacheAssumption, ParamName = KeyName, EventInv, NEW e \in events,
           Deliver(e), AgeInv'
    PROVE  EventInv'
<1>1. /\ UNCHANGED <<param, reader>> /\ events' \subseteq events
      /\ handled' = Handled(e) /\ cache' = Invalidated(e.org)
  BY DEF Deliver, HandleParamUpdated, HandleParamDeleted
<1>2. \A o \in Orgs : /\ handled[o] <= handled'[o] /\ handled'[o] \in Nat
                      /\ handled'[o] <= param[o].ver
                      /\ o # e.org => handled'[o] = handled[o]
  BY <1>1, EventTypes DEF EventInv, Handled, TypeOK
<1>3. ASSUME NEW r \in Readers
      PROVE  reader[r].pc # "idle" => reader[r].before <= handled'[reader[r].org]
  BY <1>2, EventTypes DEF EventInv
<1>4. ASSUME NEW k \in Keys, Live(k)'
      PROVE  cache'[k].before <= cache'[k].val /\ cache'[k].after = handled'[k[1]]
  <2>1. k[1] # e.org /\ cache'[k] = cache[k]
    BY <1>1, <1>4 DEF Invalidated, Live, Absent
  <2> QED BY <1>2, <1>4, <2>1, EventTypes DEF EventInv, Live
<1> QED BY <1>1, <1>2, <1>3, <1>4 DEF EventInv

\* An event is lost, or the cache is cleaned.
LEMMA LoseEvents ==
    ASSUME PolicyCacheAssumption, EventInv, AgeInv', events' \subseteq events,
           UNCHANGED <<param, handled, reader>>,
           \A k \in Keys : cache'[k] = cache[k] \/ cache'[k] = Absent
    PROVE  EventInv'
<1>1. ASSUME NEW k \in Keys, Live(k)' PROVE cache'[k] = cache[k] /\ Live(k)
  BY <1>1 DEF Live, Absent
<1> QED BY <1>1 DEF EventInv

\* An evaluation misses, fetches, or gives up.
LEMMA FetchEvents ==
    ASSUME PolicyCacheAssumption, EventInv, NEW r \in Readers, AgeInv',
           \/ \E o \in Orgs, b \in Branches : Miss(r, o, b)
           \/ Fetch(r)
           \/ FetchFails(r)
    PROVE  EventInv'
<1>1. UNCHANGED <<param, events, handled, cache>>
  BY DEF Miss, Fetch, FetchFails
<1>2. ASSUME NEW q \in Readers
      PROVE  /\ reader'[q].pc # "idle" => reader'[q].before <= handled[reader'[q].org]
             /\ reader'[q].pc = "set" => reader'[q].before <= reader'[q].val
  <2>1. CASE q # r
    <3>1. reader'[q] = reader[q]
      BY <2>1, EventTypes DEF Miss, Fetch, FetchFails, TypeOK
    <3> QED BY <3>1 DEF EventInv
  <2>2. CASE q = r /\ Fetch(r)
    <3>1. reader'[r] = [reader[r] EXCEPT !.pc = "set", !.val = param[reader[r].org].ver]
      BY <2>2, EventTypes DEF Fetch, TypeOK
    <3>2. /\ reader'[r].before = reader[r].before /\ reader'[r].org = reader[r].org
          /\ reader'[r].val = param[reader[r].org].ver
      BY <3>1, EventTypes DEF ReaderRec
    <3>3. reader[r].pc # "idle" /\ reader[r].org \in Orgs
      BY <2>2, EventTypes DEF Fetch
    <3>4. /\ reader[r].before <= handled[reader[r].org]
          /\ handled[reader[r].org] <= param[reader[r].org].ver
      BY <3>3 DEF EventInv
    <3> QED BY <2>2, <3>2, <3>3, <3>4, EventTypes
  <2>3. CASE q = r /\ FetchFails(r)
    BY <2>3, EventTypes DEF FetchFails, Idle, TypeOK
  <2>4. ASSUME NEW o \in Orgs, NEW b \in Branches, Miss(r, o, b), q = r
        PROVE  reader'[q].pc = "fetch" /\ reader'[q].before <= handled[reader'[q].org]
    <3>1. reader'[r] = [pc |-> "fetch", org |-> o, branch |-> b, val |-> 0,
                        before |-> handled[o], age |-> 0]
      BY <2>4, EventTypes DEF Miss, TypeOK
    <3> QED BY <2>4, <3>1, EventTypes
  <2> QED BY <2>1, <2>2, <2>3, <2>4
<1> QED BY <1>1, <1>2 DEF EventInv, Live

\* Cache.Set: the entry remembers the last event handled.
LEMMA SetEvents ==
    ASSUME PolicyCacheAssumption, EventInv, NEW r \in Readers, Set(r), AgeInv'
    PROVE  EventInv'
<1> DEFINE k == <<reader[r].org, reader[r].branch>>
<1>1. UNCHANGED <<param, events, handled>> /\ reader[r].pc = "set"
  BY DEF Set
<1>2. k[1] = reader[r].org /\ reader[r].before <= reader[r].val
  BY <1>1 DEF EventInv
<1>3. ASSUME NEW j \in Keys, Live(j)'
      PROVE  cache'[j].before <= cache'[j].val /\ cache'[j].after = handled[j[1]]
  <2>1. CASE j = k
    <3>1. cache'[j] = [val |-> reader[r].val, left |-> TTL, before |-> reader[r].before,
                       after |-> handled[k[1]]]
      BY <2>1, EventTypes DEF Set, TypeOK
    <3> QED BY <1>2, <2>1, <3>1
  <2>2. CASE j # k
    <3>1. cache'[j] = cache[j]
      BY <2>2, EventTypes DEF Set, TypeOK
    <3> QED BY <1>3, <3>1 DEF EventInv, Live
  <2> QED BY <2>1, <2>2
<1>4. ASSUME NEW q \in Readers PROVE reader'[q] = reader[q] \/ reader'[q].pc = "idle"
  BY EventTypes DEF Set, TypeOK, Idle
<1> QED BY <1>1, <1>3, <1>4 DEF EventInv

\* Every step keeps entries and events in order.
LEMMA EventStep ==
    ASSUME PolicyCacheAssumption, ParamName = KeyName, EventInv, [Next]_vars
    PROVE  EventInv'
<1>1. AgeInv'
  BY AgeStep DEF EventInv
<1>2. CASE Next
  <2>1. CASE Tick
    BY <1>1, <2>1, TickEvents
  <2>2. CASE Cleanup
    BY <1>1, <2>2, LoseEvents DEF Cleanup
  <2>3. ASSUME NEW e \in events, Deliver(e) \/ LoseEvent(e) PROVE EventInv'
    <3>1. CASE Deliver(e)
      BY <1>1, <2>3, <3>1, DeliverEvents
    <3>2. CASE LoseEvent(e)
      BY <1>1, <3>2, LoseEvents DEF LoseEvent
    <3> QED BY <2>3, <3>1, <3>2
  <2>4. ASSUME NEW o \in Orgs, NEW exists \in BOOLEAN, ChangeParam(o, exists) PROVE EventInv'
    BY <1>1, <2>4, ChangeEvents
  <2>5. ASSUME NEW r \in Readers,
               (\E o \in Orgs, b \in Branches : Miss(r, o, b)) \/ ReaderStep(r)
        PROVE  EventInv'
    BY <1>1, <2>5, FetchEvents, SetEvents DEF ReaderStep
  <2> QED BY <1>2, <2>1, <2>2, <2>3, <2>4, <2>5 DEF Next
<1>3. CASE UNCHANGED vars
  BY <1>1, <1>3 DEF EventInv, Live, vars
<1> QED BY <1>2, <1>3

\* Where the parameter that is fetched has the name of the keys, invalidation
\* leaves no old entry behind: only a fetch in flight across an event brings
\* an old value back (InvalidateByPrefix, Cache.Set).
THEOREM StaleByRaceOnly ==
    ASSUME PolicyCacheAssumption, ParamName = KeyName
    PROVE  Spec => []StaleOnlyByRace
<1>1. Init => EventInv
  BY AgeInit DEF Init, EventInv, Live, Absent, Idle
<1>2. EventInv /\ [Next]_vars => EventInv'
  BY EventStep
<1>3. EventInv => StaleOnlyByRace
  <2>1. SUFFICES ASSUME EventInv, NEW k \in Keys, Live(k), cache[k].val < handled[k[1]]
                 PROVE  cache[k].before < cache[k].after
    BY DEF StaleOnlyByRace
  <2>2. cache[k].before \in Nat /\ cache[k].val \in Nat /\ handled[k[1]] \in Nat
    BY <2>1, EventTypes DEF Entry
  <2> QED BY <2>1, <2>2 DEF EventInv
<1> QED BY <1>1, <1>2, <1>3, PTL DEF Spec

=============================================================================
