--------------------- MODULE PostgresLockManagerProofs ---------------------
(***************************************************************************)
(* Proofs about PostgresLockManager.  Two layers:                             *)
(*                                                                         *)
(*  - RowInv holds of every behaviour.  It says what an open transaction may    *)
(*    have written: each uncommitted version deletes a row that is expired by      *)
(*    every clock, or follows on the committed version, which nobody can change    *)
(*    while it is locked.  RowsConsistent and LeaseHonoured follow from it.        *)
(*                                                                         *)
(*  - DrainedInv adds GuardsBacked, for callers that finish with their lost         *)
(*    guards before they lock again: a lost and a live guard of one owner are       *)
(*    never there together, so what unlock() takes from a row is the level of       *)
(*    the guard it drops.                                                       *)
(***************************************************************************)
EXTENDS PostgresLockManager, FiniteSetTheorems, TLAPS

-----------------------------------------------------------------------------
(* The inductive invariant *)

CallType == [phase : Phases, id : Ids, owner : Owners \cup {NoOwner},
             attempt : 0..Retries, lag : Ages]

\* The version `new` of a row may replace `old`: there was no row, or it is expired even
\* for the clock that is furthest behind, or `new` adds a level to it.
Justified(old, new) ==
    \/ old.owner = NoOwner
    \/ old.age + MaxSkew > Timeout
    \/ new.owner = old.owner /\ new.reentrant_count > old.reentrant_count

\* A transaction deletes rows, and before its commit has its own row as well.
WritesFit(c, w) ==
    /\ w \in [DOMAIN w -> Rows] /\ DOMAIN w \subseteq Ids
    /\ c.phase \notin InLock => DOMAIN w = {}
    /\ c.phase = "commit" =>
           /\ c.id \in DOMAIN w /\ w[c.id].owner = c.owner /\ w[c.id].age = c.lag
           /\ w[c.id].reentrant_count >= 1
    /\ \A i \in DOMAIN w : w[i] = NoRow \/ (i = c.id /\ c.phase = "commit")

\* What holds of a task with call c and versions w while `table` is committed.
TaskInv(table, c, w) ==
    /\ c \in CallType /\ WritesFit(c, w)
    /\ c.phase # "idle" => c.owner \in Owners
    /\ c.phase \in InLock => c.lag <= MaxStall
    /\ c.phase \in {"held", "dropped"} => c.lag >= 0 /\ table[c.id].age <= c.lag + MaxStall
    /\ \A i \in DOMAIN w : Justified(table[i], w[i])

RowsOK ==
    /\ rows \in [Ids -> Rows]
    /\ \A i \in Ids : IF rows[i].owner = NoOwner THEN rows[i] = NoRow
                      ELSE rows[i].reentrant_count >= 1

Disjoint == \A t, u \in Tasks : t # u => DOMAIN writes[t] \cap DOMAIN writes[u] = {}

RowInv ==
    /\ RowsOK /\ Disjoint
    /\ call \in [Tasks -> CallType] /\ writes \in [Tasks -> {writes[t] : t \in Tasks}]
    /\ lost \subseteq {t \in Tasks : HasGuard(t)}
    /\ \A t \in Tasks : TaskInv(rows, call[t], writes[t])

\* The live guards of an owner.
Live(i, o) == GuardsOn(i, o) \ lost

\* No owner has lost and live guards of one row together.
NoMixture ==
    \A i \in Ids, o \in Owners : Live(i, o) # {} => GuardsOn(i, o) \cap lost = {}

\* GuardsBacked, by row and owner.
LiveBacked ==
    \A i \in Ids, o \in Owners : Live(i, o) # {} =>
        rows[i].owner = o /\ Cardinality(Live(i, o)) <= rows[i].reentrant_count

DrainedInv == RowInv /\ NoMixture /\ LiveBacked

-----------------------------------------------------------------------------
(* Constants and operators *)

\* The bounds are naturals, ages and their caps are integers.
LEMMA Bounds ==
    /\ Timeout \in Nat /\ Retries \in Nat /\ MAX_RETRIES \in Nat /\ MaxStall \in Nat
    /\ MaxSkew \in Nat /\ MaxAge \in Nat /\ Ages \subseteq Int /\ 0 \in Ages
    /\ MaxStall \in Ages /\ MaxStall < MaxAge /\ Timeout < MaxAge + MaxSkew
  BY BoundsAssumption DEF MaxAge, Ages

\* The absent row and the call of an idle task.
LEMMA Absent ==
    /\ NoRow \in Rows /\ NoRow.owner = NoOwner /\ NoRow.age = 0 /\ NoRow.reentrant_count = 0
    /\ IdleCall \in CallType /\ IdleCall.phase = "idle"
    /\ DOMAIN NoWrites = {}
<1>1. (CHOOSE i \in Ids : TRUE) \in Ids
  BY SetsAssumption
<1>2. 0 \in 0..Retries
  BY Bounds
<1> QED BY <1>1, <1>2, Bounds DEF NoRow, Rows, IdleCall, CallType, Phases, NoWrites

\* The invariant of a task survives a change of rows that it has not locked, if no row
\* gets older by it than a call may stall.
LEMMA TableStep ==
    ASSUME NEW old \in [Ids -> Rows], NEW new \in [Ids -> Rows], NEW c, NEW w,
           TaskInv(old, c, w), \A i \in DOMAIN w : new[i] = old[i],
           \A i \in Ids : new[i].age <= MaxStall \/ new[i].age = old[i].age
    PROVE  TaskInv(new, c, w)
<1>1. c \in CallType /\ c.id \in Ids /\ c.lag \in Int
  BY Bounds DEF TaskInv, CallType
<1>2. new[c.id].age \in Int
  BY <1>1, Bounds DEF Rows
<1>3. c.phase \in {"held", "dropped"} => c.lag >= 0 /\ new[c.id].age <= c.lag + MaxStall
  BY <1>1, <1>2, Bounds DEF TaskInv
<1> QED BY <1>3 DEF TaskInv

\* An idle task satisfies its invariant.
LEMMA IdleTask ==
    ASSUME NEW table
    PROVE  TaskInv(table, IdleCall, NoWrites)
  BY Absent DEF TaskInv, WritesFit, InLock, NoWrites

\* A step of one task keeps the invariant if it keeps that of each task.
LEMMA RowInvKept ==
    ASSUME RowInv, NEW t \in Tasks, NEW c, NEW w,
           call' = [call EXCEPT ![t] = c], writes' = [writes EXCEPT ![t] = w],
           RowsOK', TaskInv(rows', c, w),
           \A u \in Tasks \ {t} : /\ TaskInv(rows', call[u], writes[u])
                                  /\ DOMAIN w \cap DOMAIN writes[u] = {},
           \A u \in lost' : u \in Tasks /\ call'[u].phase \in {"held", "dropped"}
    PROVE  RowInv'
<1>1. /\ call' \in [Tasks -> CallType]
      /\ \A u \in Tasks : call'[u] = IF u = t THEN c ELSE call[u]
  BY DEF RowInv, TaskInv
<1>2. /\ DOMAIN writes' = Tasks
      /\ \A u \in Tasks : writes'[u] = IF u = t THEN w ELSE writes[u]
  BY DEF RowInv
<1>3. writes' \in [Tasks -> {writes'[u] : u \in Tasks}]
  BY <1>2
<1>4. Disjoint'
  <2> SUFFICES ASSUME NEW u \in Tasks, NEW v \in Tasks, u # v
               PROVE  DOMAIN writes'[u] \cap DOMAIN writes'[v] = {}
    BY DEF Disjoint
  <2>1. CASE u # t /\ v # t
    BY <1>2, <2>1 DEF RowInv, Disjoint
  <2>2. CASE u = t \/ v = t
    BY <1>2, <2>2
  <2> QED BY <2>1, <2>2
<1>5. \A u \in Tasks : TaskInv(rows', call'[u], writes'[u])
  BY <1>1, <1>2
<1> QED BY <1>1, <1>3, <1>4, <1>5 DEF RowInv, HasGuard

\* What the invariant says of one task.
LEMMA TaskFacts ==
    ASSUME RowInv, NEW t \in Tasks
    PROVE  /\ TaskInv(rows, call[t], writes[t]) /\ WritesFit(call[t], writes[t])
           /\ call[t] \in CallType /\ call[t].id \in Ids /\ call[t].lag \in Ages
           /\ call[t].lag \in Int /\ call[t].attempt \in 0..Retries
           /\ call = [call EXCEPT ![t] = call[t]] /\ writes = [writes EXCEPT ![t] = writes[t]]
           /\ rows \in [Ids -> Rows]
           /\ \A u \in Tasks \ {t} : /\ TaskInv(rows, call[u], writes[u])
                                     /\ DOMAIN writes[t] \cap DOMAIN writes[u] = {}
           /\ \A u \in lost : u \in Tasks /\ call[u].phase \in {"held", "dropped"}
<1>1. TaskInv(rows, call[t], writes[t]) /\ call[t] \in CallType
  BY DEF RowInv
<1>2. /\ WritesFit(call[t], writes[t])
      /\ call[t].id \in Ids /\ call[t].lag \in Ages
      /\ call[t].lag \in Int /\ call[t].attempt \in 0..Retries
  BY <1>1, Bounds DEF TaskInv, CallType
<1>3. call = [call EXCEPT ![t] = call[t]] /\ writes = [writes EXCEPT ![t] = writes[t]]
  BY DEF RowInv
<1>4. \A u \in Tasks \ {t} : /\ TaskInv(rows, call[u], writes[u])
                             /\ DOMAIN writes[t] \cap DOMAIN writes[u] = {}
  BY DEF RowInv, Disjoint
<1>5. rows \in [Ids -> Rows]
  BY DEF RowInv, RowsOK
<1>6. \A u \in lost : u \in Tasks /\ call[u].phase \in {"held", "dropped"}
  BY DEF RowInv, HasGuard
<1> QED BY <1>1, <1>2, <1>3, <1>4, <1>5, <1>6

\* A step that changes the phase, or the whole call, of a task only.
LEMMA CallStep ==
    ASSUME RowInv, NEW t \in Tasks, NEW c, TaskInv(rows, c, writes[t]),
           call' = [call EXCEPT ![t] = c], UNCHANGED <<rows, writes>>,
           lost' \subseteq lost, t \notin lost' \/ c.phase \in {"held", "dropped"}
    PROVE  RowInv'
<1>1. writes' = [writes EXCEPT ![t] = writes[t]]
  BY TaskFacts
<1>2. RowsOK' /\ rows' = rows
  BY DEF RowInv, RowsOK
<1>3. \A u \in Tasks \ {t} : /\ TaskInv(rows', call[u], writes[u])
                             /\ DOMAIN writes[t] \cap DOMAIN writes[u] = {}
  BY TaskFacts
<1>4. \A u \in lost' : u \in Tasks /\ call'[u].phase \in {"held", "dropped"}
  BY TaskFacts DEF RowInv
<1>5. TaskInv(rows', c, writes[t])
  BY <1>2
<1> QED BY <1>1, <1>2, <1>3, <1>4, <1>5, RowInvKept

-----------------------------------------------------------------------------
(* lock() *)

\* RowInv holds initially.
LEMMA InitRows == Init => RowInv
<1> SUFFICES ASSUME Init PROVE RowInv
  OBVIOUS
<1>1. RowsOK
  BY Absent DEF Init, RowsOK
<1>2. \A t \in Tasks : call[t] = IdleCall /\ writes[t] = NoWrites
  BY DEF Init
<1>3. Disjoint
  BY <1>2, Absent DEF Disjoint
<1>4. /\ call \in [Tasks -> CallType] /\ writes \in [Tasks -> {writes[t] : t \in Tasks}]
      /\ lost = {}
  BY Absent DEF Init
<1>5. \A t \in Tasks : TaskInv(rows, call[t], writes[t])
  BY <1>2, IdleTask
<1> QED BY <1>1, <1>3, <1>4, <1>5 DEF RowInv

\* A call that begins an attempt has written nothing.
LEMMA AttemptTask ==
    ASSUME NEW table, NEW i \in Ids, NEW o \in Owners, NEW n \in 0..Retries,
           NEW skew \in 0..MaxSkew, NEW phase \in {"cleanup", "upsert"},
           NEW w, w \in [DOMAIN w -> Rows], DOMAIN w = {}
    PROVE  TaskInv(table, [phase |-> phase, id |-> i, owner |-> o, attempt |-> n, lag |-> -skew], w)
<1> DEFINE c == [phase |-> phase, id |-> i, owner |-> o, attempt |-> n, lag |-> -skew]
<1>1. -skew \in Ages /\ -skew <= MaxStall
  BY Bounds DEF Ages
<1>2. /\ c \in CallType /\ c.phase = phase /\ c.owner = o /\ c.lag = -skew
  BY <1>1 DEF CallType, Phases, InLock
<1> HIDE DEF c
<1>3. TaskInv(table, c, w)
  BY <1>1, <1>2 DEF TaskInv, WritesFit, InLock
<1> QED BY <1>3 DEF c

\* Lock keeps RowInv.
LEMMA LockRows ==
    ASSUME RowInv, NEW t \in Tasks, NEW i \in Ids, NEW o \in Owners, Lock(t, i, o)
    PROVE  RowInv'
<1>1. PICK skew \in 0..MaxSkew, draw \in CleanupDraws : Attempt(t, i, o, 0, skew, draw)
  BY DEF Lock
<1> DEFINE phase == IF 0 = 0 /\ draw THEN "cleanup" ELSE "upsert"
           c == [phase |-> phase, id |-> i, owner |-> o, attempt |-> 0, lag |-> -skew]
<1>2. phase \in {"cleanup", "upsert"} /\ 0 \in 0..Retries
  BY Bounds
<1>3. writes[t] \in [DOMAIN writes[t] -> Rows] /\ DOMAIN writes[t] = {}
  BY TaskFacts DEF Lock, WritesFit, InLock
<1>4. TaskInv(rows, c, writes[t])
  <2> HIDE DEF phase
  <2> QED BY <1>2, <1>3, AttemptTask
<1>5. call' = [call EXCEPT ![t] = c]
  BY <1>1 DEF Attempt
<1>6. t \notin lost
  BY TaskFacts DEF Lock
<1> HIDE DEF c
<1> QED BY <1>4, <1>5, <1>6, CallStep DEF Lock

\* Writing one row that no other transaction has locked.
LEMMA WriteStep ==
    ASSUME RowInv, NEW t \in Tasks, NEW i \in Ids, NEW row \in Rows, ~LockedByOther(t, i),
           NEW c, c \in CallType, c.owner \in Owners, c.lag = call[t].lag,
           call[t].phase \in {"cleanup", "upsert"},
           call' = [call EXCEPT ![t] = c], writes' = Write(t, i, row), UNCHANGED <<rows, lost>>,
           Justified(rows[i], row),
           \/ c.phase = "cleanup" /\ row = NoRow
           \/ /\ c.phase = "commit" /\ i = c.id /\ row.owner = c.owner /\ row.age = c.lag
              /\ row.reentrant_count >= 1
    PROVE  RowInv'
<1> DEFINE old == writes[t]
           w == [j \in DOMAIN old \cup {i} |-> IF j = i THEN row ELSE old[j]]
<1>1. /\ TaskInv(rows, call[t], old) /\ WritesFit(call[t], old)
  BY TaskFacts
<1>2. writes' = [writes EXCEPT ![t] = w]
  BY DEF Write
<1>3. /\ w \in [DOMAIN w -> Rows] /\ DOMAIN w = DOMAIN old \cup {i}
      /\ \A j \in DOMAIN w : w[j] = IF j = i THEN row ELSE old[j]
  BY <1>1 DEF WritesFit
<1>4. \A j \in DOMAIN old : old[j] = NoRow
  BY <1>1 DEF WritesFit
<1> HIDE DEF w
<1>5. WritesFit(c, w)
  BY <1>1, <1>3, <1>4 DEF WritesFit, InLock
<1>6. \A j \in DOMAIN w : Justified(rows[j], w[j])
  BY <1>1, <1>3 DEF TaskInv
<1>7. TaskInv(rows, c, w)
  BY <1>1, <1>5, <1>6 DEF TaskInv, InLock
<1>8. \A u \in Tasks \ {t} : DOMAIN w \cap DOMAIN writes[u] = {}
  BY <1>3, TaskFacts DEF LockedByOther
<1>9. RowsOK' /\ rows' = rows
  BY DEF RowInv, RowsOK
<1>10. \A u \in lost' : u \in Tasks /\ call'[u].phase \in {"held", "dropped"}
  BY TaskFacts DEF RowInv
<1>11. TaskInv(rows', c, w)
  BY <1>7, <1>9
<1>12. \A u \in Tasks \ {t} : /\ TaskInv(rows', call[u], writes[u])
                              /\ DOMAIN w \cap DOMAIN writes[u] = {}
  BY <1>8, <1>9, TaskFacts
<1> QED BY <1>2, <1>9, <1>10, <1>11, <1>12, RowInvKept

\* CleanupRow keeps RowInv.
LEMMA CleanupRowRows ==
    ASSUME RowInv, NEW t \in Tasks, NEW i \in Ids, CleanupRow(t, i) PROVE RowInv'
<1>1. /\ TaskInv(rows, call[t], writes[t]) /\ WritesFit(call[t], writes[t])
      /\ call[t] \in CallType /\ call[t].lag \in Ages /\ rows \in [Ids -> Rows]
  BY TaskFacts
<1>2. call[t].phase = "cleanup" /\ IsExpiredFor(t, Visible(t, i))
  BY DEF CleanupRow, ToDelete
<1>3. i \notin DOMAIN writes[t]
  BY <1>1, <1>2, Absent DEF WritesFit, Visible, IsExpiredFor
<1>4. rows[i].age - call[t].lag > Timeout
  BY <1>2, <1>3 DEF Visible, IsExpiredFor
<1>5. rows[i].age + MaxSkew > Timeout
  BY <1>1, <1>4, Bounds DEF Rows, Ages
<1>6. Justified(rows[i], NoRow)
  BY <1>5 DEF Justified
<1>7. call[t].owner \in Owners
  BY <1>1, <1>2 DEF TaskInv
<1>8. call' = [call EXCEPT ![t] = call[t]]
  BY TaskFacts DEF CleanupRow
<1> QED BY <1>1, <1>2, <1>6, <1>7, <1>8, Absent, WriteStep DEF CleanupRow

\* The call with another phase.
LEMMA PhaseShape ==
    ASSUME NEW c \in CallType, NEW phase \in Phases
    PROVE  LET d == [c EXCEPT !.phase = phase] IN
           /\ d \in CallType /\ d.phase = phase /\ d.id = c.id /\ d.owner = c.owner
           /\ d.attempt = c.attempt /\ d.lag = c.lag
  BY DEF CallType

\* Step replaces the phase in the call of t.
LEMMA StepShape ==
    ASSUME RowInv, NEW t \in Tasks, NEW phase
    PROVE  Step(t, phase) = [call EXCEPT ![t] = [call[t] EXCEPT !.phase = phase]]
  BY DEF Step, RowInv

\* CleanupDone keeps RowInv.
LEMMA CleanupDoneRows ==
    ASSUME RowInv, NEW t \in Tasks, CleanupDone(t) PROVE RowInv'
<1>1. PICK c : c = [call[t] EXCEPT !.phase = "upsert"]
  OBVIOUS
<1>2. /\ TaskInv(rows, call[t], writes[t]) /\ call[t] \in CallType /\ call[t].phase = "cleanup"
  BY TaskFacts DEF CleanupDone
<1>3. /\ c \in CallType /\ c.phase = "upsert" /\ c.id = call[t].id /\ c.owner = call[t].owner
      /\ c.lag = call[t].lag
  BY <1>1, <1>2, PhaseShape DEF Phases, InLock
<1>4. call' = [call EXCEPT ![t] = c]
  BY <1>1, StepShape DEF CleanupDone
<1>5. TaskInv(rows, c, writes[t])
  BY <1>2, <1>3 DEF TaskInv, WritesFit, InLock
<1>6. t \notin lost
  BY <1>2, TaskFacts
<1> QED BY <1>4, <1>5, <1>6, CallStep DEF CleanupDone

\* Upsert keeps RowInv.
LEMMA UpsertRows ==
    ASSUME RowInv, NEW t \in Tasks, Upsert(t) PROVE RowInv'
<1> DEFINE i == call[t].id
           row == Visible(t, i)
<1>1. /\ TaskInv(rows, call[t], writes[t]) /\ WritesFit(call[t], writes[t])
      /\ call[t] \in CallType /\ i \in Ids /\ call[t].lag \in Ages /\ rows \in [Ids -> Rows]
      /\ call[t].phase = "upsert" /\ call[t].owner \in Owners
  BY TaskFacts DEF Upsert, TaskInv
<1>2. row \in Rows /\ (i \in DOMAIN writes[t] => row = NoRow)
  BY <1>1 DEF Visible, WritesFit
<1>3. CASE row.owner \in {call[t].owner, NoOwner}
  <2>1. PICK c : c = [call[t] EXCEPT !.phase = "commit"]
    OBVIOUS
  <2>2. /\ c \in CallType /\ c.phase = "commit" /\ c.id = i /\ c.owner = call[t].owner
        /\ c.lag = call[t].lag
    BY <1>1, <2>1, PhaseShape DEF Phases, InLock
  <2>3. call' = [call EXCEPT ![t] = c]
    BY <1>3, <2>1, StepShape DEF Upsert
  <2>4. PICK new : new = [owner |-> call[t].owner, age |-> call[t].lag,
                          reentrant_count |-> row.reentrant_count + 1]
    OBVIOUS
  <2>5. /\ new \in Rows /\ new.owner = call[t].owner /\ new.age = call[t].lag
        /\ new.reentrant_count = row.reentrant_count + 1 /\ new.reentrant_count >= 1
        /\ row.reentrant_count \in Nat
    BY <1>1, <1>2, <2>4 DEF Rows
  <2>6. writes' = Write(t, i, new)
    BY <1>3, <2>4 DEF Upsert
  <2>7. Justified(rows[i], new)
    <3>1. CASE i \in DOMAIN writes[t]
      <4>1. Justified(rows[i], NoRow)
        BY <1>1, <1>2, <3>1 DEF TaskInv, Visible
      <4>2. rows[i].reentrant_count \in Nat
        BY <1>1 DEF Rows
      <4> QED BY <4>1, <4>2, Absent DEF Justified
    <3>2. CASE i \notin DOMAIN writes[t]
      <4>1. row = rows[i]
        BY <3>2 DEF Visible
      <4> QED BY <1>3, <2>5, <4>1 DEF Justified
    <3> QED BY <3>1, <3>2
  <2> HIDE DEF i, row
  <2>8. ~LockedByOther(t, i) /\ UNCHANGED <<rows, lost>>
    BY DEF Upsert, i
  <2> QED BY <1>1, <2>2, <2>3, <2>5, <2>6, <2>7, <2>8, WriteStep
<1>4. CASE row.owner \notin {call[t].owner, NoOwner}
  <2>1. PICK c : c = [call[t] EXCEPT !.phase = "select"]
    OBVIOUS
  <2>2. /\ c \in CallType /\ c.phase = "select" /\ c.id = i /\ c.owner = call[t].owner
        /\ c.lag = call[t].lag
    BY <1>1, <2>1, PhaseShape DEF Phases, InLock
  <2>3. call' = [call EXCEPT ![t] = c] /\ UNCHANGED writes
    BY <1>4, <2>1, StepShape DEF Upsert
  <2>4. TaskInv(rows, c, writes[t])
    BY <1>1, <2>2 DEF TaskInv, WritesFit, InLock
  <2>5. t \notin lost
    BY <1>1, TaskFacts
  <2> QED BY <2>3, <2>4, <2>5, CallStep DEF Upsert
<1> QED BY <1>3, <1>4

-----------------------------------------------------------------------------
(* The ends of a transaction *)

\* Who loses a guard by a commit.
LEMMA LostByCommit ==
    ASSUME NEW new, Commit(new)
    PROVE  \A u : u \in lost' <=>
               \/ u \in lost
               \/ \E i \in DOMAIN new : Replaced(rows[i], new[i]) /\ u \in GuardsOn(i, rows[i].owner)
  BY DEF Commit

\* The versions of a transaction that is about to commit.
LEMMA CommittedVersions ==
    ASSUME RowInv, NEW t \in Tasks, call[t].phase \in {"commit", "select"},
           NEW i \in DOMAIN writes[t]
    PROVE  /\ i \in Ids /\ writes[t][i] \in Rows /\ writes[t][i].age \in Int
           /\ writes[t][i].age <= MaxStall
           /\ writes[t][i].owner = NoOwner => writes[t][i] = NoRow
           /\ writes[t][i].owner # NoOwner =>
                  writes[t][i].reentrant_count >= 1 /\ i = call[t].id /\ call[t].phase = "commit"
           /\ Justified(rows[i], writes[t][i])
<1>1. /\ TaskInv(rows, call[t], writes[t]) /\ WritesFit(call[t], writes[t])
      /\ call[t] \in CallType /\ call[t].lag \in Int
  BY TaskFacts
<1>2. i \in Ids /\ writes[t][i] \in Rows /\ Justified(rows[i], writes[t][i])
  BY <1>1 DEF WritesFit, TaskInv
<1>3. call[t].owner \in Owners /\ call[t].lag <= MaxStall
  BY <1>1 DEF TaskInv, InLock
<1>4. CASE writes[t][i] = NoRow
  BY <1>2, <1>4, Absent, Bounds
<1>5. CASE i = call[t].id /\ call[t].phase = "commit"
  <2>1. /\ writes[t][i].owner = call[t].owner /\ writes[t][i].age = call[t].lag
        /\ writes[t][i].reentrant_count >= 1
    BY <1>1, <1>5 DEF WritesFit
  <2> QED BY <1>1, <1>2, <1>3, <1>5, <2>1, NoOwnerAssumption
<1> QED BY <1>1, <1>4, <1>5 DEF WritesFit

\* The transaction of t commits and its call becomes c.
LEMMA CommitStep ==
    ASSUME RowInv, NEW t \in Tasks, call[t].phase \in {"commit", "select"},
           Commit(writes[t]), writes' = [writes EXCEPT ![t] = NoWrites],
           NEW c \in CallType, call' = [call EXCEPT ![t] = c],
           c.phase \in {"idle", "cleanup", "upsert", "held"},
           c.phase # "idle" => c.owner \in Owners,
           c.phase \in InLock => c.lag <= MaxStall,
           c.phase = "held" => call[t].phase = "commit" /\ c.id = call[t].id /\ c.lag = 0
    PROVE  RowInv'
<1> DEFINE w == writes[t]
<1>1. \A i \in DOMAIN w : /\ i \in Ids /\ w[i] \in Rows /\ w[i].age \in Int /\ w[i].age <= MaxStall
                          /\ w[i].owner = NoOwner => w[i] = NoRow
                          /\ w[i].owner # NoOwner => w[i].reentrant_count >= 1
  BY CommittedVersions
<1>2. \A i \in Ids : rows'[i] = IF i \in DOMAIN w THEN w[i] ELSE rows[i]
  BY DEF Commit
<1>3. rows \in [Ids -> Rows] /\ rows' \in [Ids -> Rows]
  BY <1>1, TaskFacts DEF Commit
<1>4. RowsOK'
  <2>1. \A i \in Ids : IF rows[i].owner = NoOwner THEN rows[i] = NoRow
                       ELSE rows[i].reentrant_count >= 1
    BY DEF RowInv, RowsOK
  <2>2. \A i \in Ids : IF rows'[i].owner = NoOwner THEN rows'[i] = NoRow
                       ELSE rows'[i].reentrant_count >= 1
    BY <1>1, <1>2, <2>1
  <2> QED BY <1>3, <2>2 DEF RowsOK
<1>5. TaskInv(rows', c, NoWrites)
  <2>1. c.phase = "held" => rows'[c.id].age <= c.lag + MaxStall
    <3> SUFFICES ASSUME c.phase = "held" PROVE rows'[c.id].age <= c.lag + MaxStall
      OBVIOUS
    <3>1. c.id \in DOMAIN w /\ c.lag = 0
      BY TaskFacts DEF WritesFit
    <3> QED BY <1>1, <1>2, <3>1, Bounds
  <2>2. WritesFit(c, NoWrites)
    BY Absent DEF WritesFit, NoWrites, InLock
  <2> QED BY <2>1, <2>2, Absent DEF TaskInv, InLock
<1>6. ASSUME NEW u \in Tasks \ {t}
      PROVE  TaskInv(rows', call[u], writes[u]) /\ DOMAIN NoWrites \cap DOMAIN writes[u] = {}
  <2>1. TaskInv(rows, call[u], writes[u]) /\ DOMAIN w \cap DOMAIN writes[u] = {}
    BY TaskFacts
  <2>2. DOMAIN writes[u] \subseteq Ids
    BY <2>1 DEF TaskInv, WritesFit
  <2>3. \A i \in DOMAIN writes[u] : rows'[i] = rows[i]
    BY <1>2, <2>1, <2>2
  <2>4. \A i \in Ids : rows'[i].age <= MaxStall \/ rows'[i].age = rows[i].age
    BY <1>1, <1>2
  <2>5. TaskInv(rows', call[u], writes[u])
    <3>1. PICK new : new = rows'
      OBVIOUS
    <3> QED BY <1>3, <2>1, <2>3, <2>4, <3>1, TableStep
  <2> QED BY <2>5, Absent
<1>7. \A u \in lost' : u \in Tasks /\ call'[u].phase \in {"held", "dropped"}
  <2> SUFFICES ASSUME NEW u \in lost'
               PROVE  u \in Tasks /\ call'[u].phase \in {"held", "dropped"}
    OBVIOUS
  <2>1. u \in Tasks /\ call[u].phase \in {"held", "dropped"}
    BY LostByCommit, TaskFacts DEF GuardsOn, HasGuard
  <2> QED BY <2>1 DEF RowInv
<1> QED BY <1>4, <1>5, <1>6, <1>7, RowInvKept

\* CommitAcquired keeps RowInv.
LEMMA CommitAcquiredRows ==
    ASSUME RowInv, NEW t \in Tasks, CommitAcquired(t) PROVE RowInv'
<1>1. PICK c : c = [call[t] EXCEPT !.phase = "held", !.attempt = 0, !.lag = 0]
  OBVIOUS
<1>2. call[t] \in CallType /\ call[t].phase = "commit" /\ call[t].owner \in Owners
  BY TaskFacts DEF CommitAcquired, TaskInv
<1>3. /\ c \in CallType /\ c.phase = "held" /\ c.id = call[t].id /\ c.owner = call[t].owner
      /\ c.lag = 0
  <2>1. 0 \in 0..Retries /\ 0 \in Ages
    BY Bounds
  <2> QED BY <1>1, <1>2, <2>1 DEF CallType, Phases
<1>4. call' = [call EXCEPT ![t] = c]
  BY <1>1 DEF CommitAcquired
<1> QED BY <1>2, <1>3, <1>4, CommitStep DEF CommitAcquired, InLock

\* CommitAckLost keeps RowInv.
LEMMA CommitAckLostRows ==
    ASSUME RowInv, NEW t \in Tasks, CommitAckLost(t) PROVE RowInv'
  BY CommitStep, Absent DEF CommitAckLost, Reset, InLock

\* Select keeps RowInv.
LEMMA SelectRows ==
    ASSUME RowInv, NEW t \in Tasks, Select(t) PROVE RowInv'
<1>1. CASE call' = Reset(t)
  BY <1>1, CommitStep, Absent DEF Select, Reset, InLock
<1>2. CASE /\ call[t].attempt < MAX_RETRIES /\ call[t].attempt < Retries
           /\ \E skew \in 0..MaxSkew :
                Attempt(t, call[t].id, call[t].owner, call[t].attempt + 1, skew, FALSE)
  <2>1. PICK skew \in 0..MaxSkew :
          Attempt(t, call[t].id, call[t].owner, call[t].attempt + 1, skew, FALSE)
    BY <1>2
  <2>2. PICK c : c = [phase |-> "upsert", id |-> call[t].id, owner |-> call[t].owner,
                      attempt |-> call[t].attempt + 1, lag |-> -skew]
    OBVIOUS
  <2>3. call' = [call EXCEPT ![t] = c]
    BY <2>1, <2>2 DEF Attempt
  <2>4. /\ call[t].id \in Ids /\ call[t].owner \in Owners /\ call[t].attempt + 1 \in 0..Retries
    BY <1>2, TaskFacts, Bounds DEF Select, TaskInv
  <2>5. -skew \in Ages /\ -skew <= MaxStall
    BY Bounds DEF Ages
  <2>6. c \in CallType /\ c.phase = "upsert" /\ c.owner \in Owners /\ c.lag <= MaxStall
    BY <2>2, <2>4, <2>5 DEF CallType, Phases, InLock
  <2> QED BY <2>3, <2>6, CommitStep DEF Select
<1> QED BY <1>1, <1>2 DEF Select

\* Abort keeps RowInv.
LEMMA AbortRows ==
    ASSUME RowInv, NEW t \in Tasks, Abort(t) PROVE RowInv'
<1>1. RowsOK' /\ rows' = rows
  BY DEF RowInv, RowsOK, Abort
<1>2. TaskInv(rows', IdleCall, NoWrites)
  <2>1. PICK table : table = rows'
    OBVIOUS
  <2> QED BY <2>1, IdleTask
<1>3. \A u \in Tasks \ {t} : /\ TaskInv(rows', call[u], writes[u])
                             /\ DOMAIN NoWrites \cap DOMAIN writes[u] = {}
  BY <1>1, TaskFacts, Absent
<1>4. call' = [call EXCEPT ![t] = IdleCall] /\ writes' = [writes EXCEPT ![t] = NoWrites]
  BY DEF Abort, Reset
<1>5. t \notin lost
  BY TaskFacts DEF Abort, InLock
<1>6. \A u \in lost' : u \in Tasks /\ call'[u].phase \in {"held", "dropped"}
  BY <1>4, <1>5, TaskFacts DEF Abort, RowInv
<1> QED BY <1>1, <1>2, <1>3, <1>4, <1>6, RowInvKept

-----------------------------------------------------------------------------
(* The guard, release_locks, and time *)

\* DropGuard keeps RowInv.
LEMMA DropGuardRows ==
    ASSUME RowInv, NEW t \in Tasks, DropGuard(t) PROVE RowInv'
<1>1. PICK c : c = [call[t] EXCEPT !.phase = "dropped"]
  OBVIOUS
<1>2. TaskInv(rows, call[t], writes[t]) /\ call[t] \in CallType /\ call[t].phase = "held"
  BY TaskFacts DEF DropGuard
<1>3. /\ c \in CallType /\ c.phase = "dropped" /\ c.id = call[t].id /\ c.owner = call[t].owner
      /\ c.lag = call[t].lag
  BY <1>1, <1>2, PhaseShape DEF Phases
<1>4. call' = [call EXCEPT ![t] = c]
  BY <1>1, StepShape DEF DropGuard
<1>5. TaskInv(rows, c, writes[t])
  BY <1>2, <1>3 DEF TaskInv, WritesFit, InLock
<1> QED BY <1>3, <1>4, <1>5, CallStep DEF DropGuard

\* A task with a guard has no open transaction.
LEMMA GuardHasNoWrites ==
    ASSUME RowInv, NEW t \in Tasks, HasGuard(t)
    PROVE  DOMAIN writes[t] = {} /\ TaskInv(rows, IdleCall, writes[t])
<1>1. TaskInv(rows, call[t], writes[t])
  BY TaskFacts
<1>2. DOMAIN writes[t] = {} /\ writes[t] \in [DOMAIN writes[t] -> Rows]
  BY <1>1 DEF TaskInv, WritesFit, HasGuard, InLock
<1> QED BY <1>2, Absent DEF TaskInv, WritesFit, InLock

\* GuardVanishes keeps RowInv.
LEMMA GuardVanishesRows ==
    ASSUME RowInv, NEW t \in Tasks, GuardVanishes(t) PROVE RowInv'
<1>1. call' = [call EXCEPT ![t] = IdleCall] /\ t \notin lost' /\ lost' \subseteq lost
  BY DEF GuardVanishes, Reset
<1> QED BY <1>1, GuardHasNoWrites, CallStep DEF GuardVanishes

\* What unlock() makes of the table: a level less where the owner has the row.
LEMMA UnlockTable ==
    ASSUME RowInv, NEW t \in Tasks, Unlock(t)
    PROVE  /\ rows' \in [Ids -> Rows] /\ RowsOK'
           /\ \A i \in Ids \ {call[t].id} : rows'[i] = rows[i]
           /\ rows[call[t].id].owner # call[t].owner => rows' = rows
           /\ rows[call[t].id].owner = call[t].owner =>
                  \/ rows[call[t].id].reentrant_count <= 1 /\ rows'[call[t].id] = NoRow
                  \/ /\ rows[call[t].id].reentrant_count > 1
                     /\ rows'[call[t].id].owner = rows[call[t].id].owner
                     /\ rows'[call[t].id].age = rows[call[t].id].age
                     /\ rows'[call[t].id].reentrant_count = rows[call[t].id].reentrant_count - 1
<1> DEFINE i == call[t].id
           row == rows[i]
<1>1. i \in Ids /\ rows \in [Ids -> Rows] /\ row \in Rows /\ row.reentrant_count \in Nat
  BY TaskFacts DEF Rows
<1>2. RowsOK
  BY DEF RowInv
<1>3. CASE row.owner # call[t].owner
  BY <1>1, <1>2, <1>3 DEF Unlock, RowsOK
<1>4. CASE row.owner = call[t].owner /\ row.reentrant_count <= 1
  <2>1. rows' = [rows EXCEPT ![i] = NoRow]
    BY <1>4 DEF Unlock
  <2>2. /\ rows' \in [Ids -> Rows] /\ rows'[i] = NoRow
        /\ \A j \in Ids \ {i} : rows'[j] = rows[j]
    BY <1>1, <2>1, Absent
  <2>3. RowsOK'
    BY <1>2, <2>2, Absent DEF RowsOK
  <2> QED BY <1>4, <2>2, <2>3
<1>5. CASE row.owner = call[t].owner /\ row.reentrant_count > 1
  <2>1. PICK new : new = [row EXCEPT !.reentrant_count = @ - 1]
    OBVIOUS
  <2>2. /\ new \in Rows /\ new.owner = row.owner /\ new.age = row.age
        /\ new.reentrant_count = row.reentrant_count - 1
    BY <1>1, <1>5, <2>1 DEF Rows
  <2>3. rows' = [rows EXCEPT ![i] = new]
    <3>1. ~(row.reentrant_count <= 1)
      BY <1>1, <1>5
    <3>2. rows' = [rows EXCEPT ![i] = [row EXCEPT !.reentrant_count = @ - 1]]
      BY <1>5, <3>1 DEF Unlock
    <3> QED BY <2>1, <3>2
  <2>4. /\ rows' \in [Ids -> Rows] /\ rows'[i] = new
        /\ \A j \in Ids \ {i} : rows'[j] = rows[j]
    BY <1>1, <2>2, <2>3
  <2>5. call[t].owner \in Owners
    BY TaskFacts DEF Unlock, TaskInv
  <2>6. new.reentrant_count >= 1 /\ new.owner # NoOwner
    BY <1>1, <1>5, <2>2, <2>5, NoOwnerAssumption
  <2>7. RowsOK'
    BY <1>2, <2>4, <2>6 DEF RowsOK
  <2> QED BY <1>5, <2>2, <2>4, <2>7
<1> QED BY <1>1, <1>3, <1>4, <1>5

\* Unlock keeps RowInv.
LEMMA UnlockRows ==
    ASSUME RowInv, NEW t \in Tasks, Unlock(t) PROVE RowInv'
<1> DEFINE i == call[t].id
<1>1. HasGuard(t) /\ i \in Ids /\ rows \in [Ids -> Rows]
  BY TaskFacts DEF Unlock, HasGuard
<1>2. PICK new : new = rows'
  OBVIOUS
<1>3. /\ new \in [Ids -> Rows] /\ RowsOK' /\ \A j \in Ids \ {i} : new[j] = rows[j]
      /\ new[i].age <= MaxStall \/ new[i].age = rows[i].age
  BY <1>1, <1>2, UnlockTable, Absent, Bounds
<1>4. ASSUME NEW u \in Tasks \ {t} PROVE TaskInv(new, call[u], writes[u])
  <2>1. TaskInv(rows, call[u], writes[u])
    BY TaskFacts
  <2>2. i \notin DOMAIN writes[u] /\ DOMAIN writes[u] \subseteq Ids
    BY <2>1 DEF Unlock, LockedByOther, TaskInv, WritesFit
  <2> QED BY <1>1, <1>3, <2>1, <2>2, TableStep
<1>5. DOMAIN writes[t] = {} /\ TaskInv(rows, IdleCall, writes[t])
  BY <1>1, GuardHasNoWrites
<1>6. TaskInv(new, IdleCall, writes[t])
  BY <1>5, Absent DEF TaskInv
<1>7. call' = [call EXCEPT ![t] = IdleCall] /\ writes' = [writes EXCEPT ![t] = writes[t]]
  BY TaskFacts DEF Unlock, Reset
<1>8. \A u \in lost' : u \in Tasks /\ call'[u].phase \in {"held", "dropped"}
  BY <1>7, TaskFacts DEF Unlock, RowInv
<1>9. \A u \in Tasks \ {t} : /\ TaskInv(rows', call[u], writes[u])
                             /\ DOMAIN writes[t] \cap DOMAIN writes[u] = {}
  BY <1>2, <1>4, <1>5
<1>10. TaskInv(rows', IdleCall, writes[t])
  BY <1>2, <1>6
<1> QED BY <1>3, <1>7, <1>8, <1>9, <1>10, RowInvKept

\* ReleaseLocks keeps RowInv.
LEMMA ReleaseLocksRows ==
    ASSUME RowInv, NEW o \in Owners, ReleaseLocks(o) PROVE RowInv'
<1> DEFINE mine == {i \in Ids : rows[i].owner = o}
<1>1. /\ rows' = [i \in Ids |-> IF i \in mine THEN NoRow ELSE rows[i]]
      /\ call' = call /\ writes' = writes
  BY DEF ReleaseLocks, Commit
<1>2. RowsOK /\ rows \in [Ids -> Rows]
  BY DEF RowInv, RowsOK
<1>3. PICK new : new = rows'
  OBVIOUS
<1>4. new \in [Ids -> Rows] /\ \A i \in Ids : new[i] = IF i \in mine THEN NoRow ELSE rows[i]
  BY <1>1, <1>2, <1>3, Absent
<1>5. RowsOK'
  BY <1>2, <1>3, <1>4, Absent DEF RowsOK
<1>6. ASSUME NEW t \in Tasks PROVE TaskInv(new, call[t], writes[t])
  <2>1. TaskInv(rows, call[t], writes[t])
    BY DEF RowInv
  <2>2. \A i \in DOMAIN writes[t] : i \in Ids /\ i \notin mine
    BY <2>1 DEF ReleaseLocks, TaskInv, WritesFit
  <2>3. \A i \in DOMAIN writes[t] : new[i] = rows[i]
    BY <1>4, <2>2
  <2>4. \A i \in Ids : new[i].age <= MaxStall \/ new[i].age = rows[i].age
    BY <1>4, Absent, Bounds
  <2> QED BY <1>2, <1>4, <2>1, <2>3, <2>4, TableStep
<1>7. lost' \subseteq {t \in Tasks : HasGuard(t)}'
  <2>1. \A u \in lost' : u \in lost \/ \E i \in Ids : u \in GuardsOn(i, rows[i].owner)
    BY LostByCommit DEF ReleaseLocks
  <2>2. \A u \in lost' : u \in Tasks /\ HasGuard(u)
    BY <2>1 DEF GuardsOn, RowInv
  <2> QED BY <1>1, <2>2 DEF HasGuard
<1>8. \A t \in Tasks : TaskInv(rows, call[t], writes[t])'
  BY <1>1, <1>3, <1>6
<1>9. Disjoint' /\ call' \in [Tasks -> CallType] /\ (writes \in [Tasks -> {writes[t] : t \in Tasks}])'
  BY <1>1 DEF RowInv, Disjoint
<1> QED BY <1>5, <1>7, <1>8, <1>9 DEF RowInv

\* Ageing: owner and count stay, the age grows by one up to the cap.
LEMMA OlderShape ==
    ASSUME NEW row \in Rows
    PROVE  /\ Older(row) \in Rows /\ Older(row).owner = row.owner
           /\ Older(row).reentrant_count = row.reentrant_count
           /\ row.owner = NoOwner => Older(row) = row
           /\ row.owner # NoOwner =>
                  Older(row).age = IF row.age = MaxAge THEN row.age ELSE row.age + 1
<1>1. row.age \in Ages
  BY DEF Rows
<1>2. row.age # MaxAge => row.age + 1 \in Ages
  BY <1>1, Bounds DEF Ages
<1> QED BY <1>2 DEF Older, Rows

\* Tick keeps RowInv.
LEMMA TickRows == ASSUME RowInv, Tick PROVE RowInv'
<1>1. RowsOK /\ rows \in [Ids -> Rows] /\ call \in [Tasks -> CallType]
  BY DEF RowInv, RowsOK
<1>2. PICK new : new = rows'
  OBVIOUS
<1>3. new \in [Ids -> Rows] /\ \A i \in Ids : new[i] = Older(rows[i])
  BY <1>1, <1>2, OlderShape DEF Tick
<1>4. RowsOK'
  <2>1. \A i \in Ids : IF new[i].owner = NoOwner THEN new[i] = NoRow
                       ELSE new[i].reentrant_count >= 1
    BY <1>1, <1>3, OlderShape DEF RowsOK
  <2> QED BY <1>2, <1>3, <2>1 DEF RowsOK
<1>5. ASSUME NEW t \in Tasks
      PROVE  /\ call'[t] \in CallType /\ call'[t].phase = call[t].phase
             /\ DOMAIN writes'[t] = DOMAIN writes[t]
             /\ TaskInv(new, call'[t], writes'[t])
  <2>1. PICK c, w : c = call'[t] /\ w = writes'[t]
    OBVIOUS
  <2> DEFINE d == call[t]
             v == writes[t]
  <2>2. TaskInv(rows, d, v) /\ WritesFit(d, v) /\ d \in CallType
    BY TaskFacts
  <2>3. d.lag \in Ages /\ d.lag \in Int /\ d.id \in Ids
    BY <2>2, Bounds DEF CallType
  <2> HIDE DEF d, v
  <2>4. /\ c \in CallType /\ c.phase = d.phase /\ c.id = d.id /\ c.owner = d.owner
        /\ d.phase # "idle" => c.lag = IF d.lag = MaxAge THEN d.lag ELSE d.lag + 1
    <3>1. c = IF d.phase = "idle" \/ d.lag = MaxAge THEN d ELSE [d EXCEPT !.lag = @ + 1]
      BY <2>1 DEF Tick, d
    <3>2. d.lag # MaxAge => d.lag + 1 \in Ages
      BY <2>3, Bounds DEF Ages
    <3> QED BY <2>2, <3>1, <3>2 DEF CallType
  <2>5. d.phase \in InLock => d.lag < MaxStall /\ c.lag = d.lag + 1
    <3>1. d.phase \in InLock => d.lag < MaxStall /\ d.phase # "idle"
      BY DEF Tick, d, InLock
    <3> QED BY <2>3, <2>4, <3>1, Bounds
  <2>6. w = [i \in DOMAIN v |-> Older(v[i])]
    BY <2>1 DEF Tick, v
  <2>7. /\ w \in [DOMAIN w -> Rows] /\ DOMAIN w = DOMAIN v
        /\ \A i \in DOMAIN v : i \in Ids /\ v[i] \in Rows /\ w[i] = Older(v[i])
    BY <2>2, <2>6, OlderShape DEF WritesFit
  <2>8. \A i \in DOMAIN v : v[i] = NoRow => w[i] = NoRow
    BY <2>7, OlderShape, Absent
  <2>9. WritesFit(c, w)
    <3>1. ASSUME c.phase = "commit"
          PROVE  /\ c.id \in DOMAIN w /\ w[c.id].owner = c.owner /\ w[c.id].age = c.lag
                 /\ w[c.id].reentrant_count >= 1
      <4>1. /\ d.id \in DOMAIN v /\ v[d.id].owner = d.owner /\ v[d.id].age = d.lag
            /\ v[d.id].reentrant_count >= 1
        BY <2>2, <2>4, <3>1 DEF WritesFit
      <4>2. d.lag < MaxStall /\ c.lag = d.lag + 1
        BY <2>4, <2>5, <3>1 DEF InLock
      <4>3. d.owner # NoOwner
        BY <2>2, <2>4, <3>1, NoOwnerAssumption DEF TaskInv
      <4>4. w[d.id].age = d.lag + 1
        BY <2>3, <2>7, <4>1, <4>2, <4>3, OlderShape, Bounds
      <4> QED BY <2>4, <2>7, <4>1, <4>2, <4>4, OlderShape
    <3> QED BY <2>2, <2>4, <2>7, <2>8, <3>1 DEF WritesFit
  <2>10. ASSUME NEW i \in DOMAIN w PROVE Justified(new[i], w[i])
    <3>1. /\ i \in Ids /\ v[i] \in Rows /\ w[i] = Older(v[i]) /\ rows[i] \in Rows
          /\ new[i] = Older(rows[i]) /\ Justified(rows[i], v[i])
      BY <1>1, <1>3, <2>2, <2>7 DEF TaskInv
    <3>2. /\ rows[i].age \in Int
          /\ new[i].owner = rows[i].owner /\ new[i].reentrant_count = rows[i].reentrant_count
          /\ w[i].owner = v[i].owner /\ w[i].reentrant_count = v[i].reentrant_count
          /\ new[i].age = rows[i].age \/ new[i].age = rows[i].age + 1
      BY <3>1, OlderShape, Bounds DEF Rows
    <3> QED BY <3>1, <3>2, Bounds DEF Justified
  <2>11. ASSUME c.phase \in {"held", "dropped"}
         PROVE  c.lag >= 0 /\ new[c.id].age <= c.lag + MaxStall
    <3>1. d.lag >= 0 /\ rows[d.id].age <= d.lag + MaxStall
      BY <2>2, <2>4, <2>11 DEF TaskInv
    <3>2. /\ rows[d.id] \in Rows /\ rows[d.id].age \in Int /\ rows[d.id].age <= MaxAge
          /\ new[d.id] = Older(rows[d.id])
      BY <1>1, <1>3, <2>3, Bounds DEF Rows, Ages
    <3>3. \/ new[d.id].age = rows[d.id].age + 1 /\ rows[d.id].age # MaxAge
          \/ new[d.id].age = rows[d.id].age
      BY <3>2, OlderShape
    <3>4. c.lag = IF d.lag = MaxAge THEN d.lag ELSE d.lag + 1
      BY <2>4, <2>11
    <3>5. c.lag >= 0 /\ new[d.id].age <= c.lag + MaxStall
      BY <2>3, <3>1, <3>2, <3>3, <3>4, Bounds
    <3> QED BY <2>4, <3>5
  <2>12. TaskInv(new, c, w)
    <3>1. c.phase # "idle" => c.owner \in Owners
      BY <2>2, <2>4 DEF TaskInv
    <3>2. c.phase \in InLock => c.lag <= MaxStall
      BY <2>3, <2>4, <2>5, Bounds
    <3> QED BY <2>4, <2>9, <2>10, <2>11, <3>1, <3>2 DEF TaskInv
  <2> QED BY <2>1, <2>4, <2>7, <2>12 DEF d, v
<1>6. /\ call' \in [Tasks -> CallType] /\ (writes \in [Tasks -> {writes[t] : t \in Tasks}])'
  BY <1>5 DEF Tick
<1>7. Disjoint'
  BY <1>5 DEF RowInv, Disjoint
<1>8. lost' \subseteq {t \in Tasks : HasGuard(t)}'
  BY <1>5 DEF Tick, RowInv, HasGuard
<1> QED BY <1>2, <1>4, <1>5, <1>6, <1>7, <1>8 DEF RowInv

\* Every step keeps RowInv.
LEMMA NextRows == RowInv /\ [Next]_vars => RowInv'
<1> SUFFICES ASSUME RowInv, [Next]_vars PROVE RowInv'
  OBVIOUS
<1>1. ASSUME NEW t \in Tasks, NEW i \in Ids, NEW o \in Owners, Lock(t, i, o) PROVE RowInv'
  BY <1>1, LockRows
<1>2. ASSUME NEW t \in Tasks, LockStep(t) PROVE RowInv'
  BY <1>2, CleanupRowRows, CleanupDoneRows, UpsertRows, CommitAcquiredRows, SelectRows DEF LockStep
<1>3. ASSUME NEW t \in Tasks, DropGuard(t) \/ Unlock(t) PROVE RowInv'
  BY <1>3, DropGuardRows, UnlockRows
<1>4. ASSUME NEW t \in Tasks, Failure(t) PROVE RowInv'
  BY <1>4, CommitAckLostRows, AbortRows, GuardVanishesRows DEF Failure
<1>5. ASSUME NEW o \in Owners, ReleaseLocks(o) PROVE RowInv'
  BY <1>5, ReleaseLocksRows
<1>6. CASE Tick
  BY <1>6, TickRows
<1>7. CASE UNCHANGED vars
  BY <1>7 DEF vars, RowInv, RowsOK, Disjoint, HasGuard
<1> QED BY <1>1, <1>2, <1>3, <1>4, <1>5, <1>6, <1>7 DEF Next

\* RowInv holds in every reachable state, whether or not callers drain their guards.
THEOREM RowInvariant == Spec => []RowInv
  BY InitRows, NextRows, PTL DEF Spec

\* Rows, calls and versions always have their types, and only guards are lost.
THEOREM PostgresTypeCorrect == Spec => []TypeOK
<1>1. RowInv => TypeOK
  BY TaskFacts DEF RowInv, RowsOK, TypeOK, CallType, WritesFit
<1> QED BY <1>1, RowInvariant, PTL

\* Two transactions never write one row together, and no row without levels is left behind.
THEOREM RowsStayConsistent == Spec => []RowsConsistent
<1>1. RowInv => RowsConsistent
  BY DEF RowInv, RowsOK, Disjoint, RowsConsistent
<1> QED BY <1>1, RowInvariant, PTL

\* Whatever the interleaving of the statements of concurrent lock() calls, a guard that
\* is lost, other than by release_locks, has had its lease.
THEOREM LeasesLast == Spec => LeaseHonoured
<1> DEFINE Losses ==
      \A t \in lost' \ lost :
          \/ \E o \in Owners : ReleaseLocks(o)
          \/ call[t].lag + MaxStall + MaxSkew > Timeout
<1>1. ASSUME RowInv, NEW u \in Tasks, call[u].phase \in {"commit", "select"}, Commit(writes[u]),
             NEW t \in lost' \ lost
      PROVE  call[t].lag + MaxStall + MaxSkew > Timeout
  <2>1. PICK i \in DOMAIN writes[u] :
          Replaced(rows[i], writes[u][i]) /\ t \in GuardsOn(i, rows[i].owner)
    BY <1>1, LostByCommit
  <2>2. t \in Tasks /\ call[t].phase \in {"held", "dropped"} /\ call[t].id = i
        /\ call[t].owner = rows[i].owner
    BY <2>1 DEF GuardsOn, HasGuard
  <2>3. /\ i \in Ids /\ Justified(rows[i], writes[u][i]) /\ writes[u][i] \in Rows
    BY <1>1, CommittedVersions
  <2>4. /\ rows \in [Ids -> Rows] /\ call[t].owner \in Owners /\ call[t].lag \in Int
        /\ rows[i].age <= call[t].lag + MaxStall
    BY <1>1, <2>2, TaskFacts DEF TaskInv
  <2>5. rows[i].age \in Int /\ rows[i].reentrant_count \in Nat /\ writes[u][i].reentrant_count \in Nat
    BY <2>3, <2>4, Bounds DEF Rows
  <2>6. rows[i].age + MaxSkew > Timeout
    BY <2>1, <2>2, <2>3, <2>4, <2>5, NoOwnerAssumption DEF Justified, Replaced
  <2> QED BY <2>4, <2>5, <2>6, Bounds
<1>2. ASSUME RowInv, [Next]_vars PROVE [Losses]_vars
  <2> SUFFICES ASSUME Next, NEW t \in lost' \ lost
               PROVE  \/ \E o \in Owners : ReleaseLocks(o)
                      \/ call[t].lag + MaxStall + MaxSkew > Timeout
    BY <1>2
  <2>1. ASSUME lost' \subseteq lost PROVE FALSE
    BY <2>1
  <2>2. ASSUME NEW u \in Tasks, NEW i \in Ids, NEW o \in Owners, Lock(u, i, o) PROVE FALSE
    BY <2>1, <2>2 DEF Lock
  <2>3. ASSUME NEW u \in Tasks, CommitAcquired(u) \/ Select(u) \/ CommitAckLost(u)
        PROVE  call[t].lag + MaxStall + MaxSkew > Timeout
    BY <1>1, <1>2, <2>3 DEF CommitAcquired, Select, CommitAckLost
  <2>4. ASSUME NEW u \in Tasks,
               \/ \E i \in Ids : CleanupRow(u, i)
               \/ CleanupDone(u) \/ Upsert(u) \/ DropGuard(u) \/ Unlock(u) \/ Abort(u)
               \/ GuardVanishes(u)
        PROVE  FALSE
    BY <2>1, <2>4 DEF CleanupRow, CleanupDone, Upsert, DropGuard, Unlock, Abort, GuardVanishes
  <2>5. ASSUME Tick PROVE FALSE
    BY <2>1, <2>5 DEF Tick
  <2> QED BY <2>2, <2>3, <2>4, <2>5 DEF Next, LockStep, Failure
<1>3. Spec => [][Losses]_vars
  BY <1>2, RowInvariant, PTL DEF Spec
<1> QED BY <1>3 DEF LeaseHonoured

-----------------------------------------------------------------------------
(* Callers that drain their guards *)

\* Membership of GuardsOn and Live.
LEMMA GuardsOnMember ==
    ASSUME NEW i, NEW o
    PROVE  /\ \A u : u \in GuardsOn(i, o) <=>
                  /\ u \in Tasks /\ call[u].phase \in {"held", "dropped"}
                  /\ call[u].id = i /\ call[u].owner = o
           /\ \A u : u \in Live(i, o) <=> u \in GuardsOn(i, o) /\ u \notin lost
  BY DEF GuardsOn, HasGuard, Live

\* There are finitely many guards, and fewer in a smaller set.
LEMMA SmallerSet ==
    ASSUME NEW S \in SUBSET Tasks, NEW T \in SUBSET S
    PROVE  /\ IsFiniteSet(S) /\ IsFiniteSet(T)
           /\ Cardinality(S) \in Nat /\ Cardinality(T) \in Nat /\ Cardinality(T) <= Cardinality(S)
<1>1. IsFiniteSet(S)
  BY SetsAssumption, FS_Subset
<1>2. IsFiniteSet(T) /\ Cardinality(T) <= Cardinality(S)
  BY <1>1, FS_Subset
<1> QED BY <1>1, <1>2, FS_CardinalityType

\* The parts of DrainedInv follow for one row and owner at a time.
LEMMA ByRowAndOwner ==
    ASSUME RowInv',
           \A i \in Ids, o \in Owners : Live(i, o)' # {} =>
               /\ (GuardsOn(i, o) \cap lost)' = {}
               /\ rows'[i].owner = o /\ Cardinality(Live(i, o)') <= rows'[i].reentrant_count
    PROVE  DrainedInv'
  BY DEF DrainedInv, NoMixture, LiveBacked

\* A step that leaves the guards alone, and owner and count of every row.
LEMMA SameGuards ==
    ASSUME DrainedInv, RowInv', lost' = lost,
           \A u \in Tasks : /\ call'[u].phase \in {"held", "dropped"} <=>
                                   call[u].phase \in {"held", "dropped"}
                            /\ call[u].phase \in {"held", "dropped"} =>
                                   call'[u].id = call[u].id /\ call'[u].owner = call[u].owner,
           \A i \in Ids : /\ rows'[i].owner = rows[i].owner
                          /\ rows'[i].reentrant_count = rows[i].reentrant_count
    PROVE  DrainedInv'
<1> SUFFICES ASSUME NEW i \in Ids, NEW o \in Owners, Live(i, o)' # {}
             PROVE  /\ (GuardsOn(i, o) \cap lost)' = {}
                    /\ rows'[i].owner = o
                    /\ Cardinality(Live(i, o)') <= rows'[i].reentrant_count
  BY ByRowAndOwner
<1>1. GuardsOn(i, o)' = GuardsOn(i, o)
  BY DEF GuardsOn, HasGuard
<1>2. Live(i, o)' = Live(i, o)
  BY <1>1 DEF Live
<1> QED BY <1>1, <1>2 DEF DrainedInv, NoMixture, LiveBacked

\* A step that changes the call of t outside of its guard.
LEMMA NoGuardStep ==
    ASSUME DrainedInv, RowInv', NEW t \in Tasks, NEW c, call' = [call EXCEPT ![t] = c],
           lost' = lost, rows' = rows,
           call[t].phase \notin {"held", "dropped"}, c.phase \notin {"held", "dropped"}
    PROVE  DrainedInv'
<1>1. \A u \in Tasks : call'[u] = IF u = t THEN c ELSE call[u]
  BY DEF DrainedInv, RowInv
<1> QED BY <1>1, SameGuards

\* Lock keeps DrainedInv.
LEMMA LockDrained ==
    ASSUME DrainedInv, RowInv', NEW t \in Tasks, NEW i \in Ids, NEW o \in Owners, Lock(t, i, o)
    PROVE  DrainedInv'
<1>1. PICK skew, draw : Attempt(t, i, o, 0, skew, draw)
  BY DEF Lock
<1>2. PICK c : c = [phase |-> IF 0 = 0 /\ draw THEN "cleanup" ELSE "upsert",
                    id |-> i, owner |-> o, attempt |-> 0, lag |-> -skew]
  OBVIOUS
<1>3. call' = [call EXCEPT ![t] = c] /\ c.phase \in {"cleanup", "upsert"}
  BY <1>1, <1>2 DEF Attempt
<1> QED BY <1>3, NoGuardStep DEF Lock

\* The statements of lock(), and its abort, keep DrainedInv.
LEMMA StatementDrained ==
    ASSUME DrainedInv, RowInv', NEW t \in Tasks,
           (\E i \in Ids : CleanupRow(t, i)) \/ CleanupDone(t) \/ Upsert(t) \/ Abort(t)
    PROVE  DrainedInv'
<1>1. RowInv /\ call[t] \in CallType
  BY TaskFacts DEF DrainedInv
<1>2. CASE \E i \in Ids : CleanupRow(t, i)
  <2>1. call' = [call EXCEPT ![t] = call[t]] /\ call[t].phase = "cleanup"
    BY <1>1, <1>2, TaskFacts DEF CleanupRow
  <2> QED BY <1>2, <2>1, NoGuardStep DEF CleanupRow
<1>3. CASE CleanupDone(t) \/ Upsert(t)
  <2>1. PICK phase \in {"upsert", "commit", "select"} : call' = Step(t, phase)
    BY <1>3 DEF CleanupDone, Upsert
  <2>2. PICK c : c = [call[t] EXCEPT !.phase = phase]
    OBVIOUS
  <2>3. call' = [call EXCEPT ![t] = c]
    BY <1>1, <2>1, <2>2, StepShape
  <2>4. c.phase = phase
    BY <1>1, <2>2 DEF CallType
  <2>5. call[t].phase \in {"cleanup", "upsert"} /\ lost' = lost /\ rows' = rows
    BY <1>3 DEF CleanupDone, Upsert
  <2> QED BY <2>3, <2>4, <2>5, NoGuardStep
<1>4. CASE Abort(t)
  BY <1>4, Absent, NoGuardStep DEF Abort, Reset, InLock
<1> QED BY <1>2, <1>3, <1>4

\* DropGuard keeps DrainedInv.
LEMMA DropGuardDrained ==
    ASSUME DrainedInv, RowInv', NEW t \in Tasks, DropGuard(t) PROVE DrainedInv'
<1>1. RowInv /\ call[t] \in CallType
  BY TaskFacts DEF DrainedInv
<1>2. PICK c : c = [call[t] EXCEPT !.phase = "dropped"]
  OBVIOUS
<1>3. c.phase = "dropped" /\ c.id = call[t].id /\ c.owner = call[t].owner
  BY <1>1, <1>2, PhaseShape DEF Phases
<1>4. call' = [call EXCEPT ![t] = c]
  BY <1>1, <1>2, StepShape DEF DropGuard
<1>5. \A u \in Tasks : call'[u] = IF u = t THEN c ELSE call[u]
  BY <1>1, <1>4 DEF RowInv
<1> QED BY <1>3, <1>5, SameGuards DEF DropGuard

\* Tick keeps DrainedInv.
LEMMA TickDrained == ASSUME DrainedInv, RowInv', Tick PROVE DrainedInv'
<1>1. RowInv /\ rows \in [Ids -> Rows] /\ call \in [Tasks -> CallType]
  BY DEF DrainedInv, RowInv, RowsOK
<1>2. \A i \in Ids : /\ rows'[i].owner = rows[i].owner
                     /\ rows'[i].reentrant_count = rows[i].reentrant_count
  BY <1>1, OlderShape DEF Tick
<1>3. \A u \in Tasks : /\ call'[u].phase = call[u].phase /\ call'[u].id = call[u].id
                       /\ call'[u].owner = call[u].owner
  BY <1>1 DEF Tick, CallType
<1> QED BY <1>2, <1>3, SameGuards DEF Tick

\* A guard goes: its level may go too.
LEMMA GuardGone ==
    ASSUME DrainedInv, RowInv', NEW t \in Tasks, HasGuard(t),
           call' = [call EXCEPT ![t] = IdleCall], lost' = lost \ {t},
           \A i \in Ids \ {call[t].id} : rows'[i] = rows[i],
           rows[call[t].id].owner # call[t].owner => rows' = rows,
           rows[call[t].id].owner = call[t].owner =>
               \/ rows' = rows
               \/ rows[call[t].id].reentrant_count <= 1
               \/ /\ rows'[call[t].id].owner = rows[call[t].id].owner
                  /\ rows'[call[t].id].reentrant_count = rows[call[t].id].reentrant_count - 1
    PROVE  DrainedInv'
<1> SUFFICES ASSUME NEW i \in Ids, NEW o \in Owners, Live(i, o)' # {}
             PROVE  /\ (GuardsOn(i, o) \cap lost)' = {}
                    /\ rows'[i].owner = o
                    /\ Cardinality(Live(i, o)') <= rows'[i].reentrant_count
  BY ByRowAndOwner
<1>1. \A u \in Tasks : call'[u] = IF u = t THEN IdleCall ELSE call[u]
  BY DEF DrainedInv, RowInv
<1>2. GuardsOn(i, o)' = GuardsOn(i, o) \ {t}
  BY <1>1, Absent DEF GuardsOn, HasGuard
<1>3. Live(i, o)' = Live(i, o) \ {t}
  BY <1>2 DEF Live
<1>4. PICK live, after : live = Live(i, o) /\ after = Live(i, o)'
  OBVIOUS
<1>5. /\ GuardsOn(i, o) \cap lost = {} /\ rows[i].owner = o
      /\ Cardinality(live) <= rows[i].reentrant_count
  BY <1>3, <1>4 DEF DrainedInv, NoMixture, LiveBacked
<1>6. live \subseteq Tasks /\ after = live \ {t} /\ after # {}
  BY <1>3, <1>4 DEF Live, GuardsOn
<1>7. /\ Cardinality(live) \in Nat /\ Cardinality(after) \in Nat
      /\ Cardinality(after) <= Cardinality(live) /\ IsFiniteSet(live) /\ IsFiniteSet(after)
  BY <1>6, SmallerSet
<1>8. rows \in [Ids -> Rows] /\ rows[i].reentrant_count \in Nat
  BY DEF DrainedInv, RowInv, RowsOK, Rows
<1>9. (GuardsOn(i, o) \cap lost)' = {}
  BY <1>2, <1>5
<1>10. CASE rows'[i] = rows[i]
  BY <1>4, <1>5, <1>7, <1>8, <1>9, <1>10
<1>11. CASE rows'[i] # rows[i]
  <2>1. i = call[t].id /\ rows[i].owner = call[t].owner
    BY <1>11
  <2>2. t \in live
    BY <1>4, <1>5, <2>1 DEF Live, GuardsOn
  <2>3. Cardinality(after) = Cardinality(live) - 1
    BY <1>6, <1>7, <2>2, FS_RemoveElement
  <2>4. Cardinality(after) # 0
    BY <1>6, <1>7, FS_EmptySet
  <2>5. rows[i].reentrant_count > 1
    BY <1>5, <1>7, <1>8, <2>3, <2>4
  <2>6. /\ rows'[i].owner = rows[i].owner
        /\ rows'[i].reentrant_count = rows[i].reentrant_count - 1
    BY <1>8, <1>11, <2>1, <2>5
  <2> QED BY <1>4, <1>5, <1>7, <1>8, <1>9, <2>3, <2>6
<1> QED BY <1>10, <1>11

\* Unlock keeps DrainedInv.
LEMMA UnlockDrained ==
    ASSUME DrainedInv, RowInv', NEW t \in Tasks, Unlock(t) PROVE DrainedInv'
<1>1. RowInv /\ HasGuard(t) /\ call' = [call EXCEPT ![t] = IdleCall] /\ lost' = lost \ {t}
  BY DEF DrainedInv, Unlock, HasGuard, Reset
<1>2. /\ \A i \in Ids \ {call[t].id} : rows'[i] = rows[i]
      /\ rows[call[t].id].owner # call[t].owner => rows' = rows
      /\ rows[call[t].id].owner = call[t].owner =>
             \/ rows[call[t].id].reentrant_count <= 1
             \/ /\ rows'[call[t].id].owner = rows[call[t].id].owner
                /\ rows'[call[t].id].reentrant_count = rows[call[t].id].reentrant_count - 1
  BY <1>1, UnlockTable
<1> QED BY <1>1, <1>2, GuardGone

\* GuardVanishes keeps DrainedInv.
LEMMA GuardVanishesDrained ==
    ASSUME DrainedInv, RowInv', NEW t \in Tasks, GuardVanishes(t) PROVE DrainedInv'
<1>1. HasGuard(t) /\ call' = [call EXCEPT ![t] = IdleCall] /\ lost' = lost \ {t} /\ rows' = rows
  BY DEF GuardVanishes, Reset
<1> QED BY <1>1, GuardGone

\* The transaction of t commits: guards under a replaced row are lost, all of them; under
\* a row that was updated a level is there for the new guard.
LEMMA CommitDrained ==
    ASSUME DrainedInv, RowInv', NEW t \in Tasks, call[t].phase \in {"commit", "select"},
           Commit(writes[t]), NEW c, call' = [call EXCEPT ![t] = c],
           \/ c.phase \notin {"held", "dropped"}
           \/ /\ c.phase = "held" /\ call[t].phase = "commit"
              /\ c.id = call[t].id /\ c.owner = call[t].owner
              /\ GuardsOn(call[t].id, call[t].owner) \cap lost' = {}
    PROVE  DrainedInv'
<1> SUFFICES ASSUME NEW i \in Ids, NEW o \in Owners, Live(i, o)' # {}
             PROVE  /\ (GuardsOn(i, o) \cap lost)' = {}
                    /\ rows'[i].owner = o
                    /\ Cardinality(Live(i, o)') <= rows'[i].reentrant_count
  BY ByRowAndOwner
<1> DEFINE w == writes[t]
           granted == c.phase = "held" /\ c.id = i /\ c.owner = o
<1>1. RowInv /\ WritesFit(call[t], w) /\ rows \in [Ids -> Rows] /\ rows[i].reentrant_count \in Nat
  BY TaskFacts DEF DrainedInv, Rows
<1>2. \A u \in Tasks : call'[u] = IF u = t THEN c ELSE call[u]
  BY <1>1 DEF RowInv
<1>3. t \notin GuardsOn(i, o)
  BY DEF GuardsOn, HasGuard
<1>4. GuardsOn(i, o)' = IF granted THEN GuardsOn(i, o) \cup {t} ELSE GuardsOn(i, o)
  <2>1. t \in GuardsOn(i, o)' <=> granted
    BY <1>2 DEF GuardsOn, HasGuard
  <2>2. \A u : u # t => (u \in GuardsOn(i, o)' <=> u \in GuardsOn(i, o))
    BY <1>2 DEF GuardsOn, HasGuard
  <2>3. granted \in BOOLEAN
    OBVIOUS
  <2> HIDE DEF granted
  <2> QED BY <1>3, <2>1, <2>2, <2>3
<1>5. \A u : u \in lost' <=>
          \/ u \in lost
          \/ \E j \in DOMAIN w : Replaced(rows[j], w[j]) /\ u \in GuardsOn(j, rows[j].owner)
  BY LostByCommit
<1>6. t \notin lost'
  BY <1>1, <1>5, TaskFacts DEF GuardsOn, HasGuard
<1>7. \A u \in GuardsOn(i, o) : u \in lost' <=>
          u \in lost \/ (i \in DOMAIN w /\ Replaced(rows[i], w[i]) /\ rows[i].owner = o)
  BY <1>5 DEF GuardsOn
<1>8. Live(i, o)' = (GuardsOn(i, o)') \ lost'
  BY DEF Live
<1>9. PICK live, after : live = Live(i, o) /\ after = Live(i, o)'
  OBVIOUS
<1>10. after \subseteq live \cup {t} /\ (t \in after => granted) /\ after # {} /\ live \subseteq Tasks
  BY <1>3, <1>4, <1>5, <1>8, <1>9 DEF Live, GuardsOn
<1>11. live # {} => /\ GuardsOn(i, o) \cap lost = {} /\ rows[i].owner = o
                    /\ Cardinality(live) <= rows[i].reentrant_count
  BY <1>9 DEF DrainedInv, NoMixture, LiveBacked
<1>12. (GuardsOn(i, o) \cap lost)' = {}
  <2>1. CASE granted
    <3>1. GuardsOn(i, o) \cap lost' = {}
      BY <2>1
    <3> QED BY <1>4, <1>6, <2>1, <3>1
  <2>2. CASE ~granted
    <3>1. PICK v : v \in after
      BY <1>10
    <3>2. v \in live /\ v \in GuardsOn(i, o) /\ v \notin lost'
      BY <1>4, <1>8, <1>9, <1>10, <2>2, <3>1
    <3>3. GuardsOn(i, o) \cap lost = {}
      BY <1>11, <3>2
    <3>4. ~(i \in DOMAIN w /\ Replaced(rows[i], w[i]) /\ rows[i].owner = o)
      BY <1>7, <3>2
    <3> QED BY <1>4, <1>7, <2>2, <3>3, <3>4
  <2> QED BY <2>1, <2>2
<1>13. IsFiniteSet(live) /\ Cardinality(live) \in Nat
  BY <1>10, SmallerSet
<1>14. rows'[i] = IF i \in DOMAIN w THEN w[i] ELSE rows[i]
  BY DEF Commit
<1>15. granted => /\ i \in DOMAIN w /\ w[i].owner = o /\ w[i].reentrant_count >= 1
  BY <1>1 DEF WritesFit
<1>16. i \in DOMAIN w => w[i].reentrant_count \in Nat
  BY <1>1 DEF WritesFit, Rows
<1> HIDE DEF w, granted
<1>17. CASE i \notin DOMAIN w
  <2>1. after \subseteq live /\ live # {}
    BY <1>10, <1>15, <1>17
  <2>2. Cardinality(after) <= Cardinality(live) /\ Cardinality(after) \in Nat
    BY <1>10, <2>1, SmallerSet
  <2> QED BY <1>1, <1>9, <1>11, <1>12, <1>13, <1>14, <1>17, <2>1, <2>2
<1>18. CASE i \in DOMAIN w /\ (Replaced(rows[i], w[i]) \/ live = {})
  <2>1. after = {t}
    <3>1. ASSUME NEW u \in after, u # t PROVE FALSE
      <4>1. u \in live /\ u \in GuardsOn(i, o) /\ u \notin lost'
        BY <1>8, <1>9, <1>10, <3>1 DEF Live
      <4> QED BY <1>7, <1>11, <1>18, <4>1
    <3> QED BY <1>10, <3>1
  <2>2. granted /\ Cardinality(after) = 1
    BY <1>10, <2>1, FS_Singleton
  <2> QED BY <1>9, <1>12, <1>14, <1>15, <1>16, <1>18, <2>2
<1>19. CASE i \in DOMAIN w /\ ~Replaced(rows[i], w[i]) /\ live # {}
  <2>1. w[i].owner = o /\ w[i].reentrant_count >= rows[i].reentrant_count + 1
    BY <1>1, <1>11, <1>16, <1>19 DEF Replaced
  <2>2. /\ IsFiniteSet(live \cup {t}) /\ Cardinality(live \cup {t}) <= Cardinality(live) + 1
    <3>1. /\ IsFiniteSet(live \cup {t})
          /\ Cardinality(live \cup {t}) = IF t \in live THEN Cardinality(live) ELSE Cardinality(live) + 1
      BY <1>13, FS_AddElement
    <3>2. PICK m, n : m = Cardinality(live \cup {t}) /\ n = Cardinality(live)
      OBVIOUS
    <3>3. m <= n + 1
      BY <1>13, <3>1, <3>2
    <3> QED BY <3>1, <3>2, <3>3
  <2>3. Cardinality(after) <= Cardinality(live \cup {t})
    BY <1>10, <2>2, FS_Subset
  <2>4. Cardinality(after) \in Nat /\ Cardinality(live \cup {t}) \in Nat
    BY <1>10, <2>2, FS_Subset, FS_CardinalityType
  <2> QED BY <1>1, <1>9, <1>11, <1>12, <1>13, <1>14, <1>16, <1>19, <2>1, <2>2, <2>3, <2>4
<1> QED BY <1>17, <1>18, <1>19

\* CommitAcquired keeps DrainedInv.
LEMMA CommitAcquiredDrained ==
    ASSUME DrainedInv, RowInv', NEW t \in Tasks, CommitAcquired(t), ~Undrained(t)
    PROVE  DrainedInv'
<1>1. PICK c : c = [call[t] EXCEPT !.phase = "held", !.attempt = 0, !.lag = 0]
  OBVIOUS
<1>2. call[t] \in CallType /\ call[t].phase = "commit"
  BY TaskFacts DEF DrainedInv, CommitAcquired
<1>3. c.phase = "held" /\ c.id = call[t].id /\ c.owner = call[t].owner
  BY <1>1, <1>2 DEF CallType
<1>4. call' = [call EXCEPT ![t] = c]
  BY <1>1 DEF CommitAcquired
<1>5. GuardsOn(call[t].id, call[t].owner) \cap lost' = {}
  BY DEF Undrained
<1> QED BY <1>2, <1>3, <1>4, <1>5, CommitDrained DEF CommitAcquired

\* CommitAckLost and Select keep DrainedInv.
LEMMA OtherCommitsDrained ==
    ASSUME DrainedInv, RowInv', NEW t \in Tasks, CommitAckLost(t) \/ Select(t)
    PROVE  DrainedInv'
<1>1. Commit(writes[t]) /\ call[t].phase \in {"commit", "select"}
  BY DEF CommitAckLost, Select
<1>2. CASE call' = Reset(t)
  BY <1>1, <1>2, Absent, CommitDrained DEF Reset
<1>3. CASE \E skew \in 0..MaxSkew :
             Attempt(t, call[t].id, call[t].owner, call[t].attempt + 1, skew, FALSE)
  <2>1. PICK skew \in 0..MaxSkew :
          Attempt(t, call[t].id, call[t].owner, call[t].attempt + 1, skew, FALSE)
    BY <1>3
  <2>2. PICK c : c = [phase |-> "upsert", id |-> call[t].id, owner |-> call[t].owner,
                      attempt |-> call[t].attempt + 1, lag |-> -skew]
    OBVIOUS
  <2>3. call' = [call EXCEPT ![t] = c] /\ c.phase = "upsert"
    BY <2>1, <2>2 DEF Attempt
  <2> QED BY <1>1, <2>3, CommitDrained
<1> QED BY <1>2, <1>3 DEF CommitAckLost, Select

\* ReleaseLocks keeps DrainedInv.
LEMMA ReleaseLocksDrained ==
    ASSUME DrainedInv, RowInv', NEW r \in Owners, ReleaseLocks(r) PROVE DrainedInv'
<1> SUFFICES ASSUME NEW i \in Ids, NEW o \in Owners, Live(i, o)' # {}
             PROVE  /\ (GuardsOn(i, o) \cap lost)' = {}
                    /\ rows'[i].owner = o
                    /\ Cardinality(Live(i, o)') <= rows'[i].reentrant_count
  BY ByRowAndOwner
<1> DEFINE mine == {j \in Ids : rows[j].owner = r}
           new == [j \in mine |-> NoRow]
<1>1. RowInv /\ rows \in [Ids -> Rows]
  BY DEF DrainedInv, RowInv, RowsOK
<1>2. \A j \in mine : Replaced(rows[j], new[j])
  BY <1>1, Absent DEF Replaced, Rows
<1>3. \A u : u \in lost' <=> u \in lost \/ \E j \in mine : u \in GuardsOn(j, rows[j].owner)
  <2>1. Commit(new)
    BY DEF ReleaseLocks
  <2>2. \A u : u \in lost' <=>
          \/ u \in lost
          \/ \E j \in DOMAIN new : Replaced(rows[j], new[j]) /\ u \in GuardsOn(j, rows[j].owner)
    <3> HIDE DEF new
    <3> QED BY <2>1, LostByCommit
  <2> QED BY <1>2, <2>2
<1>4. GuardsOn(i, o)' = GuardsOn(i, o)
  BY DEF ReleaseLocks, GuardsOn, HasGuard
<1>5. PICK v \in GuardsOn(i, o) : v \notin lost'
  BY <1>4 DEF Live
<1>6. v \in Live(i, o)
  BY <1>3, <1>5 DEF Live
<1>7. /\ GuardsOn(i, o) \cap lost = {} /\ rows[i].owner = o
      /\ Cardinality(Live(i, o)) <= rows[i].reentrant_count
  BY <1>6 DEF DrainedInv, NoMixture, LiveBacked
<1>8. i \notin mine
  BY <1>3, <1>5, <1>7
<1>9. \A u \in GuardsOn(i, o) : u \notin lost'
  BY <1>3, <1>7, <1>8 DEF GuardsOn
<1>10. Live(i, o)' = Live(i, o) /\ (GuardsOn(i, o) \cap lost)' = {}
  BY <1>4, <1>7, <1>9 DEF Live
<1>11. rows'[i] = rows[i]
  BY <1>8 DEF ReleaseLocks, Commit
<1> QED BY <1>7, <1>10, <1>11

\* DrainedInv holds initially.
LEMMA InitDrained == Init => DrainedInv
<1> SUFFICES ASSUME Init PROVE DrainedInv
  OBVIOUS
<1>1. \A i \in Ids, o \in Owners : Live(i, o) = {}
  BY Absent DEF Init, Live, GuardsOn, HasGuard
<1> QED BY <1>1, InitRows DEF DrainedInv, NoMixture, LiveBacked

\* Every drained step keeps DrainedInv.
LEMMA NextDrained == DrainedInv /\ [Next /\ \A t \in Tasks : ~Undrained(t)]_vars => DrainedInv'
<1> SUFFICES ASSUME DrainedInv, [Next /\ \A t \in Tasks : ~Undrained(t)]_vars PROVE DrainedInv'
  OBVIOUS
<1>1. RowInv'
  BY NextRows DEF DrainedInv
<1>2. ASSUME NEW t \in Tasks, NEW i \in Ids, NEW o \in Owners, Lock(t, i, o) PROVE DrainedInv'
  BY <1>1, <1>2, LockDrained
<1>3. ASSUME NEW t \in Tasks, LockStep(t), ~Undrained(t) PROVE DrainedInv'
  BY <1>1, <1>3, StatementDrained, CommitAcquiredDrained, OtherCommitsDrained DEF LockStep
<1>4. ASSUME NEW t \in Tasks, DropGuard(t) \/ Unlock(t) PROVE DrainedInv'
  BY <1>1, <1>4, DropGuardDrained, UnlockDrained
<1>5. ASSUME NEW t \in Tasks, Failure(t) PROVE DrainedInv'
  BY <1>1, <1>5, OtherCommitsDrained, StatementDrained, GuardVanishesDrained DEF Failure
<1>6. ASSUME NEW o \in Owners, ReleaseLocks(o) PROVE DrainedInv'
  BY <1>1, <1>6, ReleaseLocksDrained
<1>7. CASE Tick
  BY <1>1, <1>7, TickDrained
<1>8. CASE UNCHANGED vars
  BY <1>1, <1>8 DEF vars, DrainedInv, NoMixture, LiveBacked, Live, GuardsOn, HasGuard
<1> QED BY <1>2, <1>3, <1>4, <1>5, <1>6, <1>7, <1>8 DEF Next

\* DrainedInv holds in every state callers reach that drain their guards.
THEOREM DrainedInvariant == DrainedSpec => []DrainedInv
  BY InitDrained, NextDrained, PTL DEF DrainedSpec

\* Among callers that finish with their lost guards before they lock again, every live
\* guard has its row and its level: no two owners have access together, and no unlock()
\* takes the level of another guard, however the statements of lock() interleave.
THEOREM LiveGuardsBacked == DrainedSpec => []GuardsBacked
<1>1. ASSUME DrainedInv PROVE GuardsBacked
  <2> SUFFICES ASSUME NEW t \in Tasks, HasGuard(t), t \notin lost
               PROVE  LET row == rows[call[t].id] IN
                      /\ row.owner = call[t].owner
                      /\ Cardinality(GuardsOn(call[t].id, call[t].owner) \ lost) <= row.reentrant_count
    BY DEF GuardsBacked
  <2>1. call[t].id \in Ids /\ call[t].owner \in Owners
    BY <1>1, TaskFacts DEF DrainedInv, TaskInv, HasGuard
  <2>2. t \in Live(call[t].id, call[t].owner)
    BY DEF Live, GuardsOn
  <2> QED BY <1>1, <2>1, <2>2 DEF DrainedInv, LiveBacked, Live
<1> QED BY <1>1, DrainedInvariant, PTL

=============================================================================
