---------------------- MODULE MemoryLockManagerProofs ----------------------
(***************************************************************************)
(* Proofs about MemoryLockManager, for every set of identifiers and owners, *)
(* every timeout and every number of guards.                                *)
(***************************************************************************)
EXTENDS MemoryLockManager, TLAPS

USE NoOwnerAssumption, TimeoutAssumption, MaxGuardsAssumption

-----------------------------------------------------------------------------
(* Type correctness. *)

\* So has the absent record.
LEMMA NoLockIsRecord == NoLock \in LockRecord
  BY DEF NoLock, LockRecord

\* The record lock() inserts has its type.
LEMMA NewRecord ==
  ASSUME NEW o \in Owners, NEW n \in Nat
  PROVE  [owner |-> o, age |-> 0, reentrant_count |-> n] \in LockRecord
  BY DEF LockRecord

\* Plus keeps the type.
LEMMA PlusType ==
  ASSUME NEW f \in GuardCounts, NEW i \in Ids, NEW o \in Owners, NEW n \in Int,
         f[i][o] + n \in Nat
  PROVE  Plus(f, i, o, n) \in GuardCounts
  BY DEF Plus, GuardCounts

\* Counts of guards are naturals.
LEMMA CountsAreNat ==
  ASSUME TypeOK, NEW i \in Ids, NEW o \in Owners
  PROVE  /\ live[i][o] \in Nat /\ unlocking[i][o] \in Nat /\ leaked[i][o] \in Nat
         /\ stale[i][o] \in Nat /\ staleUnlocking[i][o] \in Nat
  BY DEF TypeOK, GuardCounts

\* Forgetting the guards of an identifier keeps the type.
LEMMA NoneType ==
  /\ None \in [Owners -> Nat]
  /\ \A f \in GuardCounts : \A i \in Ids : [f EXCEPT ![i] = None] \in GuardCounts
  BY DEF None, GuardCounts

\* An absent record is NoLock and a present one counts at least one level: with
\* TypeOK this is inductive, TypeOK alone is not (an unlock could count below 0).
RecordOK ==
    \A i \in Ids : IF locks[i].owner = NoOwner THEN locks[i] = NoLock
                   ELSE locks[i].reentrant_count >= 1

\* The types hold initially.
LEMMA TypeInit == Init => TypeOK /\ RecordOK
  BY NoLockIsRecord, NoneType DEF Init, TypeOK, RecordOK, GuardCounts, NoLock

\* Lock keeps the types.
LEMMA TypeLock ==
  ASSUME TypeOK, RecordOK, NEW i \in Ids, NEW o \in Owners, Lock(i, o)
  PROVE  TypeOK' /\ RecordOK'
<1>1. CASE LockReentrant(i, o)
  <2>1. AfterCleanup(i) = locks[i] /\ locks[i] \in LockRecord
    BY <1>1 DEF LockReentrant, AfterCleanup, TypeOK, NoLock
  <2>2. locks' = [locks EXCEPT ![i] = [owner |-> o, age |-> 0,
                                       reentrant_count |-> locks[i].reentrant_count + 1]]
    BY <1>1, <2>1 DEF LockReentrant
  <2>3. locks[i].reentrant_count \in Nat
    BY <2>1 DEF LockRecord
  <2>4. locks' \in [Ids -> LockRecord] /\ RecordOK'
    BY <2>2, <2>3, NewRecord DEF TypeOK, RecordOK
  <2>5. live' \in GuardCounts
    BY <1>1, PlusType, CountsAreNat DEF LockReentrant, TypeOK
  <2> QED
    BY <1>1, <2>4, <2>5 DEF LockReentrant, TypeOK
<1>2. CASE LockFree(i, o)
  <2>1. locks' \in [Ids -> LockRecord] /\ RecordOK'
    BY <1>2, NewRecord DEF LockFree, TypeOK, RecordOK
  <2>2. live' \in GuardCounts
    BY <1>2, PlusType, CountsAreNat DEF LockFree, TypeOK
  <2> QED
    BY <1>2, <2>1, <2>2 DEF LockFree, TypeOK
<1>3. CASE LockExpired(i, o)
  <2>1. locks' \in [Ids -> LockRecord] /\ RecordOK'
    BY <1>3, NewRecord DEF LockExpired, TypeOK, RecordOK
  <2>2. live' \in GuardCounts /\ unlocking' \in GuardCounts /\ leaked' \in GuardCounts
    BY <1>3, NoneType DEF LockExpired, TypeOK, GuardCounts
  <2>3. stale' \in GuardCounts /\ staleUnlocking' \in GuardCounts
    BY <1>3 DEF LockExpired, TypeOK, GuardCounts
  <2> QED
    BY <2>1, <2>2, <2>3 DEF TypeOK
<1> QED
  BY <1>1, <1>2, <1>3 DEF Lock

\* DropGuard keeps the types.
LEMMA TypeDrop ==
  ASSUME TypeOK, RecordOK, NEW i \in Ids, NEW o \in Owners,
         DropGuard(i, o) \/ DropGuardNoRuntime(i, o)
  PROVE  TypeOK' /\ RecordOK'
<1>1. locks' = locks
  BY DEF DropGuard, DropGuardNoRuntime
<1>2. /\ live' \in GuardCounts /\ unlocking' \in GuardCounts /\ leaked' \in GuardCounts
      /\ stale' \in GuardCounts /\ staleUnlocking' \in GuardCounts
  <2>1. /\ live[i][o] > 0 => Plus(live, i, o, -1) \in GuardCounts
        /\ stale[i][o] > 0 => Plus(stale, i, o, -1) \in GuardCounts
    BY PlusType, CountsAreNat DEF TypeOK
  <2>2. /\ Plus(unlocking, i, o, 1) \in GuardCounts
        /\ Plus(leaked, i, o, 1) \in GuardCounts
        /\ Plus(staleUnlocking, i, o, 1) \in GuardCounts
    BY PlusType, CountsAreNat DEF TypeOK
  <2>3. CASE DropGuard(i, o)
    BY <2>1, <2>2, <2>3 DEF DropGuard, TypeOK
  <2>4. CASE DropGuardNoRuntime(i, o)
    BY <2>1, <2>2, <2>4 DEF DropGuardNoRuntime, TypeOK
  <2> QED
    BY <2>3, <2>4
<1> QED
  BY <1>1, <1>2 DEF TypeOK, RecordOK

\* Unlock keeps the types.
LEMMA TypeUnlock ==
  ASSUME TypeOK, RecordOK, NEW i \in Ids, NEW o \in Owners, Unlock(i, o)
  PROVE  TypeOK' /\ RecordOK'
<1>1. locks' \in [Ids -> LockRecord] /\ RecordOK'
  <2>1. CASE locks[i].owner # o
    BY <2>1 DEF Unlock, AfterUnlock, TypeOK, RecordOK
  <2>2. CASE locks[i].owner = o /\ locks[i].reentrant_count = 1
    BY <2>2, NoLockIsRecord DEF Unlock, AfterUnlock, TypeOK, RecordOK, NoLock
  <2>3. CASE locks[i].owner = o /\ locks[i].reentrant_count # 1
    <3>1. locks[i].reentrant_count \in Nat /\ locks[i].reentrant_count >= 2
      BY <2>3 DEF TypeOK, RecordOK, LockRecord
    <3>2. locks' = [locks EXCEPT ![i] = [owner |-> o, age |-> locks[i].age,
                                       reentrant_count |-> locks[i].reentrant_count - 1]]
      BY <2>3 DEF Unlock, AfterUnlock
    <3>3. [owner |-> o, age |-> locks[i].age, reentrant_count |-> locks[i].reentrant_count - 1]
            \in LockRecord
      BY <3>1 DEF TypeOK, LockRecord
    <3> QED
      BY <2>3, <3>1, <3>2, <3>3 DEF TypeOK, RecordOK, LockRecord
  <2> QED
    BY <2>1, <2>2, <2>3
<1>2. /\ live' \in GuardCounts /\ unlocking' \in GuardCounts /\ leaked' \in GuardCounts
      /\ stale' \in GuardCounts /\ staleUnlocking' \in GuardCounts
  BY PlusType, CountsAreNat DEF Unlock, TypeOK
<1> QED
  BY <1>1, <1>2 DEF TypeOK

\* ReleaseLocks keeps the types.
LEMMA TypeRelease ==
  ASSUME TypeOK, RecordOK, NEW o \in Owners, ReleaseLocks(o)
  PROVE  TypeOK' /\ RecordOK'
<1>1. locks' \in [Ids -> LockRecord] /\ RecordOK'
  BY NoLockIsRecord DEF ReleaseLocks, TypeOK, RecordOK, NoLock
<1>2. live' \in GuardCounts /\ unlocking' \in GuardCounts /\ leaked' \in GuardCounts
  BY DEF ReleaseLocks, TypeOK, GuardCounts
<1>3. stale' \in GuardCounts /\ staleUnlocking' \in GuardCounts
  BY DEF ReleaseLocks, TypeOK, GuardCounts
<1> QED
  BY <1>1, <1>2, <1>3 DEF TypeOK

\* Tick keeps the types.
LEMMA TypeTick ==
  ASSUME TypeOK, RecordOK, Tick
  PROVE  TypeOK' /\ RecordOK'
<1>1. ASSUME NEW i \in Ids
      PROVE  /\ locks'[i] \in LockRecord
             /\ locks'[i].owner = locks[i].owner
             /\ locks'[i].reentrant_count = locks[i].reentrant_count
             /\ locks[i].owner = NoOwner => locks'[i] = locks[i]
  BY DEF Tick, TypeOK, LockRecord
<1>2. locks' \in [Ids -> LockRecord]
  BY <1>1 DEF Tick
<1> QED
  BY <1>1, <1>2 DEF Tick, TypeOK, RecordOK, guardVars

\* No operation, in whatever order callers use them, takes a record or a count
\* out of its range (in particular reentrant_count, a usize, never goes below 0).
THEOREM TypeCorrect == Spec => []TypeOK
<1>1. Init => TypeOK /\ RecordOK
  BY TypeInit
<1>2. TypeOK /\ RecordOK /\ [Next]_vars => TypeOK' /\ RecordOK'
  <2> SUFFICES ASSUME TypeOK, RecordOK, [Next]_vars PROVE TypeOK' /\ RecordOK'
    OBVIOUS
  <2>1. CASE UNCHANGED vars
    BY <2>1 DEF vars, TypeOK, RecordOK
  <2>2. CASE Tick
    BY <2>2, TypeTick
  <2>3. ASSUME NEW o \in Owners, ReleaseLocks(o) PROVE TypeOK' /\ RecordOK'
    BY <2>3, TypeRelease
  <2>4. ASSUME NEW i \in Ids, NEW o \in Owners,
               Lock(i, o) \/ DropGuard(i, o) \/ DropGuardNoRuntime(i, o) \/ Unlock(i, o)
        PROVE  TypeOK' /\ RecordOK'
    BY <2>4, TypeLock, TypeDrop, TypeUnlock
  <2> QED
    BY <2>1, <2>2, <2>3, <2>4 DEF Next
<1> QED
  BY <1>1, <1>2, PTL DEF Spec

-----------------------------------------------------------------------------
(* Exclusive access for drained callers. *)

\* The owner of a record has no guard or unlock task left from an earlier tenure.
OwnerDrained ==
    \A i \in Ids : \A o \in Owners :
        locks[i].owner = o => stale[i][o] = 0 /\ staleUnlocking[i][o] = 0

\* The inductive invariant of DrainedSpec.
DrainedInv == TypeOK /\ RecordOK /\ GuardsBackRecord /\ OwnerDrained

\* Plus(f, i, o, 1), point by point.
LEMMA PlusOneAt ==
  ASSUME NEW f \in GuardCounts, NEW i \in Ids, NEW o \in Owners, NEW j \in Ids, NEW p \in Owners
  PROVE  Plus(f, i, o, 1)[j][p] = IF j = i /\ p = o THEN f[j][p] + 1 ELSE f[j][p]
  BY DEF Plus, GuardCounts

\* Plus(f, i, o, -1), point by point.
LEMMA MinusOneAt ==
  ASSUME NEW f \in GuardCounts, NEW i \in Ids, NEW o \in Owners, NEW j \in Ids, NEW p \in Owners
  PROVE  Plus(f, i, o, -1)[j][p] = IF j = i /\ p = o THEN f[j][p] - 1 ELSE f[j][p]
  BY DEF Plus, GuardCounts

\* A sum of naturals that is zero.
LEMMA SumIsZero ==
  ASSUME NEW a \in Nat, NEW b \in Nat, NEW c \in Nat, a + b + c = 0
  PROVE  a = 0 /\ b = 0 /\ c = 0
  OBVIOUS

\* Lock keeps the parts of DrainedInv.
LEMMA DrainedLock ==
  ASSUME DrainedInv, NEW i \in Ids, NEW o \in Owners, Drained(i, o), Lock(i, o)
  PROVE  GuardsBackRecord' /\ OwnerDrained'
<1> SUFFICES ASSUME NEW j \in Ids, NEW p \in Owners
             PROVE  /\ live'[j][p] + unlocking'[j][p] + leaked'[j][p]
                         = IF locks'[j].owner = p THEN locks'[j].reentrant_count ELSE 0
                    /\ locks'[j].owner = p => stale'[j][p] = 0 /\ staleUnlocking'[j][p] = 0
  BY DEF GuardsBackRecord, OwnerDrained
<1> USE DEF DrainedInv
<1>1. /\ live[j][p] + unlocking[j][p] + leaked[j][p]
            = IF locks[j].owner = p THEN locks[j].reentrant_count ELSE 0
      /\ locks[j].owner = p => stale[j][p] = 0 /\ staleUnlocking[j][p] = 0
  BY DEF GuardsBackRecord, OwnerDrained
<1>2. /\ live[j][p] \in Nat /\ unlocking[j][p] \in Nat /\ leaked[j][p] \in Nat
      /\ stale[j][p] \in Nat /\ staleUnlocking[j][p] \in Nat
  BY CountsAreNat
<1>3. /\ live[i][o] \in Nat /\ unlocking[i][o] \in Nat
      /\ stale[i][o] \in Nat /\ staleUnlocking[i][o] \in Nat
  BY CountsAreNat
<1>4. stale[i][o] = 0 /\ staleUnlocking[i][o] = 0
  BY <1>3 DEF Drained
<1>5. CASE LockReentrant(i, o)
  <2>1. AfterCleanup(i) = locks[i] /\ locks[i].owner = o
    BY <1>5 DEF LockReentrant, AfterCleanup, NoLock
  <2>2. locks'[j] = IF j = i THEN [owner |-> o, age |-> 0,
                                   reentrant_count |-> locks[i].reentrant_count + 1]
                    ELSE locks[j]
    BY <1>5, <2>1 DEF LockReentrant, TypeOK
  <2>3. live'[j][p] = IF j = i /\ p = o THEN live[i][o] + 1 ELSE live[j][p]
    BY <1>5, PlusOneAt DEF LockReentrant, TypeOK
  <2>4. locks[i].reentrant_count \in Nat
    BY DEF TypeOK, LockRecord
  <2>5. UNCHANGED <<unlocking, leaked, stale, staleUnlocking>>
    BY <1>5 DEF LockReentrant
  <2> QED
    BY <1>1, <1>2, <1>4, <2>1, <2>2, <2>3, <2>4, <2>5
<1>6. CASE LockFree(i, o)
  <2>1. locks'[j] = IF j = i THEN [owner |-> o, age |-> 0, reentrant_count |-> 1] ELSE locks[j]
    BY <1>6 DEF LockFree, TypeOK
  <2>2. live'[j][p] = IF j = i /\ p = o THEN live[i][o] + 1 ELSE live[j][p]
    BY <1>6, PlusOneAt DEF LockFree, TypeOK
  <2>3. UNCHANGED <<unlocking, leaked, stale, staleUnlocking>> /\ locks[i].owner = NoOwner
    BY <1>6 DEF LockFree
  <2>4. CASE j = i
    <3>0. locks[j].owner # p
      BY <2>3, <2>4
    <3>1. live[j][p] + unlocking[j][p] + leaked[j][p] = 0
      BY <1>1, <3>0
    <3>2. live[j][p] = 0 /\ unlocking[j][p] = 0 /\ leaked[j][p] = 0
      BY <1>2, <3>1, SumIsZero
    <3>3. locks'[j].owner = o /\ locks'[j].reentrant_count = 1
      BY <2>1, <2>4
    <3>4. live'[j][p] = IF p = o THEN 1 ELSE 0
      BY <2>2, <2>4, <3>2
    <3> QED
      BY <1>4, <2>3, <2>4, <3>2, <3>3, <3>4
  <2>5. CASE j # i
    BY <1>1, <2>1, <2>2, <2>3, <2>5
  <2> QED
    BY <2>4, <2>5
<1>7. CASE LockExpired(i, o)
  <2>1. locks'[j] = IF j = i THEN [owner |-> o, age |-> 0, reentrant_count |-> 1] ELSE locks[j]
    BY <1>7 DEF LockExpired, TypeOK
  <2>2. live'[j][p] = IF j = i THEN (IF p = o THEN 1 ELSE 0) ELSE live[j][p]
    BY <1>7 DEF LockExpired, TypeOK, GuardCounts, None
  <2>3. /\ unlocking'[j][p] = IF j = i THEN 0 ELSE unlocking[j][p]
        /\ leaked'[j][p] = IF j = i THEN 0 ELSE leaked[j][p]
    BY <1>7 DEF LockExpired, TypeOK, GuardCounts, None
  <2>4. /\ stale'[j][p] = IF j = i THEN stale[i][p] + live[i][p] ELSE stale[j][p]
        /\ staleUnlocking'[j][p] = IF j = i THEN staleUnlocking[i][p] + unlocking[i][p]
                                   ELSE staleUnlocking[j][p]
    BY <1>7 DEF LockExpired, TypeOK, GuardCounts
  <2>5. live[i][o] = 0 /\ unlocking[i][o] = 0
    <3>1. IsExpired(locks[i])
      BY <1>7 DEF LockExpired, AfterCleanup, NoLock
    <3> QED
      BY <3>1, <1>3 DEF Drained
  <2> QED
    BY <1>1, <1>2, <1>4, <2>1, <2>2, <2>3, <2>4, <2>5
<1> QED
  BY <1>5, <1>6, <1>7 DEF Lock

\* DropGuard keeps the parts of DrainedInv.
LEMMA DrainedDrop ==
  ASSUME DrainedInv, NEW i \in Ids, NEW o \in Owners,
         DropGuard(i, o) \/ DropGuardNoRuntime(i, o)
  PROVE  GuardsBackRecord' /\ OwnerDrained'
<1> SUFFICES ASSUME NEW j \in Ids, NEW p \in Owners
             PROVE  /\ live'[j][p] + unlocking'[j][p] + leaked'[j][p]
                         = live[j][p] + unlocking[j][p] + leaked[j][p]
                    /\ stale[j][p] = 0 /\ staleUnlocking[j][p] = 0
                         => stale'[j][p] = 0 /\ staleUnlocking'[j][p] = 0
  BY DEF GuardsBackRecord, OwnerDrained, DrainedInv, DropGuard, DropGuardNoRuntime
<1> USE DEF DrainedInv
<1>1. /\ live[j][p] \in Nat /\ unlocking[j][p] \in Nat /\ leaked[j][p] \in Nat
      /\ stale[j][p] \in Nat /\ staleUnlocking[j][p] \in Nat
  BY CountsAreNat
<1>0. /\ live \in GuardCounts /\ unlocking \in GuardCounts /\ leaked \in GuardCounts
      /\ stale \in GuardCounts /\ staleUnlocking \in GuardCounts
  BY DEF TypeOK
<1>2. CASE live[i][o] > 0 /\ live' = Plus(live, i, o, -1)
           /\ unlocking' = Plus(unlocking, i, o, 1) /\ UNCHANGED <<leaked, stale, staleUnlocking>>
  <2>1. live'[j][p] = IF j = i /\ p = o THEN live[j][p] - 1 ELSE live[j][p]
    BY <1>0, <1>2, MinusOneAt
  <2>2. unlocking'[j][p] = IF j = i /\ p = o THEN unlocking[j][p] + 1 ELSE unlocking[j][p]
    BY <1>0, <1>2, PlusOneAt
  <2> QED
    BY <1>1, <1>2, <2>1, <2>2
<1>3. CASE live[i][o] > 0 /\ live' = Plus(live, i, o, -1)
           /\ leaked' = Plus(leaked, i, o, 1) /\ UNCHANGED <<unlocking, stale, staleUnlocking>>
  <2>1. live'[j][p] = IF j = i /\ p = o THEN live[j][p] - 1 ELSE live[j][p]
    BY <1>0, <1>3, MinusOneAt
  <2>2. leaked'[j][p] = IF j = i /\ p = o THEN leaked[j][p] + 1 ELSE leaked[j][p]
    BY <1>0, <1>3, PlusOneAt
  <2> QED
    BY <1>1, <1>3, <2>1, <2>2
<1>4. CASE stale[i][o] > 0 /\ stale' = Plus(stale, i, o, -1)
           /\ staleUnlocking' = Plus(staleUnlocking, i, o, 1) /\ UNCHANGED <<live, unlocking, leaked>>
  <2>1. stale'[j][p] = IF j = i /\ p = o THEN stale[j][p] - 1 ELSE stale[j][p]
    BY <1>0, <1>4, MinusOneAt
  <2>2. staleUnlocking'[j][p] = IF j = i /\ p = o THEN staleUnlocking[j][p] + 1
                                ELSE staleUnlocking[j][p]
    BY <1>0, <1>4, PlusOneAt
  <2> QED
    BY <1>1, <1>4, <2>1, <2>2
<1>5. CASE stale[i][o] > 0 /\ stale' = Plus(stale, i, o, -1)
           /\ UNCHANGED <<live, unlocking, leaked, staleUnlocking>>
  <2>1. stale'[j][p] = IF j = i /\ p = o THEN stale[j][p] - 1 ELSE stale[j][p]
    BY <1>0, <1>5, MinusOneAt
  <2> QED
    BY <1>1, <1>5, <2>1
<1> QED
  BY <1>2, <1>3, <1>4, <1>5 DEF DropGuard, DropGuardNoRuntime

\* Unlock keeps the parts of DrainedInv.
LEMMA DrainedUnlock ==
  ASSUME DrainedInv, NEW i \in Ids, NEW o \in Owners, Unlock(i, o)
  PROVE  GuardsBackRecord' /\ OwnerDrained'
<1> SUFFICES ASSUME NEW j \in Ids, NEW p \in Owners
             PROVE  /\ live'[j][p] + unlocking'[j][p] + leaked'[j][p]
                         = IF locks'[j].owner = p THEN locks'[j].reentrant_count ELSE 0
                    /\ locks'[j].owner = p => stale'[j][p] = 0 /\ staleUnlocking'[j][p] = 0
  BY DEF GuardsBackRecord, OwnerDrained
<1> USE DEF DrainedInv
<1>1. /\ live[j][p] + unlocking[j][p] + leaked[j][p]
            = IF locks[j].owner = p THEN locks[j].reentrant_count ELSE 0
      /\ locks[j].owner = p => stale[j][p] = 0 /\ staleUnlocking[j][p] = 0
  BY DEF GuardsBackRecord, OwnerDrained
<1>2. /\ live[i][o] + unlocking[i][o] + leaked[i][o]
            = IF locks[i].owner = o THEN locks[i].reentrant_count ELSE 0
      /\ locks[i].owner = o => stale[i][o] = 0 /\ staleUnlocking[i][o] = 0
  BY DEF GuardsBackRecord, OwnerDrained
<1>3. /\ live[j][p] \in Nat /\ unlocking[j][p] \in Nat /\ leaked[j][p] \in Nat
      /\ stale[j][p] \in Nat /\ staleUnlocking[j][p] \in Nat
      /\ live[i][o] \in Nat /\ unlocking[i][o] \in Nat /\ leaked[i][o] \in Nat
      /\ locks[i].reentrant_count \in Nat /\ locks[j].reentrant_count \in Nat
  BY CountsAreNat DEF TypeOK, LockRecord
<1>4. CASE /\ unlocking[i][o] > 0
           /\ unlocking' = Plus(unlocking, i, o, -1)
           /\ UNCHANGED <<live, leaked, stale, staleUnlocking>>
  <2>1. locks[i].owner = o
    BY <1>2, <1>3, <1>4
  <2>2. locks'[j] = IF j # i THEN locks[j]
                    ELSE IF locks[i].reentrant_count = 1 THEN NoLock
                    ELSE [owner |-> o, age |-> locks[i].age,
                          reentrant_count |-> locks[i].reentrant_count - 1]
    BY <2>1 DEF Unlock, AfterUnlock, TypeOK
  <2>3. unlocking'[j][p] = IF j = i /\ p = o THEN unlocking[i][o] - 1 ELSE unlocking[j][p]
    BY <1>4, MinusOneAt DEF TypeOK
  <2> QED
    BY <1>1, <1>3, <1>4, <2>1, <2>2, <2>3 DEF NoLock
<1>5. CASE /\ staleUnlocking[i][o] > 0
           /\ staleUnlocking' = Plus(staleUnlocking, i, o, -1)
           /\ UNCHANGED <<live, unlocking, leaked, stale>>
  <2>1. locks' = locks
    BY <1>2, <1>5 DEF Unlock, AfterUnlock
  <2>2. ~(j = i /\ p = o /\ locks[j].owner = p)
    BY <1>2, <1>5
  <2>3. staleUnlocking'[j][p] = IF j = i /\ p = o THEN staleUnlocking[i][o] - 1
                                ELSE staleUnlocking[j][p]
    BY <1>5, MinusOneAt DEF TypeOK
  <2> QED
    BY <1>1, <1>5, <2>1, <2>2, <2>3
<1> QED
  BY <1>4, <1>5 DEF Unlock

\* ReleaseLocks keeps the parts of DrainedInv.
LEMMA DrainedRelease ==
  ASSUME DrainedInv, NEW o \in Owners, ReleaseLocks(o)
  PROVE  GuardsBackRecord' /\ OwnerDrained'
<1> SUFFICES ASSUME NEW j \in Ids, NEW p \in Owners
             PROVE  /\ live'[j][p] + unlocking'[j][p] + leaked'[j][p]
                         = IF locks'[j].owner = p THEN locks'[j].reentrant_count ELSE 0
                    /\ locks'[j].owner = p => stale'[j][p] = 0 /\ staleUnlocking'[j][p] = 0
  BY DEF GuardsBackRecord, OwnerDrained
<1> USE DEF DrainedInv
<1>1. /\ live[j][p] + unlocking[j][p] + leaked[j][p]
            = IF locks[j].owner = p THEN locks[j].reentrant_count ELSE 0
      /\ locks[j].owner = p => stale[j][p] = 0 /\ staleUnlocking[j][p] = 0
  BY DEF GuardsBackRecord, OwnerDrained
<1>2. CASE locks[j].owner # o
  BY <1>1, <1>2 DEF ReleaseLocks
<1>3. CASE locks[j].owner = o
  <2>1. locks'[j] = NoLock
    BY <1>3 DEF ReleaseLocks
  <2>2. /\ live'[j] = [live[j] EXCEPT ![o] = 0]
        /\ unlocking'[j] = [unlocking[j] EXCEPT ![o] = 0]
        /\ leaked'[j] = [leaked[j] EXCEPT ![o] = 0]
    BY <1>3 DEF ReleaseLocks
  <2>3. live[j] \in [Owners -> Nat] /\ unlocking[j] \in [Owners -> Nat] /\ leaked[j] \in [Owners -> Nat]
    BY DEF TypeOK, GuardCounts
  <2> QED
    BY <1>1, <1>3, <2>1, <2>2, <2>3 DEF NoLock
<1> QED
  BY <1>2, <1>3

\* Tick keeps the parts of DrainedInv.
LEMMA DrainedTick ==
  ASSUME DrainedInv, Tick
  PROVE  GuardsBackRecord' /\ OwnerDrained'
<1>1. \A i \in Ids : /\ locks'[i].owner = locks[i].owner
                     /\ locks'[i].reentrant_count = locks[i].reentrant_count
  BY DEF Tick
<1> QED
  BY <1>1 DEF Tick, guardVars, DrainedInv, GuardsBackRecord, OwnerDrained

\* DrainedInv holds in every state callers reach that drain their guards.
LEMMA DrainedInvariant == DrainedSpec => []DrainedInv
<1>1. Init => DrainedInv
  <2>1. Init => GuardsBackRecord /\ OwnerDrained
    BY DEF Init, GuardsBackRecord, OwnerDrained, None, NoLock
  <2> QED
    BY <2>1, TypeInit DEF DrainedInv
<1>2. DrainedInv /\ [DrainedNext]_vars => DrainedInv'
  <2> SUFFICES ASSUME DrainedInv, [DrainedNext]_vars PROVE DrainedInv'
    OBVIOUS
  <2> USE DEF DrainedInv
  <2>1. CASE UNCHANGED vars
    BY <2>1 DEF vars, TypeOK, RecordOK, GuardsBackRecord, OwnerDrained
  <2>2. CASE Tick
    BY <2>2, TypeTick, DrainedTick
  <2>3. ASSUME NEW o \in Owners, ReleaseLocks(o) PROVE DrainedInv'
    BY <2>3, TypeRelease, DrainedRelease
  <2>4. ASSUME NEW i \in Ids, NEW o \in Owners, Drained(i, o), Lock(i, o) PROVE DrainedInv'
    BY <2>4, TypeLock, DrainedLock
  <2>5. ASSUME NEW i \in Ids, NEW o \in Owners,
               DropGuard(i, o) \/ DropGuardNoRuntime(i, o)
        PROVE  DrainedInv'
    BY <2>5, TypeDrop, DrainedDrop
  <2>6. ASSUME NEW i \in Ids, NEW o \in Owners, Unlock(i, o) PROVE DrainedInv'
    BY <2>6, TypeUnlock, DrainedUnlock
  <2> QED
    BY <2>1, <2>2, <2>3, <2>4, <2>5, <2>6 DEF DrainedNext
<1> QED
  BY <1>1, <1>2, PTL DEF DrainedSpec

\* Guards, unlock tasks and leaked guards always add up to reentrant_count.
THEOREM GuardAccounting == DrainedSpec => []GuardsBackRecord
  BY DrainedInvariant, PTL DEF DrainedInv

\* Guards that are backed by the one record exclude each other.
LEMMA BackedIsExclusive == DrainedInv => ExclusiveAccess
<1> SUFFICES ASSUME DrainedInv, NEW i \in Ids, NEW o \in Owners, NEW p \in Owners,
                    live[i][o] > 0, live[i][p] > 0
             PROVE  o = p
  BY DEF ExclusiveAccess
<1>1. ASSUME NEW q \in Owners, live[i][q] > 0 PROVE locks[i].owner = q
  BY <1>1, CountsAreNat DEF DrainedInv, GuardsBackRecord
<1> QED
  BY <1>1

\* Drained callers never see two owners with access to one identifier, whatever
\* expires, is leaked, or is released by release_locks.
THEOREM Exclusive == DrainedSpec => []ExclusiveAccess
  BY DrainedInvariant, BackedIsExclusive, PTL

-----------------------------------------------------------------------------
(* No lock outlives its guards, for every caller. *)

\* The levels of a record are owed by the guards of its own tenure: a guard from an
\* earlier one may take a level away, it is never needed for one.
LevelsOwed ==
    \A i \in Ids : \A o \in Owners :
        locks[i].owner = o =>
            locks[i].reentrant_count <= live[i][o] + unlocking[i][o] + leaked[i][o]

\* Lock keeps LevelsOwed.
LEMMA OwedLock ==
  ASSUME TypeOK, RecordOK, LevelsOwed, NEW i \in Ids, NEW o \in Owners, Lock(i, o)
  PROVE  LevelsOwed'
<1> SUFFICES ASSUME NEW j \in Ids, NEW p \in Owners, locks'[j].owner = p
             PROVE  locks'[j].reentrant_count <= live'[j][p] + unlocking'[j][p] + leaked'[j][p]
  BY DEF LevelsOwed
<1>1. locks[j].owner = p => locks[j].reentrant_count <= live[j][p] + unlocking[j][p] + leaked[j][p]
  BY DEF LevelsOwed
<1>2. /\ live[j][p] \in Nat /\ unlocking[j][p] \in Nat /\ leaked[j][p] \in Nat
      /\ locks[j].reentrant_count \in Nat
  BY CountsAreNat DEF TypeOK, LockRecord
<1>3. j = i => p = o
  BY DEF Lock, LockReentrant, LockFree, LockExpired, TypeOK
<1>4. CASE j # i
  BY <1>1, <1>4 DEF Lock, LockReentrant, LockFree, LockExpired, TypeOK, GuardCounts, Plus
<1>5. CASE j = i /\ LockReentrant(i, o)
  <2>1. AfterCleanup(i) = locks[i] /\ locks[i].owner = o
    BY <1>5 DEF LockReentrant, AfterCleanup, NoLock
  <2>2. locks'[i].reentrant_count = locks[i].reentrant_count + 1
    BY <1>5, <2>1 DEF LockReentrant, TypeOK
  <2>3. live'[i][o] = live[i][o] + 1 /\ unlocking' = unlocking /\ leaked' = leaked
    BY <1>5, PlusOneAt DEF LockReentrant, TypeOK
  <2> QED
    BY <1>1, <1>2, <1>3, <1>5, <2>1, <2>2, <2>3
<1>6. CASE j = i /\ LockFree(i, o)
  <2>1. locks'[i].reentrant_count = 1
    BY <1>6 DEF LockFree, TypeOK
  <2>2. live'[i][o] = live[i][o] + 1 /\ unlocking' = unlocking /\ leaked' = leaked
    BY <1>6, PlusOneAt DEF LockFree, TypeOK
  <2> QED
    BY <1>2, <1>3, <1>6, <2>1, <2>2
<1>7. CASE j = i /\ LockExpired(i, o)
  <2>1. locks'[i].reentrant_count = 1
    BY <1>7 DEF LockExpired, TypeOK
  <2>2. live'[i][o] = 1 /\ unlocking'[i][o] = 0 /\ leaked'[i][o] = 0
    BY <1>7 DEF LockExpired, TypeOK, GuardCounts, None
  <2> QED
    BY <1>3, <1>7, <2>1, <2>2
<1> QED
  BY <1>4, <1>5, <1>6, <1>7 DEF Lock

\* DropGuard keeps LevelsOwed.
LEMMA OwedDrop ==
  ASSUME TypeOK, LevelsOwed, NEW i \in Ids, NEW o \in Owners,
         DropGuard(i, o) \/ DropGuardNoRuntime(i, o)
  PROVE  LevelsOwed'
<1> SUFFICES ASSUME NEW j \in Ids, NEW p \in Owners
             PROVE  live'[j][p] + unlocking'[j][p] + leaked'[j][p]
                        = live[j][p] + unlocking[j][p] + leaked[j][p]
  BY DEF LevelsOwed, DropGuard, DropGuardNoRuntime
<1>1. live \in GuardCounts /\ unlocking \in GuardCounts /\ leaked \in GuardCounts
  BY DEF TypeOK
<1>2. live[j][p] \in Nat /\ unlocking[j][p] \in Nat /\ leaked[j][p] \in Nat
  BY CountsAreNat
<1>3. CASE UNCHANGED <<live, unlocking, leaked>>
  BY <1>3
<1>4. CASE live' = Plus(live, i, o, -1) /\ unlocking' = Plus(unlocking, i, o, 1) /\ UNCHANGED leaked
  <2>1. /\ live'[j][p] = IF j = i /\ p = o THEN live[j][p] - 1 ELSE live[j][p]
        /\ unlocking'[j][p] = IF j = i /\ p = o THEN unlocking[j][p] + 1 ELSE unlocking[j][p]
    BY <1>1, <1>4, PlusOneAt, MinusOneAt
  <2> QED
    BY <1>2, <1>4, <2>1
<1>5. CASE live' = Plus(live, i, o, -1) /\ leaked' = Plus(leaked, i, o, 1) /\ UNCHANGED unlocking
  <2>1. /\ live'[j][p] = IF j = i /\ p = o THEN live[j][p] - 1 ELSE live[j][p]
        /\ leaked'[j][p] = IF j = i /\ p = o THEN leaked[j][p] + 1 ELSE leaked[j][p]
    BY <1>1, <1>5, PlusOneAt, MinusOneAt
  <2> QED
    BY <1>2, <1>5, <2>1
<1> QED
  BY <1>3, <1>4, <1>5 DEF DropGuard, DropGuardNoRuntime

\* Unlock keeps LevelsOwed.
LEMMA OwedUnlock ==
  ASSUME TypeOK, RecordOK, LevelsOwed, NEW i \in Ids, NEW o \in Owners, Unlock(i, o)
  PROVE  LevelsOwed'
<1> SUFFICES ASSUME NEW j \in Ids, NEW p \in Owners, locks'[j].owner = p
             PROVE  locks'[j].reentrant_count <= live'[j][p] + unlocking'[j][p] + leaked'[j][p]
  BY DEF LevelsOwed
<1>1. locks[j].owner = p => locks[j].reentrant_count <= live[j][p] + unlocking[j][p] + leaked[j][p]
  BY DEF LevelsOwed
<1>2. /\ live[j][p] \in Nat /\ unlocking[j][p] \in Nat /\ leaked[j][p] \in Nat
      /\ locks[j].reentrant_count \in Nat
  BY CountsAreNat DEF TypeOK, LockRecord
<1>3. live' = live /\ leaked' = leaked
  BY DEF Unlock
<1>4. IF j = i /\ p = o THEN unlocking'[j][p] >= unlocking[j][p] - 1
      ELSE unlocking'[j][p] = unlocking[j][p]
  BY <1>2, MinusOneAt DEF Unlock, TypeOK
<1>5. CASE j = i /\ p = o
  <2>1. locks[i].owner = o /\ locks'[i].reentrant_count = locks[i].reentrant_count - 1
    BY <1>5 DEF Unlock, AfterUnlock, TypeOK, NoLock
  <2>2. unlocking'[i][o] \in Nat
    BY TypeUnlock, CountsAreNat, MinusOneAt, <1>2, <1>5 DEF Unlock, TypeOK
  <2> QED
    BY <1>1, <1>2, <1>3, <1>4, <1>5, <2>1, <2>2
<1>6. CASE ~(j = i /\ p = o)
  <2>1. locks'[j] = locks[j]
    BY <1>6 DEF Unlock, AfterUnlock, TypeOK, NoLock
  <2> QED
    BY <1>1, <1>3, <1>4, <1>6, <2>1
<1> QED
  BY <1>5, <1>6

\* ReleaseLocks keeps LevelsOwed.
LEMMA OwedRelease ==
  ASSUME TypeOK, LevelsOwed, NEW o \in Owners, ReleaseLocks(o)
  PROVE  LevelsOwed'
<1> SUFFICES ASSUME NEW j \in Ids, NEW p \in Owners, locks'[j].owner = p
             PROVE  locks'[j].reentrant_count <= live'[j][p] + unlocking'[j][p] + leaked'[j][p]
  BY DEF LevelsOwed
<1>1. locks[j].owner # o
  BY DEF ReleaseLocks, NoLock
<1>2. locks'[j] = locks[j] /\ live'[j] = live[j] /\ unlocking'[j] = unlocking[j] /\ leaked'[j] = leaked[j]
  BY <1>1 DEF ReleaseLocks
<1> QED
  BY <1>2 DEF LevelsOwed

\* Tick keeps LevelsOwed.
LEMMA OwedTick ==
  ASSUME LevelsOwed, Tick
  PROVE  LevelsOwed'
<1>1. \A i \in Ids : /\ locks'[i].owner = locks[i].owner
                     /\ locks'[i].reentrant_count = locks[i].reentrant_count
  BY DEF Tick
<1> QED
  BY <1>1 DEF Tick, guardVars, LevelsOwed

\* Whatever callers do, a record never counts more levels than there are guards and
\* unlock tasks to take them away.
THEOREM LevelsHaveGuards == Spec => []NoOrphanedLevel
<1> DEFINE OwedInv == TypeOK /\ RecordOK /\ LevelsOwed
<1>1. Init => OwedInv
  <2>1. Init => LevelsOwed
    BY DEF Init, LevelsOwed, None, NoLock
  <2> QED
    BY <2>1, TypeInit
<1>2. OwedInv /\ [Next]_vars => OwedInv'
  <2> SUFFICES ASSUME OwedInv, [Next]_vars PROVE OwedInv'
    OBVIOUS
  <2>1. CASE UNCHANGED vars
    BY <2>1 DEF vars, TypeOK, RecordOK, LevelsOwed
  <2>2. CASE Tick
    BY <2>2, TypeTick, OwedTick
  <2>3. ASSUME NEW o \in Owners, ReleaseLocks(o) PROVE OwedInv'
    BY <2>3, TypeRelease, OwedRelease
  <2>4. ASSUME NEW i \in Ids, NEW o \in Owners,
               Lock(i, o) \/ DropGuard(i, o) \/ DropGuardNoRuntime(i, o) \/ Unlock(i, o)
        PROVE  OwedInv'
    BY <2>4, TypeLock, TypeDrop, TypeUnlock, OwedLock, OwedDrop, OwedUnlock
  <2> QED
    BY <2>1, <2>2, <2>3, <2>4 DEF Next
<1>3. OwedInv => NoOrphanedLevel
  <2> SUFFICES ASSUME OwedInv, NEW i \in Ids, NEW o \in Owners, locks[i].owner = o
               PROVE  /\ locks[i].reentrant_count >= 1
                      /\ locks[i].reentrant_count <= Outstanding(i, o)
    BY DEF NoOrphanedLevel
  <2>1. /\ locks[i].reentrant_count >= 1
        /\ locks[i].reentrant_count <= live[i][o] + unlocking[i][o] + leaked[i][o]
    BY DEF RecordOK, LevelsOwed
  <2>2. locks[i].reentrant_count \in Nat
    BY DEF TypeOK, LockRecord
  <2> QED
    BY <2>1, <2>2, CountsAreNat DEF Outstanding
<1> QED
  BY <1>1, <1>2, <1>3, PTL DEF Spec

-----------------------------------------------------------------------------
(* Drained callers get the contract of ExclusiveLock. *)

\* Only the owner of the record has guards.
LEMMA OnlyOwnerHolds ==
  ASSUME DrainedInv, NEW i \in Ids, NEW p \in Owners, locks[i].owner # p
  PROVE  live[i][p] = 0 /\ unlocking[i][p] = 0 /\ leaked[i][p] = 0
<1>1. live[i][p] + unlocking[i][p] + leaked[i][p] = 0
  BY DEF DrainedInv, GuardsBackRecord
<1>2. live[i][p] \in Nat /\ unlocking[i][p] \in Nat /\ leaked[i][p] \in Nat
  BY CountsAreNat DEF DrainedInv
<1> QED
  BY <1>1, <1>2, SumIsZero

\* Lock is a step of the contract, or stutters.
LEMMA RefineLock ==
  ASSUME DrainedInv, NEW i \in Ids, NEW o \in Owners, Drained(i, o), Lock(i, o)
  PROVE  Contract!Acquire(i, o)
<1> USE DEF DrainedInv
<1>1. live \in [Ids -> [Owners -> Nat]] /\ locks \in [Ids -> LockRecord]
  BY DEF TypeOK, GuardCounts
<1>2. locks' = [locks EXCEPT ![i] = locks'[i]] /\ locks'[i].age = 0 /\ ~IsExpired(locks'[i])
  BY <1>1 DEF Lock, LockReentrant, LockFree, LockExpired, IsExpired
<1>3. LeaseState' = [LeaseState EXCEPT ![i] = "running"]
  BY <1>1, <1>2 DEF LeaseState
<1>4. CASE LockReentrant(i, o) \/ LockFree(i, o)
  <2>1. ~IsExpired(locks[i]) /\ (locks[i].owner = o \/ locks[i].owner = NoOwner)
    BY <1>4 DEF LockReentrant, LockFree, AfterCleanup, IsExpired, NoLock, RecordOK
  <2>2. \A p \in Owners \ {o} : live[i][p] = 0
    BY <2>1, OnlyOwnerHolds
  <2>3. live' = [live EXCEPT ![i][o] = live[i][o] + 1]
    BY <1>4 DEF LockReentrant, LockFree, Plus
  <2>4. live'[i] = [p \in Owners |-> IF p # o THEN 0 ELSE live[i][o] + 1]
    BY <1>1, <2>2, <2>3
  <2>5. live' = [live EXCEPT ![i] = [p \in Owners |-> IF p # o THEN 0
                                     ELSE IF LeaseState[i] = "over" THEN 1 ELSE live[i][o] + 1]]
    BY <1>1, <2>1, <2>3, <2>4 DEF LeaseState
  <2> QED
    BY <1>3, <2>2, <2>5 DEF Contract!Acquire, LeaseState
<1>5. CASE LockExpired(i, o)
  <2>1. IsExpired(locks[i])
    BY <1>5 DEF LockExpired, AfterCleanup, NoLock
  <2>2. live' = [live EXCEPT ![i] = [p \in Owners |-> IF p # o THEN 0
                                     ELSE IF LeaseState[i] = "over" THEN 1 ELSE live[i][o] + 1]]
    BY <1>5, <2>1 DEF LockExpired, None, LeaseState
  <2> QED
    BY <1>3, <2>1, <2>2 DEF Contract!Acquire, LeaseState
<1> QED
  BY <1>4, <1>5 DEF Lock

\* DropGuard is a step of the contract, or stutters.
LEMMA RefineDrop ==
  ASSUME DrainedInv, NEW i \in Ids, NEW o \in Owners,
         DropGuard(i, o) \/ DropGuardNoRuntime(i, o)
  PROVE  Contract!Release(i, o) \/ UNCHANGED <<live, LeaseState>>
<1>1. UNCHANGED LeaseState
  BY DEF DropGuard, DropGuardNoRuntime, LeaseState
<1>2. CASE UNCHANGED live
  BY <1>1, <1>2
<1>3. CASE live[i][o] > 0 /\ live' = Plus(live, i, o, -1)
  <2>1. live[i][o] \in Nat
    BY CountsAreNat DEF DrainedInv
  <2>2. live' = [live EXCEPT ![i][o] = live[i][o] - 1]
    BY <1>3, <2>1 DEF Plus
  <2> QED
    BY <1>1, <1>3, <2>2 DEF Contract!Release, LeaseState
<1> QED
  BY <1>2, <1>3 DEF DropGuard, DropGuardNoRuntime

\* Unlock is a step of the contract, or stutters.
LEMMA RefineUnlock ==
  ASSUME DrainedInv, NEW i \in Ids, NEW o \in Owners, Unlock(i, o)
  PROVE  Contract!Close(i) \/ UNCHANGED <<live, LeaseState>>
<1> USE DEF DrainedInv
<1>0. UNCHANGED live
  BY DEF Unlock
<1>1. CASE locks[i].owner # o
  BY <1>0, <1>1 DEF Unlock, AfterUnlock, LeaseState
<1>2. CASE locks[i].owner = o /\ locks[i].reentrant_count # 1
  <2>1. \A j \in Ids : locks'[j].age = locks[j].age
    BY <1>2 DEF Unlock, AfterUnlock, TypeOK
  <2> QED
    BY <1>0, <2>1 DEF LeaseState, IsExpired
<1>3. CASE locks[i].owner = o /\ locks[i].reentrant_count = 1
  <2>1. locks' = [locks EXCEPT ![i] = NoLock]
    BY <1>3 DEF Unlock, AfterUnlock
  <2>2. LeaseState' = [LeaseState EXCEPT ![i] = "running"]
    <3>1. ~IsExpired(NoLock)
      BY DEF IsExpired, NoLock
    <3>2. locks'[i] = NoLock /\ \A j \in Ids \ {i} : locks'[j] = locks[j]
      BY <2>1 DEF TypeOK
    <3> QED
      BY <3>1, <3>2 DEF LeaseState
  <2>3. unlocking[i][o] > 0
    BY <1>3, CountsAreNat DEF Unlock, OwnerDrained
  <2>4. live[i][o] + unlocking[i][o] + leaked[i][o] = 1
    BY <1>3 DEF GuardsBackRecord
  <2>5. live[i][o] = 0
    BY <2>3, <2>4, CountsAreNat
  <2>6. \A p \in Owners : live[i][p] = 0
    BY <1>3, <2>5, OnlyOwnerHolds
  <2>7. live[i] = [p \in Owners |-> 0]
    BY <2>6 DEF TypeOK, GuardCounts
  <2> QED
    BY <1>0, <2>2, <2>7 DEF Contract!Close, Contract!Nobody, LeaseState
<1> QED
  BY <1>1, <1>2, <1>3

\* ReleaseLocks is a step of the contract, or stutters.
LEMMA RefineRelease ==
  ASSUME DrainedInv, NEW o \in Owners, ReleaseLocks(o)
  PROVE  Contract!Forfeit(o)
<1> USE DEF DrainedInv
<1>0. live \in [Ids -> [Owners -> Nat]]
  BY DEF TypeOK, GuardCounts
<1>1. ASSUME NEW i \in Ids PROVE live'[i] = [live[i] EXCEPT ![o] = 0]
  <2>1. CASE locks[i].owner = o
    BY <2>1 DEF ReleaseLocks
  <2>2. CASE locks[i].owner # o
    <3>1. live[i][o] = 0 /\ live[i] \in [Owners -> Nat]
      BY <2>2, OnlyOwnerHolds, <1>0
    <3>2. live'[i] = live[i]
      BY <2>2 DEF ReleaseLocks
    <3> QED
      BY <3>1, <3>2
  <2> QED
    BY <2>1, <2>2
<1>2. live' = [i \in Ids |-> [live[i] EXCEPT ![o] = 0]]
  <2>1. DOMAIN live' = Ids /\ live' = [i \in Ids |-> live'[i]]
    BY DEF ReleaseLocks
  <2> QED
    BY <1>1, <2>1
<1>3. ASSUME NEW i \in Ids, LeaseState'[i] # LeaseState[i]
      PROVE  LeaseState[i] = "over" /\ live'[i] = [p \in Owners |-> 0]
  <2>1. locks[i].owner = o /\ locks'[i] = NoLock
    BY <1>3 DEF ReleaseLocks, LeaseState
  <2>2. ASSUME NEW p \in Owners PROVE live'[i][p] = 0
    <3>1. live'[i] = [live[i] EXCEPT ![o] = 0] /\ live[i] \in [Owners -> Nat]
      BY <1>0, <1>1
    <3>2. p # o => live[i][p] = 0
      BY <2>1, OnlyOwnerHolds
    <3> QED
      BY <3>1, <3>2
  <2>3. live'[i] = [p \in Owners |-> 0]
    BY <1>0, <1>1, <2>2
  <2>4. LeaseState[i] = "over"
    BY <1>3, <2>1 DEF LeaseState, IsExpired, NoLock
  <2> QED
    BY <2>3, <2>4
<1>4. LeaseState' \in [Ids -> {"running", "over"}]
  BY DEF LeaseState, IsExpired
<1> QED
  BY <1>2, <1>3, <1>4 DEF Contract!Forfeit, Contract!Nobody, LeaseState

\* Tick is a step of the contract, or stutters.
LEMMA RefineTick ==
  ASSUME DrainedInv, Tick
  PROVE  Contract!Elapse
<1>1. ASSUME NEW i \in Ids, IsExpired(locks[i]) PROVE IsExpired(locks'[i])
  <2>1. locks[i].age \in Int /\ ~(locks[i].age <= Timeout)
    BY <1>1 DEF IsExpired, DrainedInv, TypeOK, LockRecord
  <2>2. locks'[i] = locks[i]
    BY <2>1 DEF Tick
  <2> QED
    BY <1>1, <2>2
<1>2. LeaseState' \in [Ids -> {"running", "over"}]
  BY DEF LeaseState, IsExpired
<1> QED
  BY <1>1, <1>2 DEF Tick, guardVars, Contract!Elapse, LeaseState

\* The memory lock manager and its guards implement the contract of trait
\* LockManager for drained callers, whatever Ids, Owners, Timeout and MaxGuards.
THEOREM Implementation == DrainedSpec => ImplementsExclusiveLock
<1>1. Init => Contract!Init
  BY DEF Init, Contract!Init, Contract!Nobody, None, LeaseState, IsExpired, NoLock
<1>2. DrainedInv /\ [DrainedNext]_vars => [Contract!Next]_(Contract!vars)
  <2> SUFFICES ASSUME DrainedInv, [DrainedNext]_vars
               PROVE  Contract!Next \/ UNCHANGED <<live, LeaseState>>
    BY DEF Contract!vars, LeaseState
  <2>1. CASE UNCHANGED vars
    BY <2>1 DEF vars, LeaseState
  <2>2. CASE Tick
    BY <2>2, RefineTick DEF Contract!Next
  <2>3. ASSUME NEW o \in Owners, ReleaseLocks(o) PROVE Contract!Next
    BY <2>3, RefineRelease DEF Contract!Next
  <2>4. ASSUME NEW i \in Ids, NEW o \in Owners, Drained(i, o), Lock(i, o) PROVE Contract!Next
    BY <2>4, RefineLock DEF Contract!Next
  <2>5. ASSUME NEW i \in Ids, NEW o \in Owners,
               DropGuard(i, o) \/ DropGuardNoRuntime(i, o)
        PROVE  Contract!Next \/ UNCHANGED <<live, LeaseState>>
    BY <2>5, RefineDrop DEF Contract!Next
  <2>6. ASSUME NEW i \in Ids, NEW o \in Owners, Unlock(i, o)
        PROVE  Contract!Next \/ UNCHANGED <<live, LeaseState>>
    BY <2>6, RefineUnlock DEF Contract!Next
  <2> QED
    BY <2>1, <2>2, <2>3, <2>4, <2>5, <2>6 DEF DrainedNext
<1> QED
  BY <1>1, <1>2, DrainedInvariant, PTL DEF DrainedSpec, ImplementsExclusiveLock, Contract!Spec
=============================================================================
