------------------------- MODULE MemoryLockManager -------------------------
(***************************************************************************)
(* MemoryLockManager (crates/facet-core/src/lock/mem.rs) together with the  *)
(* LockGuard it hands out (crates/facet-core/src/lock/mod.rs).              *)
(*                                                                         *)
(* Every operation runs under one Mutex, so each is one action.  What is    *)
(* concurrent is the release: dropping a guard only spawns a task, and the  *)
(* unlock happens whenever that task gets to run.                           *)
(*                                                                         *)
(* A record's acquired_at is kept as its age, clock.now() - acquired_at,    *)
(* capped one above Timeout: the code only asks whether it exceeds Timeout. *)
(***************************************************************************)
EXTENDS Integers

CONSTANTS Ids,        \* resource identifiers
          Owners,     \* owner identifiers
          NoOwner,    \* stands for "no record under this identifier"
          Timeout,    \* MemoryLockManagerInner::timeout, in clock ticks
          MaxGuards   \* bound: guards of one owner on one identifier

ASSUME NoOwnerAssumption == NoOwner \notin Owners
ASSUME TimeoutAssumption == Timeout \in Nat
ASSUME MaxGuardsAssumption == MaxGuards \in Nat

VARIABLES
    locks,          \* MemoryLockManagerInner::locks
    live,           \* live[i][o]: guards in scope whose record is still the one
                    \* they were granted under
    unlocking,      \* unlock tasks spawned by dropping such guards, not yet run
    leaked,         \* such guards dropped outside a runtime: no task was spawned
    stale,          \* guards in scope whose record was removed (expired, released)
    staleUnlocking  \* unlock tasks spawned for such guards, not yet run

vars == <<locks, live, unlocking, leaked, stale, staleUnlocking>>
guardVars == <<live, unlocking, leaked, stale, staleUnlocking>>

-----------------------------------------------------------------------------
LockRecord == [owner : Owners \cup {NoOwner}, age : 0..(Timeout + 1), reentrant_count : Nat]

NoLock == [owner |-> NoOwner, age |-> 0, reentrant_count |-> 0]

\* Mutant: a lock never expires.
IsExpired_Never(lock) == FALSE

IsExpired(lock) == lock.age > Timeout

\* Mutant: cleanup removes the record without looking at its age.
AfterCleanup_Always(i) == NoLock

\* What cleanup_expired_lock leaves under i.
AfterCleanup(i) == IF IsExpired(locks[i]) THEN NoLock ELSE locks[i]

Outstanding(i, o) == live[i][o] + unlocking[i][o] + leaked[i][o] + stale[i][o] + staleUnlocking[i][o]

None == [o \in Owners |-> 0]

Plus(f, i, o, n) == [f EXCEPT ![i][o] = f[i][o] + n]

Init ==
    /\ locks = [i \in Ids |-> NoLock]
    /\ live = [i \in Ids |-> None]
    /\ unlocking = [i \in Ids |-> None]
    /\ leaked = [i \in Ids |-> None]
    /\ stale = [i \in Ids |-> None]
    /\ staleUnlocking = [i \in Ids |-> None]

-----------------------------------------------------------------------------
\* Mutant: a re-entrant lock() does not count its level.
LockReentrant_NotCounted(i, o) ==
    /\ AfterCleanup(i).owner = o
    /\ Outstanding(i, o) < MaxGuards
    /\ locks' = [locks EXCEPT ![i] = [owner |-> o, age |-> 0,
                                      reentrant_count |-> AfterCleanup(i).reentrant_count]]
    /\ live' = Plus(live, i, o, 1)
    /\ UNCHANGED <<unlocking, leaked, stale, staleUnlocking>>

\* lock() by the owner of an unexpired record: one more level, fresh timestamp.
LockReentrant(i, o) ==
    /\ AfterCleanup(i).owner = o
    /\ Outstanding(i, o) < MaxGuards
    /\ locks' = [locks EXCEPT ![i] = [owner |-> o, age |-> 0,
                                      reentrant_count |-> AfterCleanup(i).reentrant_count + 1]]
    /\ live' = Plus(live, i, o, 1)
    /\ UNCHANGED <<unlocking, leaked, stale, staleUnlocking>>

\* lock() where there is no record.
LockFree(i, o) ==
    /\ locks[i].owner = NoOwner
    /\ Outstanding(i, o) < MaxGuards
    /\ locks' = [locks EXCEPT ![i] = [owner |-> o, age |-> 0, reentrant_count |-> 1]]
    /\ live' = Plus(live, i, o, 1)
    /\ UNCHANGED <<unlocking, leaked, stale, staleUnlocking>>

\* Mutant: an expired record is taken over with its count.
LockExpired_KeepsCount(i, o) ==
    /\ locks[i].owner # NoOwner
    /\ AfterCleanup(i) = NoLock
    /\ Outstanding(i, o) < MaxGuards
    /\ locks' = [locks EXCEPT ![i] = [owner |-> o, age |-> 0,
                                      reentrant_count |-> locks[i].reentrant_count + 1]]
    /\ live' = [live EXCEPT ![i] = [None EXCEPT ![o] = 1]]
    /\ unlocking' = [unlocking EXCEPT ![i] = None]
    /\ leaked' = [leaked EXCEPT ![i] = None]
    /\ stale' = [stale EXCEPT ![i] = [p \in Owners |-> stale[i][p] + live[i][p]]]
    /\ staleUnlocking' = [staleUnlocking EXCEPT ![i] =
                            [p \in Owners |-> staleUnlocking[i][p] + unlocking[i][p]]]

\* lock() that first removes an expired record: guards granted under it go stale.
LockExpired(i, o) ==
    /\ locks[i].owner # NoOwner
    /\ AfterCleanup(i) = NoLock
    /\ Outstanding(i, o) < MaxGuards
    /\ locks' = [locks EXCEPT ![i] = [owner |-> o, age |-> 0, reentrant_count |-> 1]]
    /\ live' = [live EXCEPT ![i] = [None EXCEPT ![o] = 1]]
    /\ unlocking' = [unlocking EXCEPT ![i] = None]
    /\ leaked' = [leaked EXCEPT ![i] = None]
    /\ stale' = [stale EXCEPT ![i] = [p \in Owners |-> stale[i][p] + live[i][p]]]
    /\ staleUnlocking' = [staleUnlocking EXCEPT ![i] =
                            [p \in Owners |-> staleUnlocking[i][p] + unlocking[i][p]]]

\* lock().  A call refused with LockAlreadyHeld found an unexpired record of
\* another owner and changes nothing.
Lock(i, o) == LockReentrant(i, o) \/ LockFree(i, o) \/ LockExpired(i, o)

\* Mutant: unlock() does not compare the owner.
AfterUnlock_AnyOwner(i, o) ==
    [locks EXCEPT ![i] = IF locks[i].reentrant_count = 1 THEN NoLock
                         ELSE [owner |-> o, age |-> locks[i].age,
                               reentrant_count |-> locks[i].reentrant_count - 1]]

\* The map after unlock(i, o): nothing changes when there is no record
\* (LockNotFound) or another owner's (LockAlreadyHeld); expiry is not looked at.
AfterUnlock(i, o) ==
    IF locks[i].owner # o THEN locks
    ELSE [locks EXCEPT ![i] = IF locks[i].reentrant_count = 1 THEN NoLock
                              ELSE [owner |-> o, age |-> locks[i].age,
                                    reentrant_count |-> locks[i].reentrant_count - 1]]

\* LockGuard::drop inside a runtime: the unlock task is spawned, no more.
DropGuard(i, o) ==
    \/ /\ live[i][o] > 0
       /\ live' = Plus(live, i, o, -1)
       /\ unlocking' = Plus(unlocking, i, o, 1)
       /\ UNCHANGED <<locks, leaked, stale, staleUnlocking>>
    \/ /\ stale[i][o] > 0
       /\ stale' = Plus(stale, i, o, -1)
       /\ staleUnlocking' = Plus(staleUnlocking, i, o, 1)
       /\ UNCHANGED <<locks, live, unlocking, leaked>>

\* LockGuard::drop outside a runtime: nothing is spawned, the lock must expire.
DropGuardNoRuntime(i, o) ==
    \/ /\ live[i][o] > 0
       /\ live' = Plus(live, i, o, -1)
       /\ leaked' = Plus(leaked, i, o, 1)
       /\ UNCHANGED <<locks, unlocking, stale, staleUnlocking>>
    \/ /\ stale[i][o] > 0
       /\ stale' = Plus(stale, i, o, -1)
       /\ UNCHANGED <<locks, live, unlocking, leaked, staleUnlocking>>

\* A spawned unlock task runs.
Unlock(i, o) ==
    /\ locks' = AfterUnlock(i, o)
    /\ \/ /\ unlocking[i][o] > 0
          /\ unlocking' = Plus(unlocking, i, o, -1)
          /\ UNCHANGED <<live, leaked, stale, staleUnlocking>>
       \/ /\ staleUnlocking[i][o] > 0
          /\ staleUnlocking' = Plus(staleUnlocking, i, o, -1)
          /\ UNCHANGED <<live, unlocking, leaked, stale>>

\* release_locks(owner): every record of o is dropped, its guards go stale.
ReleaseLocks(o) ==
    LET mine == {i \in Ids : locks[i].owner = o} IN
    /\ mine # {}
    /\ locks' = [i \in Ids |-> IF i \in mine THEN NoLock ELSE locks[i]]
    /\ live' = [i \in Ids |-> IF i \in mine THEN [live[i] EXCEPT ![o] = 0] ELSE live[i]]
    /\ unlocking' = [i \in Ids |-> IF i \in mine THEN [unlocking[i] EXCEPT ![o] = 0]
                                   ELSE unlocking[i]]
    /\ leaked' = [i \in Ids |-> IF i \in mine THEN [leaked[i] EXCEPT ![o] = 0] ELSE leaked[i]]
    /\ stale' = [i \in Ids |-> IF i \in mine
                               THEN [stale[i] EXCEPT ![o] = stale[i][o] + live[i][o]]
                               ELSE stale[i]]
    /\ staleUnlocking' = [i \in Ids |-> IF i \in mine
                               THEN [staleUnlocking[i] EXCEPT ![o] =
                                       staleUnlocking[i][o] + unlocking[i][o]]
                               ELSE staleUnlocking[i]]

\* The clock advances.
Tick ==
    /\ locks' = [i \in Ids |-> IF locks[i].owner # NoOwner /\ locks[i].age <= Timeout
                               THEN [owner |-> locks[i].owner, age |-> locks[i].age + 1,
                                     reentrant_count |-> locks[i].reentrant_count]
                               ELSE locks[i]]
    /\ UNCHANGED guardVars

-----------------------------------------------------------------------------
Next ==
    \/ \E i \in Ids, o \in Owners :
         Lock(i, o) \/ DropGuard(i, o) \/ DropGuardNoRuntime(i, o) \/ Unlock(i, o)
    \/ \E o \in Owners : ReleaseLocks(o)
    \/ Tick

Spec == Init /\ [][Next]_vars

\* The operations the callers in this repository use: none calls release_locks.
UsedNext ==
    \/ \E i \in Ids, o \in Owners :
         Lock(i, o) \/ DropGuard(i, o) \/ DropGuardNoRuntime(i, o) \/ Unlock(i, o)
    \/ Tick

UsedSpec == Init /\ [][UsedNext]_vars

\* The runtime keeps running spawned tasks and time keeps passing; nothing is
\* assumed of the callers.
Fairness ==
    /\ WF_vars(Tick)
    /\ \A i \in Ids, o \in Owners : WF_vars(Unlock(i, o))

FairSpec == Spec /\ Fairness

\* Callers that let every guard of a lost lock finish (scope left, unlock task
\* run) before the same owner locks the identifier again.
Drained(i, o) ==
    /\ stale[i][o] + staleUnlocking[i][o] = 0
    /\ IsExpired(locks[i]) => live[i][o] + unlocking[i][o] = 0

DrainedNext ==
    \/ \E i \in Ids, o \in Owners :
         \/ Drained(i, o) /\ Lock(i, o)
         \/ DropGuard(i, o) \/ DropGuardNoRuntime(i, o) \/ Unlock(i, o)
    \/ \E o \in Owners : ReleaseLocks(o)
    \/ Tick

DrainedSpec == Init /\ [][DrainedNext]_vars

-----------------------------------------------------------------------------
GuardCounts == [Ids -> [Owners -> Nat]]

\* Type invariant.
TypeOK ==
    /\ locks \in [Ids -> LockRecord]
    /\ live \in GuardCounts
    /\ unlocking \in GuardCounts
    /\ leaked \in GuardCounts
    /\ stale \in GuardCounts
    /\ staleUnlocking \in GuardCounts

\* Exclusive access (lock/mod.rs: "only one owner may hold a lock for a given
\* identifier at any time"): guards of two owners whose lock was neither expired
\* nor released never exist together on one identifier.
ExclusiveAccess ==
    \A i \in Ids : \A o, p \in Owners : live[i][o] > 0 /\ live[i][p] > 0 => o = p

\* Guards, pending unlock tasks and leaked guards of the current tenure add up to
\* the record's reentrant_count, and no one else has any.
GuardsBackRecord ==
    \A i \in Ids : \A o \in Owners :
        live[i][o] + unlocking[i][o] + leaked[i][o]
            = IF locks[i].owner = o THEN locks[i].reentrant_count ELSE 0

\* No lock outlives its guards: each level of reentrant_count is owed by a guard,
\* an unlock task or a leaked guard of the owner, so once they have finished the
\* record is gone.  Holds for every caller, drained or not.
NoOrphanedLevel ==
    \A i \in Ids : \A o \in Owners :
        locks[i].owner = o => /\ locks[i].reentrant_count >= 1
                              /\ locks[i].reentrant_count <= Outstanding(i, o)

\* No lock is held for ever: an owner either keeps re-locking the identifier, or
\* again and again the identifier is free for others, also when the guard was
\* dropped outside a runtime (mod.rs: "otherwise let the lock expire").
FreeUnlessRenewed ==
    \A i \in Ids : \A o \in Owners :
        \/ []<><<Lock(i, o)>>_vars
        \/ []<>(locks[i].owner # o \/ IsExpired(locks[i]))

LeaseState == [i \in Ids |-> IF IsExpired(locks[i]) THEN "over" ELSE "running"]

Contract == INSTANCE ExclusiveLock WITH held <- live, lease <- LeaseState

\* Drained callers get the contract of trait LockManager.
ImplementsExclusiveLock == Contract!Spec
=============================================================================
