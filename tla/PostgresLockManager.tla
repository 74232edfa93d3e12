------------------------ MODULE PostgresLockManager ------------------------
(***************************************************************************)
(* PostgresLockManager (crates/facet-postgres/src/lock.rs) and the LockGuard *)
(* of crates/facet-core/src/lock/mod.rs, used by tasks of several replicas.  *)
(*                                                                         *)
(* lock() is a READ COMMITTED transaction of up to three statements, and     *)
(* other transactions run between them.  Postgres is external: a statement   *)
(* reads the last committed version of a row or the transaction's own write, *)
(* a written row stays locked until the transaction ends, and a statement    *)
(* that needs a row locked by another transaction waits.  A row that ON      *)
(* CONFLICT found but did not update is not assumed to stay locked, as the   *)
(* retry loop of lock_internal does not assume it either.                    *)
(*                                                                         *)
(* Timestamps are kept as ages.  A row's age is the real time minus its      *)
(* acquired_at; a call's lag is the real time minus the `now` it read when   *)
(* its transaction began, which is negative if its replica's clock is ahead. *)
(***************************************************************************)
EXTENDS Integers, FiniteSets, Relation

CONSTANTS Ids, Owners, NoOwner,
          Tasks,        \* calls and guards that exist at the same time
          Timeout,      \* PostgresLockManager::timeout
          Retries,      \* PostgresLockManager::retries
          MAX_RETRIES,
          CleanupDraws, \* outcomes of random() < cleanup_probability: {TRUE} when it is 1.0
          MaxStall,     \* bound: ticks from reading the clock to the end of the transaction
          MaxSkew,      \* how far a replica's clock may be ahead
          MaxLevels     \* bound: no call is made that could take a row above this count

ASSUME NoOwnerAssumption == NoOwner \notin Owners
ASSUME SetsAssumption == Ids # {} /\ IsFiniteSet(Tasks)
ASSUME BoundsAssumption == {Timeout, Retries, MAX_RETRIES, MaxStall, MaxSkew, MaxLevels} \subseteq Nat
ASSUME CleanupDrawsAssumption == CleanupDraws \in (SUBSET BOOLEAN) \ {{}}

VARIABLES rows,     \* distributed_locks, as committed
          call,     \* call[t]: where task t is in lock() or with its guard
          writes,   \* writes[t]: rows written by t's open transaction
          lost      \* tasks whose guard's row was removed by someone else

vars == <<rows, call, writes, lost>>

-----------------------------------------------------------------------------
MaxAge == Timeout + MaxStall + MaxSkew + 1   \* ages are capped here
Ages == (-MaxSkew)..MaxAge

NoRow == [owner |-> NoOwner, age |-> 0, reentrant_count |-> 0]
Rows == [owner : Owners \cup {NoOwner}, age : Ages, reentrant_count : Nat]

InLock == {"cleanup", "upsert", "commit", "select"}
Phases == {"idle"} \cup InLock \cup {"held", "dropped"}
IdleCall == [phase |-> "idle", id |-> CHOOSE i \in Ids : TRUE, owner |-> NoOwner,
             attempt |-> 0, lag |-> 0]

\* The version of row i that a statement of t sees.
Visible(t, i) == IF i \in DOMAIN writes[t] THEN writes[t][i] ELSE rows[i]

LockedByOther(t, i) == \E u \in Tasks \ {t} : i \in DOMAIN writes[u]

NoWrites == [i \in {} |-> NoRow]
Write(t, i, row) == [writes EXCEPT ![t] = [j \in DOMAIN @ \cup {i} |-> IF j = i THEN row ELSE @[j]]]
Step(t, phase) == [call EXCEPT ![t].phase = phase]
Reset(t) == [call EXCEPT ![t] = IdleCall]

HasGuard(t) == call[t].phase \in {"held", "dropped"}
GuardsOn(i, o) == {t \in Tasks : HasGuard(t) /\ call[t].id = i /\ call[t].owner = o}

\* The row was deleted, and maybe inserted again, rather than updated.
Replaced(old, new) == old.owner # new.owner \/ new.reentrant_count <= old.reentrant_count

\* Committing the rows of `new`: guards granted under a replaced row are lost.
Commit(new) ==
    /\ rows' = [i \in Ids |-> IF i \in DOMAIN new THEN new[i] ELSE rows[i]]
    /\ lost' = lost \cup UNION {GuardsOn(i, rows[i].owner) :
                                  i \in {j \in DOMAIN new : Replaced(rows[j], new[j])}}

Init ==
    /\ rows = [i \in Ids |-> NoRow]
    /\ call = [t \in Tasks |-> IdleCall]
    /\ writes = [t \in Tasks |-> NoWrites]
    /\ lost = {}

-----------------------------------------------------------------------------
(* lock() *)

\* An attempt begins: BEGIN, now = clock.now(), draw for the cleanup.
Attempt(t, i, o, n, skew, draw) ==
    call' = [call EXCEPT ![t] = [phase |-> IF n = 0 /\ draw THEN "cleanup" ELSE "upsert",
                                 id |-> i, owner |-> o, attempt |-> n, lag |-> -skew]]

Lock(t, i, o) ==
    /\ call[t].phase = "idle"
    /\ rows[i].reentrant_count
         + Cardinality({u \in Tasks : call[u].phase \in InLock /\ call[u].id = i}) < MaxLevels
    /\ \E skew \in 0..MaxSkew, draw \in CleanupDraws : Attempt(t, i, o, 0, skew, draw)
    /\ UNCHANGED <<rows, writes, lost>>

\* Mutant: acquired_at <= now - timeout.
IsExpiredFor_Early(t, row) == row.owner # NoOwner /\ row.age - call[t].lag >= Timeout

\* acquired_at < now - timeout
IsExpiredFor(t, row) == row.owner # NoOwner /\ row.age - call[t].lag > Timeout

ToDelete(t) == {i \in Ids : IsExpiredFor(t, Visible(t, i))}

\* DELETE ... WHERE acquired_at < cutoff, which locks the rows one by one.
CleanupRow(t, i) ==
    /\ call[t].phase = "cleanup"
    /\ i \in ToDelete(t)
    /\ ~LockedByOther(t, i)
    /\ writes' = Write(t, i, NoRow)
    /\ UNCHANGED <<rows, call, lost>>

CleanupDone(t) ==
    /\ call[t].phase = "cleanup"
    /\ ToDelete(t) = {}
    /\ call' = Step(t, "upsert")
    /\ UNCHANGED <<rows, writes, lost>>

\* INSERT ... ON CONFLICT DO UPDATE ... WHERE owner = EXCLUDED.owner
Upsert(t) ==
    LET i == call[t].id
        o == call[t].owner
        row == Visible(t, i)
    IN
    /\ call[t].phase = "upsert"
    /\ ~LockedByOther(t, i)
    /\ \/ /\ row.owner \in {o, NoOwner}
          /\ writes' = Write(t, i, [owner |-> o, age |-> call[t].lag,
                                    reentrant_count |-> row.reentrant_count + 1])
          /\ call' = Step(t, "commit")
       \/ /\ row.owner \notin {o, NoOwner}
          /\ call' = Step(t, "select")
          /\ UNCHANGED writes
    /\ UNCHANGED <<rows, lost>>

\* COMMIT after a row was returned: lock() returns a guard.
CommitAcquired(t) ==
    /\ call[t].phase = "commit"
    /\ Commit(writes[t])
    /\ writes' = [writes EXCEPT ![t] = NoWrites]
    /\ call' = [call EXCEPT ![t] = [@ EXCEPT !.phase = "held", !.attempt = 0, !.lag = 0]]

\* The commit takes effect but its acknowledgement does not arrive: lock() fails.
CommitAckLost(t) ==
    /\ call[t].phase = "commit"
    /\ Commit(writes[t])
    /\ writes' = [writes EXCEPT ![t] = NoWrites]
    /\ call' = Reset(t)

\* Mutant: a new attempt is not counted.
Select_NotCounted(t) ==
    /\ call[t].phase = "select"
    /\ Commit(writes[t])
    /\ writes' = [writes EXCEPT ![t] = NoWrites]
    /\ \/ /\ Visible(t, call[t].id).owner # NoOwner
          /\ call' = Reset(t)
       \/ /\ Visible(t, call[t].id).owner = NoOwner
          /\ \E skew \in 0..MaxSkew :
               Attempt(t, call[t].id, call[t].owner, call[t].attempt, skew, FALSE)

\* SELECT owner and COMMIT: LockAlreadyHeld, or another attempt, or giving up.
Select(t) ==
    /\ call[t].phase = "select"
    /\ Commit(writes[t])
    /\ writes' = [writes EXCEPT ![t] = NoWrites]
    /\ \/ /\ Visible(t, call[t].id).owner # NoOwner
          /\ call' = Reset(t)
       \/ /\ Visible(t, call[t].id).owner = NoOwner
          /\ call[t].attempt < MAX_RETRIES /\ call[t].attempt < Retries
          /\ \E skew \in 0..MaxSkew :
               Attempt(t, call[t].id, call[t].owner, call[t].attempt + 1, skew, FALSE)
       \/ /\ Visible(t, call[t].id).owner = NoOwner
          /\ call[t].attempt >= MAX_RETRIES \/ call[t].attempt >= Retries
          /\ call' = Reset(t)

\* A statement fails or the replica dies inside lock(): the transaction rolls back.
Abort(t) ==
    /\ call[t].phase \in InLock
    /\ writes' = [writes EXCEPT ![t] = NoWrites]
    /\ call' = Reset(t)
    /\ UNCHANGED <<rows, lost>>

-----------------------------------------------------------------------------
(* The guard *)

DropGuard(t) ==
    /\ call[t].phase = "held"
    /\ call' = Step(t, "dropped")
    /\ UNCHANGED <<rows, writes, lost>>

\* Mutant: unlock() does not compare the owner.
Unlock_AnyOwner(t) ==
    LET i == call[t].id
        row == rows[i]
    IN
    /\ call[t].phase = "dropped"
    /\ ~LockedByOther(t, i)
    /\ rows' = [rows EXCEPT ![i] = IF row.reentrant_count <= 1 THEN NoRow
                                  ELSE [row EXCEPT !.reentrant_count = @ - 1]]
    /\ call' = Reset(t)
    /\ lost' = lost \ {t}
    /\ UNCHANGED writes

\* unlock() in the spawned task.  UPDATE locks the row and DELETE only touches the
\* row UPDATE locked, so no other transaction sees anything between them.
Unlock(t) ==
    LET i == call[t].id
        row == rows[i]
    IN
    /\ call[t].phase = "dropped"
    /\ ~LockedByOther(t, i)
    /\ rows' = IF row.owner # call[t].owner THEN rows
               ELSE [rows EXCEPT ![i] = IF row.reentrant_count <= 1 THEN NoRow
                                        ELSE [row EXCEPT !.reentrant_count = @ - 1]]
    /\ call' = Reset(t)
    /\ lost' = lost \ {t}
    /\ UNCHANGED writes

\* The replica dies, there is no runtime, or unlock() fails: the row stays.
GuardVanishes(t) ==
    /\ HasGuard(t)
    /\ call' = Reset(t)
    /\ lost' = lost \ {t}
    /\ UNCHANGED <<rows, writes>>

\* release_locks(owner): one autocommitted DELETE.
ReleaseLocks(o) ==
    LET mine == {i \in Ids : rows[i].owner = o} IN
    /\ mine # {}
    /\ \A i \in mine : \A t \in Tasks : i \notin DOMAIN writes[t]
    /\ Commit([i \in mine |-> NoRow])
    /\ UNCHANGED <<call, writes>>

Older(row) == IF row.owner = NoOwner \/ row.age = MaxAge THEN row ELSE [row EXCEPT !.age = @ + 1]

\* Real time passes.  The age of a guard is kept in its lag.
Tick ==
    /\ \A t \in Tasks : call[t].phase \in InLock => call[t].lag < MaxStall
    /\ rows' = [i \in Ids |-> Older(rows[i])]
    /\ writes' = [t \in Tasks |-> [i \in DOMAIN writes[t] |-> Older(writes[t][i])]]
    /\ call' = [t \in Tasks |-> IF call[t].phase = "idle" \/ call[t].lag = MaxAge THEN call[t]
                                ELSE [call[t] EXCEPT !.lag = @ + 1]]
    /\ UNCHANGED lost

-----------------------------------------------------------------------------
LockStep(t) ==
    \/ \E i \in Ids : CleanupRow(t, i)
    \/ CleanupDone(t) \/ Upsert(t) \/ CommitAcquired(t) \/ Select(t)

Failure(t) == CommitAckLost(t) \/ Abort(t) \/ GuardVanishes(t)

Next ==
    \/ \E t \in Tasks :
         \/ \E i \in Ids, o \in Owners : Lock(t, i, o)
         \/ LockStep(t) \/ DropGuard(t) \/ Unlock(t) \/ Failure(t)
    \/ \E o \in Owners : ReleaseLocks(o)
    \/ Tick

Spec == Init /\ [][Next]_vars

\* A call that gets the row while a lost guard of the same owner is still around.
Undrained(t) == CommitAcquired(t) /\ GuardsOn(call[t].id, call[t].owner) \cap lost' # {}

\* Callers that finish with every lost guard before their owner locks again.
DrainedSpec == Init /\ [][Next /\ \A t \in Tasks : ~Undrained(t)]_vars

\* Rows t waits for, and the transactions that hold them.
Wants(t) ==
    CASE call[t].phase = "cleanup" -> ToDelete(t)
      [] call[t].phase = "upsert"  -> {call[t].id}
      [] OTHER                     -> {}

WaitsFor == [t, u \in Tasks |-> t # u /\ \E i \in Wants(t) : i \in DOMAIN writes[u]]

\* Postgres aborts a transaction of a wait cycle; lock() returns its error.
DeadlockVictim(t) ==
    /\ TransitiveClosure(WaitsFor, Tasks)[t, t]
    /\ Abort(t)

\* Postgres queues the transactions that wait for a row, so none is passed over
\* for ever (strong fairness), and it breaks wait cycles.
Fairness == \A t \in Tasks : SF_vars(LockStep(t)) /\ WF_vars(DeadlockVictim(t))

FairSpec == Spec /\ Fairness

-----------------------------------------------------------------------------
\* Type invariant.
TypeOK ==
    /\ rows \in [Ids -> Rows]
    /\ \A t \in Tasks : /\ call[t].phase \in Phases /\ call[t].id \in Ids
                        /\ call[t].owner \in Owners \cup {NoOwner}
                        /\ call[t].attempt \in 0..Retries /\ call[t].lag \in Ages
                        /\ writes[t] \in [DOMAIN writes[t] -> Rows]
                        /\ DOMAIN writes[t] \subseteq Ids
    /\ lost \subseteq {t \in Tasks : HasGuard(t)}

\* No live guard is unbacked: the row of a guard that was not lost belongs to its
\* owner and counts at least the owner's live guards.  Hence two owners never have
\* access together (lock.rs: "Only one owner can hold a lock for a given
\* identifier at any time"), although lock() interleaves with other transactions.
GuardsBacked ==
    \A t \in Tasks :
        HasGuard(t) /\ t \notin lost =>
            LET row == rows[call[t].id] IN
            /\ row.owner = call[t].owner
            /\ Cardinality(GuardsOn(call[t].id, call[t].owner) \ lost) <= row.reentrant_count

\* Two transactions never have uncommitted versions of one row, and a committed
\* row always counts at least one level (unlock() leaves no row with count 0).
RowsConsistent ==
    /\ \A t, u \in Tasks : t # u => DOMAIN writes[t] \cap DOMAIN writes[u] = {}
    /\ \A i \in Ids : rows[i].owner # NoOwner => rows[i].reentrant_count >= 1

\* A lease lasts: apart from release_locks, a guard is lost only when it is older
\* than Timeout less the stall of the call that last refreshed the row (its
\* acquired_at is read before waiting for the row) and the skew of the clocks.
LeaseHonoured ==
    [][\A t \in lost' \ lost :
          \/ \E o \in Owners : ReleaseLocks(o)
          \/ call[t].lag + MaxStall + MaxSkew > Timeout]_vars

\* Every call of lock() returns: neither the retry loop, nor waiting for rows other
\* transactions locked, nor a deadlock of two cleanups keeps a caller for ever.
CallsReturn == \A t \in Tasks : call[t].phase \in InLock ~> call[t].phase \notin InLock
=============================================================================
