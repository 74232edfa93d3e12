--------------------------- MODULE ExclusiveLock ---------------------------
(***************************************************************************)
(* What trait LockManager promises, without saying how: a reentrant lock    *)
(* per identifier with a lease.  While the lease runs, only one owner holds *)
(* guards; when it is over, the next caller takes the lock and the guards   *)
(* handed out before count for nothing.                                     *)
(***************************************************************************)
EXTENDS Naturals

CONSTANTS Ids,     \* resource identifiers
          Owners   \* owner identifiers

VARIABLES held,    \* held[i][o]: guards through which o has access to i
          lease    \* lease[i]: whether the lease on i is running or over

vars == <<held, lease>>

Nobody == [o \in Owners |-> 0]

Init ==
    /\ held = [i \in Ids |-> Nobody]
    /\ lease = [i \in Ids |-> "running"]

\* o gets a guard: either nobody else holds one, or the lease is over and every
\* older guard is forfeited.
Acquire(i, o) ==
    /\ lease[i] = "over" \/ \A p \in Owners \ {o} : held[i][p] = 0
    /\ held' = [held EXCEPT ![i] =
                  [p \in Owners |-> IF p # o THEN 0
                                    ELSE IF lease[i] = "over" THEN 1 ELSE held[i][o] + 1]]
    /\ lease' = [lease EXCEPT ![i] = "running"]

\* A guard goes out of scope.
Release(i, o) ==
    /\ held[i][o] > 0
    /\ held' = [held EXCEPT ![i][o] = held[i][o] - 1]
    /\ UNCHANGED lease

\* A lease nobody holds a guard of is closed.
Close(i) ==
    /\ held[i] = Nobody
    /\ lease' = [lease EXCEPT ![i] = "running"]
    /\ UNCHANGED held

\* o gives up everything it holds at once.
Forfeit(o) ==
    /\ held' = [i \in Ids |-> [held[i] EXCEPT ![o] = 0]]
    /\ lease' \in [Ids -> {"running", "over"}]
    /\ \A i \in Ids : lease'[i] # lease[i] => lease[i] = "over" /\ held'[i] = Nobody

\* Time passes: leases only run out.
Elapse ==
    /\ lease' \in [Ids -> {"running", "over"}]
    /\ \A i \in Ids : lease[i] = "over" => lease'[i] = "over"
    /\ UNCHANGED held

Next ==
    \/ \E i \in Ids, o \in Owners : Acquire(i, o) \/ Release(i, o)
    \/ \E i \in Ids : Close(i)
    \/ \E o \in Owners : Forfeit(o)
    \/ Elapse

Spec == Init /\ [][Next]_vars
=============================================================================
