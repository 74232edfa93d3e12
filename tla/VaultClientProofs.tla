------------------------- MODULE VaultClientProofs -------------------------
(***************************************************************************)
(* Proofs about VaultClient for any leases, latency, thresholds, callers and  *)
(* participant contexts.                                                     *)
(***************************************************************************)
EXTENDS VaultClient, FiniteSetTheorems, WellFoundedInduction, TLAPS

Timed == trigger = "time"

\* The last renewal succeeded and got what it asked for.
Good == ~capped /\ state.consecutive_failures = 0 /\ loop # "login"

Typed ==
    /\ state \in [lease_duration : Nat, last_error : BOOLEAN, consecutive_failures : Nat]
    /\ capped \in BOOLEAN
    /\ age \in Nat /\ (Timed => ttl \in Nat)

\* The loop lives from the first login to the end of the client.
LoopOwned ==
    /\ loop \in {"none", "stopped", "check", "wait", "renew", "granted", "login"}
    /\ loop # "none" <=> Renewing /\ client \in {"key", "create", "ready"}

\* Only an initialized client with the renewing provider has an operation under way.
OpsOwned ==
    /\ excused \in BOOLEAN
    /\ op # "idle" => Renewing /\ client = "ready"

\* Only the file trigger has events.
EventsOfFile == Timed => events = <<>>

\* The last error is there as long as failures are counted, and explains why a loop ended.
ErrorsShow ==
    /\ state.consecutive_failures > 0 => state.last_error
    /\ loop = "stopped" => /\ state.last_error
                           /\ Timed => state.consecutive_failures >= max_consecutive_failures

LeaseGranted == Timed /\ loop # "none" => state.lease_duration \in Leases

\* The life left of the token in each phase of the loop.  A renewal that succeeded left
\* the whole lease but the time its answer took; the sleep is short of the lease by
\* three request timeouts.
Margin ==
    Timed =>
        /\ loop = "check" /\ Good => ttl + Latency >= state.lease_duration
        /\ loop = "wait" /\ Good => sleep \in Nat /\ ttl > sleep + 2 * Latency
        /\ loop = "renew" => age <= Latency /\ (Good => ttl + age > 2 * Latency)
        /\ loop = "granted" => age <= Latency /\ (~capped => ttl + age >= state.lease_duration)

\* An operation is excused by whatever went wrong while it was under way.
OpsExcused ==
    /\ op \in {"sent", "stale"} /\ ~Good => excused
    /\ op \in {"stale", "denied"} /\ Timed => excused

Inv ==
    /\ Typed /\ LoopOwned /\ OpsOwned /\ EventsOfFile
    /\ ErrorsShow /\ LeaseGranted /\ Margin /\ OpsExcused

-----------------------------------------------------------------------------
\* A set of numbers has a least one, which Min gives.
LEMMA MinIsLeast ==
    ASSUME NEW S \in SUBSET Nat, S # {}
    PROVE  Min(S) \in S /\ \A y \in S : Min(S) <= y
<1>1. PICK x \in S : \A y \in S : ~(<<y, x>> \in OpToRel(<, Nat))
  BY NatLessThanWellFounded, WFMin
<1>2. \A y \in S : ~(y < x)
  BY <1>1, Zenon DEF OpToRel
<1>3. \A y \in S : x <= y
  BY <1>2
<1> QED
  BY <1>3 DEF Min

\* What the configuration guarantees of a lease: it is longer than the sleep before its
\* first renewal by three request timeouts.
LEMMA LeaseLong ==
    ASSUME NEW l \in Leases
    PROVE  /\ l \in Nat /\ Latency \in Nat /\ Latency > 0 /\ l > 3 * Latency
           /\ \A i \in Jittered(calculate_renewal_interval(l, 0)) :
                 i \in Nat /\ i > 0 /\ i + 3 * Latency < l
<1>1. \A i \in Jittered(calculate_renewal_interval(l, 0)) :
        i \in Int /\ i > 0 /\ i + 3 * Latency < l
  BY RenewalAssumption DEF Jittered
<1> QED
  BY <1>1, RenewalAssumption

\* A sleep that is three timeouts short of the lease is two short of the life left.
LEMMA SleepShort ==
    ASSUME NEW l \in Nat, NEW t \in Nat, NEW s \in Nat, NEW n \in Nat, t + n >= l, s + 3 * n < l
    PROVE  t > s + 2 * n
OBVIOUS

\* What an error leaves in VaultClientState.
LEMMA ErrorRecorded ==
    ASSUME Typed, record_renewal_error
    PROVE  /\ state' \in [lease_duration : Nat, last_error : BOOLEAN, consecutive_failures : Nat]
           /\ state'.lease_duration = state.lease_duration
           /\ state'.consecutive_failures > 0 /\ state'.last_error
<1>1. PICK l \in Nat, e \in BOOLEAN, f \in Nat :
        state = [lease_duration |-> l, last_error |-> e, consecutive_failures |-> f]
  BY DEF Typed
<1>2. state' = [lease_duration |-> l, last_error |-> TRUE, consecutive_failures |-> f + 1]
  BY <1>1 DEF record_renewal_error
<1> QED
  BY <1>1, <1>2

\* What a success leaves there.
LEMMA SuccessRecorded ==
    ASSUME Typed, update_state_on_success
    PROVE  /\ state' \in [lease_duration : Nat, last_error : BOOLEAN, consecutive_failures : Nat]
           /\ state'.lease_duration = state.lease_duration
           /\ state'.consecutive_failures = 0
<1>1. PICK l \in Nat, e \in BOOLEAN, f \in Nat :
        state = [lease_duration |-> l, last_error |-> e, consecutive_failures |-> f]
  BY DEF Typed
<1>2. state' = [lease_duration |-> l, last_error |-> FALSE, consecutive_failures |-> 0]
  BY <1>1 DEF update_state_on_success
<1> QED
  BY <1>1, <1>2

\* Nothing has been started.
LEMMA ClientInitInv == Init => Inv
<1> SUFFICES ASSUME Init PROVE Inv
  OBVIOUS
<1> USE DEF Init, RenewalInit
<1>1. Typed /\ ErrorsShow
  <2>1. state \in [lease_duration : Nat, last_error : BOOLEAN, consecutive_failures : Nat]
    BY SMT
  <2>2. capped \in BOOLEAN
    BY Zenon
  <2>3. age \in Nat /\ ttl \in Nat
    OBVIOUS
  <2>4. ErrorsShow
    BY DEF ErrorsShow
  <2> QED
    BY <2>1, <2>2, <2>3, <2>4 DEF Typed
<1>2. LoopOwned /\ OpsOwned /\ EventsOfFile
  BY DEF LoopOwned, OpsOwned, EventsOfFile
<1>3. LeaseGranted /\ Margin /\ OpsExcused
  BY DEF LeaseGranted, Margin, OpsExcused
<1> QED
  BY <1>1, <1>2, <1>3 DEF Inv

\* An operation sees what goes wrong in a step of the loop; a login replaces its token
\* only after something went wrong.
LEMMA ObserveOps ==
    ASSUME Inv, Typed', UNCHANGED trigger, NEW replaced \in BOOLEAN, Observe(replaced),
           replaced /\ Timed => ~Good
    PROVE  OpsOwned' /\ OpsExcused'
<1>1. OpsOwned'
  BY DEF Inv, OpsOwned, Observe, Renewing, Typed
<1>2. ASSUME op' \in {"sent", "stale"}, ~Good' PROVE excused'
  <2>1. op \in {"sent", "stale"}
    BY <1>2 DEF Observe
  <2>2. Troubled'
    BY <1>2 DEF Good, Troubled, Typed
  <2> QED
    BY <2>1, <2>2 DEF Observe
<1>3. ASSUME op' \in {"stale", "denied"}, Timed' PROVE excused'
  <2>1. op \in {"sent", "stale", "denied"} /\ Timed
    BY <1>3 DEF Observe, Timed
  <2>2. excused
    <3>1. CASE op = "sent"
      BY <1>3, <2>1, <3>1 DEF Observe, Inv, OpsExcused
    <3> QED
      BY <2>1, <3>1 DEF Inv, OpsExcused
  <2> QED
    BY <2>2 DEF Observe, Inv, OpsOwned
<1> QED
  BY <1>1, <1>2, <1>3 DEF OpsExcused

-----------------------------------------------------------------------------
(* The renewal loop *)

\* The part of the invariant that is about the loop alone.
LoopInv == Typed /\ LoopOwned /\ EventsOfFile /\ ErrorsShow /\ LeaseGranted /\ Margin

\* The head of the loop: the sleep it begins is short enough.
LEMMA LoopCheckInv == ASSUME Inv, LoopCheck, UNCHANGED <<provider, client>> PROVE LoopInv'
<1> USE DEF LoopCheck
<1>1. Typed' /\ LoopOwned' /\ EventsOfFile' /\ LeaseGranted'
  <2>1. Typed'
    BY DEF Inv, Typed, Timed, Unstarted
  <2>2. LoopOwned'
    BY DEF Inv, Typed, LoopOwned, Timed, Renewing, Unstarted
  <2>3. EventsOfFile'
    BY DEF Inv, Typed, EventsOfFile, Timed, Unstarted
  <2>4. LeaseGranted'
    BY DEF Inv, Typed, LeaseGranted, Timed, Unstarted
  <2> QED
    BY <2>1, <2>2, <2>3, <2>4
<1>2. ErrorsShow'
  BY RenewalAssumption DEF Inv, Typed, ErrorsShow, Timed
<1>3. Margin'
  <2> SUFFICES ASSUME Timed, Good, loop' = "wait"
               PROVE  sleep' \in Nat /\ ttl > sleep' + 2 * Latency
    BY DEF Margin, Timed, Good
  <2> DEFINE l == state.lease_duration
  <2>1. l \in Leases /\ ttl \in Nat /\ ttl + Latency >= l
    BY DEF Inv, Typed, LeaseGranted, Margin
  <2>2. sleep' \in Jittered(calculate_renewal_interval(l, 0))
    BY DEF Timed, Good
  <2> HIDE DEF l
  <2>3. sleep' \in Nat /\ sleep' + 3 * Latency < l /\ l \in Nat /\ Latency \in Nat
    BY <2>1, <2>2, LeaseLong
  <2> QED
    BY <2>1, <2>3, SleepShort
<1> QED
  BY <1>1, <1>2, <1>3 DEF LoopInv

\* The trigger fires when the sleep is over.
LEMMA TriggerInv ==
    ASSUME Inv, TriggerFires \/ IgnoreEvent \/ TriggerFails, UNCHANGED <<provider, client>>
    PROVE  LoopInv'
<1>0. Typed
  BY DEF Inv
<1>1. ASSUME Timed PROVE TriggerFires /\ sleep = 0
  BY <1>1 DEF Inv, EventsOfFile, TriggerFires, IgnoreEvent, TriggerFails, Timed
<1>2. Typed' /\ LoopOwned' /\ EventsOfFile' /\ LeaseGranted'
  <2>1. Typed'
    BY <1>0, <1>1, ErrorRecorded DEF TriggerFires, IgnoreEvent, TriggerFails, Inv, Typed, Timed
  <2>2. LoopOwned'
    BY <1>0, <1>1, ErrorRecorded DEF TriggerFires, IgnoreEvent, TriggerFails, Inv, Typed, LoopOwned, Timed, Renewing
  <2>3. EventsOfFile'
    BY <1>0, <1>1, ErrorRecorded DEF TriggerFires, IgnoreEvent, TriggerFails, Inv, Typed, EventsOfFile, Timed
  <2>4. LeaseGranted'
    BY <1>0, <1>1, ErrorRecorded DEF TriggerFires, IgnoreEvent, TriggerFails, Inv, Typed, LeaseGranted, Timed
  <2> QED
    BY <2>1, <2>2, <2>3, <2>4
<1>3. ErrorsShow'
  BY <1>0, <1>1, ErrorRecorded DEF TriggerFires, IgnoreEvent, TriggerFails, Inv, Typed, ErrorsShow, Timed
<1>4. Margin'
  <2> SUFFICES ASSUME Timed PROVE Margin'
    BY DEF Margin, Timed, TriggerFires, IgnoreEvent, TriggerFails
  <2>1. /\ loop = "wait" /\ loop' = "renew" /\ age' = 0 /\ ttl' = ttl /\ sleep = 0
        /\ capped' = capped /\ state' = state
    BY <1>1 DEF TriggerFires
  <2>2. Good => ttl \in Nat /\ ttl > 2 * Latency
    BY <2>1, RenewalAssumption DEF Inv, Typed, Margin
  <2> QED
    BY <2>1, <2>2, RenewalAssumption DEF Margin, Good
<1> QED
  BY <1>2, <1>3, <1>4 DEF LoopInv

\* What Vault grants is the lease, or the renewal counts as capped.
LEMMA VaultRenewsInv == ASSUME Inv, VaultRenews, UNCHANGED <<provider, client>> PROVE LoopInv'
<1> USE DEF VaultRenews
<1> DEFINE l == state.lease_duration
           m == Min(Leases \cup {l})
<1>1. l \in Nat /\ m \in Nat /\ m <= l
  <2> DEFINE S == Leases \cup {l}
  <2>1. l \in Nat /\ S \in SUBSET Nat /\ l \in S
    BY RenewalAssumption DEF Inv, Typed
  <2> HIDE DEF S
  <2>2. Min(S) \in S /\ Min(S) <= l
    BY <2>1, MinIsLeast
  <2> QED
    BY <2>1, <2>2 DEF S
<1> HIDE DEF m
<1>2. PICK granted \in {l, m} : ttl' = granted /\ capped' = (granted < l)
  BY DEF m
<1>3. ttl' \in Nat /\ capped' \in BOOLEAN /\ (~capped' => ttl' = l)
  <2>1. ttl' \in Nat
    BY <1>1, <1>2
  <2>2. capped' \in BOOLEAN
    BY <1>2
  <2>3. ASSUME ~capped' PROVE ttl' = l
    <3>1. ~(granted < l)
      BY <1>2, <2>3, Zenon
    <3> QED
      BY <1>1, <1>2, <3>1
  <2> QED
    BY <2>1, <2>2, <2>3
<1>4. Typed' /\ LoopOwned' /\ EventsOfFile' /\ LeaseGranted' /\ ErrorsShow'
  <2>1. Typed'
    BY <1>3 DEF Inv, Typed, Timed
  <2>2. LoopOwned'
    BY <1>3 DEF Inv, Typed, LoopOwned, Timed, Renewing
  <2>3. EventsOfFile'
    BY <1>3 DEF Inv, Typed, EventsOfFile, Timed
  <2>4. LeaseGranted'
    BY <1>3 DEF Inv, Typed, LeaseGranted, Timed
  <2>5. ErrorsShow'
    BY <1>3 DEF Inv, Typed, ErrorsShow, Timed
  <2> QED
    BY <2>1, <2>2, <2>3, <2>4, <2>5
<1>5. Margin'
  BY <1>1, <1>3 DEF Inv, Typed, Margin, Timed, Good
<1> QED
  BY <1>4, <1>5 DEF LoopInv

\* A renewal that is answered in time leaves all of the lease but that time.
LEMMA RenewalEndsInv ==
    ASSUME Inv, RenewalSucceeds \/ RenewalRejected \/ RenewalFails \/ LoginFails,
           UNCHANGED <<provider, client>>
    PROVE  LoopInv'
<1>0. Typed
  BY DEF Inv
<1>1. Typed' /\ LoopOwned' /\ EventsOfFile'
  <2>1. Typed'
    BY <1>0, ErrorRecorded, SuccessRecorded
       DEF RenewalSucceeds, RenewalRejected, RenewalFails, LoginFails, Inv, Typed, Timed
  <2>2. LoopOwned'
    BY <1>0, ErrorRecorded, SuccessRecorded
       DEF RenewalSucceeds, RenewalRejected, RenewalFails, LoginFails, Inv, Typed, LoopOwned, Timed, Renewing
  <2>3. EventsOfFile'
    BY <1>0, ErrorRecorded, SuccessRecorded
       DEF RenewalSucceeds, RenewalRejected, RenewalFails, LoginFails, Inv, Typed, EventsOfFile, Timed
  <2> QED
    BY <2>1, <2>2, <2>3
<1>2. LeaseGranted' /\ ErrorsShow'
  <2>1. LeaseGranted'
    BY <1>0, ErrorRecorded, SuccessRecorded
       DEF RenewalSucceeds, RenewalRejected, RenewalFails, LoginFails, Inv, Typed, LeaseGranted, Timed
  <2>2. ErrorsShow'
    BY <1>0, ErrorRecorded, SuccessRecorded
       DEF RenewalSucceeds, RenewalRejected, RenewalFails, LoginFails, Inv, Typed, ErrorsShow, Timed
  <2> QED
    BY <2>1, <2>2
<1>3. ASSUME RenewalSucceeds PROVE Margin'
  <2>1. /\ loop = "granted" /\ loop' = "check" /\ ttl' = ttl /\ capped' = capped
        /\ trigger' = trigger /\ state'.lease_duration = state.lease_duration
    BY <1>0, <1>3, SuccessRecorded DEF RenewalSucceeds
  <2>2. Timed /\ ~capped => ttl \in Nat /\ ttl + Latency >= state.lease_duration
    BY <2>1, RenewalAssumption DEF Inv, Typed, Margin
  <2> QED
    BY <2>1, <2>2 DEF Margin, Timed, Good
<1>4. ASSUME RenewalRejected PROVE Margin'
  BY <1>4 DEF RenewalRejected, Margin
<1>5. ASSUME RenewalFails \/ LoginFails PROVE Margin'
  <2>1. loop' = "check" /\ state'.consecutive_failures > 0
    BY <1>0, <1>5, ErrorRecorded DEF RenewalFails, LoginFails
  <2> QED
    BY <2>1 DEF Margin, Good
<1> QED
  BY <1>1, <1>2, <1>3, <1>4, <1>5 DEF LoopInv

\* A login gives a lease of its own, less the time its answer took.
LEMMA AuthenticateInv ==
    ASSUME Inv, authenticate, loop' = "check", UNCHANGED <<trigger, age, events>>,
           Renewing', client' \in {"key", "create", "ready"}
    PROVE  LoopInv'
<1>1. ASSUME Timed
      PROVE  /\ state'.lease_duration \in Leases /\ ttl' \in Nat
             /\ ttl' + Latency >= state'.lease_duration
  <2>1. PICK lease \in Leases, delay \in 0..Latency : NewToken(lease) /\ ttl' = lease - delay
    BY <1>1 DEF authenticate, JwtLogin, Timed
  <2>2. lease \in Nat /\ lease > 3 * Latency /\ Latency \in Nat
    BY LeaseLong
  <2>3. state'.lease_duration = lease
    BY <2>1 DEF NewToken
  <2> QED
    BY <2>1, <2>2, <2>3
<1>2. PICK lease \in Nat : NewToken(lease)
  BY RenewalAssumption DEF authenticate, JwtLogin, ReadTokenFile
<1>3. Typed' /\ LoopOwned' /\ EventsOfFile' /\ ErrorsShow'
  <2>1. Typed'
    BY <1>1, <1>2 DEF NewToken, authenticate, Inv, Typed, Timed
  <2>2. LoopOwned'
    BY <1>1, <1>2 DEF NewToken, authenticate, Inv, Typed, LoopOwned, Timed
  <2>3. EventsOfFile'
    BY <1>1, <1>2 DEF NewToken, authenticate, Inv, Typed, EventsOfFile, Timed
  <2>4. ErrorsShow'
    BY <1>1, <1>2 DEF NewToken, authenticate, Inv, Typed, ErrorsShow, Timed
  <2> QED
    BY <2>1, <2>2, <2>3, <2>4
<1>4. LeaseGranted' /\ Margin'
  <2>1. LeaseGranted'
    BY <1>1 DEF LeaseGranted, Timed
  <2>2. Margin'
    BY <1>1 DEF Margin, Timed
  <2> QED
    BY <2>1, <2>2
<1> QED
  BY <1>3, <1>4 DEF LoopInv

\* The sidecar is not there for the timer.
LEMMA EnvironmentInv ==
    ASSUME Inv, Rotate \/ OtherEvent \/ WatchError, UNCHANGED <<provider, client>>
    PROVE  LoopInv'
BY DEF Rotate, OtherEvent, WatchError, Watching, Inv, LoopInv, Typed, LoopOwned, EventsOfFile, ErrorsShow,
       LeaseGranted, Margin, Timed, Good, Renewing

\* A second passes.
LEMMA TickInv == ASSUME Inv, RenewalTick, UNCHANGED <<provider, client>> PROVE LoopInv'
<1> USE DEF RenewalTick
<1>1. Typed' /\ LoopOwned' /\ EventsOfFile' /\ ErrorsShow' /\ LeaseGranted'
  <2>1. Typed'
    BY DEF Less, Inv, Typed, Timed
  <2>2. LoopOwned'
    BY DEF Less, Inv, Typed, LoopOwned, Timed, Renewing
  <2>3. EventsOfFile'
    BY DEF Less, Inv, Typed, EventsOfFile, Timed
  <2>4. ErrorsShow'
    BY DEF Less, Inv, Typed, ErrorsShow, Timed
  <2>5. LeaseGranted'
    BY DEF Less, Inv, Typed, LeaseGranted, Timed
  <2> QED
    BY <2>1, <2>2, <2>3, <2>4, <2>5
<1>2. Margin'
  <2> SUFFICES ASSUME Timed PROVE Margin'
    BY DEF Margin, Timed
  <2>1. /\ loop # "check" /\ (loop = "wait" => sleep # 0)
        /\ ttl \in Nat /\ age \in Nat /\ Latency \in Nat
        /\ (ttl = 0 => ttl' = 0) /\ (ttl # 0 => ttl' = ttl - 1)
        /\ (sleep # 0 => sleep' = sleep - 1)
    BY RenewalAssumption DEF LoopBusy, Timed, Less, Inv, Typed
  <2>2. ASSUME loop \in {"renew", "granted"} PROVE age' = age + 1 /\ age < Latency
    BY <2>2 DEF Requesting
  <2>3. state.lease_duration \in Nat
    BY DEF Inv, Typed
  <2>4. CASE loop = "wait"
    BY <2>1, <2>4 DEF Inv, Margin, Good
  <2>5. CASE loop = "renew"
    BY <2>1, <2>2, <2>5 DEF Inv, Margin, Good
  <2>6. CASE loop = "granted"
    <3>1. capped \/ ttl + age >= state.lease_duration
      BY <2>6 DEF Inv, Margin
    <3>2. ~capped => ttl' + age' >= state.lease_duration
      BY <3>1, <2>1, <2>2, <2>3, <2>6
    <3> QED
      BY <2>1, <2>2, <2>6, <3>2 DEF Margin, Good
  <2> QED
    BY <2>1, <2>4, <2>5, <2>6 DEF Inv, Margin, Good
<1> QED
  BY <1>1, <1>2 DEF LoopInv

-----------------------------------------------------------------------------
(* The client *)

\* Nothing of the invariant is about faults, the file, the sleep or the exchange, as long
\* as the rest of the loop does not change.
LEMMA LoopKept ==
    ASSUME Inv, UNCHANGED <<trigger, loop, sleep, age, events, state, ttl, capped>>, LoopOwned'
    PROVE  LoopInv'
BY DEF Inv, LoopInv, Typed, EventsOfFile, ErrorsShow, LeaseGranted, Margin, Timed, Good

\* An abandoned provider leaves nothing.
LEMMA DiscardInv ==
    ASSUME Inv, Discard, client' \in {"new", "dropped"}
    PROVE  LoopInv'
<1>1. /\ loop' = "none" /\ age' = 0 /\ events' = <<>> /\ ttl' = 0 /\ capped' = FALSE
      /\ state' = [lease_duration |-> 0, last_error |-> FALSE, consecutive_failures |-> 0]
  BY DEF Discard
<1>2. Typed'
  <2>1. state' \in [lease_duration : Nat, last_error : BOOLEAN, consecutive_failures : Nat]
    BY <1>1, SMT
  <2>2. capped' \in BOOLEAN
    BY <1>1, Zenon
  <2>3. age' \in Nat /\ ttl' \in Nat
    BY <1>1
  <2> QED
    BY <2>1, <2>2, <2>3 DEF Typed
<1>3. LoopOwned' /\ EventsOfFile' /\ LeaseGranted' /\ Margin'
  BY <1>1 DEF LoopOwned, EventsOfFile, LeaseGranted, Margin
<1>4. ErrorsShow'
  BY <1>1 DEF ErrorsShow
<1> QED
  BY <1>2, <1>3, <1>4 DEF LoopInv

\* An operation that is not touched stays excused or not.
LEMMA OpsKept ==
    ASSUME Inv, UNCHANGED <<trigger, loop, state, capped, provider, op, excused>>,
           op # "idle" => client' = client
    PROVE  OpsOwned' /\ OpsExcused'
BY DEF Inv, OpsOwned, OpsExcused, Good, Timed, Renewing

\* The steps of initialize(), of another replica and of Drop.
LEMMA LifeCycleInv ==
    ASSUME Inv,
           \/ StartRenewing \/ StartFails \/ StartExchanging \/ CheckSigningKey
           \/ CreateSigningKey \/ SigningKeyFails \/ KeyCreated \/ Drop
    PROVE  Inv'
<1>0. LoopInv' /\ OpsOwned' /\ OpsExcused' => Inv'
  BY DEF LoopInv, Inv
<1>1. CASE StartRenewing
  <2>1. LoopInv'
    BY <1>1, AuthenticateInv DEF StartRenewing, Renewing
  <2>2. op = "idle" /\ op' = op /\ excused' = excused
    BY <1>1 DEF StartRenewing, Inv, OpsOwned
  <2>3. OpsOwned' /\ OpsExcused'
    BY <2>2 DEF Inv, OpsOwned, OpsExcused
  <2> QED
    BY <1>0, <2>1, <2>3
<1>2. CASE StartFails \/ KeyCreated
  <2>1. UNCHANGED <<trigger, loop, sleep, age, events, state, ttl, capped, provider, client, op, excused>>
    BY <1>2 DEF StartFails, KeyCreated, renewalVars, clientVars
  <2>2. LoopOwned'
    BY <2>1 DEF Inv, LoopOwned, Renewing
  <2> QED
    BY <1>0, <2>1, <2>2, LoopKept, OpsKept
<1>3. CASE StartExchanging \/ CheckSigningKey \/ CreateSigningKey
  <2>1. UNCHANGED <<trigger, loop, sleep, age, events, state, ttl, capped, provider, op, excused>>
    BY <1>3 DEF StartExchanging, CheckSigningKey, CreateSigningKey, renewalVars
  <2>2. LoopOwned' /\ op = "idle"
    BY <1>3, <2>1 DEF StartExchanging, CheckSigningKey, CreateSigningKey, Inv, LoopOwned, OpsOwned,
                      Renewing
  <2> QED
    BY <1>0, <2>1, <2>2, LoopKept, OpsKept
<1>4. CASE SigningKeyFails \/ Drop
  <2>1. LoopInv'
    BY <1>4, DiscardInv DEF SigningKeyFails, Drop
  <2>2. op' = "idle" /\ excused' \in BOOLEAN
    <3>1. CASE SigningKeyFails
      BY <3>1 DEF SigningKeyFails, Inv, OpsOwned
    <3>2. CASE Drop
      BY <3>2 DEF Drop
    <3> QED
      BY <1>4, <3>1, <3>2
  <2>3. OpsOwned' /\ OpsExcused'
    BY <2>2 DEF OpsOwned, OpsExcused
  <2> QED
    BY <1>0, <2>1, <2>3
<1> QED
  BY <1>1, <1>2, <1>3, <1>4

\* While nothing is wrong the token lives longer than a request takes.
LEMMA TokenLives ==
    ASSUME Inv, Timed, Good, loop # "none"
    PROVE  ttl > 0
<1>1. /\ ttl \in Nat /\ age \in Nat /\ Latency \in Nat /\ Latency > 0
      /\ state.lease_duration \in Nat /\ state.lease_duration > 3 * Latency
  BY LeaseLong DEF Inv, Typed, LeaseGranted
<1>2. loop # "stopped" /\ loop # "login"
  BY RenewalAssumption DEF Inv, ErrorsShow, Margin, Good
<1>3. CASE loop = "check"
  BY <1>1, <1>3 DEF Inv, Margin
<1>4. CASE loop = "wait"
  BY <1>1, <1>4 DEF Inv, Margin
<1>5. CASE loop \in {"renew", "granted"}
  BY <1>1, <1>5 DEF Inv, Margin, Good
<1> QED
  BY <1>2, <1>3, <1>4, <1>5 DEF Inv, LoopOwned

\* Sending and answering a request.
LEMMA OperationInv == ASSUME Inv, SendRequest \/ Answered PROVE Inv'
<1>1. UNCHANGED <<trigger, loop, sleep, age, events, state, ttl, capped, provider, client>>
  BY DEF SendRequest, Answered, renewalVars
<1>2. LoopOwned'
  BY <1>1 DEF Inv, LoopOwned, Renewing
<1>3. LoopInv'
  BY <1>1, <1>2, LoopKept
<1>4. CASE SendRequest
  <2>1. op' = "sent" /\ excused' = Troubled
        /\ Renewing /\ client = "ready"
    BY <1>4 DEF SendRequest
  <2>2. OpsOwned'
    BY <1>1, <2>1 DEF OpsOwned, Renewing, Troubled
  <2>3. OpsExcused'
    <3>1. ~Good => Troubled
      BY DEF Good, Troubled, Inv, Typed
    <3>2. Good' <=> Good
      BY <1>1 DEF Good
    <3> QED
      BY <2>1, <3>1, <3>2, Zenon DEF OpsExcused
  <2> QED
    BY <1>3, <2>2, <2>3 DEF Inv, LoopInv
<1>5. CASE Answered
  <2>1. op \in {"sent", "stale"} /\ op' \in {"idle", "denied"}
        /\ excused' \in BOOLEAN /\ (op' = "denied" => excused' = excused)
        /\ (op' = "denied" => op = "stale" \/ ttl = 0)
    BY <1>5 DEF Answered, Inv, OpsOwned
  <2>2. OpsOwned'
    BY <1>1, <2>1 DEF Inv, OpsOwned, Renewing
  <2>3. ASSUME op' = "denied", Timed PROVE excused
    <3>1. CASE op = "stale"
      BY <2>3, <3>1 DEF Inv, OpsExcused
    <3>2. CASE ttl = 0
      <4>1. loop # "none"
        BY <2>1 DEF Inv, OpsOwned, LoopOwned
      <4>2. ~Good
        BY <2>3, <3>2, <4>1, TokenLives
      <4> QED
        BY <2>1, <4>2 DEF Inv, OpsExcused
    <3> QED
      BY <2>1, <2>3, <3>1, <3>2
  <2>4. OpsExcused'
    BY <1>1, <2>1, <2>3 DEF OpsExcused, Timed
  <2> QED
    BY <1>3, <2>2, <2>4 DEF Inv, LoopInv
<1> QED
  BY <1>4, <1>5

\* The loop and the sidecar, with the operation that is under way.
LEMMA RenewalInv == ASSUME Inv, Renewal \/ RenewalFaults \/ Environment PROVE Inv'
<1>0. ASSUME LoopInv', UNCHANGED trigger, NEW replaced \in BOOLEAN, Observe(replaced),
             replaced /\ Timed => ~Good
      PROVE  Inv'
  BY <1>0, ObserveOps DEF LoopInv, Inv
<1>1. ASSUME LoopCheck, Observe(FALSE) PROVE Inv'
  BY <1>0, <1>1, LoopCheckInv DEF Observe, LoopCheck
<1>2. ASSUME TriggerFires \/ IgnoreEvent \/ TriggerFails, Observe(FALSE) PROVE Inv'
  <2>1. UNCHANGED <<trigger, provider, client>>
    BY <1>2 DEF Observe, TriggerFires, IgnoreEvent, TriggerFails
  <2> QED
    BY <1>0, <1>2, <2>1, TriggerInv
<1>3. ASSUME VaultRenews, Observe(FALSE) PROVE Inv'
  BY <1>0, <1>3, VaultRenewsInv DEF Observe, VaultRenews
<1>4. ASSUME RenewalSucceeds \/ RenewalRejected \/ RenewalFails \/ LoginFails, Observe(FALSE)
      PROVE  Inv'
  <2>1. UNCHANGED <<trigger, provider, client>>
    BY <1>4 DEF Observe, RenewalSucceeds, RenewalRejected, RenewalFails, LoginFails
  <2> QED
    BY <1>0, <1>4, <2>1, RenewalEndsInv
<1>5. ASSUME LoginSucceeds, Observe(TRUE) PROVE Inv'
  <2>1. /\ loop = "login" /\ loop' = "check" /\ authenticate
        /\ UNCHANGED <<trigger, age, events, provider, client>>
    BY <1>5 DEF LoginSucceeds, Observe
  <2>2. Renewing' /\ client' \in {"key", "create", "ready"}
    BY <2>1 DEF Inv, LoopOwned, Renewing
  <2>3. ~Good
    BY <2>1 DEF Good
  <2> QED
    BY <1>0, <1>5, <2>1, <2>2, <2>3, AuthenticateInv
<1>6. ASSUME Rotate \/ OtherEvent \/ WatchError, Observe(FALSE) PROVE Inv'
  <2>1. UNCHANGED <<trigger, provider, client>>
    BY <1>6 DEF Observe, Rotate, OtherEvent, WatchError
  <2> QED
    BY <1>0, <1>6, <2>1, EnvironmentInv
<1> QED
  BY <1>1, <1>2, <1>3, <1>4, <1>5, <1>6 DEF Renewal, RenewalFaults, Environment

\* No step of the client, of the loop or of time breaks the invariant.
LEMMA ClientNextInv == Inv /\ [Next]_vars => Inv'
<1> SUFFICES ASSUME Inv, [Next]_vars PROVE Inv'
  OBVIOUS
<1>1. CASE UNCHANGED vars \/ \E c \in Callers : Caller(c)
  <2>1. UNCHANGED <<renewalVars, clientVars>>
    BY <1>1 DEF vars, Caller
  <2>2. LoopOwned'
    BY <2>1 DEF Inv, LoopOwned, Renewing, clientVars, renewalVars
  <2>3. LoopInv' /\ OpsOwned' /\ OpsExcused'
    BY <2>1, <2>2, LoopKept, OpsKept DEF renewalVars, clientVars
  <2> QED
    BY <2>3 DEF LoopInv, Inv
<1>2. CASE Tick
  <2>1. CASE UNCHANGED <<renewalVars, clientVars>>
    <3>1. LoopOwned'
      BY <2>1 DEF Inv, LoopOwned, Renewing, clientVars, renewalVars
    <3>2. LoopInv' /\ OpsOwned' /\ OpsExcused'
      BY <2>1, <3>1, LoopKept, OpsKept DEF renewalVars, clientVars
    <3> QED
      BY <3>2 DEF LoopInv, Inv
  <2>2. CASE RenewalTick /\ UNCHANGED <<provider, client, op, excused>>
    <3>1. LoopInv'
      BY <2>2, TickInv
    <3>2. OpsOwned' /\ OpsExcused'
      BY <2>2, OpsKept DEF RenewalTick
    <3> QED
      BY <3>1, <3>2 DEF LoopInv, Inv
  <2> QED
    BY <1>2, <2>1, <2>2 DEF Tick
<1> QED
  BY <1>1, <1>2, LifeCycleInv, OperationInv, RenewalInv DEF Next

\* Loop, errors, leases and the life left of the token fit together in every phase.
THEOREM ClientInvariant == Spec => []Inv
BY ClientInitInv, ClientNextInv, PTL DEF Spec

\* With the timer, an operation is denied only after a renewal failed or was capped while
\* it was under way or before: for every lease, jitter and latency that the configuration
\* allows, calculate_renewal_interval is early enough, and a login takes no live token away.
THEOREM OperationsCarryLiveTokens == Spec => []OperationsAuthorized
<1>1. Inv => OperationsAuthorized
  BY DEF Inv, OpsExcused, OperationsAuthorized, Timed
<1> QED
  BY <1>1, ClientInvariant, PTL

\* Neither a failed initialize() nor Drop leaves a renewal loop behind, and one that gave
\* up shows in the state and, with the timer, in the health of the client.
THEOREM LoopsAreOwned == Spec => []RenewalLoopOwned
<1>1. Inv => RenewalLoopOwned
  <2> SUFFICES ASSUME Inv PROVE RenewalLoopOwned
    OBVIOUS
  <2>1. loop # "none" => client \in {"key", "create", "ready"}
    BY DEF Inv, LoopOwned
  <2>2. ASSUME loop = "stopped" PROVE state.last_error /\ (trigger = "time" => ~is_healthy)
    BY <2>2, RenewalAssumption DEF Inv, ErrorsShow, Typed, Timed, is_healthy
  <2> QED
    BY <2>1, <2>2 DEF RenewalLoopOwned
<1> QED
  BY <1>1, ClientInvariant, PTL

-----------------------------------------------------------------------------
(* The exchanging provider *)

CallsTyped == DOMAIN call = Callers

\* Callers that missed the cache together share one exchange: whoever gets the write lock
\* looks again.
THEOREM ExchangesCoalesce == Spec => Coalesced
<1>1. Init => CallsTyped
  BY DEF Init, ExchangeInit, CallsTyped
<1>2. CallsTyped /\ [Next]_vars =>
        /\ CallsTyped'
        /\ [\A c \in Callers : call[c] # "exchange" /\ call'[c] = "exchange" => ~Fresh(ctx[c])]_vars
  <2> SUFFICES ASSUME CallsTyped, [Next]_vars
               PROVE  /\ CallsTyped'
                      /\ \A c \in Callers : call[c] # "exchange" /\ call'[c] = "exchange"
                                              => ~Fresh(ctx[c])
    OBVIOUS
  <2> USE DEF CallsTyped
  <2>1. CASE UNCHANGED call
    BY <2>1
  <2>2. CASE Drop
    BY <2>2 DEF Drop
  <2>3. ASSUME NEW d \in Callers, Caller(d)
        PROVE  /\ CallsTyped'
               /\ \A c \in Callers : call[c] # "exchange" /\ call'[c] = "exchange"
                                       => ~Fresh(ctx[c])
    BY <2>3 DEF Caller, CallerStep, FastPath, Continue, LockForExchange, record_success,
                record_error, ExchangeSucceeds, ExchangeFails
  <2>4. CASE \/ StartRenewing \/ StartFails \/ StartExchanging \/ CheckSigningKey
             \/ CreateSigningKey \/ SigningKeyFails \/ KeyCreated \/ SendRequest \/ Answered
    BY <2>1, <2>4 DEF StartRenewing, StartFails, StartExchanging, CheckSigningKey, CreateSigningKey,
                      SigningKeyFails, KeyCreated, SendRequest, Answered, exchangeVars
  <2>5. CASE Renewal \/ RenewalFaults \/ Environment
    BY <2>1, <2>5 DEF Renewal, RenewalFaults, Environment, Observe, exchangeVars
  <2>6. CASE Tick
    BY <2>1, <2>6 DEF Tick, ExchangeTick, exchangeVars
  <2>7. CASE UNCHANGED vars
    BY <2>1, <2>7 DEF vars, exchangeVars
  <2> QED
    BY <2>2, <2>3, <2>4, <2>5, <2>6, <2>7 DEF Next
<1> QED
  BY <1>1, <1>2, PTL DEF Spec, Coalesced

-----------------------------------------------------------------------------
(* What the exchanging provider caches, and what it counts *)

\* A cached token that is handed out outlives the request of the caller who gets it.
FreshIsLive ==
    \A x \in Contexts : Fresh(x) => cache[x].ttl >= cache[x].fresh + XLatency

Failed == {c \in Callers : call[c] = "failed"}

\* The health record never counts more failures than there were: a failed exchange is
\* still to be recorded, was recorded once, or has been forgotten by a success.
FailuresCounted ==
    health.consecutive_failures + Cardinality(Failed) <= xfaults

ExchangeInv == ExchangeTypeOK /\ FreshIsLive /\ FailuresCounted

\* Max gives the longest lease.
LEMMA LongestLease ==
    /\ Max(XLeases) \in XLeases /\ Max(XLeases) \in Nat
    /\ \A l \in XLeases : l \in Nat /\ l <= Max(XLeases)
<1>1. PICK m \in XLeases : \A l \in XLeases : l <= m
  BY ExchangeAssumption
<1>2. \A l \in XLeases : m >= l
  BY <1>1, ExchangeAssumption
<1>3. Max(XLeases) \in XLeases /\ \A l \in XLeases : Max(XLeases) >= l
  BY <1>2 DEF Max
<1> QED
  BY <1>3, ExchangeAssumption

\* compute_expiry gives at least a second, and leaves room for two requests.
LEMMA ExpiryEarly ==
    ASSUME NEW l \in XLeases
    PROVE  /\ l \in Nat /\ compute_expiry(l) \in Nat
           /\ compute_expiry(l) + 2 * XLatency <= l
<1> DEFINE e == (l * percentage) \div 100
<1>1. l \in Nat /\ percentage \in Nat
  BY ExchangeAssumption
<1>2. l * percentage \in Nat
  BY <1>1
<1>3. e \in Nat
  BY <1>2
<1> HIDE DEF e
<1>4. \E x \in {e, 1} : \A y \in {e, 1} : x >= y
  BY <1>3
<1>5. Max({e, 1}) \in {e, 1}
  BY <1>4 DEF Max
<1>6. compute_expiry(l) \in Nat
  BY <1>3, <1>5 DEF compute_expiry, e
<1> QED
  BY <1>1, <1>6, ExchangeAssumption

\* What a step of the client means for the exchange.
LEMMA ExchangeSteps ==
    ASSUME [Next]_vars
    PROVE  \/ UNCHANGED exchangeVars
           \/ \E c \in Callers : CallerStep(c)
           \/ ExchangeTick
           \/ call' = [c \in Callers |-> "idle"] /\ UNCHANGED <<ctx, cache, health, waited, xfaults>>
<1>1. CASE Drop
  BY <1>1 DEF Drop
<1>2. CASE \E c \in Callers : Caller(c)
  BY <1>2 DEF Caller
<1>3. CASE \/ StartRenewing \/ StartFails \/ StartExchanging \/ CheckSigningKey
           \/ CreateSigningKey \/ SigningKeyFails \/ KeyCreated \/ SendRequest \/ Answered
  BY <1>3 DEF StartRenewing, StartFails, StartExchanging, CheckSigningKey, CreateSigningKey,
              SigningKeyFails, KeyCreated, SendRequest, Answered
<1>4. CASE Renewal \/ RenewalFaults \/ Environment
  BY <1>4 DEF Renewal, RenewalFaults, Environment, Observe
<1>5. CASE Tick
  BY <1>5 DEF Tick
<1>6. CASE UNCHANGED vars
  BY <1>6 DEF vars
<1> QED
  BY <1>1, <1>2, <1>3, <1>4, <1>5, <1>6 DEF Next

\* Nothing is cached and nothing has failed.
LEMMA ExchangeInitInv == Init => ExchangeInv
<1> SUFFICES ASSUME ExchangeInit PROVE ExchangeInv
  BY DEF Init
<1>1. (CHOOSE x \in Contexts : TRUE) \in Contexts
  BY ExchangeAssumption
<1>2. ExchangeTypeOK
  <2> USE DEF ExchangeInit
  <2>1. ctx \in [Callers -> Contexts]
    BY <1>1
  <2>2. cache \in [Contexts -> [ttl : 0..Max(XLeases), fresh : 0..Max(XLeases)]]
    BY LongestLease
  <2> QED
    BY <2>1, <2>2, ExchangeAssumption DEF ExchangeTypeOK
<1>3. FreshIsLive
  BY DEF ExchangeInit, FreshIsLive, Fresh
<1>4. Failed = {}
  BY DEF ExchangeInit, Failed
<1> QED
  BY <1>2, <1>3, <1>4, FS_EmptySet DEF ExchangeInit, ExchangeInv, FailuresCounted

\* A caller's step keeps the types.
LEMMA CallerTyped ==
    ASSUME ExchangeInv, NEW c \in Callers, CallerStep(c)
    PROVE  ExchangeTypeOK' /\ FailuresCounted'
<1> DEFINE P == {"idle", "slow", "exchange", "succeeded", "failed"}
<1>0. /\ call \in [Callers -> P] /\ ctx \in [Callers -> Contexts]
      /\ cache \in [Contexts -> [ttl : 0..Max(XLeases), fresh : 0..Max(XLeases)]]
      /\ health.consecutive_failures \in 0..MaxXFaults
      /\ health \in [consecutive_failures : 0..MaxXFaults, last_error : BOOLEAN]
      /\ waited \in 0..(2 * XLatency) /\ xfaults \in 0..MaxXFaults
  BY DEF ExchangeInv, ExchangeTypeOK
<1>1. IsFiniteSet(Failed) /\ Cardinality(Failed) \in Nat
  BY ExchangeAssumption, FS_Subset, FS_CardinalityType DEF Failed
<1>2. health.consecutive_failures + Cardinality(Failed) <= xfaults
  BY DEF ExchangeInv, FailuresCounted
<1>3. MaxXFaults \in Nat /\ XLatency \in Nat
  BY ExchangeAssumption
<1>4. CASE FastPath(c)
  <2>1. call' \in [Callers -> P] /\ ctx' \in [Callers -> Contexts]
    BY <1>0, <1>4 DEF FastPath
  <2>2. Failed' = Failed
    BY <1>0, <1>4 DEF FastPath, Failed
  <2> QED
    BY <1>0, <1>2, <1>4, <2>1, <2>2 DEF FastPath, ExchangeTypeOK, FailuresCounted
<1>5. CASE LockForExchange(c)
  <2>1. call' \in [Callers -> P] /\ waited' \in 0..(2 * XLatency)
    BY <1>0, <1>3, <1>5 DEF LockForExchange
  <2>2. Failed' = Failed
    BY <1>0, <1>5 DEF LockForExchange, Failed
  <2> QED
    BY <1>0, <1>2, <1>5, <2>1, <2>2 DEF LockForExchange, ExchangeTypeOK, FailuresCounted
<1>6. CASE ExchangeSucceeds(c)
  <2>1. call' \in [Callers -> P]
    BY <1>0, <1>6 DEF ExchangeSucceeds
  <2>2. PICK l \in XLeases, d \in 0..XLatency :
          cache' = [cache EXCEPT ![ctx[c]] = [ttl |-> l - d, fresh |-> compute_expiry(l)]]
    BY <1>6 DEF ExchangeSucceeds
  <2>3. l - d \in 0..Max(XLeases) /\ compute_expiry(l) \in 0..Max(XLeases)
    BY <1>3, ExpiryEarly, LongestLease
  <2>4. cache' \in [Contexts -> [ttl : 0..Max(XLeases), fresh : 0..Max(XLeases)]]
    BY <1>0, <2>2, <2>3
  <2>5. Failed' = Failed
    BY <1>0, <1>6 DEF ExchangeSucceeds, Failed
  <2> QED
    BY <1>0, <1>2, <1>6, <2>1, <2>4, <2>5 DEF ExchangeSucceeds, ExchangeTypeOK, FailuresCounted
<1>7. CASE ExchangeFails(c)
  <2>1. call' \in [Callers -> P] /\ xfaults' \in 0..MaxXFaults /\ xfaults' = xfaults + 1
    BY <1>0, <1>3, <1>7 DEF ExchangeFails
  <2>2. Failed' = Failed \cup {c} /\ c \notin Failed
    BY <1>0, <1>7 DEF ExchangeFails, Failed
  <2>3. Cardinality(Failed \cup {c}) = Cardinality(Failed) + 1
    BY <1>1, <2>2, FS_AddElement
  <2>4. FailuresCounted'
    BY <1>0, <1>1, <1>2, <1>3, <1>7, <2>1, <2>2, <2>3 DEF ExchangeFails, FailuresCounted
  <2> QED
    BY <1>0, <1>7, <2>1, <2>4 DEF ExchangeFails, ExchangeTypeOK
<1>8. CASE record_success(c)
  <2>1. call' \in [Callers -> P]
    BY <1>0, <1>8 DEF record_success
  <2>2. /\ health' \in [consecutive_failures : 0..MaxXFaults, last_error : BOOLEAN]
        /\ health'.consecutive_failures = 0
    BY <1>3, <1>8 DEF record_success
  <2>3. Failed' = Failed
    BY <1>0, <1>8 DEF record_success, Failed
  <2>4. FailuresCounted'
    BY <1>0, <1>1, <1>2, <1>3, <1>8, <2>2, <2>3 DEF record_success, FailuresCounted
  <2> QED
    BY <1>0, <1>8, <2>1, <2>2, <2>4 DEF record_success, ExchangeTypeOK
<1>9. CASE record_error(c)
  <2>1. call' \in [Callers -> P]
    BY <1>0, <1>9 DEF record_error
  <2>2. Failed' = Failed \ {c} /\ c \in Failed
    BY <1>0, <1>9 DEF record_error, Failed
  <2>3. Cardinality(Failed \ {c}) = Cardinality(Failed) - 1
    BY <1>1, <2>2, FS_RemoveElement
  <2>4. /\ health'.consecutive_failures = health.consecutive_failures + 1
        /\ health' = [consecutive_failures |-> health.consecutive_failures + 1, last_error |-> TRUE]
    BY <1>9 DEF record_error
  <2>5. Cardinality(Failed \ {c}) \in Nat
    BY <1>1, FS_Subset, FS_CardinalityType
  <2>6. health.consecutive_failures + 1 \in 0..MaxXFaults
    BY <1>0, <1>1, <1>2, <1>3, <2>3, <2>5
  <2>7. FailuresCounted'
    BY <1>0, <1>1, <1>2, <1>9, <2>2, <2>3, <2>4 DEF record_error, FailuresCounted
  <2> QED
    BY <1>0, <1>9, <2>1, <2>4, <2>6, <2>7 DEF record_error, ExchangeTypeOK
<1> QED
  BY <1>4, <1>5, <1>6, <1>7, <1>8, <1>9 DEF CallerStep, Continue

\* A token that enters the cache has the lease but the time the answer took, and is fresh
\* for two requests less than the lease.
LEMMA CallerFresh ==
    ASSUME ExchangeInv, NEW c \in Callers, CallerStep(c)
    PROVE  FreshIsLive'
<1>1. CASE UNCHANGED cache
  BY <1>1 DEF ExchangeInv, FreshIsLive, Fresh
<1>2. CASE ExchangeSucceeds(c)
  <2>1. PICK l \in XLeases, d \in 0..XLatency :
          cache' = [cache EXCEPT ![ctx[c]] = [ttl |-> l - d, fresh |-> compute_expiry(l)]]
    BY <1>2 DEF ExchangeSucceeds
  <2>2. l - d >= compute_expiry(l) + XLatency
    BY ExpiryEarly, ExchangeAssumption
  <2>3. cache \in [Contexts -> [ttl : 0..Max(XLeases), fresh : 0..Max(XLeases)]]
    BY DEF ExchangeInv, ExchangeTypeOK
  <2> SUFFICES ASSUME NEW x \in Contexts, cache'[x].fresh > 0
               PROVE  cache'[x].ttl >= cache'[x].fresh + XLatency
    BY DEF FreshIsLive, Fresh
  <2>4. CASE x = ctx[c]
    BY <2>1, <2>2, <2>3, <2>4
  <2>5. CASE x # ctx[c]
    <3>1. cache'[x] = cache[x]
      BY <2>1, <2>3, <2>5
    <3> QED
      BY <3>1 DEF ExchangeInv, FreshIsLive, Fresh
  <2> QED
    BY <2>4, <2>5
<1> QED
  BY <1>1, <1>2 DEF CallerStep, Continue, FastPath, LockForExchange, ExchangeFails,
                    record_success, record_error

\* A second takes as much from the token in Vault as from its freshness.
LEMMA ExchangeTickInv == ASSUME ExchangeInv, ExchangeTick PROVE ExchangeInv'
<1>1. cache \in [Contexts -> [ttl : 0..Max(XLeases), fresh : 0..Max(XLeases)]]
  BY DEF ExchangeInv, ExchangeTypeOK
<1>2. Max(XLeases) \in Nat /\ XLatency \in Nat
  BY LongestLease, ExchangeAssumption
<1>3. \A x \in Contexts :
        /\ cache[x].ttl \in 0..Max(XLeases) /\ cache[x].fresh \in 0..Max(XLeases)
        /\ cache'[x].ttl = IF cache[x].ttl = 0 THEN 0 ELSE cache[x].ttl - 1
        /\ cache'[x].fresh = IF cache[x].fresh = 0 THEN 0 ELSE cache[x].fresh - 1
  BY <1>1 DEF ExchangeTick
<1>4. cache' \in [Contexts -> [ttl : 0..Max(XLeases), fresh : 0..Max(XLeases)]]
  <2> DEFINE t(x) == IF cache[x].ttl = 0 THEN 0 ELSE cache[x].ttl - 1
             f(x) == IF cache[x].fresh = 0 THEN 0 ELSE cache[x].fresh - 1
  <2>1. \A x \in Contexts : t(x) \in 0..Max(XLeases) /\ f(x) \in 0..Max(XLeases)
    BY <1>2, <1>3
  <2>2. cache' = [x \in Contexts |-> [ttl |-> t(x), fresh |-> f(x)]]
    BY DEF ExchangeTick
  <2> HIDE DEF t, f
  <2> QED
    BY <2>1, <2>2
<1>5. waited' \in 0..(2 * XLatency)
  BY <1>2 DEF ExchangeInv, ExchangeTypeOK, ExchangeTick
<1>6. ExchangeTypeOK'
  BY <1>4, <1>5 DEF ExchangeInv, ExchangeTypeOK, ExchangeTick
<1>7. FreshIsLive'
  <2> SUFFICES ASSUME NEW x \in Contexts, cache'[x].fresh > 0
               PROVE  cache'[x].ttl >= cache'[x].fresh + XLatency
    BY DEF FreshIsLive, Fresh
  <2>1. cache[x].fresh > 0
    BY <1>2, <1>3
  <2>2. cache[x].ttl >= cache[x].fresh + XLatency
    BY <2>1 DEF ExchangeInv, FreshIsLive, Fresh
  <2> QED
    BY <1>2, <1>3, <2>1, <2>2
<1>8. FailuresCounted'
  BY DEF ExchangeInv, FailuresCounted, Failed, ExchangeTick
<1> QED
  BY <1>6, <1>7, <1>8 DEF ExchangeInv

\* The invariant of the exchange, step by step.
LEMMA ExchangeNextInv == ExchangeInv /\ [Next]_vars => ExchangeInv'
<1> SUFFICES ASSUME ExchangeInv, [Next]_vars PROVE ExchangeInv'
  OBVIOUS
<1>1. CASE UNCHANGED exchangeVars
  BY <1>1 DEF exchangeVars, ExchangeInv, ExchangeTypeOK, FreshIsLive, Fresh, FailuresCounted, Failed
<1>2. CASE \E c \in Callers : CallerStep(c)
  BY <1>2, CallerTyped, CallerFresh DEF ExchangeInv
<1>3. CASE ExchangeTick
  BY <1>3, ExchangeTickInv
<1>4. CASE call' = [c \in Callers |-> "idle"] /\ UNCHANGED <<ctx, cache, health, waited, xfaults>>
  <2>1. ExchangeTypeOK'
    BY <1>4 DEF ExchangeInv, ExchangeTypeOK
  <2>2. FreshIsLive'
    BY <1>4 DEF ExchangeInv, FreshIsLive, Fresh
  <2>3. Failed' = {}
    BY <1>4 DEF Failed
  <2>4. Cardinality(Failed) \in Nat
    BY ExchangeAssumption, FS_Subset, FS_CardinalityType DEF Failed
  <2>5. health.consecutive_failures \in Nat /\ xfaults \in Nat
    BY ExchangeAssumption DEF ExchangeInv, ExchangeTypeOK
  <2>6. health.consecutive_failures + Cardinality(Failed) <= xfaults
    BY DEF ExchangeInv, FailuresCounted
  <2>7. health.consecutive_failures + 0 <= xfaults
    BY <2>4, <2>5, <2>6
  <2>8. FailuresCounted'
    BY <1>4, <2>3, <2>7, FS_EmptySet DEF FailuresCounted
  <2> QED
    BY <2>1, <2>2, <2>8 DEF ExchangeInv
<1> QED
  BY <1>1, <1>2, <1>3, <1>4, ExchangeSteps

\* The exchange keeps its types: in particular the write lock is not held longer than an
\* exchange and a login may take.
THEOREM ExchangeTypeCorrect == Spec => []ExchangeTypeOK
<1>1. ExchangeInv => ExchangeTypeOK
  BY DEF ExchangeInv
<1> QED
  BY <1>1, ExchangeInitInv, ExchangeNextInv, PTL DEF Spec

\* For any leases, percentage and request timeout that fit together: whatever callers find
\* in the cache, on either path of token_for, lives for their request, however long the
\* login answered and however late they read it.
THEOREM CachedTokensLive == Spec => []FreshIsLive
<1>1. ExchangeInv => FreshIsLive
  BY DEF ExchangeInv
<1> QED
  BY <1>1, ExchangeInitInv, ExchangeNextInv, PTL DEF Spec

\* However late and in whatever order callers record their outcomes, the health record
\* counts no failure twice.
THEOREM FailuresCountedOnce == Spec => []FailuresCounted
<1>1. ExchangeInv => FailuresCounted
  BY DEF ExchangeInv
<1> QED
  BY <1>1, ExchangeInitInv, ExchangeNextInv, PTL DEF Spec

-----------------------------------------------------------------------------
(* Types *)

\* The longest lease bounds them all.
LEMMA LeasesBounded ==
    /\ MaxLease \in Nat /\ estimated_ttl \in 0..MaxLease /\ Max(Leases) \in 0..MaxLease
    /\ \A l \in Leases : l \in 0..MaxLease
<1> DEFINE S == Leases \cup {estimated_ttl}
<1>1. PICK m \in Leases : \A l \in Leases : m >= l
  BY RenewalAssumption
<1>2. S \subseteq Nat
  BY RenewalAssumption
<1>3. \E x \in S : \A y \in S : x >= y
  <2>1. CASE m >= estimated_ttl
    BY <1>1, <2>1
  <2>2. CASE ~(m >= estimated_ttl)
    <3>1. \A y \in S : estimated_ttl >= y
      BY <1>1, <1>2, <2>2
    <3> QED
      BY <3>1
  <2> QED
    BY <2>1, <2>2
<1> HIDE DEF S
<1>4. Max(S) \in S /\ \A y \in S : Max(S) >= y
  BY <1>3 DEF Max
<1>5. Max(Leases) \in Leases
  BY <1>1 DEF Max
<1>6. MaxLease = Max(S)
  BY DEF MaxLease, S
<1>7. MaxLease \in Nat /\ \A y \in S : y \in Nat /\ y <= MaxLease
  BY <1>2, <1>4, <1>6
<1>8. \A y \in S : y \in 0..MaxLease
  BY <1>7
<1> QED
  BY <1>5, <1>7, <1>8 DEF S

\* BackoffConfig caps the exponent, so there are six factors.
LEMMA BackoffCapped ==
    ASSUME NEW n \in Nat
    PROVE  Backoff(n) \in Nat
<1>1. Min({n, 5}) \in {n, 5} /\ Min({n, 5}) <= 5
  BY MinIsLeast
<1>2. Min({n, 5}) \in 0..5
  BY <1>1
<1>3. \A i \in 0..5 : i = 0 \/ i = 1 \/ i = 2 \/ i = 3 \/ i = 4 \/ i = 5
  OBVIOUS
<1>4. 2^0 \in Nat /\ 2^1 \in Nat /\ 2^2 \in Nat /\ 2^3 \in Nat /\ 2^4 \in Nat /\ 2^5 \in Nat
  OBVIOUS
<1>5. \A i \in 0..5 : 2^i \in Nat
  <2> SUFFICES ASSUME NEW i \in 0..5 PROVE 2^i \in Nat
    OBVIOUS
  <2>1. i = 0 \/ i = 1 \/ i = 2 \/ i = 3 \/ i = 4 \/ i = 5
    BY <1>3
  <2> QED
    BY <1>4, <2>1, Zenon
<1> QED
  BY <1>2, <1>5 DEF Backoff

\* Jitter makes no interval negative.
LEMMA SleepTyped ==
    ASSUME NEW l \in Nat, NEW n \in Nat, NEW s \in Jittered(calculate_renewal_interval(l, n))
    PROVE  s \in Nat
<1> DEFINE b == Backoff(n)
           q == (l * renewal_percentage) \div 100
           i == q * b
           d == (i * renewal_jitter) \div 100
<1>1. renewal_percentage \in Nat /\ renewal_jitter \in 0..100 /\ b \in Nat
  BY RenewalAssumption, BackoffCapped
<1>2. calculate_renewal_interval(l, n) = i
  BY DEF calculate_renewal_interval
<1> HIDE DEF b
<1>3. l * renewal_percentage \in Nat
  BY <1>1
<1>4. q \in Nat
  BY <1>3
<1> HIDE DEF q
<1>5. i \in Nat
  BY <1>1, <1>4
<1>6. s \in (i - d)..(i + d)
  BY <1>2 DEF Jittered
<1> HIDE DEF i
<1>7. i * renewal_jitter \in Nat /\ i * renewal_jitter <= i * 100
  BY <1>1, <1>5
<1>8. d \in Nat /\ d <= i
  BY <1>5, <1>7
<1> HIDE DEF d
<1> QED
  BY <1>5, <1>6, <1>8

\* A loop that is past its check has a failure to go before it gives up.
StillTrying ==
    loop \in Requesting \cup {"wait"} => state.consecutive_failures < max_consecutive_failures

RenewalTyped == RenewalTypeOK /\ StillTrying

StateType == [lease_duration : 0..MaxLease, last_error : BOOLEAN,
              consecutive_failures : 0..max_consecutive_failures]

\* The fields of the state.
LEMMA StateFields ==
    ASSUME RenewalTyped
    PROVE  /\ state \in StateType
           /\ state.lease_duration \in 0..MaxLease /\ state.last_error \in BOOLEAN
           /\ state.consecutive_failures \in 0..max_consecutive_failures
           /\ state = [lease_duration |-> state.lease_duration, last_error |-> state.last_error,
                       consecutive_failures |-> state.consecutive_failures]
BY DEF RenewalTyped, RenewalTypeOK, StateType

\* An error is counted up to max_consecutive_failures.
LEMMA ErrorTyped ==
    ASSUME RenewalTyped, record_renewal_error, loop \in Requesting \cup {"wait"}
    PROVE  state' \in StateType
<1>1. state.consecutive_failures < max_consecutive_failures
  BY DEF RenewalTyped, StillTrying
<1>2. state' = [lease_duration |-> state.lease_duration, last_error |-> TRUE,
                consecutive_failures |-> state.consecutive_failures + 1]
  BY StateFields DEF record_renewal_error
<1>3. state.consecutive_failures + 1 \in 0..max_consecutive_failures
  BY <1>1, StateFields, RenewalAssumption
<1> QED
  BY <1>2, <1>3, StateFields DEF StateType

\* A login leaves a lease and a token of the types.
LEMMA LoginTyped ==
    ASSUME RenewalTyped, authenticate
    PROVE  /\ state' \in StateType /\ ttl' \in 0..MaxLease
           /\ file' \in [ttl : 0..MaxLease, read : BOOLEAN] /\ capped' \in BOOLEAN
<1>0. /\ ttl \in 0..MaxLease /\ file \in [ttl : 0..MaxLease, read : BOOLEAN]
      /\ file.ttl \in 0..MaxLease /\ MaxLease \in Nat
  BY LeasesBounded DEF RenewalTyped, RenewalTypeOK
<1>1. \A l \in 0..MaxLease : NewToken(l) => state' \in StateType
  BY RenewalAssumption DEF NewToken, StateType
<1>2. capped' \in BOOLEAN
  BY Zenon DEF authenticate
<1>3. CASE JwtLogin
  <2>1. PICK l \in Leases, d \in 0..Latency : NewToken(l) /\ ttl' = l - d /\ UNCHANGED file
    BY <1>3 DEF JwtLogin
  <2>2. l \in 0..MaxLease /\ l > 3 * Latency /\ Latency \in Nat
    BY LeaseLong, LeasesBounded
  <2>3. l - d \in 0..MaxLease
    BY <1>0, <2>2
  <2> QED
    BY <1>0, <1>1, <1>2, <2>1, <2>2, <2>3
<1>4. CASE ReadTokenFile
  <2>1. state' \in StateType
    BY <1>1, <1>4, LeasesBounded DEF ReadTokenFile
  <2>2. ttl' \in 0..MaxLease
    BY <1>0, <1>4 DEF ReadTokenFile
  <2>3. file' \in [ttl : 0..MaxLease, read : BOOLEAN]
    BY <1>0, <1>4 DEF ReadTokenFile
  <2> QED
    BY <1>2, <2>1, <2>2, <2>3
<1> QED
  BY <1>3, <1>4 DEF authenticate

\* The channel takes no more than its capacity.
LEMMA EventsTyped ==
    ASSUME RenewalTyped, NEW e \in {"change", "other", "error"}, try_send(e)
    PROVE  events' \in Seq({"change", "other", "error"}) /\ Len(events') <= ChannelCapacity
<1>1. /\ events \in Seq({"change", "other", "error"}) /\ Len(events) <= ChannelCapacity
      /\ Len(events) \in Nat /\ ChannelCapacity \in Nat
  BY RenewalAssumption DEF RenewalTyped, RenewalTypeOK
<1>2. CASE Len(events) < ChannelCapacity
  <2>1. events' = Append(events, e)
    BY <1>2 DEF try_send
  <2>2. Append(events, e) \in Seq({"change", "other", "error"})
        /\ Len(Append(events, e)) = Len(events) + 1
    BY <1>1
  <2> QED
    BY <1>1, <1>2, <2>1, <2>2
<1>3. CASE ~(Len(events) < ChannelCapacity)
  BY <1>1, <1>3 DEF try_send
<1> QED
  BY <1>2, <1>3

\* Taking an event leaves the others.
LEMMA EventTaken ==
    ASSUME RenewalTyped, events # <<>>, events' = Tail(events)
    PROVE  events' \in Seq({"change", "other", "error"}) /\ Len(events') <= ChannelCapacity
<1>1. events \in Seq({"change", "other", "error"}) /\ Len(events) <= ChannelCapacity
  BY DEF RenewalTyped, RenewalTypeOK
<1>2. Tail(events) \in Seq({"change", "other", "error"}) /\ Len(Tail(events)) = Len(events) - 1
  BY <1>1
<1> QED
  BY <1>1, <1>2, RenewalAssumption

\* The steps of the loop.
LEMMA LoopTyped ==
    ASSUME RenewalTyped,
           \/ LoopCheck \/ TriggerFires \/ IgnoreEvent \/ TriggerFails \/ VaultRenews
           \/ RenewalSucceeds \/ RenewalRejected \/ LoginSucceeds \/ RenewalFails \/ LoginFails
    PROVE  RenewalTyped'
<1>0. /\ state.lease_duration \in 0..MaxLease /\ state.consecutive_failures \in Nat
      /\ state.lease_duration \in Nat /\ MaxLease \in Nat
      /\ max_consecutive_failures \in Nat /\ max_consecutive_failures > 0
      /\ Latency \in Nat
  BY StateFields, LeasesBounded, RenewalAssumption
<1>1. CASE LoopCheck
  <2>1. sleep' \in Nat
    BY <1>0, <1>1, SleepTyped DEF LoopCheck
  <2>2. age' \in 0..(2 * Latency)
    BY <1>0, <1>1 DEF LoopCheck
  <2>3. loop' \in Unstarted \cup Requesting \cup {"check", "wait"}
    BY <1>1 DEF LoopCheck, Unstarted
  <2>4. StillTrying'
    BY <1>0, <1>1 DEF LoopCheck, StillTrying, Requesting
  <2> QED
    BY <1>1, <2>1, <2>2, <2>3, <2>4 DEF LoopCheck, RenewalTyped, RenewalTypeOK
<1>2. CASE TriggerFires
  <2>1. events' \in Seq({"change", "other", "error"}) /\ Len(events') <= ChannelCapacity
    BY <1>2, EventTaken DEF TriggerFires, RenewalTyped, RenewalTypeOK
  <2>2. age' \in 0..(2 * Latency)
    BY <1>0, <1>2 DEF TriggerFires
  <2>3. StillTrying' /\ loop' \in Requesting
    BY <1>2 DEF TriggerFires, RenewalTyped, StillTrying, Requesting
  <2> QED
    BY <1>2, <2>1, <2>2, <2>3 DEF TriggerFires, RenewalTyped, RenewalTypeOK
<1>3. CASE IgnoreEvent
  <2>1. events' \in Seq({"change", "other", "error"}) /\ Len(events') <= ChannelCapacity
    BY <1>3, EventTaken DEF IgnoreEvent
  <2>2. StillTrying'
    BY <1>3 DEF IgnoreEvent, RenewalTyped, StillTrying
  <2> QED
    BY <1>3, <2>1, <2>2 DEF IgnoreEvent, RenewalTyped, RenewalTypeOK
<1>4. CASE TriggerFails
  <2>1. events' \in Seq({"change", "other", "error"}) /\ Len(events') <= ChannelCapacity
    BY <1>4, EventTaken DEF TriggerFails
  <2>2. state' \in StateType
    BY <1>4, ErrorTyped DEF TriggerFails
  <2>3. StillTrying'
    BY <1>4 DEF TriggerFails, StillTrying, Requesting
  <2> QED
    BY <1>4, <2>1, <2>2, <2>3 DEF TriggerFails, RenewalTyped, RenewalTypeOK, Unstarted, StateType
<1>5. CASE VaultRenews
  <2> DEFINE S == Leases \cup {state.lease_duration}
  <2>1. S \in SUBSET Nat /\ state.lease_duration \in S
    BY <1>0, RenewalAssumption
  <2>2. Min(S) \in Nat /\ Min(S) <= state.lease_duration
    BY <2>1, MinIsLeast
  <2>3. Min(S) \in 0..MaxLease
    BY <1>0, <2>2
  <2>4. ttl' \in 0..MaxLease
    BY <1>0, <1>5, <2>3 DEF VaultRenews
  <2>5. capped' \in BOOLEAN
    <3>1. PICK g \in {state.lease_duration, Min(S)} : capped' = (g < state.lease_duration)
      BY <1>5 DEF VaultRenews
    <3>2. g \in Nat
      BY <1>0, <2>2, <3>1
    <3> HIDE DEF S
    <3> QED
      BY <1>0, <3>1, <3>2
  <2>6. StillTrying' /\ loop' \in Requesting
    BY <1>5 DEF VaultRenews, RenewalTyped, StillTrying, Requesting
  <2> QED
    BY <1>5, <2>4, <2>5, <2>6 DEF VaultRenews, RenewalTyped, RenewalTypeOK
<1>6. CASE RenewalSucceeds
  <2>1. state' = [lease_duration |-> state.lease_duration, last_error |-> FALSE,
                  consecutive_failures |-> 0]
    BY <1>6, StateFields DEF RenewalSucceeds, update_state_on_success
  <2>2. state' \in StateType
    BY <1>0, <2>1 DEF StateType
  <2>3. StillTrying'
    BY <1>6 DEF RenewalSucceeds, StillTrying, Requesting
  <2> QED
    BY <1>6, <2>2, <2>3 DEF RenewalSucceeds, RenewalTyped, RenewalTypeOK, StateType
<1>7. CASE RenewalRejected
  <2>1. age' \in 0..(2 * Latency)
    BY <1>0, <1>7 DEF RenewalRejected
  <2>2. StillTrying' /\ loop' \in Requesting
    BY <1>7 DEF RenewalRejected, RenewalTyped, StillTrying, Requesting
  <2>3. faults' \in 0..MaxFaults
    BY <1>7, RenewalAssumption DEF RenewalRejected, Fault, RenewalTyped, RenewalTypeOK
  <2> QED
    BY <1>7, <2>1, <2>2, <2>3 DEF RenewalRejected, RenewalTyped, RenewalTypeOK
<1>8. CASE LoginSucceeds
  <2>1. StillTrying'
    BY <1>8 DEF LoginSucceeds, StillTrying, Requesting
  <2> QED
    BY <1>8, <2>1, LoginTyped DEF LoginSucceeds, RenewalTyped, RenewalTypeOK, StateType
<1>9. CASE RenewalFails \/ LoginFails
  <2>1. state' \in StateType
    BY <1>9, ErrorTyped DEF RenewalFails, LoginFails, Requesting
  <2>2. faults' \in 0..MaxFaults
    BY <1>9, RenewalAssumption DEF RenewalFails, LoginFails, Fault, RenewalTyped, RenewalTypeOK
  <2>3. StillTrying'
    BY <1>9 DEF RenewalFails, LoginFails, StillTrying, Requesting
  <2> QED
    BY <1>9, <2>1, <2>2, <2>3 DEF RenewalFails, LoginFails, RenewalTyped, RenewalTypeOK, StateType
<1> QED
  BY <1>1, <1>2, <1>3, <1>4, <1>5, <1>6, <1>7, <1>8, <1>9

\* The sidecar and time.
LEMMA OutsideTyped ==
    ASSUME RenewalTyped, Rotate \/ OtherEvent \/ WatchError \/ RenewalTick
    PROVE  RenewalTyped'
<1>0. /\ sleep \in Nat /\ age \in 0..(2 * Latency) /\ ttl \in 0..MaxLease
      /\ file \in [ttl : 0..MaxLease, read : BOOLEAN] /\ file.ttl \in 0..MaxLease
      /\ file.read \in BOOLEAN
      /\ MaxLease \in Nat /\ Latency \in Nat
  BY LeasesBounded, RenewalAssumption DEF RenewalTyped, RenewalTypeOK
<1>1. CASE Rotate
  <2>1. events' \in Seq({"change", "other", "error"}) /\ Len(events') <= ChannelCapacity
    BY <1>1, EventsTyped DEF Rotate
  <2>2. file' \in [ttl : 0..MaxLease, read : BOOLEAN]
    BY <1>1, LeasesBounded DEF Rotate
  <2> QED
    BY <1>1, <2>1, <2>2 DEF Rotate, RenewalTyped, RenewalTypeOK, StillTrying
<1>2. CASE OtherEvent
  <2>1. events' \in Seq({"change", "other", "error"}) /\ Len(events') <= ChannelCapacity
    BY <1>2, EventsTyped DEF OtherEvent
  <2>2. noise' \in 0..MaxNoise
    BY <1>2, RenewalAssumption DEF OtherEvent, RenewalTyped, RenewalTypeOK
  <2> QED
    BY <1>2, <2>1, <2>2 DEF OtherEvent, RenewalTyped, RenewalTypeOK, StillTrying
<1>3. CASE WatchError
  <2>1. events' \in Seq({"change", "other", "error"}) /\ Len(events') <= ChannelCapacity
    BY <1>3, EventsTyped DEF WatchError
  <2>2. faults' \in 0..MaxFaults
    BY <1>3, RenewalAssumption DEF WatchError, Fault, RenewalTyped, RenewalTypeOK
  <2> QED
    BY <1>3, <2>1, <2>2 DEF WatchError, RenewalTyped, RenewalTypeOK, StillTrying
<1>4. CASE RenewalTick
  <2>1. sleep' \in Nat /\ ttl' \in 0..MaxLease
    BY <1>0, <1>4 DEF RenewalTick, Less
  <2>2. Less(file.ttl) \in 0..MaxLease
    BY <1>0 DEF Less
  <2>3. file' = [file EXCEPT !.ttl = Less(file.ttl)]
    BY <1>4 DEF RenewalTick
  <2>4. file' \in [ttl : 0..MaxLease, read : BOOLEAN]
    BY <1>0, <2>2, <2>3
  <2>5. age' \in 0..(2 * Latency)
    BY <1>0, <1>4 DEF RenewalTick, Requesting
  <2> QED
    BY <1>4, <2>1, <2>4, <2>5 DEF RenewalTick, RenewalTyped, RenewalTypeOK, StillTrying
<1> QED
  BY <1>1, <1>2, <1>3, <1>4

\* A provider that is dropped, or whose login just succeeded.
LEMMA ProviderTyped ==
    ASSUME RenewalTyped, faults' \in 0..MaxFaults, noise' = noise,
           \/ Discard
           \/ authenticate /\ loop' = "check" /\ UNCHANGED <<trigger, sleep, age, events>>
    PROVE  RenewalTyped'
<1>0. /\ MaxLease \in Nat /\ Latency \in Nat /\ ChannelCapacity \in Nat
      /\ max_consecutive_failures \in Nat
      /\ ttl \in 0..MaxLease /\ file.ttl \in 0..MaxLease
  BY LeasesBounded, RenewalAssumption DEF RenewalTyped, RenewalTypeOK
<1>1. CASE Discard
  <2>1. sleep' \in Nat /\ age' \in 0..(2 * Latency) /\ ttl' \in 0..MaxLease
    BY <1>0, <1>1 DEF Discard
  <2>2. state' \in StateType
    BY <1>0, <1>1 DEF Discard, StateType
  <2>3. events' \in Seq({"change", "other", "error"}) /\ Len(events') <= ChannelCapacity
    BY <1>0, <1>1 DEF Discard
  <2>4. file' \in [ttl : 0..MaxLease, read : BOOLEAN]
    BY <1>0, <1>1 DEF Discard
  <2>5. capped' \in BOOLEAN
    BY <1>1, Zenon DEF Discard
  <2>6. StillTrying'
    BY <1>1 DEF Discard, StillTrying, Requesting
  <2> QED
    BY <1>1, <2>1, <2>2, <2>3, <2>4, <2>5, <2>6
       DEF Discard, RenewalTyped, RenewalTypeOK, StateType, Unstarted
<1>2. CASE authenticate /\ loop' = "check" /\ UNCHANGED <<trigger, sleep, age, events>>
  <2>1. StillTrying'
    BY <1>2 DEF StillTrying, Requesting
  <2> QED
    BY <1>2, <2>1, LoginTyped DEF RenewalTyped, RenewalTypeOK, StateType
<1> QED
  BY <1>1, <1>2

\* What concerns the client alone.
ClientTyped ==
    /\ provider \in {"renewing", "exchanging"}
    /\ client \in {"new", "key", "create", "ready", "dropped"}
    /\ key \in BOOLEAN /\ op \in {"idle", "sent", "stale", "denied"}
    /\ opAge \in 0..Latency /\ excused \in BOOLEAN

\* The renewal's part of a step of the client.
LEMMA RenewalTypedNext == RenewalTyped /\ [Next]_vars => RenewalTyped'
<1> SUFFICES ASSUME RenewalTyped, [Next]_vars PROVE RenewalTyped'
  OBVIOUS
<1>0. faults \in 0..MaxFaults /\ MaxFaults \in Nat
  BY RenewalAssumption DEF RenewalTyped, RenewalTypeOK
<1>1. CASE UNCHANGED renewalVars
  BY <1>1 DEF renewalVars, RenewalTyped, RenewalTypeOK, StillTrying
<1>2. CASE StartRenewing
  BY <1>0, <1>2, ProviderTyped DEF StartRenewing
<1>3. CASE StartFails
  <2>1. faults' \in 0..MaxFaults
    BY <1>0, <1>3 DEF StartFails, Fault
  <2> QED
    BY <1>3, <2>1 DEF StartFails, RenewalTyped, RenewalTypeOK, StillTrying
<1>4. CASE SigningKeyFails \/ Drop
  <2>1. faults' \in 0..MaxFaults
    BY <1>0, <1>4 DEF SigningKeyFails, Drop, Fault
  <2> QED
    BY <1>4, <2>1, ProviderTyped DEF SigningKeyFails, Drop
<1>5. CASE StartExchanging \/ CheckSigningKey \/ CreateSigningKey \/ KeyCreated
           \/ SendRequest \/ Answered
  BY <1>1, <1>5 DEF StartExchanging, CheckSigningKey, CreateSigningKey, KeyCreated,
                    SendRequest, Answered
<1>6. CASE Renewal \/ RenewalFaults
  BY <1>6, LoopTyped DEF Renewal, RenewalFaults
<1>7. CASE Environment
  BY <1>7, OutsideTyped DEF Environment
<1>8. CASE \E c \in Callers : Caller(c)
  BY <1>1, <1>8 DEF Caller
<1>9. CASE Tick
  BY <1>1, <1>9, OutsideTyped DEF Tick
<1>10. CASE UNCHANGED vars
  BY <1>1, <1>10 DEF vars
<1> QED
  BY <1>2, <1>3, <1>4, <1>5, <1>6, <1>7, <1>8, <1>9, <1>10 DEF Next

\* The client's own part.
LEMMA ClientTypedNext == ClientTyped /\ [Next]_vars => ClientTyped'
<1> SUFFICES ASSUME ClientTyped, [Next]_vars PROVE ClientTyped'
  OBVIOUS
<1>0. Latency \in Nat
  BY RenewalAssumption
<1>1. CASE UNCHANGED clientVars
  BY <1>1 DEF clientVars, ClientTyped
<1>2. CASE StartRenewing \/ StartFails \/ StartExchanging \/ CheckSigningKey
           \/ CreateSigningKey \/ SigningKeyFails \/ KeyCreated
  <2>1. key' \in BOOLEAN
    BY <1>2, Zenon DEF StartRenewing, StartFails, StartExchanging, CheckSigningKey,
                       CreateSigningKey, SigningKeyFails, KeyCreated, ClientTyped, clientVars
  <2>2. excused' \in BOOLEAN
    BY <1>2, Zenon DEF StartRenewing, StartFails, StartExchanging, CheckSigningKey,
                       CreateSigningKey, SigningKeyFails, KeyCreated, ClientTyped, clientVars
  <2> QED
    BY <1>2, <2>1, <2>2 DEF StartRenewing, StartFails, StartExchanging, CheckSigningKey,
                            CreateSigningKey, SigningKeyFails, KeyCreated, ClientTyped, clientVars
<1>3. CASE Drop
  <2>1. key' \in BOOLEAN /\ excused' \in BOOLEAN
    BY <1>3, Zenon DEF Drop, ClientTyped
  <2> QED
    BY <1>0, <1>3, <2>1 DEF Drop, ClientTyped
<1>4. CASE SendRequest \/ Answered
  <2>1. excused' \in BOOLEAN
    BY <1>4, Zenon DEF SendRequest, Answered, Troubled
  <2> QED
    BY <1>0, <1>4, <2>1 DEF SendRequest, Answered, ClientTyped
<1>5. CASE Renewal \/ RenewalFaults \/ Environment
  <2>1. \E r \in BOOLEAN : Observe(r)
    BY <1>5 DEF Renewal, RenewalFaults, Environment
  <2>2. PICK r \in BOOLEAN : Observe(r)
    BY <2>1
  <2>3. excused' \in BOOLEAN
    BY <2>2, Zenon DEF Observe, ClientTyped
  <2> QED
    BY <2>2, <2>3 DEF Observe, ClientTyped
<1>6. CASE \E c \in Callers : Caller(c)
  BY <1>1, <1>6 DEF Caller
<1>7. CASE Tick
  BY <1>0, <1>1, <1>7 DEF Tick, ClientTyped
<1>8. CASE UNCHANGED vars
  BY <1>1, <1>8 DEF vars
<1> QED
  BY <1>2, <1>3, <1>4, <1>5, <1>6, <1>7, <1>8 DEF Next

\* Nothing has been started.
LEMMA ClientTypedInit == Init => RenewalTyped /\ ClientTyped
<1> SUFFICES ASSUME Init PROVE RenewalTyped /\ ClientTyped
  OBVIOUS
<1>0. /\ MaxLease \in Nat /\ Latency \in Nat /\ ChannelCapacity \in Nat
      /\ max_consecutive_failures \in Nat /\ MaxFaults \in Nat /\ MaxNoise \in Nat
  BY LeasesBounded, RenewalAssumption
<1>1. ClientTyped
  <2>1. key \in BOOLEAN /\ excused \in BOOLEAN
    BY Zenon DEF Init
  <2> QED
    BY <1>0, <2>1 DEF Init, ClientTyped
<1>2. StillTrying
  BY DEF Init, RenewalInit, StillTrying, Requesting
<1>3. state \in StateType /\ file \in [ttl : 0..MaxLease, read : BOOLEAN]
  BY <1>0, LeasesBounded DEF Init, RenewalInit, StateType
<1>4. capped \in BOOLEAN
  BY Zenon DEF Init, RenewalInit
<1>5. events \in Seq({"change", "other", "error"}) /\ Len(events) <= ChannelCapacity
  BY <1>0 DEF Init, RenewalInit
<1> QED
  BY <1>0, <1>1, <1>2, <1>3, <1>4, <1>5
     DEF Init, RenewalInit, RenewalTyped, RenewalTypeOK, StateType, Unstarted

\* TypeOK: in particular no jitter makes a sleep negative, the file channel stays within its
\* capacity, and no loop counts more failures than it gives up after.
THEOREM ClientTypeCorrect == Spec => []TypeOK
<1>1. ExchangeTypeOK /\ RenewalTyped /\ ClientTyped => TypeOK
  BY DEF TypeOK, RenewalTyped, ClientTyped
<1> QED
  BY <1>1, ExchangeTypeCorrect, ClientTypedInit, RenewalTypedNext, ClientTypedNext, PTL DEF Spec
=============================================================================
