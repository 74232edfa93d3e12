---------------------------- MODULE VaultRenewal ----------------------------
(***************************************************************************)
(* TokenRenewer (facet-hashicorp-vault/src/renewal.rs) on the state of a      *)
(* RenewingTokenProvider: the loop that waits for its trigger, renews the      *)
(* token in memory and logs in again when Vault rejects it.  The trigger is a   *)
(* timer (OAuth2) or a watch on the file a sidecar rotates (Kubernetes).       *)
(*                                                                         *)
(* Time is relative: Vault counts down the life of each token, the timer its   *)
(* sleep, and a request is answered or times out within Latency.  The loop     *)
(* computes in no time: Tick waits for it.                                   *)
(***************************************************************************)
EXTENDS Naturals, Sequences, FiniteSetsExt

CONSTANTS Leases,                    \* lease durations Vault grants
          estimated_ttl,             \* of FileBasedVaultAuthClient
          renewal_percentage, renewal_jitter,  \* in percent
          max_consecutive_failures, health_threshold,
          ChannelCapacity,           \* of the channel of file events
          Latency,                   \* bound: the request timeout
          MaxFaults,                 \* bound: requests, reads and watches that fail
          MaxNoise                   \* bound: file events that change nothing

VARIABLES trigger,    \* RenewalTriggerConfig: "time", "file"
          loop,       \* where the renewal loop is
          sleep,      \* time left of tokio::time::sleep
          age,        \* time since the loop sent its request
          events,     \* the channel of the file watcher
          state,      \* VaultClientState
          ttl,        \* Vault: life left of the token in state
          file,       \* the token file: state has read its token, or else its life left
          capped,     \* Vault granted the last renewal less than was asked
          faults, noise

renewalVars == <<trigger, loop, sleep, age, events, state, ttl, file, capped, faults, noise>>

MaxLease == Max(Leases \cup {estimated_ttl})

\* BackoffConfig::default
Backoff(failures) == 2 ^ Min({failures, 5})

calculate_renewal_interval(lease, failures) ==
    ((lease * renewal_percentage) \div 100) * Backoff(failures)

Jittered(interval) ==
    LET spread == (interval * renewal_jitter) \div 100
    IN  (interval - spread)..(interval + spread)

\* What the operator must configure: a renewal, with its request, fits into the
\* lease and leaves room for a caller's request.  A lease is a u64, so there is a
\* longest one; the jitter is a part of the interval.
ASSUME RenewalAssumption ==
    /\ Leases \subseteq Nat \ {0} /\ Leases # {} /\ estimated_ttl \in Nat \ {0}
    /\ \E m \in Leases : \A l \in Leases : l <= m
    /\ renewal_percentage \in Nat /\ renewal_jitter \in 0..100
    /\ Latency \in Nat \ {0} /\ ChannelCapacity \in Nat \ {0}
    /\ max_consecutive_failures \in Nat /\ health_threshold \in 1..max_consecutive_failures
    /\ MaxFaults \in Nat /\ MaxNoise \in Nat
    /\ \A l \in Leases :
           /\ 3 * Latency < l
           /\ \A i \in Jittered(calculate_renewal_interval(l, 0)) : i > 0 /\ i + 3 * Latency < l

Unstarted == {"none", "stopped"}
Requesting == {"renew", "granted", "login"}

\* Type invariant of the renewal.
RenewalTypeOK ==
    /\ trigger \in {"time", "file"}
    /\ loop \in Unstarted \cup Requesting \cup {"check", "wait"}
    /\ sleep \in Nat /\ age \in 0..(2 * Latency)
    /\ events \in Seq({"change", "other", "error"}) /\ Len(events) <= ChannelCapacity
    /\ state \in [lease_duration : 0..MaxLease, last_error : BOOLEAN,
                  consecutive_failures : 0..max_consecutive_failures]
    /\ ttl \in 0..MaxLease
    /\ file \in [ttl : 0..MaxLease, read : BOOLEAN]
    /\ capped \in BOOLEAN /\ faults \in 0..MaxFaults /\ noise \in 0..MaxNoise

RenewalInit ==
    /\ trigger \in {"time", "file"} /\ loop = "none" /\ sleep = 0 /\ age = 0
    /\ events = <<>>
    /\ state = [lease_duration |-> 0, last_error |-> FALSE, consecutive_failures |-> 0]
    /\ ttl = 0 /\ file = [ttl |-> Max(Leases), read |-> FALSE]
    /\ capped = FALSE /\ faults = 0 /\ noise = 0

is_healthy == state.consecutive_failures < health_threshold

Fault == faults < MaxFaults /\ faults' = faults + 1

-----------------------------------------------------------------------------
(* Changes of VaultClientState *)

record_renewal_error ==
    state' = [state EXCEPT !.consecutive_failures = @ + 1, !.last_error = TRUE]

update_state_on_success ==
    state' = [state EXCEPT !.consecutive_failures = 0, !.last_error = FALSE]

\* Mutant: the lease of the first login is kept.
NewToken_KeepsLease(lease) ==
    state' = [state EXCEPT !.consecutive_failures = 0, !.last_error = FALSE,
                           !.lease_duration = IF @ = 0 THEN lease ELSE @]

\* A token the state takes over, with the lease it came with.
NewToken(lease) ==
    state' = [lease_duration |-> lease, consecutive_failures |-> 0, last_error |-> FALSE]

\* authenticate of the JWT client: the login answers up to Latency after Vault
\* has created the token.
JwtLogin ==
    \E lease \in Leases, delay \in 0..Latency :
        /\ NewToken(lease) /\ ttl' = lease - delay
        /\ UNCHANGED file

\* Mutant: the file is read, its token not stored.
ReadTokenFile_KeepsToken ==
    /\ NewToken(estimated_ttl)
    /\ UNCHANGED <<ttl, file>>

\* authenticate of the file client: whatever token the file holds, with a lease
\* that is only estimated.
ReadTokenFile ==
    /\ NewToken(estimated_ttl)
    /\ ttl' = IF file.read THEN ttl ELSE file.ttl
    /\ file' = [ttl |-> 0, read |-> TRUE]

authenticate ==
    /\ IF trigger = "time" THEN JwtLogin ELSE ReadTokenFile
    /\ capped' = FALSE

-----------------------------------------------------------------------------
(* The renewal loop *)

\* The head of the loop, and the start of the wait.
LoopCheck ==
    /\ loop = "check"
    /\ IF state.consecutive_failures >= max_consecutive_failures
       THEN loop' = "stopped" /\ sleep' = 0
       ELSE /\ loop' = "wait"
            /\ IF trigger = "time"
               THEN sleep' \in Jittered(calculate_renewal_interval(
                                            state.lease_duration, state.consecutive_failures))
               ELSE sleep' = 0
    /\ age' = 0
    /\ UNCHANGED <<trigger, events, state, ttl, file, capped, faults, noise>>

\* wait_for_trigger returns: the sleep is over, or the file changed.
TriggerFires ==
    /\ loop = "wait"
    /\ \/ trigger = "time" /\ sleep = 0 /\ UNCHANGED events
       \/ trigger = "file" /\ events # <<>> /\ Head(events) = "change" /\ events' = Tail(events)
    /\ loop' = "renew" /\ age' = 0
    /\ UNCHANGED <<trigger, sleep, state, ttl, file, capped, faults, noise>>

\* An event that is no modification, creation or removal.
IgnoreEvent ==
    /\ loop = "wait" /\ events # <<>> /\ Head(events) = "other"
    /\ events' = Tail(events)
    /\ UNCHANGED <<trigger, loop, sleep, age, state, ttl, file, capped, faults, noise>>

\* wait_for_trigger returns an error: it is recorded and the loop ends.
TriggerFails ==
    /\ loop = "wait" /\ events # <<>> /\ Head(events) = "error"
    /\ events' = Tail(events) /\ loop' = "stopped"
    /\ record_renewal_error
    /\ UNCHANGED <<trigger, sleep, age, ttl, file, capped, faults, noise>>

\* Vault prolongs the token in memory, by the increment asked for or by less.
VaultRenews ==
    /\ loop = "renew" /\ ttl > 0
    /\ \E granted \in {state.lease_duration, Min(Leases \cup {state.lease_duration})} :
          /\ ttl' = granted
          /\ capped' = (granted < state.lease_duration)
    /\ loop' = "granted"
    /\ UNCHANGED <<trigger, sleep, age, events, state, file, faults, noise>>

\* renew_token returned Ok; the lease in the answer is not looked at.
RenewalSucceeds ==
    /\ loop = "granted"
    /\ update_state_on_success /\ loop' = "check"
    /\ UNCHANGED <<trigger, sleep, age, events, ttl, file, capped, faults, noise>>

\* "invalid token" or "permission denied": handle_token_expiration, although the second may
\* be said of a token that is alive.
RenewalRejected ==
    /\ loop = "renew" /\ (IF ttl = 0 THEN UNCHANGED faults ELSE Fault)
    /\ loop' = "login" /\ age' = 0
    /\ UNCHANGED <<trigger, sleep, events, state, ttl, file, capped, noise>>

\* The request or its answer is lost, or Vault answers any other error.
RenewalFails ==
    /\ loop \in {"renew", "granted"} /\ Fault
    /\ record_renewal_error /\ loop' = "check"
    /\ UNCHANGED <<trigger, sleep, age, events, ttl, file, capped, noise>>

LoginSucceeds ==
    /\ loop = "login"
    /\ authenticate /\ loop' = "check"
    /\ UNCHANGED <<trigger, sleep, age, events, faults, noise>>

\* The identity provider, Vault or the file fails.
LoginFails ==
    /\ loop = "login" /\ Fault
    /\ record_renewal_error /\ loop' = "check"
    /\ UNCHANGED <<trigger, sleep, age, events, ttl, file, capped, noise>>

RenewalLoop ==
    \/ LoopCheck \/ TriggerFires \/ IgnoreEvent \/ TriggerFails
    \/ VaultRenews \/ RenewalSucceeds \/ RenewalRejected \/ RenewalFails
    \/ LoginSucceeds \/ LoginFails

\* The last renewal failed, was rejected, or got less than it asked for.
Troubled == capped \/ state.consecutive_failures > 0 \/ loop = "login"

\* What the loop does without waiting for an answer.
LoopBusy ==
    \/ loop = "check"
    \/ loop = "wait" /\ IF trigger = "time" THEN sleep = 0 ELSE events # <<>>

-----------------------------------------------------------------------------
(* The sidecar and the file watcher: external *)

\* An event that finds the channel full is dropped.
try_send(event) ==
    events' = IF Len(events) < ChannelCapacity THEN Append(events, event) ELSE events

Watching == trigger = "file" /\ loop \notin Unstarted

\* The sidecar replaces the token in the file.
Rotate ==
    /\ Watching /\ try_send("change")
    /\ \E lease \in Leases : file' = [ttl |-> lease, read |-> FALSE]
    /\ UNCHANGED <<trigger, loop, sleep, age, state, ttl, capped, faults, noise>>

OtherEvent ==
    /\ Watching /\ noise < MaxNoise /\ noise' = noise + 1
    /\ try_send("other")
    /\ UNCHANGED <<trigger, loop, sleep, age, state, ttl, file, capped, faults>>

WatchError ==
    /\ Watching /\ Fault /\ try_send("error")
    /\ UNCHANGED <<trigger, loop, sleep, age, state, ttl, file, capped, noise>>

Sidecar == Rotate \/ OtherEvent \/ WatchError

Less(n) == IF n = 0 THEN 0 ELSE n - 1

\* One second of the renewal's part of the world.
RenewalTick ==
    /\ ~LoopBusy
    /\ loop \in {"renew", "granted"} => age < Latency
    /\ loop = "login" => age < 2 * Latency
    /\ sleep' = Less(sleep) /\ ttl' = Less(ttl)
    /\ file' = [file EXCEPT !.ttl = Less(@)]
    /\ age' = IF loop \in Requesting THEN age + 1 ELSE age
    /\ UNCHANGED <<trigger, loop, events, state, capped, faults, noise>>

=============================================================================
