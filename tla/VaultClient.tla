---------------------------- MODULE VaultClient ----------------------------
(***************************************************************************)
(* HashicorpVaultClient (facet-hashicorp-vault/src/client.rs) over either of   *)
(* its token providers: initialize, the operations that fetch a token and send  *)
(* it with their request, and Drop.                                          *)
(***************************************************************************)
EXTENDS VaultRenewal, TokenExchange

VARIABLES provider,   \* auth_config: "renewing" (OAuth2, Kubernetes) or "exchanging"
          client,     \* "new", "key", "create" while initializing, "ready", "dropped"
          key,        \* Vault: the transit signing key exists
          op,         \* an operation: "idle", "sent", "stale" (its token was replaced), "denied"
          opAge,      \* time since it fetched its token
          excused     \* history: a renewal failed, was rejected or capped since then

clientVars == <<provider, client, key, op, opAge, excused>>
vars == <<renewalVars, exchangeVars, clientVars>>

\* Type invariant.
TypeOK ==
    /\ RenewalTypeOK /\ ExchangeTypeOK
    /\ provider \in {"renewing", "exchanging"}
    /\ client \in {"new", "key", "create", "ready", "dropped"}
    /\ key \in BOOLEAN /\ op \in {"idle", "sent", "stale", "denied"}
    /\ opAge \in 0..Latency /\ excused \in BOOLEAN

Init ==
    /\ RenewalInit /\ ExchangeInit
    /\ provider \in {"renewing", "exchanging"}
    /\ provider = "exchanging" => trigger = "time"
    /\ client = "new" /\ key \in BOOLEAN
    /\ op = "idle" /\ opAge = 0 /\ excused = FALSE

Renewing == provider = "renewing"

\* The provider is dropped, and with its TaskHandle the loop is aborted.
Discard ==
    /\ loop' = "none" /\ sleep' = 0 /\ age' = 0 /\ events' = <<>>
    /\ state' = [lease_duration |-> 0, last_error |-> FALSE, consecutive_failures |-> 0]
    /\ ttl' = 0 /\ file' = [ttl |-> IF file.read THEN ttl ELSE file.ttl, read |-> FALSE]
    /\ capped' = FALSE
    /\ UNCHANGED trigger

-----------------------------------------------------------------------------
(* initialize *)

\* RenewingTokenProvider::new: the first login, then the loop is spawned.
StartRenewing ==
    /\ Renewing /\ client = "new" /\ client' = "key"
    /\ authenticate /\ loop' = "check"
    /\ UNCHANGED <<trigger, sleep, age, events, faults, noise, exchangeVars>>
    /\ UNCHANGED <<provider, key, op, opAge, excused>>

\* The login fails, or the trigger cannot be built.
StartFails ==
    /\ Renewing /\ client = "new" /\ Fault
    /\ UNCHANGED <<trigger, loop, sleep, age, events, state, ttl, file, capped, noise>>
    /\ UNCHANGED <<exchangeVars, clientVars>>

\* ExchangingTokenProvider::new: nothing is requested yet.
StartExchanging ==
    /\ ~Renewing /\ client = "new" /\ client' = "ready"
    /\ UNCHANGED <<renewalVars, exchangeVars, provider, key, op, opAge, excused>>

\* init_signing_key: the key is there, or 404.  Without a signing_key_name nothing is asked,
\* which leaves the client as finding the key does.
CheckSigningKey ==
    /\ client = "key" /\ ttl > 0
    /\ client' = IF key THEN "ready" ELSE "create"
    /\ UNCHANGED <<renewalVars, exchangeVars, provider, key, op, opAge, excused>>

\* create_signing_key: for Vault, creating a key that exists changes nothing.
CreateSigningKey ==
    /\ client = "create" /\ ttl > 0
    /\ client' = "ready" /\ key' = TRUE
    /\ UNCHANGED <<renewalVars, exchangeVars, provider, op, opAge, excused>>

\* Mutant: the loop of the failed attempt goes on.
SigningKeyFails_Leaks ==
    /\ client \in {"key", "create"} /\ client' = "new"
    /\ Fault
    /\ UNCHANGED <<trigger, loop, sleep, age, events, state, ttl, file, capped, noise>>
    /\ UNCHANGED <<exchangeVars, provider, key, op, opAge, excused>>

\* Either request fails, or Vault rejects the token: initialize returns the error.
SigningKeyFails ==
    /\ client \in {"key", "create"} /\ client' = "new"
    /\ IF ttl = 0 THEN UNCHANGED faults ELSE Fault
    /\ Discard
    /\ UNCHANGED <<noise, exchangeVars, provider, key, op, opAge, excused>>

\* External: another replica creates the key it shares with this one.
KeyCreated ==
    /\ ~key /\ key' = TRUE
    /\ UNCHANGED <<renewalVars, exchangeVars, provider, client, op, opAge, excused>>

Drop ==
    /\ client \in {"new", "ready"} /\ client' = "dropped"
    /\ Discard
    /\ op' = "idle" /\ opAge' = 0 /\ excused' = FALSE
    /\ call' = [c \in Callers |-> "idle"]
    /\ UNCHANGED <<ctx, cache, health, waited, xfaults, faults, noise, provider, key>>

-----------------------------------------------------------------------------
(* Operations *)

\* resolve_secret, store_secret, remove_secret, get_key_metadata and sign_content: the
\* token is fetched first; an uninitialized client has none.
SendRequest ==
    /\ Renewing /\ client = "ready" /\ op \in {"idle", "denied"}
    /\ op' = "sent" /\ opAge' = 0
    /\ excused' = Troubled
    /\ UNCHANGED <<renewalVars, exchangeVars, provider, client, key>>

\* Vault looks at the token of the request.
Answered ==
    /\ op \in {"sent", "stale"}
    /\ op' = IF op = "stale" \/ ttl = 0 THEN "denied" ELSE "idle"
    /\ opAge' = 0 /\ excused' = (excused /\ op' = "denied")
    /\ UNCHANGED <<renewalVars, exchangeVars, provider, client, key>>

\* A step of the renewal loop or the sidecar, seen by the operation.
Observe(replaced) ==
    /\ op' = IF op = "sent" /\ replaced THEN "stale" ELSE op
    /\ excused' = IF op \in {"sent", "stale"}
                  THEN excused \/ Troubled' ELSE excused
    /\ UNCHANGED <<exchangeVars, provider, client, key, opAge>>

Renewal ==
    \/ LoopCheck /\ Observe(FALSE)
    \/ TriggerFires /\ Observe(FALSE)
    \/ IgnoreEvent /\ Observe(FALSE)
    \/ TriggerFails /\ Observe(FALSE)
    \/ VaultRenews /\ Observe(FALSE)
    \/ RenewalSucceeds /\ Observe(FALSE)
    \/ RenewalRejected /\ Observe(FALSE)
    \/ LoginSucceeds /\ Observe(TRUE)

RenewalFaults ==
    \/ RenewalFails /\ Observe(FALSE)
    \/ LoginFails /\ Observe(FALSE)

Environment ==
    \/ Rotate /\ Observe(FALSE)
    \/ OtherEvent /\ Observe(FALSE)
    \/ WatchError /\ Observe(FALSE)

Caller(c) ==
    /\ client = "ready" /\ ~Renewing
    /\ CallerStep(c)
    /\ UNCHANGED <<renewalVars, clientVars>>

Tick ==
    \/ /\ Renewing /\ client # "dropped" /\ RenewalTick
       /\ op \in {"sent", "stale"} => opAge < Latency
       /\ opAge' = IF op \in {"sent", "stale"} THEN opAge + 1 ELSE opAge
       /\ UNCHANGED <<exchangeVars, provider, client, key, op, excused>>
    \/ /\ ~Renewing /\ client = "ready" /\ ExchangeTick
       /\ UNCHANGED <<renewalVars, clientVars>>

Next ==
    \/ StartRenewing \/ StartFails \/ StartExchanging
    \/ CheckSigningKey \/ CreateSigningKey \/ SigningKeyFails \/ KeyCreated \/ Drop
    \/ SendRequest \/ Answered
    \/ Renewal \/ RenewalFaults \/ Environment
    \/ \E c \in Callers : Caller(c)
    \/ Tick

\* The loop is a task of its own, requests end by answer or timeout, the sidecar keeps
\* rotating its token; tokio's RwLock serves waiters in order, and callers keep calling.
Fairness ==
    /\ WF_vars(Renewal) /\ WF_vars(Tick) /\ WF_vars(Answered)
    /\ WF_vars(Rotate /\ Observe(FALSE))
    /\ \A c \in Callers :
          /\ WF_vars(FastPath(c) /\ client = "ready" /\ UNCHANGED <<renewalVars, clientVars>>)
          /\ SF_vars(LockForExchange(c) /\ UNCHANGED <<renewalVars, clientVars>>)
          /\ WF_vars(ExchangeSucceeds(c) /\ UNCHANGED <<renewalVars, clientVars>>)
          /\ WF_vars((record_success(c) \/ record_error(c)) /\ UNCHANGED <<renewalVars, clientVars>>)

Spec == Init /\ [][Next]_vars /\ Fairness

-----------------------------------------------------------------------------
(* Properties *)

\* While the timer's renewals succeed and Vault grants what they ask for, no operation is
\* rejected for its token, however its request races with the expiry, a renewal or a
\* login; calculate_renewal_interval is early enough for every lease.
OperationsAuthorized ==
    op = "denied" /\ trigger = "time" => excused

\* A renewal loop exists only for a client that has, or is getting, its provider: neither a
\* failed initialize nor Drop leaves one behind.  One that has given up has left its error
\* in the state, and with the timer the client is unhealthy.
RenewalLoopOwned ==
    /\ loop # "none" => client \in {"key", "create", "ready"}
    /\ loop = "stopped" => state.last_error /\ (trigger = "time" => ~is_healthy)

\* No exchange is made for a context that has a fresh token: callers that missed the
\* cache together share one exchange.
Coalesced ==
    [][\A c \in Callers : call[c] # "exchange" /\ call'[c] = "exchange"
                              => ~Fresh(ctx[c])]_vars

\* The token in memory becomes usable again after every outage, unless the loop has given
\* up: a failed renewal, a rejected token, a capped lease or a dropped file event is
\* made good.
TokenRecovers ==
    []<>(ttl > 0 \/ loop \in Unstarted)

\* Once exchanges stop failing the health record is clean, although callers record their
\* outcomes late and out of order; and every call ends.
HealthRecovers ==
    /\ <>[](health.consecutive_failures = 0 \/ client = "dropped")
    /\ \A c \in Callers : call[c] # "idle" ~> call[c] = "idle"

=============================================================================
