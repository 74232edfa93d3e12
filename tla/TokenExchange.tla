--------------------------- MODULE TokenExchange ---------------------------
(***************************************************************************)
(* ExchangingTokenProvider (facet-hashicorp-vault/src/provider.rs): one Vault  *)
(* token per participant context, exchanged on demand.  Callers read the cache  *)
(* under a read lock, exchange under the write lock, and record the outcome in   *)
(* the health record after they have given the lock back.                      *)
(***************************************************************************)
EXTENDS Naturals, FiniteSetsExt

CONSTANTS Callers, Contexts,
          XLeases,              \* lease durations of jwt_login
          percentage,           \* renewal_percentage, in percent
          threshold,            \* health_threshold
          XLatency,             \* bound: the request timeout
          MaxXFaults            \* bound: failed exchanges

VARIABLES call,       \* call[c]: where caller c is in token_for
          ctx,        \* ctx[c]: its participant context
          cache,      \* cache[x]: life left in Vault, and until expires_at
          health,     \* ProviderHealth: consecutive_failures and last_error
          waited,     \* time since the holder of the write lock began its exchange
          xfaults

exchangeVars == <<call, ctx, cache, health, waited, xfaults>>

compute_expiry(lease) == Max({(lease * percentage) \div 100, 1})

\* The refresh comes early enough for the request of a caller who gets the token last.
\* Finitely many tasks call at a time, and a lease is a u64, so there is a longest one.
ASSUME ExchangeAssumption ==
    /\ IsFiniteSet(Callers) /\ Contexts # {} /\ percentage \in Nat
    /\ XLatency \in Nat \ {0} /\ threshold \in Nat \ {0} /\ MaxXFaults \in Nat
    /\ \E m \in XLeases : \A l \in XLeases : l <= m
    /\ \A l \in XLeases : l \in Nat /\ compute_expiry(l) + 2 * XLatency <= l

\* Type invariant of the exchange.
ExchangeTypeOK ==
    /\ call \in [Callers -> {"idle", "slow", "exchange", "succeeded", "failed"}]
    /\ ctx \in [Callers -> Contexts]
    /\ cache \in [Contexts -> [ttl : 0..Max(XLeases), fresh : 0..Max(XLeases)]]
    /\ health \in [consecutive_failures : 0..MaxXFaults, last_error : BOOLEAN]
    /\ waited \in 0..(2 * XLatency) /\ xfaults \in 0..MaxXFaults

ExchangeInit ==
    /\ call = [c \in Callers |-> "idle"] /\ ctx = [c \in Callers |-> CHOOSE x \in Contexts : TRUE]
    /\ cache = [x \in Contexts |-> [ttl |-> 0, fresh |-> 0]]
    /\ health = [consecutive_failures |-> 0, last_error |-> FALSE]
    /\ waited = 0 /\ xfaults = 0

Exchanging == {c \in Callers : call[c] = "exchange"}
Fresh(x) == cache[x].fresh > 0

exchange_is_healthy == health.consecutive_failures < threshold

\* The fast path under the read lock: a fresh token, or on to the slow path.
FastPath(c) ==
    /\ call[c] = "idle" /\ Exchanging = {}
    /\ \E x \in Contexts :
          IF Fresh(x) THEN UNCHANGED <<ctx, call>>
          ELSE ctx' = [ctx EXCEPT ![c] = x] /\ call' = [call EXCEPT ![c] = "slow"]
    /\ UNCHANGED <<cache, health, waited, xfaults>>

\* Mutant: no second look at the cache.
LockForExchange_NoSecondLook(c) ==
    /\ call[c] = "slow" /\ Exchanging = {}
    /\ call' = [call EXCEPT ![c] = "exchange"] /\ waited' = 0
    /\ UNCHANGED <<ctx, cache, health, xfaults>>

\* The write lock: the cache may have been filled while the caller waited for it.
LockForExchange(c) ==
    /\ call[c] = "slow" /\ Exchanging = {}
    /\ IF Fresh(ctx[c])
       THEN call' = [call EXCEPT ![c] = "idle"] /\ UNCHANGED waited
       ELSE call' = [call EXCEPT ![c] = "exchange"] /\ waited' = 0
    /\ UNCHANGED <<ctx, cache, health, xfaults>>

\* The subject token is exchanged, the login answers up to XLatency after Vault has
\* created the token; the entry is written and the lock dropped.
ExchangeSucceeds(c) ==
    /\ call[c] = "exchange"
    /\ \E lease \in XLeases, delay \in 0..XLatency :
          cache' = [cache EXCEPT ![ctx[c]] =
                       [ttl |-> lease - delay, fresh |-> compute_expiry(lease)]]
    /\ call' = [call EXCEPT ![c] = "succeeded"]
    /\ UNCHANGED <<ctx, health, waited, xfaults>>

\* No subject token, or the exchange or the login fails: the lock is dropped.
ExchangeFails(c) ==
    /\ call[c] = "exchange" /\ xfaults < MaxXFaults /\ xfaults' = xfaults + 1
    /\ call' = [call EXCEPT ![c] = "failed"]
    /\ UNCHANGED <<ctx, cache, health, waited>>

\* Mutant: a success forgets the error but not the count.
record_success_KeepsCount(c) ==
    /\ call[c] = "succeeded" /\ call' = [call EXCEPT ![c] = "idle"]
    /\ health' = [health EXCEPT !.last_error = FALSE]
    /\ UNCHANGED <<ctx, cache, waited, xfaults>>

record_success(c) ==
    /\ call[c] = "succeeded" /\ call' = [call EXCEPT ![c] = "idle"]
    /\ health' = [consecutive_failures |-> 0, last_error |-> FALSE]
    /\ UNCHANGED <<ctx, cache, waited, xfaults>>

record_error(c) ==
    /\ call[c] = "failed" /\ call' = [call EXCEPT ![c] = "idle"]
    /\ health' = [consecutive_failures |-> health.consecutive_failures + 1, last_error |-> TRUE]
    /\ UNCHANGED <<ctx, cache, waited, xfaults>>

\* What caller c does next without waiting for an answer.
Continue(c) == LockForExchange(c) \/ record_success(c) \/ record_error(c)

CallerStep(c) == FastPath(c) \/ Continue(c) \/ ExchangeSucceeds(c) \/ ExchangeFails(c)

\* One second.
ExchangeTick ==
    /\ Exchanging # {} => waited < 2 * XLatency
    /\ cache' = [x \in Contexts |-> [ttl   |-> IF cache[x].ttl = 0 THEN 0 ELSE cache[x].ttl - 1,
                                     fresh |-> IF cache[x].fresh = 0 THEN 0 ELSE cache[x].fresh - 1]]
    /\ waited' = IF Exchanging # {} THEN waited + 1 ELSE 0
    /\ UNCHANGED <<call, ctx, health, xfaults>>

=============================================================================
