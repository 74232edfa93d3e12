# TLA+ models of Facet-RS and Siglet

This directory holds TLA+ specifications of the parts of Facet-RS (`crates/`) and of
Siglet (`siglet/`) whose correctness depends on the order of events: locks with leases,
rotating refresh tokens, caches and retries. TLC checks them on small instances, and
TLAPS proves the main invariants for every value of the constants. `PROJECT.json`
lists components, runs, mutants, the map from definitions to source lines, hazards and
theorems. Paths below are relative to the repository.

## 1. The system

Two parties exchange data through *flows*. The **provider** issues a token pair when a
flow starts: a signed access token that expires, and a refresh token. The **consumer**
caches the pair, hands the access token to its application, and renews it at the
provider's refresh endpoint when it is about to expire. Several replicas of each
side share a database (Postgres) and a secret store (HashiCorp Vault).

| Part | State | Operations | Behaviour that is hard to test | What makes it correct |
|---|---|---|---|---|
| `LockManager`, `LockGuard` (`facet-core/lock/mod.rs`) | guards in scope, spawned unlock tasks | `lock`, drop, `release_locks`, `lock_count` | drop only spawns the unlock, which runs late or never | one owner per identifier while the lease runs |
| `MemoryLockManager` (`lock/mem.rs`) | map identifier → owner, count, time | as above, under one mutex | expiry against late unlocks | the same; counts match guards; nothing held for ever |
| `PostgresLockManager` (`facet-postgres/lock.rs`) | table `distributed_locks` | a transaction of cleanup, upsert, select; retries | interleaved transactions, waits, deadlock, clock skew, lost acknowledgements, crashes | a live guard has its row; leases are honoured; calls return |
| `RenewableTokenStore` and its memory and Postgres implementations (`token/manager/`, `facet-postgres/renewable_token_store.rs`) | entry per refresh token, found by hash, id, flow | `save`, `update`, `remove_by_flow_id`, finds | three indices that must agree | removal by flow leaves nothing; update replaces exactly one entry |
| `JwtTokenManager` (`token/manager/mod.rs`) | the store | `generate_pair`, `renew`, `revoke_token`, `validate_token` | renewals and revocations racing between the find and the update | a refresh token is spent once; revocation is final |
| `TokenClientApi` (`token/client/mod.rs`) | the store, the lock | `get_token`, `save_token`, `delete_token` | double-checked locking over remote calls, an owner all callers share | what is served from the cache is current; the renewable pair is never lost |
| `TokenStore`: memory, Vault (`token/client/{mem,vault}.rs`) | token per flow | get, save, update, remove, clean-up by age | Vault's update is a read and a write | what was removed stays removed |
| `OAuth2TokenClient` (`token/client/oauth.rs`), refresh endpoint (`siglet/handler/refresh`) | none | one HTTP request | lost requests and answers, timeouts | – |
| `SigletDataFlowHandler` (`siglet/handler/signaling`) | none of its own; writes both stores | `on_start`, `on_started`, `on_prepare`, `on_suspend`, `on_terminate` | partial failure of the clean-up, events crossing requests | tokens are revoked and removed when a flow ends |
| Token API handler (`siglet/handler/token`) | none | get, delete, verify, keys | chooses the lock's owner | – |
| Transfer types, signing key mappings, management API (`siglet/transfer_type`, `facet-core/jwt/mapping.rs`, `facet-postgres/signing_key_mapping.rs`, `siglet/handler/management`) | mapping tables | CRUD, resolution with fallback | mapping changes between events of one flow | an authoritative store hides the fallback entirely |
| Claim mapper (`siglet/claim_mapper`) | none | CEL evaluation, projection | – | merge order |
| Vault client, providers, renewal (`facet-hashicorp-vault`) | token, lease, failure count, file events | login, renew, exchange, file trigger, shutdown | renewal against expiry, backoff, dropped events, cache races | a usable token is kept; health reflects failures |
| JWT, key resolver (`facet-core/jwt`) | cached public keys, refresh task | sign, verify, resolve, rotate | rotation between reading a version and using it | a key that signed can be resolved |
| Request authentication (`siglet/server/auth`) | JWKS cache with TTL | fetch, forced refresh, authorize | answers stored out of order | a rotated key is found, a retired one is forgotten; only the entitled get through |
| Server life cycle (`siglet/server`, `siglet/main.rs`) | JoinSet, cancellation token | start, fail, stop | one of four servers ending | fail fast |
| Authorization rules (`facet-core/auth`, `facet-postgres/auth.rs`) | rules per participant and audience | save, remove, evaluate | two implementations of one contract | same answers |
| S3 proxy (`facet-proxy/s3`) | context per request | parse, authorize, rewrite, retry | rules that change under a request; parsing in one callback, rewriting in another | what is forwarded is what was addressed and allowed |
| Configuration and assembly (`siglet/config`, `siglet/assembly`) | none after the start | validate, assemble | conditions stated twice, in validate and where they are needed | what validate accepts can start |
| Utilities, test containers | – | – | – | – |

Interaction: `SigletDataFlowHandler` calls `JwtTokenManager` (provider role) and
`TokenStore` (consumer role). The token API calls `TokenClientApi`, which takes a
`LockManager` lock, reads and writes the `TokenStore` and calls the provider's refresh
endpoint, which calls `JwtTokenManager::renew`. The Vault store and all signing go through
`HashicorpVaultClient`, whose token the renewal loop keeps alive.

## 2. Modules

    ExclusiveLock              contract of trait LockManager (abstract)
    MemoryLockManager          refines ExclusiveLock;  proofs in MemoryLockManagerProofs
    PostgresLockManager        lock() statement by statement;
                               proofs in PostgresLockManagerProofs
    TokenPairs                 values shared by the token modules
    RenewableTokenStore        contract of the trait = the Postgres store (abstract)
    MemoryRenewableTokenStore  refines RenewableTokenStore
    TokenManager               EXTENDS RenewableTokenStore
    AssembledTokenManager      EXTENDS TokenManager, INSTANCE MemoryRenewableTokenStore:
                               the manager over the store the assembly chose (`backing`)
    TokenRefresh               EXTENDS TokenManager: consumer, network and provider;
                               proofs about these four in TokenRefreshProofs
    FlowHandler                signaling handler, mappings, management API, claim mapper;
                               proofs in SigletProofs
    VaultRenewal, TokenExchange   the two token providers of the Vault client
    VaultClient                EXTENDS both: initialize, operations, health, drop;
                               proofs in VaultClientProofs
    SigningKeys                generator, key resolvers, verifier, key mappings;
                               proofs in SigningKeysProofs
    SigletConfig               the settings and the rules of validate
    RequestAuth                EXTENDS SigletConfig: middleware and JWKS cache;
                               proofs in RequestAuthProofs
    SigletServer               EXTENDS SigletConfig: assembly, servers, shutdown;
                               proofs in SigletProofs
    AuthorizationRules         the two rule stores
    S3Proxy                    EXTENDS AuthorizationRules: parser and callbacks;
                               proofs in S3ProxyProofs
    MC*                        instances for TLC (symmetry sets, function constants)

Operators named `X_Something` preceded by a comment `Mutant:` are plausible mistakes in `X`;
no specification uses them. `PROJECT.json` says which property each of them breaks when it
takes the place of `X`: they show that the property depends on that code.

Modules have a type invariant that says what their variables hold. The runs check
the one of `MemoryLockManager`; the others are there for the reader and for proofs
(those of `MemoryRenewableTokenStore`, `TokenManager`, `TokenRefresh`, `PostgresLockManager`,
`RequestAuth` and `S3Proxy` are proved)
and can be added to a configuration.

### MemoryLockManager

One mutex serialises the operations, so each is one action; `lock()` is split by what it
finds (`LockReentrant`, `LockFree`, `LockExpired`; a refused call changes nothing). The
record's `acquired_at` is kept as an age capped one above the timeout. Guards are counted
per identifier and owner and by fate: in scope (`live`), dropped with the unlock task pending
(`unlocking`), dropped outside a runtime (`leaked`), and the first two again for guards whose
record was removed under them (`stale`, `staleUnlocking`). The code has no such distinction,
`unlock()` matches by owner only, and that is what the properties are about.

Two kinds of callers: `Spec` allows everything; `DrainedSpec` is for callers that let a lost
guard finish (scope left, unlock task run) before its owner locks the identifier again.

### PostgresLockManager

A call of `lock()` goes through the phases cleanup, upsert, commit or select; any other
task's step may come between. Postgres is external: READ COMMITTED visibility, row locks
held to the end of the transaction, waiting, deadlock victims. `CleanupRow` deletes one
row at a time because `DELETE` locks rows one by one, in no fixed order. A call's `lag` is the
real time minus the `now` it read, negative when its replica's clock is ahead. `unlock()`
is one action: its `UPDATE` takes the row lock and its `DELETE` touches only that row.
`CommitAckLost` is a commit that takes effect while the caller gets an error; `GuardVanishes`
a replica that dies with a guard.

### RenewableTokenStore, MemoryRenewableTokenStore, TokenManager, AssembledTokenManager

The id, the hash of the refresh token and the access token of an entry are drawn together at
random and never repeat, so one value, a *pair*, stands for them. The contract is the
Postgres store: one SQL statement per operation. The memory store keeps three maps; the
refinement mapping takes `rows` to be `entries_by_id`.

`renew()` is two actions, `RenewFind` and `RenewUpdate`, since verification and signing are
remote calls between them. `root`, `origin`, `renewed` and `revoked` are history variables for
the properties. `AssembledTokenManager` lets every call of the manager also be an operation on
the maps when `store = "memory"`: `rows` is then what the contract promises, and `StoresAgree`
compares it with what the maps answer. As in the data plane SDK, a flow is started again only
after it was suspended or terminated.

### TokenRefresh

`get_token` is followed step by step: first read, `AcquireLock`, second read, request,
answer, update (for Vault a read and a write), return, release of the guard. `save_token` and
`delete_token` take the same lock. Requests and answers travel in `chan`; they can be lost and
a caller can give up while its request is being served. The lock is used through its
contract, with one addition: a lease can end under a slow caller (`LeaseEnds`, remembered in
`disturbed`). The provider's `UPDATE` can take effect while its answer is lost, so that `renew()`
reports an error with the pair replaced (`ProviderAckLost`). `mishap` records flows of which the
consumer may have lost the current pair: such a lost answer, a refresh given up, a crash, a failed
store operation, a deletion. The memory store's
`remove_tokens_accessed_before` removes by `last_accessed`, without the lock.

`owner` is the owner string a call passes to `lock()`, chosen initially: the token API
handler passes the identifier itself, so that all calls have the same owner; a caller of
`TokenClientApi` may also use an owner of its own, for which the lock does what it is there
for. `store` says which of the two stores the assembly configured. A data endpoint travels
with a token and is left out.

### FlowHandler

`Planes` are the provider's and the consumer's Siglet of the same flows. Per plane and flow there
is the SDK's `state`, the `event` under way and the consumer's `cached` token; `rows` are the
tokens issued and not revoked on either plane, `delivered` those handed out, `unknown` those whose
`INSERT` was done while its answer was lost. `handle_flow` reads the transfer type, resolves the
endpoint and evaluates the claims before it generates a token (`Issue`, `FlowFails`);
`cleanup_tokens` is two steps (`RevokeTokens`, `RemoveCached`) each of which can fail with its
effect done or not. With the Vault store, the save of `on_started` can take effect while the event
fails (`StartedAckLost`), and a refresh that the token API causes reads the record and writes it
back later (`RefreshReads`, `RefreshWrites`); `astray` are the flows whose record is there for one
of these reasons. `CreateMapping`, `UpdateMapping`, `DeleteMapping` are the management API with
`validate_transfer_types`; `ResolveTransferType` asks the stored mappings and, if there are none,
the configured ones. Claims are a function from names to values; `MergeOne` folds the endpoint's
mappings over the root ones, as `merge_claim_mappings` does. What a CEL expression yields is a
parameter (`Evaluate`: a value, nothing, or one of the errors, among them a value that has no JSON
form, which aborts an optional mapping too). The data plane SDK is external: it handles one event
per flow at a time, and a failed event may come again.

### VaultRenewal, TokenExchange, VaultClient

`VaultRenewal` is `TokenRenewer`: `loop` says where the task is, `state` is the shared token
state, `ttl` what Vault still grants the token in memory, `sleep` the timer, `events` the channel.
A timer trigger (OAuth2 login) or a watch on the file a sidecar rotates (Kubernetes) wakes the
loop; the file's events pass a bounded channel whose sender drops (`try_send`). A rejected renewal
leads to a login or to reading the file (Vault may say "permission denied" of a token that is
alive, which counts as a fault); failures count up to the maximum and stop the loop. Times are
numbers of ticks: lease, percentage, jitter and back-off are computed as the code does.

`TokenExchange` is the exchanging provider: callers look into the cache under the read lock,
look again under the write lock, exchange, store, and write the health record afterwards.
`VaultClient` composes them: `initialize` with its check of the signing key (Siglet always names
one; without a name the code skips the check), an operation whose token may
expire on the way, `is_healthy`, `Drop`. One of the providers is chosen initially.

### SigningKeys

Vault's transit key has the versions up to `latest`, of which the `retired` oldest are no longer
listed. A signer reads the version, then asks for a signature (`ReadVersion`, `SignContent`); the
cache (`public_keys`, by version; an answer lists keys by position, as `KeyMetadata` does) is
loaded by the refresh loop and by verifiers that miss a key, each a fetch and a later store.
`Sorted` is the order `get_key_metadata` gives the versions, which come as strings.
`MappingTransitKeyResolver` and `did:web` are the second half: a proof gets the kid of the mapping
read once and is signed with the latest version of its key (`Current`), while the operator changes
mappings and rotates mapped keys (`RotateMappedKey`); it is resolved against the DID document. A
`careful` operator keeps the three in step: maps a kid only if the document has what signs under
it, and rotates a key only when no mapping names it. The code asks this of the operator and checks
none of it.

### SigletConfig, RequestAuth, SigletServer

`SigletConfig` states `validate` rule by rule on the settings that matter after it: ports,
secret, authentication modes, audiences and scopes. `RequestAuth` takes a configuration that is valid,
builds the layers as the server does and follows requests through `verify_jwt`: read cache,
fetch if old, look up the kid, fetch once more if missing, verify, check scope and subject. Tokens
are validly signed and in force: what `decode` says of signature, algorithm, `exp` and `nbf` is the
library's and only refuses more. The identity provider publishes its newest key and the one before.

`SigletServer` is the process: load, validate, assemble step by step (each step can fail),
spawn four servers, then serve. The four `run_*_api` functions differ in their routers only and
are one set of actions. A server binds, serves, learns of the cancellation some time after it
(`StopListening`, until when it still accepts), drains or fails; `FailFast` is the
`join_next` that sees a failure, cancels the token and returns an error; `ShutDown` the signal.

### AuthorizationRules, S3Proxy

The memory store keeps vectors of rules per participant, the Postgres store one row per
participant, scope and resource, and overwrites it. They differ, so there are two bounds:
`surely` are the rules no implementation may ignore, `maybe` those no implementation may go beyond. A
request goes through `upstream_peer` (parse, choose the peer) and `upstream_request_filter`
(verify the token, evaluate, rewrite, sign); pingora may run both again. Paths are sequences
of their parts between slashes, so that slashes, empty keys and addressing styles are
treated as the code treats them; `parse_operation` is the table of `opparser.rs`. What `Url::parse`
makes of a path and what a regular expression matches are parameters (`url_path`, `is_match`), so
the theorems hold for any; the run takes a path with a dot segment and a rule whose unescaped dot
matches another character. Evaluation and forwarding are one step: the rules that count are
those at the time of the query.

## 3. Runs

| Run | States | Checks | Shows |
|---|---|---|---|
| `mem_lock_drained` | 33 k | `ExclusiveAccess`, `GuardsBackRecord`, `ImplementsExclusiveLock` | with drained callers the memory lock keeps owners apart and is an `ExclusiveLock` |
| `mem_lock_any` | 17 k | `TypeOK`, `NoOrphanedLevel`, `FreeUnlessRenewed` | for any caller, no level outlives its guards and no lock is held for ever |
| `pg_lock_drained` | 202 k | `GuardsBacked`, `LeaseHonoured` | interleaved transactions never leave a live guard without its row; a lease lasts |
| `pg_lock_calls` | 228 k | `CallsReturn` | every `lock()` returns, despite waits and deadlocks |
| `token_manager` | 7.9 k | `SingleUse`, `RevocationIsFinal`, `StoresAgree` | racing renewals and revocations over either store; the maps answer as the contract says |
| `refresh` | 1.5 M | `CachedTokenCurrent`, `RenewablePairKept`, `MemoryCleanupIsFinal`, `NoUselessRefresh` | consumer and provider, either token store, crashes, lost messages and answers, a flow started twice, own and shared owners |
| `flow_handler` | 329 k | `NoOrphanedToken`, `BackstopNeverFires`, `ClaimsAsConfigured`, `EndedLeavesNothing`, `FlowsTerminate` | events of both planes while mappings change and stores fail |
| `vault_client` | 190 k | `OperationsAuthorized`, `RenewalLoopOwned`, `Coalesced`, `TokenRecovers`, `HealthRecovers` | timer and file trigger, exchanges, faults of Vault and of the watcher, health |
| `signing_keys` | 870 k | `VerdictIsRight`, `ProofVerifies`, `KeysPublished` | rotation, of mapped keys too, between any two steps of signing, loading and verifying |
| `request_auth` | 840 k | `NoFalseUnknownKid`, `AcceptedIsEntitled`, `RetiredKeyExpires`, `RequestsAnswered` | every layer of a valid configuration, overlapping JWKS fetches, rotation |
| `siglet_server` | 106 k | `ShutdownIsGraceful`, `ValidConfigStarts`, `ServerStops` | from the configuration to the end of the process |
| `s3_proxy` | 586 k | `ForwardedAsAddressed`, `ForwardedUnderRule`, `RulesHonoured` | requests, retries and rule changes interleaved, over either rule store |

**Bounds.** Memory lock: two owners contend for two identifiers (so that `release_locks` concerns
several) with up to two guards each; three guards on one identifier in `mem_lock_any`, so that a
live level, a stale guard and a pending unlock coexist. Timeouts of 1 and 2 ticks separate *as
old as the timeout* from *older*. Postgres: three tasks on one row (a holder, a caller and a
third between two statements of the caller) for safety; two tasks on two rows for
`CallsReturn`, the smallest wait cycle. `Timeout = 2 = MaxStall + MaxSkew` lets a lease end both
early and on time. The configured limit of retries is 1, so that giving up and retrying both
happen. `MaxLevels` bounds re-entrance. Token manager: five pairs over two flows and two
requests: two racing renewals of one entry, a renewal of the result, a revocation and a new start.
Refresh: two calls, three pairs (two starts and a refresh of the first, or two refreshes),
time up to 2 with a life time of 1, so that tokens expire, are refreshed, and expire again.

Flow handler: one flow on both planes, two tokens (a start and a restart), one fault, both
backends, mappings with and without endpoint mappings that tie on a claim. Vault client: leases of
6 and 8 ticks, renewal at 40 % ± 40 %, two failures to give up, a channel of one event, two faults
and one spurious event; two callers and two contexts for the exchanges, leases of 3 and 4, so that
a token is fresh, stale and expired. Signing keys: one signer, two verifiers (one loads while the
other has missed), versions 8 to 10, so that two rotations lead from one digit to two, one version
retired, one fault; a participant, two mapped keys with up to two versions, three mappings.
Request authentication: two requests, so that one fetch can overtake another, two rotations (a kid
is published, previous, gone), one fault. Server: two requests, two failures, so that a server can
fail while another drains. S3 proxy: one request (requests share nothing but the rules), two
participants, four rule changes, one retry, both addressing styles on both sides.

Deadlock is not checked where pairs, tokens, time or rule changes run out or the process ends.

**Fairness.** `MemoryLockManager!Fairness`: the clock advances and a spawned unlock task is
eventually run by the runtime; callers owe nothing. `PostgresLockManager!Fairness`: strong
fairness of the statements of a call, because Postgres queues the waiters of a row lock and does
not pass one over for ever, and weak fairness of `DeadlockVictim`, its deadlock detector. Locks
held by guards need no fairness: `lock()` does not wait for them. `FlowHandler`: an event under
way goes on, and a control plane that wants a flow terminated repeats a failed terminate; the
faults of the stores are finitely many. `VaultClient`: the runtime polls the loop, the clock
ticks, Vault answers or times out, a sidecar goes on rotating the file (its purpose), a caller
waiting for the write lock gets it (tokio's `RwLock` is fair, hence strong fairness).
`SigningKeys`: the refresh loop keeps ticking (`RefreshFetch` or `RefreshStore`). `RequestAuth`:
fetches and handlers proceed (the HTTP client has a timeout). `SigletServer`: tasks are scheduled,
also to learn of the cancellation, and handlers answer; signals and failures are not fair.
`TokenRefresh`, `TokenManager` and `S3Proxy` state safety only.

## 4. Observations

Where the code does something a reader may not expect, the property states the exception, or
there is no property. Paths are relative to `src/`.

1. `lock/mem.rs:103` – the unlock task of a guard whose lease ran out releases the lock that the same
   owner took afterwards; `ExclusiveAccess` needs drained callers.
2. `siglet/handler/token/mod.rs:81` – the handler locks with owner = flow id. Locks are
   re-entrant per owner, so every caller on every replica gets in, and the same token can be
   refreshed by several at the same time (docs/siglet.md:1246 says "only one replica performs a
   token refresh at a time per flow ID"). There is no property that refreshes exclude each other;
   `CachedTokenCurrent` and `RenewablePairKept` hold all the same, `NoUselessRefresh` excepts it.
3. `token/client/mod.rs:100` – `update_token` does not check what it replaces. A refresh under
   way while a flow is suspended and started again puts a pair of the revoked chain over the
   new one.
4. `token/manager/mod.rs:319` – `expires_at` (hence `expires_in`) comes from
   `renewal_token_duration`, the access token's `exp` from `token_duration`: the consumer
   may return expired access tokens instead of refreshing them.
5. `token/client/vault.rs:160` – the Vault store's update writes a record that was removed after
   it was read; `MemoryCleanupIsFinal` is about the other store. Likewise a save of `on_started`
   (`siglet/handler/signaling/mod.rs:415`) that took effect with its answer lost leaves a record at a
   flow that still counts as suspended; a terminate removes it. Both are the exception `astray`
   in `EndedLeavesNothing`.
6. `siglet/config/mod.rs:571` accepts a server secret of 16 bytes, `token/manager/mod.rs:39`
   requires 32: a secret between the two passes `validate` and stops the assembly.
7. `token/client/mem.rs:159` – with the memory stores, terminating a flow that was suspended
   fails each time, since there is nothing left to remove (exception in `FlowsTerminate`).
8. Where the transfer types of the two planes disagree on the token's source, a plane both
   issues and caches, and a cached token can stay (exception in `EndedLeavesNothing`).
9. `facet-core/vault/mod.rs:62-67` – keys are "indexed by (version - 1)", which stops being true
   once Vault no longer lists the first versions (`retired = 0` in `VerdictIsRight`).
10. `jwt/generator.rs:53` – after a rotation between reading the version and signing, the kid
    names the earlier version and the token does not verify. For a mapped key
    (`jwt/transit_key.rs:104`) the kid is fixed and the latest version signs
    (`facet-hashicorp-vault/client.rs:386`): rotating a key that a mapping names makes proofs fail
    until the mapping follows, and no order of rotating and mapping avoids that, except to map a key of
    another name first. Even then a proof whose mapping was read before fails when the old key is
    rotated before it is signed (`late` in `ProofVerifies`).
11. `siglet/server/auth/mod.rs` – the header says the signaling layer passes requests without a
    participant in the path and that `aud` is not validated; the server builds layers that
    require a token, and `verify_jwt` validates `aud`.
12. `siglet/server/mod.rs` – a server that fails while the others drain after a signal is only
    logged; the process still returns success.
13. `facet-proxy/s3` – what a rule allows is not always what is done. The rewritten URI has no query
    string: `GET ?acl`, allowed as GetObjectAcl, arrives as a plain GET. The rule is asked about the path
    that `Url::parse` makes of the request (`opparser.rs:135`: dot segments resolved), the path sent is
    the one that came (`s3/mod.rs:228`). With virtual-hosted addressing the resource of the rules is
    the path alone, without the bucket. Several leading slashes are dropped. A GET of a bucket without a
    parameter counts as GetObject. Resources of rules are regular expressions and `S3Resources` escapes
    nothing (`s3/mod.rs:88-94`): the dot in a file name matches any character. `ForwardedUnderRule`
    therefore speaks of the operation made of the request, and of what the upstream performs where
    a request is sent as it was written (`SentAsWritten`). The two rule stores
    differ: a second rule for a resource replaces the first in Postgres and is added in memory,
    and a removal with other actions removes in Postgres only.
14. `facet-hashicorp-vault/renewal.rs` – the lease in a renewal's answer is ignored; after one failure
    the next attempt comes after the token has expired; a watcher error ends the loop for good,
    while with the file trigger the client still counts as healthy. "permission denied" of a living
    token (`renewal.rs:204`) leads to a login as well.
15. `token/manager/mod.rs:388` – when the database replaces the entry and its answer is lost, `renew()`
    fails, the old refresh token is spent and the new one was told to nobody: the flow has to be
    started again (`mishap` in `RenewablePairKept`).
16. `token/manager/mem.rs:56` – a second `save` for a flow hides the first entry from the map by flow, so
    that revoking the flow leaves the first token valid. The data plane SDK starts a flow again only
    after a suspend, which is what the models assume.

## 5. Theorems

Proved with TLAPS for all values of the constants that satisfy the modules' `ASSUME`s. These say
what the types of the code say (bounds and ages are naturals, a configuration is enabled or
disabled, the mappings of a transfer type are lists, a secret has a length or is absent, a lease
is a `u64`, so there is a longest one, jitter is a part of the interval, there is a call to make),
that markers such as `NoOwner` are no values, that the store is one of the two kinds, and that the
tasks that exist together are finitely many. Two more say what the surroundings owe:
`RenewalAssumption`, that the operator's settings leave room for a renewal (each jittered
interval, and three request timeouts after it, fit into a lease), and `HttpAssumption`, that the
path of an HTTP request starts with a slash and its participant, if one is found in it, is known.

* **MemoryLockManagerProofs** – `TypeCorrect`, `GuardAccounting`, `Exclusive`, `Implementation`,
  `LevelsHaveGuards` (`NoOrphanedLevel`).
  `TypeOK` is not inductive: an unlock of a record with count 0 would go below 0. `RecordOK`
  (a record present counts at least one level) repairs it. For drained callers the inductive
  invariant is `DrainedInv`: `TypeOK`, `RecordOK`, `GuardsBackRecord` and `OwnerDrained`, which says
  that the owner of a record has no lost guards; without it an unlock of a lost guard would
  take a level that a live guard owns. `ExclusiveAccess` follows from `GuardsBackRecord`, and the
  refinement is shown action by action. `NoOrphanedLevel` is about all callers: the inductive
  `LevelsOwed` counts, per record, the guards of its owner in scope, dropped and leaked.
* **PostgresLockManagerProofs** – for all callers `PostgresTypeCorrect`, `RowsStayConsistent` and
  `LeasesLast` (`LeaseHonoured`); for drained callers `LiveGuardsBacked` (`GuardsBacked`).
  `RowInv` says of every version an open transaction has written that it deletes a row that is
  expired even for the clock that is furthest behind, or adds a level to the committed row
  (`Justified`). That stays true until the commit, because the row is locked: versions are
  disjoint, and the other writers, `unlock()` and `release_locks`, wait. With it a row of a guard
  is never older than the guard and a stall, so a guard that a commit takes away has had its
  lease. `DrainedInv` adds `NoMixture` (no owner has lost and live guards of a row together) and
  counts live guards per row and owner. A commit that replaces a row loses all its guards; one
  that does not has a level for the new guard.
* **TokenRefreshProofs, the memory store** – `StoreTypeCorrect`, `StoreIndicesSound` for any callers,
  `StoreRevocable` and `StoreImplementation` for one save per flow. The strengthening is
  `OnlyDrawn`: a pair not yet drawn has no entry, so that a new entry replaces none.
* **TokenRefreshProofs, the manager** – `ManagerTypeCorrect`, `RefreshTokenSingleUse`, `OneValidToken`,
  `RevokedForGood`. The inductive invariant adds `Undrawn` (an undrawn pair has
  no row and no history), `Rooted` (the ancestry of drawn pairs), `SpentIsGone` (a pair that was
  renewed has no row), `RenewalKnown` (what a `renew()` call read is a drawn pair and the flow
  it was issued for) and `FlowKept`. `SpentIsGone` is the heart: `update()` succeeds only if
  the row is still there, so nobody else spent or revoked it in between. For the assembled manager,
  `MemoryStoreAnswers` (`StoresAgree`) and `AssembledSafe`: the invariant is joined with `MapsMirrorRows`
  (the maps by hash and by id are the contract's rows and the map by flow is their inverse).
  `renew()` needs `RenewalKnown` and `FlowKept`, since the maps take the flow from the entry and
  the contract from the call.
* **TokenRefreshProofs, the refresh** – `RefreshTypeCorrect`, `CacheIsCurrent`
  (`CachedTokenCurrent`), `CleanupIsFinal` (`MemoryCleanupIsFinal`), `ConsumerKeepsPair`
  (`RenewablePairKept`) and `UsefulRequests` (`NoUselessRefresh`), over the invariant of the
  manager. The steps are first sorted into kinds by what they do to pairs and locks (`StepKinds`,
  `ManagerSteps`), and each part of the invariant is shown kind by kind. `Base` has the types and
  says that a pair in a call, a message or the store is drawn and of that flow, and that a message
  belongs to its request. `KeptWhileActive` gives `MemoryCleanupIsFinal`. For `RenewablePairKept`:
  a valid pair is the one end of its chain of renewals (`AliveUnlessRevoked`, `Accounted`), it is
  in one hand at most on its way to the store (`Unshared`, `OneSaving`), while a flow starts all
  its other pairs are revoked (`OnlyOffered`), and a renewal that succeeds although nobody waits
  for it any more is a mishap (`Abandoned`), as is one whose answer the provider lost.
  `CachedTokenCurrent` adds `FreshUnasked`: nobody asks for a renewal of a stored token that is
  not about to expire, so none can have replaced it; it needs no lock, hence holds for shared
  owners. `NoUselessRefresh` adds `LockTaken` (a call past `lock()` has its guard, and guards of a
  flow have one owner, while no lease ended), and that what is stored, and what is asked for under
  the lock, can be renewed (`StoredIsGood`, `AskedIsGood`).
* **SigletProofs, the handler** – `TokensHandedOut` (`NoOrphanedToken`) and `FlowsEndClean`
  (`EndedLeavesNothing`). The latter is about flows at rest and not inductive, since an event that
  begins on an ended flow can fail and leave it as it was: `GoneIsClean` says the same of ended
  flows with an event under way. `RemovalLate` (when `cleanup_tokens` has turned to the cache,
  there is no row) covers its second half, `NoOrphanedToken` the exception: whatever was revoked
  instead of the cached token had been issued. Where a record of a consumer's Vault outlives its
  flow otherwise, the flow is in `astray`, which only the Vault store fills (`OnlyVault`).
  `FlowTypeCorrect` is about `FlowTypeOK`, which needs `Numbered`: the tokens saved, answered or
  not, are numbered in the order of the saves, so no number comes twice.
* **SigletProofs, the claims** – `MergedMappingsAccepted` (`BackstopNeverFires`) and
  `TokensCarryConfiguredClaims` (`ClaimsAsConfigured`), for claim mappings of any length. Both are
  about what two loops compute, `merge_claim_mappings` and `map_claims`, which the model writes as
  folds. The induction is over the rounds and by least counterexample (`Induction`): the library's
  well-foundedness of `<` is about sets, so no operator has to be instantiated. `MergeRoundsExist`
  and `MapRoundsExist` show that the folds have a value for every set of rounds done,
  `MergeInRounds` and `MapInRounds` that it is built round by round, `MergeResult` that the merged
  list has each `to` once, with the endpoint's entry where there is one, and `MapResult` that a
  claim has the value of the one mapping for it, or the one it had before. The state part is
  `MappingInv`: what is stored was accepted by the management API, and an event that issues, and
  every row saved, has the claims of the one transfer type it read (the stored one may have
  changed since).
* **SigletProofs, the process** – `GracefulShutdown` (`ShutdownIsGraceful`). The strengthening is
  `OpenIsServed`: without a failure from outside, a request under way has a server that still
  serves or drains, so that a server that was joined has none. `ServerTypeCorrect` is about its
  types. `ValidConfigIsEnough` is the safety half of `ValidConfigStarts`: a configuration that
  `validate` accepts leads to no failed server and no error of `main`, unless something fails from
  outside or the secret is long enough for `validate` and too short for the token manager (16 to
  31 bytes). It rests on `ValidIsAccepted` (no step of the assembly refuses what was validated)
  and `ValidBinds` (validated ports differ, so every server binds).
* **SigningKeysProofs** – `VerdictsRight` (`VerdictIsRight`), under the condition that Vault lists
  all versions, and `ProofsVerify` (`ProofVerifies`). The invariant says that a key is cached
  under its own version, that an answer under way is a prefix of the versions, and that a verifier
  that has loaded finds its key: `extend` only adds, so an older answer stored later takes nothing
  away. That Vault's answer is that prefix is `SortedByNumber`: the order by number lists version
  i at position i. For proofs the invariant is `ProofInv`: under a careful operator the mappings,
  and what was read of them unless overtaken, are in step with the document and the version that
  signs. `KeysTypeCorrect` is about the types, and `PublishedKeysStay` is the safety half of
  `KeysPublished`: no step takes a key out of the JWK set, also when its version has been retired.
* **RequestAuthProofs** – `AuthTypeCorrect`, `UnknownIsUnpublished` (`NoFalseUnknownKid`),
  `HandlersGuarded` (`AcceptedIsEntitled`), `RetiredKeysExpire` (`RetiredKeyExpires`). A fetched
  set is only ever behind the identity provider: its request's kid is not newer than the set
  (`Behind`), so a kid that is missing is missing on the old side, for good. `AnswerFresh` and
  `CacheFresh` bound how long a key of a fetched or cached set has been gone by the age of the
  fetch and of the entry. `LayersSound` takes from `validate` that an enabled layer has a cache
  lifetime, and that its admin scope is not the required one.
* **VaultClientProofs** – `ClientInvariant`, `OperationsCarryLiveTokens` (`OperationsAuthorized`),
  `LoopsAreOwned` (`RenewalLoopOwned`) and `ExchangesCoalesce` (`Coalesced`). The heart of the
  invariant is `Margin`, what is left of the token in each phase of the loop after a renewal that
  went well: the lease less one `Latency` when the interval is computed, more than the sleep and
  two of them while the loop sleeps, more than two less the age of the request while it renews. So
  a token lives in every phase (`TokenLives`), and an operation that is denied was under way when
  something had gone wrong, which `OpsExcused` carries along. `ErrorsShow` (failures are counted
  only with an error, and a loop that ended has one, with the timer after
  `max_consecutive_failures`) and `LoopOwned` (a loop from the first login to the end of the
  client, and no longer) give `RenewalLoopOwned`. For the exchanging provider also
  `CachedTokensLive` and `FailuresCountedOnce`, over `ExchangeInv`: what is fresh in the cache
  lives a request timeout longer than it is fresh (`FreshIsLive`), and the failures in the health
  record and those still to be recorded are no more than there were (`FailuresCounted`).
  `ClientTypeCorrect` is about the types of client, loop and exchange. It needs `StillTrying` (a
  loop past its check has a failure to go before it gives up) and `SleepTyped` (the backoff has
  six values, and a jitter of at most the whole interval makes no sleep negative).
* **S3ProxyProofs** – `ProxyInvariant`, `ProxyTypeCorrect`, `AddressesKept`
  (`ForwardedAsAddressed`), `RulesRequired` (`ForwardedUnderRule`), `RulesKept` (`RulesHonoured`).
  `RulesBetween` says that what a store keeps lies between `surely` and `maybe`, each rule in the
  form in which the store gives it back. A rule without actions comes back from Postgres with the
  action `""`; `parse_operation` never yields that one, so it allows nothing more. `Right` says
  what a request's context, connection and upstream request are in each phase, computed from that
  request alone, so a retry finds nothing of the attempt before. `PerformedAsRequested` shows for
  a request sent as it was written that the upstream's operation is the one the rule was asked
  about; nothing is assumed of `url_path` and `is_match`. `UriReadBack` and its lemmas show that
  the upstream reads back from the built URI and host what was parsed, for all paths and both
  styles.

Each inductive invariant was checked by TLC, on the constants of its run, before it was proved.

Every invariant and every action property of the runs is stated by a theorem. Only model-checked
is liveness (`ValidConfigStarts`, `FreeUnlessRenewed`, `CallsReturn`, `FlowsTerminate`,
`TokenRecovers`, `HealthRecovers`, `KeysPublished`, `RequestsAnswered`, `ServerStops`): liveness
under fairness and `ENABLED` are out of the prover's reach. What `ValidConfigStarts` and
`KeysPublished` say about safety is proved, and so is every type invariant.

## 6. Not modelled, and the plan

Left out within the modelled parts: HMAC, signatures and the contents of JWTs (external; a proof
is the pair and the party), DDL in `initialize()`, pure reads that no decision depends on
(`lock_count`, `get_rules`, the token API's verify and keys), logging. Not modelled:

* CEL evaluation, the projection of a flow to CEL values and the credential functions: pure, by a
  library; their result is a parameter.
* Loading of configuration files and environment variables, URL formatting, AWS signing: libraries.
* Encryption and key format utilities: pure functions over bytes.
* The in-memory Vault double, test containers, end-to-end tests and the TCK: test code.

The plan is done: what the runs check is proved too, but for liveness.
