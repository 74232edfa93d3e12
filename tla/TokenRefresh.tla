---------------------------- MODULE TokenRefresh ----------------------------
(***************************************************************************)
(* The consumer's cached tokens and their refresh, composed with the         *)
(* provider's TokenManager: TokenClientApi, the TokenStore behind it and      *)
(* OAuth2TokenClient (crates/facet-core/src/token/client/), the refresh       *)
(* endpoint and the flow events of the siglet handlers that save and remove   *)
(* tokens.                                                                  *)
(*                                                                         *)
(* A consumer call is named by the request it may make to the provider.      *)
(* Requests and responses travel in chan: they can be lost, and a caller can  *)
(* give up (timeout) while its request is still being served.  The lock is    *)
(* what ExclusiveLock promises for the flow id: it is granted unless another  *)
(* owner has it, a guard is released some time after it is dropped, and a     *)
(* lease can run out under a slow caller.                                    *)
(*                                                                         *)
(* Pairs are 1, 2, ... in the order in which they are drawn.                 *)
(***************************************************************************)
EXTENDS TokenManager, Integers, FiniteSets

CONSTANTS Owners,             \* ways to choose owners: functions from calls to owner strings
          Stores,             \* TokenStore implementations: "memory", "vault"
          renewal_token_duration,  \* JwtTokenManager
          RefreshBefore,      \* refresh_before_expiry_ms
          MaxStarts,          \* bound: times a flow is started
          MaxTime             \* bound: the clock stops here

ASSUME OwnerAssumption == \A o \in Owners : DOMAIN o = Requests
ASSUME DurationAssumption ==
    {renewal_token_duration, RefreshBefore, MaxStarts, MaxTime} \subseteq Nat
ASSUME PairsAssumption == Pairs = 1..Cardinality(Pairs) /\ NoPair = 0
ASSUME StoresAssumption == Stores \subseteq {"memory", "vault"} /\ Stores # {}

VARIABLES now,
          store,      \* the TokenStore that the assembly configured
          owner,      \* owner[t]: the owner string call t locks with
          offer,      \* offer[f]: the data address on its way to on_started
          active,     \* flows started and not suspended since, at the consumer
          tokens,     \* the TokenStore
          call,       \* call[t]: where get_token or delete_token call t is
          chan,       \* chan[t]: the refresh request or response of call t on its way
          held,       \* calls with a guard whose lease is running
          disturbed,  \* flows with calls that were under way when a lease ran out
          mishap      \* flows whose current pair the consumer may not have

clientVars == <<tokens, call, held, disturbed>>
allVars == <<vars, now, store, owner, offer, active, tokens, call, chan, held, disturbed, mishap>>

-----------------------------------------------------------------------------
TokenData(p, at) == [pair |-> p, expires_at |-> at]
NoData == TokenData(NoPair, 0)

\* A record of the TokenStore; the one in Vault does not tell when it was accessed.
TokenRecord(p, at) == [pair |-> p, expires_at |-> at,
                       last_accessed |-> IF store = "memory" THEN now ELSE 0]
NoToken == [pair |-> NoPair, expires_at |-> 0, last_accessed |-> 0]

NoCall == [phase |-> "idle", flow |-> NoFlow, pair |-> NoPair, expires_at |-> 0]

Message(kind, p, expires_in) == [kind |-> kind, pair |-> p, expires_in |-> expires_in]
NoMessage == Message("none", NoPair, 0)

\* expiresIn and expires_in of a pair that was just drawn: renewal_expiration()
\* less the current time.
ExpiresIn == renewal_token_duration

Expiring(data) == now >= data.expires_at - RefreshBefore

NewPair == Cardinality(drawn) + 1

Refreshing(t) == call[t].phase \in {"refresh", "update", "write"}
Saving(t) == call[t].phase \in {"save", "saving"}

\* The start of f is announced to the consumer, which handles one event of a flow at
\* a time.
Announced(f) ==
    /\ offer[f] # NoData /\ f \notin active
    /\ \A t \in Requests : Saving(t) => call[t].flow # f

Fresh ==
    /\ Init
    /\ now = 0
    /\ store \in Stores
    /\ owner \in Owners
    /\ offer = [f \in Flows |-> NoData]
    /\ active = {}
    /\ tokens = [f \in Flows |-> NoToken]
    /\ call = [t \in Requests |-> NoCall]
    /\ chan = [t \in Requests |-> NoMessage]
    /\ held = {}
    /\ disturbed = {}
    /\ mishap = {}

Tick ==
    /\ now < MaxTime
    /\ now' = now + 1
    /\ UNCHANGED <<vars, store, owner, offer, active, clientVars, chan, mishap>>

-----------------------------------------------------------------------------
(* TokenStore *)

\* get_token: the memory store notes the access, Vault does not.
ReadToken(f) ==
    tokens' = IF store = "memory" /\ tokens[f] # NoToken
              THEN [tokens EXCEPT ![f].last_accessed = now] ELSE tokens

SaveToken(f, p, at) == tokens' = [tokens EXCEPT ![f] = TokenRecord(p, at)]

RemoveToken(f) == tokens' = [tokens EXCEPT ![f] = NoToken]

\* MemoryTokenStore::remove_tokens_accessed_before, without the lock.
RemoveTokensAccessedBefore(cutoff) ==
    LET unused == {f \in Flows : tokens[f] # NoToken /\ tokens[f].last_accessed <= cutoff} IN
    /\ store = "memory" /\ unused # {}
    /\ tokens' = [f \in Flows |-> IF f \in unused THEN NoToken ELSE tokens[f]]
    /\ mishap' = mishap \cup unused
    /\ UNCHANGED <<vars, now, store, owner, offer, active, call, chan, held, disturbed>>

-----------------------------------------------------------------------------
(* Flow events *)

\* on_start at the provider: the pair leaves in a data address with expiresIn
\* (offer keeps expires_in in the field expires_at).  A flow is started again only
\* after it was suspended.
OnStart(f) ==
    /\ RowsOf(f) = {} /\ offer[f] = NoData
    /\ Cardinality({p \in drawn : root[p] = p /\ origin[p] = f}) < MaxStarts
    /\ NewPair \in Pairs
    /\ GeneratePair(NewPair, f)
    /\ offer' = [offer EXCEPT ![f] = TokenData(NewPair, ExpiresIn)]
    /\ UNCHANGED <<now, store, owner, active, clientVars, chan, mishap>>

\* on_started at the consumer saves the token, without the lock.
OnStarted(f) ==
    /\ Announced(f)
    /\ active' = active \cup {f}
    /\ SaveToken(f, offer[f].pair, now + offer[f].expires_at)
    /\ offer' = [offer EXCEPT ![f] = NoData]
    /\ mishap' = mishap \ {f}
    /\ UNCHANGED <<vars, now, store, owner, call, chan, held, disturbed>>

\* on_suspend or on_terminate at the provider.
ProviderCleanup(f) ==
    /\ RevokeToken(f)
    /\ UNCHANGED <<now, store, owner, offer, active, clientVars, chan, mishap>>

\* on_suspend or on_terminate at the consumer: remove_token, without the lock.  A
\* token that is missing fails the event with the memory store, not with Vault.
ConsumerCleanup(f) ==
    /\ f \in active
    /\ tokens[f] # NoToken \/ store = "vault"
    /\ active' = active \ {f}
    /\ RemoveToken(f)
    /\ mishap' = mishap \cup {f}
    /\ UNCHANGED <<vars, now, store, owner, offer, call, chan, held, disturbed>>

-----------------------------------------------------------------------------
(* TokenClientApi *)

SetCall(t, c) == call' = [call EXCEPT ![t] = c]
Phase(t, phase) == [call[t] EXCEPT !.phase = phase]

\* The call returns; if it has a guard the guard is dropped now.
Return(t, p) == SetCall(t, [call[t] EXCEPT !.phase = "returned", !.pair = p])
Fail(t) == Return(t, NoPair)

\* get_token: first read, and the check of the expiry.
GetToken(t, f) ==
    /\ call[t] = NoCall /\ chan[t] = NoMessage /\ renewing[t] = Idle
    /\ tokens[f] # NoToken
    /\ SetCall(t, [NoCall EXCEPT !.phase = IF Expiring(tokens[f]) THEN "lock" ELSE "returned",
                                 !.flow = f,
                                 !.pair = IF Expiring(tokens[f]) THEN NoPair ELSE tokens[f].pair])
    /\ ReadToken(f)
    /\ UNCHANGED <<vars, now, store, owner, offer, active, chan, held, disturbed, mishap>>

\* delete_token
DeleteToken(t, f) ==
    /\ call[t] = NoCall /\ chan[t] = NoMessage /\ renewing[t] = Idle
    /\ SetCall(t, [NoCall EXCEPT !.phase = "delete", !.flow = f])
    /\ UNCHANGED <<vars, now, store, owner, offer, active, tokens, chan, held, disturbed, mishap>>

\* save_token of the API, with the token an application got for a flow.
BeginSave(t, f) ==
    /\ call[t] = NoCall /\ chan[t] = NoMessage /\ renewing[t] = Idle
    /\ Announced(f)
    /\ SetCall(t, [phase |-> "save", flow |-> f, pair |-> offer[f].pair,
                   expires_at |-> now + offer[f].expires_at])
    /\ offer' = [offer EXCEPT ![f] = NoData]
    /\ UNCHANGED <<vars, now, store, owner, active, tokens, chan, held, disturbed, mishap>>

\* Mutant: lock() is granted to everybody.
Blocked_Never(t) == FALSE

Blocked(t) == \E u \in held : call[u].flow = call[t].flow /\ owner[u] # owner[t]

\* The phase after lock() for each phase that calls it.
Locked == [lock |-> "reread", delete |-> "remove", save |-> "saving"]

\* lock(identifier, owner): a refused call fails at once.
AcquireLock(t) ==
    /\ call[t].phase \in DOMAIN Locked /\ t \notin held
    /\ \/ /\ ~Blocked(t)
          /\ held' = held \cup {t}
          /\ SetCall(t, Phase(t, Locked[call[t].phase]))
          /\ UNCHANGED mishap
       \/ /\ Blocked(t)
          /\ Fail(t)
          /\ mishap' = IF call[t].phase = "save" THEN mishap \cup {call[t].flow} ELSE mishap
          /\ UNCHANGED held
    /\ UNCHANGED <<vars, now, store, owner, offer, active, tokens, chan, disturbed>>

\* save_token of the API, under the lock.
SaveUnderLock(t) ==
    LET f == call[t].flow IN
    /\ call[t].phase = "saving"
    /\ SaveToken(f, call[t].pair, call[t].expires_at)
    /\ active' = active \cup {f}
    /\ mishap' = mishap \ {f}
    /\ Return(t, NoPair)
    /\ UNCHANGED <<vars, now, store, owner, offer, chan, held, disturbed>>

Remove(t) ==
    LET f == call[t].flow IN
    /\ call[t].phase = "remove"
    /\ RemoveToken(f)
    /\ mishap' = IF tokens[f] # NoToken THEN mishap \cup {f} ELSE mishap
    /\ Return(t, NoPair)
    /\ UNCHANGED <<vars, now, store, owner, offer, active, chan, held, disturbed>>

\* get_token: second read under the lock.
Reread(t) ==
    LET data == tokens[call[t].flow] IN
    /\ call[t].phase = "reread"
    /\ \/ /\ data = NoToken
          /\ Fail(t)
          /\ UNCHANGED chan
       \/ /\ data # NoToken /\ ~Expiring(data)
          /\ Return(t, data.pair)
          /\ UNCHANGED chan
       \/ /\ data # NoToken /\ Expiring(data)
          /\ SetCall(t, [call[t] EXCEPT !.phase = "refresh", !.pair = data.pair])
          /\ chan' = [chan EXCEPT ![t] = Message("request", data.pair, 0)]
    /\ ReadToken(call[t].flow)
    /\ UNCHANGED <<vars, now, store, owner, offer, active, held, disturbed, mishap>>

\* Mutant: the old refresh token is kept although the provider sent a new one.
Refreshed_KeepsOld(t) ==
    /\ call[t].phase = "refresh" /\ chan[t].kind = "response"
    /\ SetCall(t, [call[t] EXCEPT !.phase = "update", !.expires_at = now + chan[t].expires_in])
    /\ chan' = [chan EXCEPT ![t] = NoMessage]
    /\ UNCHANGED <<vars, now, store, owner, offer, active, tokens, held, disturbed, mishap>>

\* refresh_token returns the new pair; its expiry is counted from now.
Refreshed(t) ==
    /\ call[t].phase = "refresh" /\ chan[t].kind = "response"
    /\ SetCall(t, [call[t] EXCEPT !.phase = "update", !.pair = chan[t].pair,
                                  !.expires_at = now + chan[t].expires_in])
    /\ chan' = [chan EXCEPT ![t] = NoMessage]
    /\ UNCHANGED <<vars, now, store, owner, offer, active, tokens, held, disturbed, mishap>>

\* refresh_token fails: the provider's answer is an error.
RefreshRejected(t) ==
    /\ call[t].phase = "refresh" /\ chan[t].kind = "rejected"
    /\ Fail(t)
    /\ chan' = [chan EXCEPT ![t] = NoMessage]
    /\ UNCHANGED <<vars, now, store, owner, offer, active, tokens, held, disturbed, mishap>>

\* refresh_token fails: no answer in time, or the connection breaks.  What was
\* sent may still arrive.
GiveUp(t) ==
    /\ call[t].phase = "refresh"
    /\ Fail(t)
    /\ mishap' = mishap \cup {call[t].flow}
    /\ UNCHANGED <<vars, now, store, owner, offer, active, tokens, chan, held, disturbed>>

\* The stored pair is replaced by p: a pair that p was not renewed from is lost.
Replacing(f, p) == IF <<tokens[f].pair, p>> \in renewed THEN mishap ELSE mishap \cup {f}

\* Mutant: update_token inserts a record that is missing.
UpdateMemory_Upsert(t) ==
    LET f == call[t].flow IN
    /\ store = "memory" /\ call[t].phase = "update"
    /\ SaveToken(f, call[t].pair, call[t].expires_at)
    /\ mishap' = Replacing(f, call[t].pair)
    /\ Return(t, call[t].pair)
    /\ UNCHANGED <<vars, now, store, owner, offer, active, chan, held, disturbed>>

\* MemoryTokenStore::update_token: TokenNotFound, or the record is modified.
UpdateMemory(t) ==
    LET f == call[t].flow IN
    /\ store = "memory" /\ call[t].phase = "update"
    /\ \/ /\ tokens[f] = NoToken
          /\ mishap' = mishap \cup {f}
          /\ Fail(t)
          /\ UNCHANGED tokens
       \/ /\ tokens[f] # NoToken
          /\ tokens' = [tokens EXCEPT ![f] = TokenRecord(call[t].pair, call[t].expires_at)]
          /\ mishap' = Replacing(f, call[t].pair)
          /\ Return(t, call[t].pair)
    /\ UNCHANGED <<vars, now, store, owner, offer, active, chan, held, disturbed>>

\* VaultTokenStore::update_token: the record is read, for the fields to keep ...
UpdateVaultRead(t) ==
    LET f == call[t].flow IN
    /\ store = "vault" /\ call[t].phase = "update"
    /\ \/ /\ tokens[f] = NoToken
          /\ mishap' = mishap \cup {f}
          /\ Fail(t)
       \/ /\ tokens[f] # NoToken
          /\ SetCall(t, Phase(t, "write"))
          /\ UNCHANGED mishap
    /\ UNCHANGED <<vars, now, store, owner, offer, active, tokens, chan, held, disturbed>>

\* ... and then written, whatever happened in between.  The write can take effect
\* although its answer is lost.
UpdateVaultWrite(t) ==
    LET f == call[t].flow IN
    /\ call[t].phase = "write"
    /\ SaveToken(f, call[t].pair, call[t].expires_at)
    /\ mishap' = Replacing(f, call[t].pair)
    /\ Return(t, call[t].pair) \/ Fail(t)
    /\ UNCHANGED <<vars, now, store, owner, offer, active, chan, held, disturbed>>

\* An operation of the store fails.
StoreFails(t) ==
    /\ call[t].phase \in {"reread", "remove", "saving", "update", "write"}
    /\ mishap' = IF Refreshing(t) \/ Saving(t) THEN mishap \cup {call[t].flow} ELSE mishap
    /\ Fail(t)
    /\ UNCHANGED <<vars, now, store, owner, offer, active, tokens, chan, held, disturbed>>

\* A replica dies in a call.  Its lock stays until the lease ends.  (With the memory
\* store the tokens would die too.)
Crash(t) ==
    /\ store = "vault"
    /\ call[t].phase \notin {"idle", "crashed"}
    /\ mishap' = IF Refreshing(t) \/ Saving(t) THEN mishap \cup {call[t].flow} ELSE mishap
    /\ SetCall(t, [NoCall EXCEPT !.phase = "crashed", !.flow = call[t].flow])
    /\ UNCHANGED <<vars, now, store, owner, offer, active, tokens, chan, held, disturbed>>

\* The call is over: the unlock task of its guard has run, or its lease has ended.
Release(t) ==
    LET f == call[t].flow IN
    /\ call[t].phase = "returned" \/ (call[t].phase = "crashed" /\ t \notin held)
    /\ SetCall(t, NoCall)
    /\ held' = held \ {t}
    /\ disturbed' = IF \A u \in Requests \ {t} : call[u].flow # f THEN disturbed \ {f} ELSE disturbed
    /\ UNCHANGED <<vars, now, store, owner, offer, active, tokens, chan, mishap>>

\* The lease of the lock on f runs out.
LeaseEnds(f) ==
    LET guards == {t \in held : call[t].flow = f} IN
    /\ guards # {}
    /\ held' = held \ guards
    /\ disturbed' = disturbed \cup {f}
    /\ UNCHANGED <<vars, now, store, owner, offer, active, tokens, call, chan, mishap>>

-----------------------------------------------------------------------------
(* The provider's refresh endpoint *)

Answer(t, message) == chan' = [chan EXCEPT ![t] = message]

ProviderFind(t) ==
    LET p == chan[t].pair IN
    /\ chan[t].kind = "request"
    /\ RenewFind(t, p, p, Subject[origin[p]])
    /\ Answer(t, NoMessage)
    /\ UNCHANGED <<now, store, owner, offer, active, clientVars, mishap>>

ProviderRejects(t) ==
    /\ chan[t].kind = "request" /\ ~Valid(chan[t].pair)
    /\ Answer(t, Message("rejected", NoPair, 0))
    /\ UNCHANGED <<vars, now, store, owner, offer, active, clientVars, mishap>>

ProviderRenews(t) ==
    /\ NewPair \in Pairs
    /\ RenewUpdate(t, NewPair)
    /\ Answer(t, Message("response", NewPair, ExpiresIn))
    /\ UNCHANGED <<now, store, owner, offer, active, clientVars, mishap>>

\* The entry was replaced, but the answer of the database is lost: renew() returns an
\* error and nobody learns of the new pair.
ProviderAckLost(t) ==
    /\ NewPair \in Pairs
    /\ RenewUpdate(t, NewPair)
    /\ Answer(t, Message("rejected", NoPair, 0))
    /\ mishap' = mishap \cup {renewing[t].flow}
    /\ UNCHANGED <<now, store, owner, offer, active, clientVars>>

ProviderFails(t) ==
    /\ RenewNotFound(t) \/ RenewAborts(t)
    /\ Answer(t, Message("rejected", NoPair, 0))
    /\ UNCHANGED <<now, store, owner, offer, active, clientVars, mishap>>

\* An answer nobody waits for, or a request that does not arrive, disappears.
Lose(t) ==
    /\ chan[t].kind # "none" /\ ~Refreshing(t)
    /\ Answer(t, NoMessage)
    /\ UNCHANGED <<vars, now, store, owner, offer, active, clientVars, mishap>>

-----------------------------------------------------------------------------
RefreshNext ==
    \/ Tick
    \/ \E cutoff \in 0..now : RemoveTokensAccessedBefore(cutoff)
    \/ \E f \in Flows :
         OnStart(f) \/ OnStarted(f) \/ ProviderCleanup(f) \/ ConsumerCleanup(f) \/ LeaseEnds(f)
    \/ \E t \in Requests :
         \/ \E f \in Flows : GetToken(t, f) \/ DeleteToken(t, f) \/ BeginSave(t, f)
         \/ AcquireLock(t) \/ SaveUnderLock(t) \/ Remove(t) \/ Reread(t)
         \/ Refreshed(t) \/ RefreshRejected(t) \/ GiveUp(t)
         \/ UpdateMemory(t) \/ UpdateVaultRead(t) \/ UpdateVaultWrite(t)
         \/ StoreFails(t) \/ Crash(t) \/ Release(t)
         \/ ProviderFind(t) \/ ProviderRejects(t) \/ ProviderRenews(t)
         \/ ProviderAckLost(t) \/ ProviderFails(t) \/ Lose(t)

RefreshSpec == Fresh /\ [][RefreshNext]_allVars

-----------------------------------------------------------------------------
Data == [pair : Pairs \cup {NoPair}, expires_at : Nat]

\* Type invariant.
RefreshTypeOK ==
    /\ TypeOK
    /\ now \in 0..MaxTime
    /\ store \in Stores /\ owner \in Owners
    /\ offer \in [Flows -> Data]
    /\ tokens \in [Flows -> [pair : Pairs \cup {NoPair}, expires_at : Nat,
                            last_accessed : 0..now]]
    /\ active \subseteq Flows
    /\ call \in [Requests -> [phase : {"idle", "lock", "delete", "save", "reread", "remove",
                                      "saving", "refresh", "update", "write", "returned", "crashed"},
                              flow : Flows \cup {NoFlow}, pair : Pairs \cup {NoPair},
                              expires_at : Nat]]
    /\ chan \in [Requests -> [kind : {"none", "request", "response", "rejected"},
                              pair : Pairs \cup {NoPair}, expires_in : Nat]]
    /\ held \subseteq {t \in Requests : call[t].flow \in Flows}
    /\ disturbed \subseteq Flows /\ mishap \subseteq Flows

\* What get_token serves from the cache is current: a stored token that is not about to
\* expire still has its entry at the provider, unless its flow was revoked there.  Holds
\* for callers that share an owner too, so that refreshes of one token run side by side,
\* and although leases end, answers are lost and a late write to Vault stores an older
\* answer over a newer record.
CachedTokenCurrent ==
    \A f \in Flows :
        tokens[f] # NoToken /\ ~Expiring(tokens[f]) =>
            Valid(tokens[f].pair) \/ tokens[f].pair \in revoked

\* The consumer never loses the pair it can renew: the provider's valid pair of a
\* flow is the stored one, or is on its way into the store, unless the consumer
\* gave up on a refresh, lost its replica or its store, or removed the token, or the
\* provider's database replaced the pair and its answer was lost.
\* Holds although calls race, leases end, and refreshes of one token collide.
RenewablePairKept ==
    \A p \in Pairs :
        Valid(p) => LET f == origin[p] IN
            \/ tokens[f].pair = p \/ offer[f].pair = p
            \/ \E t \in Requests :
                 /\ call[t].flow = f
                 /\ \/ call[t].phase \in {"update", "write", "save", "saving"} /\ call[t].pair = p
                    \/ call[t].phase = "refresh" /\ chan[t].kind = "response" /\ chan[t].pair = p
            \/ f \in mishap

\* A token removed when its flow was suspended or terminated at the consumer does not
\* come back ("Removes cached token", docs/siglet.md), also when a refresh was under
\* way.
NoTokenAfterCleanup == \A f \in Flows : f \notin active => tokens[f] = NoToken

\* The memory store keeps that promise: its update_token is one step under the write
\* lock and fails with TokenNotFound when the record is gone.
MemoryCleanupIsFinal == store = "memory" => NoTokenAfterCleanup

\* The lock and the second read spare the provider useless requests: it turns away
\* a waiting consumer only if the token was revoked, a pair was lost, a lease ran
\* out, or another call locks with the same owner.
NoUselessRefresh ==
    [][\A t \in Requests :
          ProviderRejects(t) /\ call[t].phase = "refresh" =>
              \/ chan[t].pair \in revoked
              \/ call[t].flow \in disturbed \cup mishap
              \/ \E u \in Requests \ {t} : owner[u] = owner[t]]_allVars
=============================================================================
