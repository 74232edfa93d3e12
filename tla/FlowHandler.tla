---------------------------- MODULE FlowHandler ----------------------------
(***************************************************************************)
(* SigletDataFlowHandler (siglet/src/handler/signaling/mod.rs) on the two     *)
(* data planes of a flow, with the transfer type mappings it reads on every   *)
(* event (siglet/src/transfer_type/), the management API that changes them     *)
(* (siglet/src/handler/management/) and the claim mappings it evaluates        *)
(* (siglet/src/claim_mapper/).                                               *)
(*                                                                         *)
(* The data plane SDK, which is external, handles one event of a flow at a     *)
(* time on each plane; a failed event leaves the flow's state as it was, and    *)
(* may come again.  The management API and the events of the other plane        *)
(* interleave with every await of a handler.                                  *)
(***************************************************************************)
EXTENDS Naturals, Sequences, FiniteSets, SequencesExt

CONSTANTS Flows,
          profile,       \* profile[f]: DataFlow.profile
          metadata,      \* metadata[f]: the value of the entry endpoint mappings look at
          Evaluate(_),   \* result of an expression: a value, "null", "fails", "invalid", or
                         \* "no_json", a value that has no form in JSON
          transfer_type_mappings,  \* per plane: SigletConfig::transfer_types
          Submissions,   \* per plane: bodies of requests to the management API
          Backends,      \* StorageBackend: "memory", "postgres_vault"
          MaxTokens,     \* bound: token pairs generated
          MaxFaults,     \* bound: failures of stores
          NoMapping, NoType, NoToken

Planes == {"consumer", "provider"}

\* RESERVED_CLAIMS of the token manager.
Reserved == {"iss", "jti"}

\* The claims handle_flow sets itself when the provider is the source.
FlowClaims == {"agreementId", "participantId"}

-----------------------------------------------------------------------------
(* Claim mappings: records of from, to and optional *)

\* Mutant: the root's entry for the same claim stays.
MergeOne_Appends(merged, mapping) == Append(merged, mapping)

\* One round of the loop: replace in place, or append.
MergeOne(merged, mapping) ==
    LET i == SelectInSeq(merged, LAMBDA m : m.to = mapping.to)
    IN  IF i = 0 THEN Append(merged, mapping) ELSE ReplaceAt(merged, i, mapping)

merge_claim_mappings(root, endpoint) == FoldLeft(MergeOne, root, endpoint)

Skipped(m) == m.optional /\ Evaluate(m.from) \in {"invalid", "fails", "null"}
Aborts(m)  == \/ ~m.optional /\ Evaluate(m.from) \in {"invalid", "fails"}
              \/ Evaluate(m.from) = "no_json"

\* One round of map_claims: the claim is set, over what was set before, or left alone.
MapOne(claims, m) ==
    IF Skipped(m) THEN claims
    ELSE [k \in DOMAIN claims \cup {m.to} |-> IF k = m.to THEN Evaluate(m.from) ELSE claims[k]]

\* CelClaimMapper::map_claims, laid over the claims set before it.
MapClaims(mappings, claims) == FoldLeft(MapOne, claims, mappings)

\* validate_claim_mappings
ValidMappings(mappings) ==
    \A i \in DOMAIN mappings :
        /\ mappings[i].to \notin Reserved
        /\ Evaluate(mappings[i].from) # "invalid"
        /\ \A j \in 1..(i - 1) : mappings[j].to # mappings[i].to

\* Mutant: the claim mappings of endpoint mappings are not validated.
validate_transfer_types_RootOnly(types) ==
    \A p \in DOMAIN types : ValidMappings(types[p].claim_mappings)

validate_transfer_types(types) ==
    \A p \in DOMAIN types :
        /\ ValidMappings(types[p].claim_mappings)
        /\ \A i \in DOMAIN types[p].endpoint_mappings :
               ValidMappings(types[p].endpoint_mappings[i].claim_mappings)

ASSUME FlowAssumption ==
    /\ DOMAIN profile = Flows /\ DOMAIN metadata = Flows
    /\ DOMAIN transfer_type_mappings = Planes /\ DOMAIN Submissions = Planes
    /\ Backends \subseteq {"memory", "postgres_vault"}
    /\ MaxTokens \in Nat /\ MaxFaults \in Nat

\* The rules of SigletConfig::validate for the configured transfer types: those of the
\* management API, and an endpoint where no endpoint mapping gives one.
ValidTransferTypes(types) ==
    /\ validate_transfer_types(types)
    /\ \A p \in DOMAIN types : types[p].endpoint_mappings = <<>> => types[p].endpoint

ASSUME ConfigAssumption == \A pl \in Planes : ValidTransferTypes(transfer_type_mappings[pl])

\* The type of TransferType: claim and endpoint mappings are lists.
IsVec(s) == s \in Seq(Range(s))
IsTransferType(type) ==
    /\ IsVec(type.claim_mappings) /\ IsVec(type.endpoint_mappings)
    /\ \A i \in DOMAIN type.endpoint_mappings : IsVec(type.endpoint_mappings[i].claim_mappings)

ASSUME TypesAssumption ==
    \A pl \in Planes : \A types \in Submissions[pl] \cup {transfer_type_mappings[pl]} :
        \A p \in DOMAIN types : IsTransferType(types[p])

VARIABLES backend,    \* which stores the assembly configured
          stored,     \* stored[pl]: mappings of the participant context, or NoMapping
          state,      \* state[pl][f]: DataFlowState
          event,      \* event[pl][f]: the event being handled, its transfer type and claims
          rows,       \* tokens issued and not revoked, on both planes
          cached,     \* cached[pl][f]: the TokenStore
          address,    \* address[f]: data address on its way to the consumer
          wanted,     \* flows the control plane wants terminated
          faults,
          delivered,  \* history: tokens that left in a response
          unknown,    \* history: tokens saved by a call that reported an error
          refresh,    \* refresh[f]: the record a refresh at the consumer read, or NoToken
          astray      \* history: flows whose record in Vault was saved by a call that
                      \* reported an error, or put back by a refresh after its removal

flowVars == <<backend, stored, state, event, rows, cached, address, wanted, faults, delivered, unknown,
              refresh, astray>>

Event(kind) == [kind |-> kind, type |-> NoType, claims |-> <<>>]
Idle == Event("none")
NotSent == [sent |-> FALSE, tx |-> FALSE, token |-> NoToken]

FlowInit ==
    /\ backend \in Backends
    /\ stored = [pl \in Planes |-> NoMapping]
    /\ state = [pl \in Planes |-> [f \in Flows |-> "none"]]
    /\ event = [pl \in Planes |-> [f \in Flows |-> Idle]]
    /\ rows = {}
    /\ cached = [pl \in Planes |-> [f \in Flows |-> NoToken]]
    /\ address = [f \in Flows |-> NotSent]
    /\ wanted = {}
    /\ faults = 0
    /\ delivered = {}
    /\ unknown = {}
    /\ refresh = [f \in Flows |-> NoToken]
    /\ astray = {}

RowsOf(pl, f) == {r \in rows : r.plane = pl /\ r.flow = f}

SetState(pl, f, s) == state' = [state EXCEPT ![pl][f] = s]
SetEvent(pl, f, kind) == event' = [event EXCEPT ![pl][f] = Event(kind)]
EventOver(pl, f) == SetEvent(pl, f, "none")

\* A call of a store fails.
Fault == faults < MaxFaults /\ faults' = faults + 1

-----------------------------------------------------------------------------
(* TransferTypeMappingRepository: one map of profiles per participant context *)

CreateMapping(pl, types) ==
    stored[pl] = NoMapping /\ stored' = [stored EXCEPT ![pl] = types]

\* The whole map is replaced.
UpdateMapping(pl, types) ==
    stored[pl] # NoMapping /\ stored' = [stored EXCEPT ![pl] = types]

DeleteMapping(pl) ==
    stored[pl] # NoMapping /\ stored' = [stored EXCEPT ![pl] = NoMapping]

(* Management API: a refused request (invalid body, conflict, not found) changes nothing *)

CreateTransferTypeMapping(pl, types) ==
    /\ validate_transfer_types(types)
    /\ CreateMapping(pl, types)
    /\ UNCHANGED <<backend, state, event, rows, cached, address, wanted, faults, delivered, unknown,
                   refresh, astray>>

UpdateTransferTypeMapping(pl, types) ==
    /\ validate_transfer_types(types)
    /\ UpdateMapping(pl, types)
    /\ UNCHANGED <<backend, state, event, rows, cached, address, wanted, faults, delivered, unknown,
                   refresh, astray>>

DeleteTransferTypeMapping(pl) ==
    /\ DeleteMapping(pl)
    /\ UNCHANGED <<backend, state, event, rows, cached, address, wanted, faults, delivered, unknown,
                   refresh, astray>>

-----------------------------------------------------------------------------
(* on_prepare and on_start *)

Lookup(types, p) == IF p \in DOMAIN types THEN types[p] ELSE NoType

\* resolve_transfer_type: stored mappings replace the configured ones altogether;
\* an empty map counts as none.
ResolveTransferType(pl, f) ==
    IF stored[pl] # NoMapping /\ DOMAIN stored[pl] # {}
    THEN Lookup(stored[pl], profile[f])
    ELSE Lookup(transfer_type_mappings[pl], profile[f])

\* resolve_endpoint: the first endpoint mapping that matches, 0 for the static
\* endpoint.
Matches(type, f) == SelectInSeq(type.endpoint_mappings, LAMBDA m : m.value = metadata[f])

EndpointResolves(type, f) ==
    IF type.endpoint_mappings = <<>> THEN type.endpoint ELSE Matches(type, f) # 0

MergedMappings(type, f) ==
    IF type.endpoint_mappings = <<>> THEN type.claim_mappings
    ELSE merge_claim_mappings(type.claim_mappings,
                              type.endpoint_mappings[Matches(type, f)].claim_mappings)

RequiredSource(pl) == IF pl = "provider" THEN "provider" ELSE "client"

\* generate_token: the claims handed to generate_pair.
ClaimsFor(pl, f, type) ==
    MapClaims(MergedMappings(type, f),
              [c \in IF RequiredSource(pl) = "provider" THEN FlowClaims ELSE {} |-> "flow"])

ClaimsFail(type, f) ==
    \E i \in DOMAIN MergedMappings(type, f) : Aborts(MergedMappings(type, f)[i])

\* validate_custom_claims of the token manager.
ReservedClaims(pl, f, type) == DOMAIN ClaimsFor(pl, f, type) \cap Reserved # {}

\* on_prepare at the consumer; on_start at the provider, again after a suspend.
MayBegin(pl, f) ==
    /\ event[pl][f] = Idle /\ f \notin wanted
    /\ IF pl = "provider"
       THEN state[pl][f] \in {"none", "suspended"} /\ ~address[f].sent
       ELSE state[pl][f] = "none"

\* The response of on_start travels to the consumer with the data address, if any.
Respond(pl, f, tx, token) ==
    /\ SetState(pl, f, IF pl = "provider" THEN "started" ELSE "prepared")
    /\ address' = IF pl = "provider"
                  THEN [address EXCEPT ![f] = [sent |-> TRUE, tx |-> tx, token |-> token]]
                  ELSE address

\* handle_flow: the transfer type is read; not being the token source, nothing further
\* is resolved and nothing is issued.
NotTheSource(pl, f) ==
    LET type == ResolveTransferType(pl, f) IN
    /\ MayBegin(pl, f)
    /\ type # NoType /\ type.token_source # RequiredSource(pl)
    /\ Respond(pl, f, FALSE, NoToken)
    /\ UNCHANGED <<backend, stored, event, rows, cached, wanted, faults, delivered, unknown,
                   refresh, astray>>

Accepts(pl, f, type) ==
    /\ type.token_source = RequiredSource(pl)
    /\ EndpointResolves(type, f)
    /\ ~ClaimsFail(type, f) /\ ~ReservedClaims(pl, f, type)

Issuing == {e \in Planes \X Flows : event[e[1]][e[2]].kind = "issue"}

\* handle_flow: type, endpoint and claims are settled, and generate_pair is called.
BeginIssue(pl, f) ==
    LET type == ResolveTransferType(pl, f) IN
    /\ MayBegin(pl, f)
    /\ type # NoType /\ Accepts(pl, f, type)
    /\ Cardinality(delivered \cup unknown) + Cardinality(Issuing) < MaxTokens
    /\ event' = [event EXCEPT ![pl][f] = [kind |-> "issue", type |-> type,
                                          claims |-> ClaimsFor(pl, f, type)]]
    /\ UNCHANGED <<backend, stored, state, rows, cached, address, wanted, faults, delivered, unknown,
                   refresh, astray>>

\* Mutant: the token is generated before the endpoint is resolved.
FlowFails_TokenFirst(pl, f) ==
    LET type == ResolveTransferType(pl, f) IN
    /\ MayBegin(pl, f)
    /\ type # NoType /\ type.token_source = RequiredSource(pl) /\ ~Accepts(pl, f, type)
    /\ rows' = rows \cup {[id |-> 0, plane |-> pl, flow |-> f, type |-> type, claims |-> <<>>]}
    /\ UNCHANGED <<backend, stored, state, event, cached, address, wanted, faults, delivered, unknown,
                   refresh, astray>>

\* handle_flow fails without a trace: the profile is unsupported, no endpoint matches,
\* a claim cannot be computed, or the token manager refuses a reserved claim.
FlowFails(pl, f) ==
    LET type == ResolveTransferType(pl, f) IN
    /\ MayBegin(pl, f)
    /\ type # NoType => type.token_source = RequiredSource(pl) /\ ~Accepts(pl, f, type)
    /\ UNCHANGED flowVars

NewToken(pl, f) == [id |-> Cardinality(delivered \cup unknown) + 1, plane |-> pl, flow |-> f,
                    type |-> event[pl][f].type, claims |-> event[pl][f].claims]

\* generate_pair saves the row, and the pair leaves in the response.
Issue(pl, f) ==
    LET t == NewToken(pl, f) IN
    /\ event[pl][f].kind = "issue"
    /\ rows' = rows \cup {t}
    /\ delivered' = delivered \cup {t}
    /\ Respond(pl, f, t.type.tx_renewal_support, t)
    /\ EventOver(pl, f)
    /\ UNCHANGED <<backend, stored, cached, wanted, faults, unknown, refresh, astray>>

\* The row is saved but the answer of the database is lost: the event fails.
IssueAckLost(pl, f) ==
    LET t == NewToken(pl, f) IN
    /\ backend = "postgres_vault" /\ event[pl][f].kind = "issue"
    /\ Fault
    /\ rows' = rows \cup {t}
    /\ unknown' = unknown \cup {t}
    /\ EventOver(pl, f)
    /\ UNCHANGED <<backend, stored, state, cached, address, wanted, delivered, refresh, astray>>

-----------------------------------------------------------------------------
(* on_started *)

\* The data address is read in the form that the consumer's own transfer type
\* says; the repository is read right before the token is saved.
OnStarted(f) ==
    LET type == ResolveTransferType("consumer", f) IN
    /\ address[f].sent
    /\ event["consumer"][f] = Idle
    /\ state["consumer"][f] \in {"none", "prepared", "suspended"}
    /\ address' = [address EXCEPT ![f] = NotSent]
    /\ \/ /\ address[f].token = NoToken
          /\ SetState("consumer", f, "started")
          /\ UNCHANGED <<cached, astray>>
       \/ /\ address[f].token # NoToken
          /\ type # NoType /\ type.tx_renewal_support = address[f].tx
          /\ cached' = [cached EXCEPT !["consumer"][f] = address[f].token]
          /\ astray' = astray \ {f}
          /\ SetState("consumer", f, "started")
       \/ /\ address[f].token # NoToken
          /\ type # NoType => type.tx_renewal_support # address[f].tx
          /\ UNCHANGED <<cached, astray, state>>
    /\ UNCHANGED <<backend, stored, event, rows, wanted, faults, delivered, unknown, refresh>>

\* save_token takes effect in Vault and its answer is lost: the event fails, the record stays.
StartedAckLost(f) ==
    LET type == ResolveTransferType("consumer", f) IN
    /\ backend = "postgres_vault" /\ Fault
    /\ address[f].sent
    /\ event["consumer"][f] = Idle
    /\ state["consumer"][f] \in {"none", "prepared", "suspended"}
    /\ address[f].token # NoToken
    /\ type # NoType /\ type.tx_renewal_support = address[f].tx
    /\ address' = [address EXCEPT ![f] = NotSent]
    /\ cached' = [cached EXCEPT !["consumer"][f] = address[f].token]
    /\ astray' = astray \cup {f}
    /\ UNCHANGED <<backend, stored, state, event, rows, wanted, delivered, unknown, refresh>>

\* The notification does not reach the consumer, or saving fails without effect.
StartedLost(f) ==
    /\ address[f].sent /\ Fault
    /\ address' = [address EXCEPT ![f] = NotSent]
    /\ UNCHANGED <<backend, stored, state, event, rows, cached, wanted, delivered, unknown,
                   refresh, astray>>

-----------------------------------------------------------------------------
(* VaultTokenStore::update_token of a refresh that a client of the consumer's token API     *)
(* caused: the record is read, and written back whatever happened to it in between.         *)
(* (MemoryTokenStore updates only what is there, in one step: no change at this level.)     *)

RefreshReads(f) ==
    /\ backend = "postgres_vault"
    /\ refresh[f] = NoToken /\ cached["consumer"][f] # NoToken
    /\ refresh' = [refresh EXCEPT ![f] = cached["consumer"][f]]
    /\ UNCHANGED <<backend, stored, state, event, rows, cached, address, wanted, faults, delivered,
                   unknown, astray>>

\* store_secret writes the record, or fails.
RefreshWrites(f) ==
    /\ refresh[f] # NoToken
    /\ refresh' = [refresh EXCEPT ![f] = NoToken]
    /\ \/ /\ cached' = [cached EXCEPT !["consumer"][f] = refresh[f]]
          /\ astray' = IF cached["consumer"][f] = NoToken THEN astray \cup {f} ELSE astray
       \/ UNCHANGED <<cached, astray>>
    /\ UNCHANGED <<backend, stored, state, event, rows, address, wanted, faults, delivered, unknown>>

-----------------------------------------------------------------------------
(* on_suspend and on_terminate *)

WantTerminated(f) ==
    /\ f \notin wanted
    /\ wanted' = wanted \cup {f}
    /\ UNCHANGED <<backend, stored, state, event, rows, cached, address, faults, delivered, unknown,
                   refresh, astray>>

BeginCleanup(pl, f) ==
    /\ event[pl][f] = Idle
    /\ \/ state[pl][f] = "started" /\ f \notin wanted /\ SetEvent(pl, f, "suspend")
       \/ state[pl][f] \notin {"none", "terminated"} /\ f \in wanted /\ SetEvent(pl, f, "terminate")
    /\ UNCHANGED <<backend, stored, state, rows, cached, address, wanted, faults, delivered, unknown,
                   refresh, astray>>

FlowEnds(pl, f) ==
    /\ SetState(pl, f, IF event[pl][f].kind \in {"terminate", "terminate_remove"}
                       THEN "terminated" ELSE "suspended")
    /\ EventOver(pl, f)

Cleaning(pl, f) == event[pl][f].kind \in {"suspend", "terminate"}
Removing(pl, f) == event[pl][f].kind \in {"suspend_remove", "terminate_remove"}

\* Mutant: nothing to revoke counts as done.
RevokeTokens_IgnoresNotFound(pl, f) ==
    /\ Cleaning(pl, f)
    /\ rows' = rows \ RowsOf(pl, f)
    /\ FlowEnds(pl, f)
    /\ UNCHANGED <<backend, stored, cached, address, wanted, faults, delivered, unknown,
                   refresh, astray>>

\* cleanup_tokens: revoke_token.  If there was something to revoke that is all; only
\* TokenNotFound leads to the cache.
RevokeTokens(pl, f) ==
    /\ Cleaning(pl, f)
    /\ \/ /\ RowsOf(pl, f) # {}
          /\ rows' = rows \ RowsOf(pl, f)
          /\ FlowEnds(pl, f)
       \/ /\ RowsOf(pl, f) = {}
          /\ SetEvent(pl, f, IF event[pl][f].kind = "suspend" THEN "suspend_remove"
                                                            ELSE "terminate_remove")
          /\ UNCHANGED <<rows, state>>
    /\ UNCHANGED <<backend, stored, cached, address, wanted, faults, delivered, unknown,
                   refresh, astray>>

\* The record of a flow is gone from the consumer's store.
Tidy(pl, f) == astray' = IF pl = "consumer" THEN astray \ {f} ELSE astray

\* Mutant: a missing token is an error for both stores.
RemoveCached_Strict(pl, f) ==
    /\ Removing(pl, f)
    /\ \/ /\ cached[pl][f] # NoToken
          /\ cached' = [cached EXCEPT ![pl][f] = NoToken] /\ Tidy(pl, f)
          /\ FlowEnds(pl, f)
       \/ /\ cached[pl][f] = NoToken
          /\ EventOver(pl, f)
          /\ UNCHANGED <<cached, astray, state>>
    /\ UNCHANGED <<backend, stored, rows, address, wanted, faults, delivered, unknown, refresh>>

\* remove_token: a missing token is an error for the memory store, not for Vault.
RemoveCached(pl, f) ==
    /\ Removing(pl, f)
    /\ \/ /\ cached[pl][f] # NoToken \/ backend = "postgres_vault"
          /\ cached' = [cached EXCEPT ![pl][f] = NoToken] /\ Tidy(pl, f)
          /\ FlowEnds(pl, f)
       \/ /\ cached[pl][f] = NoToken /\ backend = "memory"
          /\ EventOver(pl, f)
          /\ UNCHANGED <<cached, astray, state>>
    /\ UNCHANGED <<backend, stored, rows, address, wanted, faults, delivered, unknown, refresh>>

\* A store fails in an event, before or (clean-up) after its effect: the event fails.
EventFails(pl, f) ==
    /\ event[pl][f] # Idle /\ backend = "postgres_vault"
    /\ Fault
    /\ EventOver(pl, f)
    /\ \/ UNCHANGED <<rows, cached, astray>>
       \/ Cleaning(pl, f) /\ rows' = rows \ RowsOf(pl, f) /\ UNCHANGED <<cached, astray>>
       \/ /\ Removing(pl, f)
          /\ cached' = [cached EXCEPT ![pl][f] = NoToken] /\ Tidy(pl, f) /\ UNCHANGED rows
    /\ UNCHANGED <<backend, stored, state, address, wanted, delivered, unknown, refresh>>

-----------------------------------------------------------------------------
CleanupStep(pl, f) == BeginCleanup(pl, f) \/ RevokeTokens(pl, f) \/ RemoveCached(pl, f)

FlowNext ==
    \/ \E pl \in Planes :
         \/ DeleteTransferTypeMapping(pl)
         \/ \E types \in Submissions[pl] :
              CreateTransferTypeMapping(pl, types) \/ UpdateTransferTypeMapping(pl, types)
         \/ \E f \in Flows :
              \/ NotTheSource(pl, f) \/ FlowFails(pl, f)
              \/ BeginIssue(pl, f) \/ Issue(pl, f) \/ IssueAckLost(pl, f)
              \/ CleanupStep(pl, f) \/ EventFails(pl, f)
    \/ \E f \in Flows :
         \/ OnStarted(f) \/ StartedAckLost(f) \/ StartedLost(f) \/ WantTerminated(f)
         \/ RefreshReads(f) \/ RefreshWrites(f)

\* A handler that runs goes on, and the control plane repeats a terminate that failed.
FlowFairness ==
    \A pl \in Planes, f \in Flows : WF_flowVars(CleanupStep(pl, f) \/ Issue(pl, f))

FlowSpec == FlowInit /\ [][FlowNext]_flowVars /\ FlowFairness

-----------------------------------------------------------------------------
\* Type invariant.
FlowTypeOK ==
    /\ backend \in Backends
    /\ \A pl \in Planes :
         /\ stored[pl] \in Submissions[pl] \cup {NoMapping}
         /\ \A f \in Flows :
              /\ state[pl][f] \in {"none", "prepared", "started", "suspended", "terminated"}
              /\ event[pl][f].kind \in {"none", "issue", "suspend", "terminate",
                                         "suspend_remove", "terminate_remove"}
              /\ cached[pl][f] \in delivered \cup {NoToken}
    /\ \A f \in Flows : {address[f].token, refresh[f]} \subseteq delivered \cup {NoToken}
    /\ wanted \subseteq Flows /\ astray \subseteq Flows /\ faults \in 0..MaxFaults
    /\ Cardinality(delivered) + Cardinality(unknown) <= MaxTokens

\* "a token generated first would be orphaned if endpoint resolution then failed"
\* (handle_flow): a valid token was handed out, unless the database lost its answer.
NoOrphanedToken == rows \subseteq delivered \cup unknown

\* What the management API and the configuration accept cannot make the token manager
\* refuse a token for its claim names, nor hold an expression that does not compile,
\* whatever endpoint mapping matches and whenever the mappings change.
BackstopNeverFires ==
    \A pl \in Planes, f \in Flows :
        LET type == ResolveTransferType(pl, f) IN
        type # NoType /\ EndpointResolves(type, f) =>
            /\ ~ReservedClaims(pl, f, type)
            /\ \A i \in DOMAIN MergedMappings(type, f) :
                   Evaluate(MergedMappings(type, f)[i].from) # "invalid"

\* The mapping that decides a claim: the matched endpoint mapping's entry, or else the
\* transfer type's.
Deciding(type, f, claim) ==
    LET Entries(ms) == {m \in {ms[i] : i \in DOMAIN ms} : m.to = claim}
        layered == IF type.endpoint_mappings = <<>> THEN {}
                   ELSE Entries(type.endpoint_mappings[Matches(type, f)].claim_mappings)
    IN  IF layered # {} THEN layered ELSE Entries(type.claim_mappings)

\* A claim has the value of the mapping that decides it, or the flow's own where none does
\* or it was skipped; only a consumer's token lacks a claim of the flow.
AsConfigured(pl, f, type, claims, claim) ==
    \/ \E m \in Deciding(type, f, claim) :
         ~Skipped(m) /\ claim \in DOMAIN claims /\ claims[claim] = Evaluate(m.from)
    \/ /\ \A m \in Deciding(type, f, claim) : Skipped(m)
       /\ IF pl = "provider" THEN claim \in DOMAIN claims /\ claims[claim] = "flow"
                             ELSE claim \notin DOMAIN claims

\* "Layered on top of the transfer type's root claim_mappings; ties on `to` are won
\* here" (EndpointMapping): every claim of an issued token, and every claim of the flow,
\* is as configured at the one reading of the mappings that the token was issued under.
ClaimsAsConfigured ==
    \A r \in rows : \A claim \in DOMAIN r.claims \cup FlowClaims :
        AsConfigured(r.plane, r.flow, r.type, r.claims, claim)

\* Suspending or terminating a flow leaves no valid token behind ("Tokens are revoked
\* when a flow terminates or is suspended", docs/siglet.md), and a cached one only in two
\* cases: on a plane that issued a token for the same flow, because the two planes'
\* transfer types disagreed on the source; and in a consumer's Vault, where the last
\* record was saved by an on_started that reported an error, or put back by a refresh that
\* read it before clean-up removed it.
EndedLeavesNothing ==
    \A pl \in Planes, f \in Flows :
        state[pl][f] \in {"suspended", "terminated"} /\ event[pl][f] = Idle =>
            /\ RowsOf(pl, f) \subseteq unknown
            /\ cached[pl][f] # NoToken =>
                   \/ \E t \in delivered \cup unknown : t.plane = pl /\ t.flow = f
                   \/ pl = "consumer" /\ backend = "postgres_vault" /\ f \in astray

\* A flow the control plane wants terminated is terminated, except on a plane with the
\* memory stores that holds no token of it: there cleanup_tokens fails each time.
FlowsTerminate ==
    \A pl \in Planes, f \in Flows :
        f \in wanted /\ state[pl][f] # "none" ~>
            \/ state[pl][f] = "terminated"
            \/ backend = "memory" /\ RowsOf(pl, f) = {} /\ cached[pl][f] = NoToken
=============================================================================
