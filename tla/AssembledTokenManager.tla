------------------------ MODULE AssembledTokenManager ------------------------
(***************************************************************************)
(* JwtTokenManager over the store its assembly gives it                      *)
(* (siglet/src/assembly/mod.rs): PostgresRenewableTokenStore, which is the    *)
(* contract RenewableTokenStore itself, or MemoryRenewableTokenStore, with    *)
(* which every call of the manager is also an operation on the three maps.    *)
(* StoresAgree says that the maps answer what the contract promises.         *)
(*                                                                         *)
(* With the maps, a flow is started only when it has no entry: the data plane *)
(* SDK starts no flow that it has started and not suspended or terminated.    *)
(***************************************************************************)
EXTENDS TokenManager

VARIABLES backing,           \* the store of this assembly; never changes
          entries_by_hash, entries_by_id, entries_by_flow_id

indices == <<entries_by_hash, entries_by_id, entries_by_flow_id>>
systemVars == <<vars, backing, indices>>

\* The pairs drawn with the maps as their store.
DrawnInMemory == IF backing = "memory" THEN drawn ELSE {}

Memory == INSTANCE MemoryRenewableTokenStore WITH drawn <- DrawnInMemory

-----------------------------------------------------------------------------
SystemInit == backing \in {"postgres", "memory"} /\ Init /\ Memory!Init

OverPostgres == backing = "postgres" /\ Next /\ UNCHANGED <<backing, indices>>

InMemory == backing = "memory" /\ UNCHANGED backing

StartFlow(n, f) ==
    InMemory /\ Memory!FindByFlowId(f) = NoPair /\ GeneratePair(n, f) /\ Memory!Save(n, f)

RenewInMemory(r, n) ==
    InMemory /\ RenewUpdate(r, n) /\ Memory!Update(renewing[r].pair, n)

EndFlow(f) == InMemory /\ RevokeToken(f) /\ Memory!RemoveByFlowId(f)

\* The steps of renew() that do not change the store.
RenewStep(r) ==
    /\ InMemory
    /\ \/ \E p, q \in Pairs, s \in Parties : RenewFind(r, p, q, s)
       \/ RenewNotFound(r)
       \/ RenewAborts(r)
    /\ UNCHANGED indices

SystemNext ==
    \/ OverPostgres
    \/ \E n \in Pairs, f \in Flows : StartFlow(n, f)
    \/ \E r \in Requests : RenewStep(r) \/ \E n \in Pairs : RenewInMemory(r, n)
    \/ \E f \in Flows : EndFlow(f)

SystemSpec == SystemInit /\ [][SystemNext]_systemVars

-----------------------------------------------------------------------------
\* The maps answer the manager's finds as the contract says, whichever of them is asked
\* and however renewals and revocations interleave: a token is renewable exactly while it
\* is valid, and a flow leads to its one entry, so that revoking the flow leaves none.
StoresAgree ==
    backing = "memory" =>
        /\ \A p \in Pairs : Memory!FindById(p) = Find(p) /\ Memory!FindByRenewal(p) = Find(p)
        /\ \A f \in Flows : RowsOf(f) = {Memory!FindByFlowId(f)} \ {NoPair}
=============================================================================
