--------------------- MODULE MemoryRenewableTokenStore ---------------------
(***************************************************************************)
(* MemoryRenewableTokenStore (crates/facet-core/src/token/manager/mem.rs):    *)
(* three maps kept in step under one RwLock, so each operation is one action. *)
(* It is shown to implement RenewableTokenStore, whose pairs it stores, for   *)
(* callers that do not save a second entry for a flow that has one.           *)
(***************************************************************************)
EXTENDS TokenPairs

VARIABLES entries_by_hash,     \* entries_by_hash[p]: flow_id of the entry under p's hash
          entries_by_id,       \* the same, under p's id
          entries_by_flow_id,  \* entries_by_flow_id[f]: pair of the entry under f
          drawn

indices == <<entries_by_hash, entries_by_id, entries_by_flow_id>>
vars == <<entries_by_hash, entries_by_id, entries_by_flow_id, drawn>>

-----------------------------------------------------------------------------
Init ==
    /\ entries_by_hash = [p \in Pairs |-> NoFlow]
    /\ entries_by_id = [p \in Pairs |-> NoFlow]
    /\ entries_by_flow_id = [f \in Flows |-> NoPair]
    /\ drawn = {}

FindByRenewal(p) == entries_by_hash[p]
FindById(p) == entries_by_id[p]
FindByFlowId(f) == entries_by_flow_id[f]

Save(n, f) ==
    /\ n \notin drawn
    /\ entries_by_hash' = [entries_by_hash EXCEPT ![n] = f]
    /\ entries_by_id' = [entries_by_id EXCEPT ![n] = f]
    /\ entries_by_flow_id' = [entries_by_flow_id EXCEPT ![f] = n]
    /\ drawn' = drawn \cup {n}

\* Mutant: update() forgets the flow index.
Update_FlowIndexStale(old, n) ==
    LET f == entries_by_hash[old] IN
    /\ f # NoFlow
    /\ n \notin drawn
    /\ entries_by_hash' = [entries_by_hash EXCEPT ![old] = NoFlow, ![n] = f]
    /\ entries_by_id' = [entries_by_id EXCEPT ![old] = NoFlow, ![n] = f]
    /\ drawn' = drawn \cup {n}
    /\ UNCHANGED entries_by_flow_id

\* update(): the entry removed under old's hash gives the id and the flow id to
\* remove from the other maps; then the new entry, of the same flow, is inserted.
Update(old, n) ==
    LET f == entries_by_hash[old] IN
    /\ f # NoFlow
    /\ n \notin drawn
    /\ entries_by_hash' = [entries_by_hash EXCEPT ![old] = NoFlow, ![n] = f]
    /\ entries_by_id' = [entries_by_id EXCEPT ![old] = NoFlow, ![n] = f]
    /\ entries_by_flow_id' = [entries_by_flow_id EXCEPT ![f] = n]
    /\ drawn' = drawn \cup {n}

\* remove_by_flow_id(): the entry under f gives the hash and the id to remove.
RemoveByFlowId(f) ==
    LET p == entries_by_flow_id[f] IN
    /\ p # NoPair
    /\ entries_by_hash' = [entries_by_hash EXCEPT ![p] = NoFlow]
    /\ entries_by_id' = [entries_by_id EXCEPT ![p] = NoFlow]
    /\ entries_by_flow_id' = [entries_by_flow_id EXCEPT ![f] = NoPair]
    /\ UNCHANGED drawn

-----------------------------------------------------------------------------
Next ==
    \/ \E n \in Pairs, f \in Flows : Save(n, f)
    \/ \E old, n \in Pairs : Update(old, n)
    \/ \E f \in Flows : RemoveByFlowId(f)

Spec == Init /\ [][Next]_vars

\* Callers that save an entry only for a flow that has none.
OnceNext ==
    \/ \E n \in Pairs, f \in Flows : FindByFlowId(f) = NoPair /\ Save(n, f)
    \/ \E old, n \in Pairs : Update(old, n)
    \/ \E f \in Flows : RemoveByFlowId(f)

OnceSpec == Init /\ [][OnceNext]_vars

-----------------------------------------------------------------------------
\* Type invariant.
TypeOK ==
    /\ entries_by_hash \in [Pairs -> Flows \cup {NoFlow}]
    /\ entries_by_id \in [Pairs -> Flows \cup {NoFlow}]
    /\ entries_by_flow_id \in [Flows -> Pairs \cup {NoPair}]
    /\ drawn \subseteq Pairs

\* The indices agree whatever the callers do: a hash and its id are entered and
\* removed together (a token is renewable exactly while it is valid), and a flow
\* leads to an entry that is still there and is of that flow.
IndicesSound ==
    /\ \A p \in Pairs : FindByRenewal(p) = FindById(p)
    /\ \A p \in Pairs, f \in Flows : FindByFlowId(f) = p => FindById(p) = f

\* Every entry can be found, hence revoked, by its flow, and no entry of another
\* flow, or one that is gone, is found instead.
RevocableByFlow ==
    \A p \in Pairs, f \in Flows : FindById(p) = f <=> FindByFlowId(f) = p

Contract == INSTANCE RenewableTokenStore WITH rows <- entries_by_id

\* Each operation does to the entries what the trait promises; removing by flow
\* leaves no entry of the flow behind.
ImplementsStore == Contract!StoreSpec
=============================================================================
