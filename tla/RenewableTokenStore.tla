------------------------ MODULE RenewableTokenStore ------------------------
(***************************************************************************)
(* trait RenewableTokenStore (crates/facet-core/src/token/manager/mod.rs) as *)
(* PostgresRenewableTokenStore implements it: each operation is one SQL      *)
(* statement, hence one action.                                             *)
(*                                                                         *)
(* An entry is its pair and its flow: the fields renew() copies from the old  *)
(* entry (subject, audience, claims) are determined by the flow.             *)
(***************************************************************************)
EXTENDS TokenPairs

VARIABLES rows,    \* renewable_tokens: rows[p] is the flow_id of p's row
          drawn    \* pairs drawn so far

storeVars == <<rows, drawn>>

-----------------------------------------------------------------------------
InitStore ==
    /\ rows = [p \in Pairs |-> NoFlow]
    /\ drawn = {}

\* find_by_renewal and find_by_id
Find(p) == rows[p]

RowsOf(f) == {p \in Pairs : rows[p] = f}

\* INSERT; no conflict on id, which is fresh.
Save(n, f) ==
    /\ n \notin drawn
    /\ rows' = [rows EXCEPT ![n] = f]
    /\ drawn' = drawn \cup {n}

\* Mutant: update() inserts the new entry although the old one is gone.
Update_Upsert(old, n, f) ==
    /\ n \notin drawn
    /\ rows' = [rows EXCEPT ![old] = NoFlow, ![n] = f]
    /\ drawn' = drawn \cup {n}

\* UPDATE ... WHERE hashed_refresh_token = old.  TokenNotFound changes nothing.
Update(old, n, f) ==
    /\ rows[old] # NoFlow
    /\ n \notin drawn
    /\ rows' = [rows EXCEPT ![old] = NoFlow, ![n] = f]
    /\ drawn' = drawn \cup {n}

\* DELETE ... WHERE flow_id = f.  TokenNotFound changes nothing.
RemoveByFlowId(f) ==
    /\ RowsOf(f) # {}
    /\ rows' = [p \in Pairs |-> IF rows[p] = f THEN NoFlow ELSE rows[p]]
    /\ UNCHANGED drawn

NextStore ==
    \/ \E n \in Pairs, f \in Flows : Save(n, f)
    \/ \E old, n \in Pairs : Update(old, n, rows[old])
    \/ \E f \in Flows : RemoveByFlowId(f)

StoreSpec == InitStore /\ [][NextStore]_storeVars
=============================================================================
