------------------------- MODULE TokenRefreshProofs -------------------------
(***************************************************************************)
(* Proofs about the tokens, from the provider's store up to the consumer:      *)
(* MemoryRenewableTokenStore, TokenManager over either store, and            *)
(* TokenRefresh, for any number of pairs, flows, parties, calls, owners and    *)
(* starts.                                                                 *)
(***************************************************************************)
EXTENDS TokenRefresh, AssembledTokenManager, TLAPS

-----------------------------------------------------------------------------
(* The memory store of the provider *)

Store == INSTANCE MemoryRenewableTokenStore

\* Only drawn pairs have entries, so a new entry never replaces an old one.
OnlyDrawn == \A p \in Pairs : p \notin drawn => entries_by_id[p] = NoFlow

AnyInv == Store!TypeOK /\ OnlyDrawn /\ Store!IndicesSound

OnceInv == AnyInv /\ Store!RevocableByFlow

\* The indices are empty together when the store is created.
LEMMA InitInv == Store!Init => OnceInv
BY NoFlowAssumption, NoPairAssumption
   DEF Store!Init, OnceInv, AnyInv, Store!TypeOK, OnlyDrawn, Store!IndicesSound, Store!RevocableByFlow,
       Store!FindByRenewal, Store!FindById, Store!FindByFlowId

\* save(), update() and remove_by_flow_id() keep the indices in agreement.
LEMMA NextAnyInv == AnyInv /\ [Store!Next]_(Store!vars) => AnyInv'
<1> SUFFICES ASSUME AnyInv, [Store!Next]_(Store!vars) PROVE AnyInv'
  OBVIOUS
<1> USE NoFlowAssumption, NoPairAssumption
    DEF AnyInv, Store!TypeOK, OnlyDrawn, Store!IndicesSound, Store!FindByRenewal, Store!FindById, Store!FindByFlowId
<1>1. ASSUME NEW n \in Pairs, NEW f \in Flows, Store!Save(n, f) PROVE AnyInv'
  BY <1>1 DEF Store!Save
<1>2. ASSUME NEW old \in Pairs, NEW n \in Pairs, Store!Update(old, n) PROVE AnyInv'
  <2> DEFINE f == entries_by_hash[old]
  <2>1. f \in Flows /\ n # old /\ entries_by_id[old] = f
    BY <1>2 DEF Store!Update
  <2> QED
    BY <1>2, <2>1 DEF Store!Update
<1>3. ASSUME NEW f \in Flows, Store!RemoveByFlowId(f) PROVE AnyInv'
  BY <1>3 DEF Store!RemoveByFlowId
<1>4. CASE UNCHANGED Store!vars
  BY <1>4 DEF Store!vars
<1> QED
  BY <1>1, <1>2, <1>3, <1>4 DEF Store!Next

\* With one entry per flow, the flow index also leads to every entry.
LEMMA NextOnceInv == OnceInv /\ [Store!OnceNext]_(Store!vars) => OnceInv'
<1> SUFFICES ASSUME OnceInv, [Store!OnceNext]_(Store!vars) PROVE OnceInv'
  OBVIOUS
<1>0. AnyInv'
  BY NextAnyInv DEF OnceInv, Store!OnceNext, Store!Next
<1>1. Store!RevocableByFlow'
  <2> USE NoFlowAssumption, NoPairAssumption
      DEF OnceInv, AnyInv, Store!TypeOK, OnlyDrawn, Store!IndicesSound, Store!RevocableByFlow,
          Store!FindByRenewal, Store!FindById, Store!FindByFlowId
  <2>1. ASSUME NEW n \in Pairs, NEW f \in Flows, Store!FindByFlowId(f) = NoPair, Store!Save(n, f)
        PROVE Store!RevocableByFlow'
    BY <2>1 DEF Store!Save
  <2>2. ASSUME NEW old \in Pairs, NEW n \in Pairs, Store!Update(old, n) PROVE Store!RevocableByFlow'
    <3> DEFINE f == entries_by_hash[old]
    <3>1. f \in Flows /\ n # old /\ entries_by_id[old] = f
      BY <2>2 DEF Store!Update
    <3> QED
      BY <2>2, <3>1 DEF Store!Update
  <2>3. ASSUME NEW f \in Flows, Store!RemoveByFlowId(f) PROVE Store!RevocableByFlow'
    BY <2>3 DEF Store!RemoveByFlowId
  <2>4. CASE UNCHANGED Store!vars
    BY <2>4 DEF Store!vars
  <2> QED
    BY <2>1, <2>2, <2>3, <2>4 DEF Store!OnceNext
<1> QED
  BY <1>0, <1>1 DEF OnceInv

\* The type invariant of the memory store, for any callers.
THEOREM StoreTypeCorrect == Store!Spec => []Store!TypeOK
<1>1. Store!Init => AnyInv
  BY InitInv DEF OnceInv
<1>2. AnyInv => Store!TypeOK
  BY DEF AnyInv
<1> QED
  BY <1>1, <1>2, NextAnyInv, PTL DEF Store!Spec

\* Whatever the callers do, the three maps agree: hash and id are entered and
\* removed together, and a flow leads to a live entry of that flow.
THEOREM StoreIndicesSound == Store!Spec => []Store!IndicesSound
<1>1. Store!Init => AnyInv
  BY InitInv DEF OnceInv
<1>2. AnyInv => Store!IndicesSound
  BY DEF AnyInv
<1> QED
  BY <1>1, <1>2, NextAnyInv, PTL DEF Store!Spec

\* When a flow is saved only while it has no entry, every valid token can be
\* revoked through its flow.
THEOREM StoreRevocable == Store!OnceSpec => []Store!RevocableByFlow
<1>1. OnceInv => Store!RevocableByFlow
  BY DEF OnceInv
<1> QED
  BY <1>1, InitInv, NextOnceInv, PTL DEF Store!OnceSpec

\* A step of the maps is a step of the trait's contract.
LEMMA StepSimulation == OnceInv /\ [Store!OnceNext]_(Store!vars) => [Store!Contract!NextStore]_(Store!Contract!storeVars)
<1> SUFFICES ASSUME OnceInv, [Store!OnceNext]_(Store!vars)
             PROVE  [Store!Contract!NextStore]_(Store!Contract!storeVars)
  OBVIOUS
<1> USE NoFlowAssumption, NoPairAssumption
    DEF OnceInv, AnyInv, Store!TypeOK, OnlyDrawn, Store!IndicesSound, Store!RevocableByFlow,
        Store!FindByRenewal, Store!FindById, Store!FindByFlowId
<1>1. ASSUME NEW n \in Pairs, NEW f \in Flows, Store!Save(n, f) PROVE Store!Contract!NextStore
  BY <1>1 DEF Store!Save, Store!Contract!NextStore, Store!Contract!Save
<1>2. ASSUME NEW old \in Pairs, NEW n \in Pairs, Store!Update(old, n) PROVE Store!Contract!NextStore
  <2>1. /\ entries_by_hash[old] \in Flows /\ entries_by_id[old] = entries_by_hash[old]
        /\ n # old
    BY <1>2 DEF Store!Update
  <2>2. Store!Contract!Update(old, n, entries_by_id[old])
    BY <1>2, <2>1 DEF Store!Update, Store!Contract!Update
  <2> QED
    BY <2>2 DEF Store!Contract!NextStore
<1>3. ASSUME NEW f \in Flows, Store!RemoveByFlowId(f) PROVE Store!Contract!NextStore
  <2> DEFINE p == entries_by_flow_id[f]
  <2>1. p \in Pairs /\ entries_by_id[p] = f
    BY <1>3 DEF Store!RemoveByFlowId
  <2>2. \A q \in Pairs : entries_by_id[q] = f <=> q = p
    BY <2>1
  <2>3. entries_by_id' = [q \in Pairs |-> IF entries_by_id[q] = f THEN NoFlow ELSE entries_by_id[q]]
    BY <1>3, <2>1, <2>2 DEF Store!RemoveByFlowId
  <2>4. Store!Contract!RemoveByFlowId(f)
    BY <1>3, <2>1, <2>3 DEF Store!RemoveByFlowId, Store!Contract!RemoveByFlowId, Store!Contract!RowsOf
  <2> QED
    BY <2>4 DEF Store!Contract!NextStore
<1>4. CASE UNCHANGED Store!vars
  BY <1>4 DEF Store!vars, Store!Contract!storeVars
<1> QED
  BY <1>1, <1>2, <1>3, <1>4 DEF Store!OnceNext

\* MemoryRenewableTokenStore implements trait RenewableTokenStore.
THEOREM StoreImplementation == Store!OnceSpec => Store!ImplementsStore
<1>1. Store!Init => Store!Contract!InitStore
  BY DEF Store!Init, Store!Contract!InitStore
<1> QED
  BY <1>1, InitInv, NextOnceInv, StepSimulation, PTL
     DEF Store!OnceSpec, Store!ImplementsStore, Store!Contract!StoreSpec

-----------------------------------------------------------------------------
(* The token manager, over the contract of the store and over the memory store *)

\* A pair that was not drawn yet is nowhere.
Undrawn ==
    \A p \in Pairs : p \notin drawn => /\ rows[p] = NoFlow
                                       /\ p \notin revoked
                                       /\ \A x \in renewed : x[1] # p /\ x[2] # p

\* Every drawn pair descends from a drawn pair.
Rooted == \A p \in drawn : root[p] \in drawn

\* A pair that was renewed has no row any more.
SpentIsGone == \A x \in renewed : rows[x[1]] = NoFlow

\* What renew() read before its remote calls is a drawn pair with the flow of its
\* chain, whether or not the row is still there.
RenewalKnown ==
    \A r \in Requests :
        renewing[r] # Idle => /\ renewing[r].pair \in drawn
                              /\ renewing[r].flow = origin[renewing[r].pair]
                              /\ renewing[r].flow \in Flows

Inv ==
    /\ TypeOK
    /\ Undrawn
    /\ Rooted
    /\ SpentIsGone
    /\ RenewalKnown
    /\ SingleUse
    /\ OneValidPerChain
    /\ RevocationIsFinal
    /\ FlowKept

\* Initially there is no pair and no renewal.
LEMMA ManagerInit == Init => Inv
BY NoFlowAssumption, NoPairAssumption
   DEF Init, InitStore, Inv, TypeOK, Undrawn, Rooted, SpentIsGone, RenewalKnown, SingleUse,
       OneValidPerChain, RevocationIsFinal, FlowKept, Valid, Find, Idle

\* generate_pair() adds a chain of its own.
LEMMA GeneratePairInv ==
    ASSUME Inv, NEW n \in Pairs, NEW f \in Flows, GeneratePair(n, f)
    PROVE  Inv'
<1> USE NoFlowAssumption, NoPairAssumption DEF GeneratePair, Save
<1>1. TypeOK'
  BY DEF Inv, TypeOK
<1>2. Undrawn' /\ Rooted' /\ SpentIsGone'
  BY DEF Inv, TypeOK, Undrawn, Rooted, SpentIsGone
<1>3. RenewalKnown'
  BY DEF Inv, TypeOK, RenewalKnown
<1>4. SingleUse'
  BY DEF Inv, SingleUse
<1>5. OneValidPerChain'
  BY DEF Inv, TypeOK, Undrawn, Rooted, OneValidPerChain, Valid, Find
<1>6. RevocationIsFinal' /\ FlowKept'
  BY DEF Inv, TypeOK, Undrawn, RevocationIsFinal, FlowKept, Valid, Find
<1> QED
  BY <1>1, <1>2, <1>3, <1>4, <1>5, <1>6 DEF Inv

\* Finding the entry records a drawn pair and its flow.
LEMMA RenewFindInv ==
    ASSUME Inv, NEW r \in Requests, NEW p \in Pairs, NEW q \in Pairs, NEW s \in Parties,
           RenewFind(r, p, q, s)
    PROVE  Inv'
<1> USE NoFlowAssumption, NoPairAssumption DEF RenewFind
<1>1. TypeOK'
  BY DEF Inv, TypeOK, Find
<1>2. RenewalKnown'
  BY DEF Inv, TypeOK, Undrawn, RenewalKnown, FlowKept, Valid, Find
<1> QED
  BY <1>1, <1>2 DEF Inv, Undrawn, Rooted, SpentIsGone, SingleUse, OneValidPerChain,
                    RevocationIsFinal, FlowKept, Valid, Find

\* Replacing the entry: the row is still there, so it was neither renewed by
\* another call nor revoked since it was read.
LEMMA RenewUpdateInv ==
    ASSUME Inv, NEW r \in Requests, NEW n \in Pairs, RenewUpdate(r, n)
    PROVE  Inv'
<1> DEFINE old == renewing[r].pair
<1> USE NoFlowAssumption, NoPairAssumption
<1>1. /\ old \in drawn /\ old \in Pairs /\ n \notin drawn /\ n # old
      /\ rows[old] # NoFlow /\ renewing[r].flow = origin[old] /\ renewing[r].flow \in Flows
  BY DEF RenewUpdate, Update, Inv, TypeOK, RenewalKnown
<1>2. /\ rows' = [rows EXCEPT ![old] = NoFlow, ![n] = renewing[r].flow]
      /\ drawn' = drawn \cup {n}
      /\ renewing' = [renewing EXCEPT ![r] = Idle]
      /\ root' = [root EXCEPT ![n] = root[old]]
      /\ origin' = [origin EXCEPT ![n] = origin[old]]
      /\ renewed' = renewed \cup {<<old, n>>}
      /\ revoked' = IF old \in revoked THEN revoked \cup {n} ELSE revoked
  BY DEF RenewUpdate, Update
<1>3. old \notin revoked
  BY <1>1 DEF Inv, RevocationIsFinal, Valid, Find
<1>4. \A p \in Pairs : /\ p = n => rows'[p] = renewing[r].flow
                       /\ p = old => rows'[p] = NoFlow
                       /\ p # n /\ p # old => rows'[p] = rows[p]
  BY <1>1, <1>2 DEF Inv, TypeOK
<1>5. TypeOK'
  <2>1. rows' \in [Pairs -> Flows \cup {NoFlow}]
    BY <1>1, <1>2 DEF Inv, TypeOK
  <2> QED
    BY <1>1, <1>2, <1>3, <2>1 DEF Inv, TypeOK, Idle
<1>6. Undrawn'
  BY <1>1, <1>2, <1>3, <1>4 DEF Inv, TypeOK, Undrawn
<1>7. Rooted'
  BY <1>1, <1>2 DEF Inv, TypeOK, Rooted
<1>8. SpentIsGone'
  BY <1>1, <1>2, <1>4 DEF Inv, TypeOK, Undrawn, SpentIsGone
<1>9. RenewalKnown'
  BY <1>1, <1>2 DEF Inv, TypeOK, RenewalKnown, Idle
<1>10. SingleUse'
  BY <1>1, <1>2 DEF Inv, TypeOK, SpentIsGone, SingleUse
<1>11. OneValidPerChain'
  <2> SUFFICES ASSUME NEW p \in Pairs, NEW q \in Pairs,
                      rows'[p] # NoFlow, rows'[q] # NoFlow, root'[p] = root'[q]
               PROVE  p = q
    BY DEF OneValidPerChain, Valid, Find
  <2>1. \A z \in Pairs : z # n /\ rows'[z] # NoFlow => rows[z] # NoFlow /\ z # old
    BY <1>4
  <2>2. root'[n] = root[old] /\ \A z \in Pairs : z # n => root'[z] = root[z]
    BY <1>2 DEF Inv, TypeOK
  <2>3. \A z \in Pairs : rows[z] # NoFlow /\ root[z] = root[old] => z = old
    BY <1>1 DEF Inv, OneValidPerChain, Valid, Find
  <2>4. CASE p # n /\ q # n
    BY <2>1, <2>2, <2>4 DEF Inv, OneValidPerChain, Valid, Find
  <2> QED
    BY <2>1, <2>2, <2>3, <2>4
<1>12. RevocationIsFinal'
  BY <1>1, <1>2, <1>3, <1>4 DEF Inv, Undrawn, RevocationIsFinal, Valid, Find
<1>13. FlowKept'
  BY <1>1, <1>2, <1>4 DEF Inv, TypeOK, FlowKept, Valid, Find
<1> QED
  BY <1>5, <1>6, <1>7, <1>8, <1>9, <1>10, <1>11, <1>12, <1>13 DEF Inv

\* A failed renew() only forgets what it read.
LEMMA RenewFailsInv ==
    ASSUME Inv, NEW r \in Requests, RenewNotFound(r) \/ RenewAborts(r)
    PROVE  Inv'
<1>1. /\ renewing' = [renewing EXCEPT ![r] = Idle]
      /\ UNCHANGED <<rows, drawn, root, origin, renewed, revoked>>
  BY DEF RenewNotFound, RenewAborts
<1> QED
  BY <1>1 DEF Inv, TypeOK, Undrawn, Rooted, SpentIsGone, RenewalKnown, SingleUse,
              OneValidPerChain, RevocationIsFinal, FlowKept, Valid, Find, Idle

\* revoke_token() removes the rows of every pair of the flow.
LEMMA RevokeTokenInv ==
    ASSUME Inv, NEW f \in Flows, RevokeToken(f)
    PROVE  Inv'
<1> USE NoFlowAssumption DEF RevokeToken, RemoveByFlowId
<1>1. TypeOK'
  BY DEF Inv, TypeOK
<1>2. Undrawn' /\ Rooted' /\ SpentIsGone' /\ RenewalKnown' /\ SingleUse'
  BY DEF Inv, TypeOK, Undrawn, Rooted, SpentIsGone, RenewalKnown, SingleUse
<1>3. OneValidPerChain'
  BY DEF Inv, TypeOK, OneValidPerChain, Valid, Find
<1>4. RevocationIsFinal' /\ FlowKept'
  BY DEF Inv, TypeOK, RevocationIsFinal, FlowKept, Valid, Find
<1> QED
  BY <1>1, <1>2, <1>3, <1>4 DEF Inv

\* Inv is inductive.
LEMMA ManagerNext == Inv /\ [Next]_vars => Inv'
<1> SUFFICES ASSUME Inv, [Next]_vars PROVE Inv'
  OBVIOUS
<1>1. CASE UNCHANGED vars
  BY <1>1 DEF vars, Inv, TypeOK, Undrawn, Rooted, SpentIsGone, RenewalKnown, SingleUse,
              OneValidPerChain, RevocationIsFinal, FlowKept, Valid, Find
<1> QED
  BY <1>1, GeneratePairInv, RenewFindInv, RenewUpdateInv, RenewFailsInv, RevokeTokenInv DEF Next

\* Type correctness of the token manager.
THEOREM ManagerTypeCorrect == Spec => []TypeOK
<1>1. Inv => TypeOK
  BY DEF Inv
<1> QED
  BY <1>1, ManagerInit, ManagerNext, PTL DEF Spec

\* However many renew() calls race on it, a refresh token yields one new pair.
THEOREM RefreshTokenSingleUse == Spec => []SingleUse
<1>1. Inv => SingleUse
  BY DEF Inv
<1> QED
  BY <1>1, ManagerInit, ManagerNext, PTL DEF Spec

\* A chain of renewals has at most one valid access token.
THEOREM OneValidToken == Spec => []OneValidPerChain
<1>1. Inv => OneValidPerChain
  BY DEF Inv
<1> QED
  BY <1>1, ManagerInit, ManagerNext, PTL DEF Spec

\* A renew() that races with revoke_token() never brings a token back.
THEOREM RevokedForGood == Spec => []RevocationIsFinal
<1>1. Inv => RevocationIsFinal
  BY DEF Inv
<1> QED
  BY <1>1, ManagerInit, ManagerNext, PTL DEF Spec

-----------------------------------------------------------------------------
(* The manager over the store its assembly gives it: the memory store answers as
   the contract promises. *)

\* The maps by hash and by id are the contract's rows, and the map by flow is their
\* inverse: a flow has at most one entry and leads to it.
MapsMirrorRows ==
    /\ entries_by_hash = rows
    /\ entries_by_id = rows
    /\ entries_by_flow_id \in [Flows -> Pairs \cup {NoPair}]
    /\ \A p \in Pairs, f \in Flows : rows[p] = f <=> entries_by_flow_id[f] = p

SystemInv == Inv /\ (backing = "memory" => MapsMirrorRows)

\* Both start empty.
LEMMA SystemInitInv == SystemInit => SystemInv
<1> SUFFICES ASSUME SystemInit PROVE SystemInv
  OBVIOUS
<1>1. Inv
  BY ManagerInit DEF SystemInit
<1>2. MapsMirrorRows
  BY NoFlowAssumption, NoPairAssumption
     DEF SystemInit, Init, InitStore, Memory!Init, MapsMirrorRows
<1> QED
  BY <1>1, <1>2 DEF SystemInv

\* save() for a flow without an entry.
LEMMA StartFlowMirrors ==
    ASSUME Inv, MapsMirrorRows, NEW n \in Pairs, NEW f \in Flows, StartFlow(n, f)
    PROVE  MapsMirrorRows'
<1> USE NoFlowAssumption, NoPairAssumption
<1>1. /\ entries_by_flow_id[f] = NoPair /\ rows[n] = NoFlow
      /\ rows' = [rows EXCEPT ![n] = f]
      /\ entries_by_hash' = [entries_by_hash EXCEPT ![n] = f]
      /\ entries_by_id' = [entries_by_id EXCEPT ![n] = f]
      /\ entries_by_flow_id' = [entries_by_flow_id EXCEPT ![f] = n]
  BY DEF StartFlow, GeneratePair, Save, Memory!Save, Memory!FindByFlowId, Inv, Undrawn
<1> QED
  BY <1>1 DEF MapsMirrorRows, Inv, TypeOK

\* update(): the entry under the old hash is of the flow that renew() read.
LEMMA RenewMirrors ==
    ASSUME Inv, MapsMirrorRows, NEW r \in Requests, NEW n \in Pairs, RenewInMemory(r, n)
    PROVE  MapsMirrorRows'
<1> DEFINE old == renewing[r].pair
           f == renewing[r].flow
<1> USE NoFlowAssumption, NoPairAssumption
<1>1. /\ old \in Pairs /\ n # old /\ rows[old] # NoFlow /\ rows[n] = NoFlow
      /\ f = origin[old] /\ f \in Flows
  BY DEF RenewInMemory, RenewUpdate, Update, Inv, TypeOK, RenewalKnown, Undrawn
<1>2. rows[old] = f
  BY <1>1 DEF Inv, FlowKept, Valid, Find
<1>3. rows' = [rows EXCEPT ![old] = NoFlow, ![n] = f]
  BY DEF RenewInMemory, RenewUpdate, Update
<1>4. /\ entries_by_hash' = [entries_by_hash EXCEPT ![old] = NoFlow, ![n] = f]
      /\ entries_by_id' = [entries_by_id EXCEPT ![old] = NoFlow, ![n] = f]
      /\ entries_by_flow_id' = [entries_by_flow_id EXCEPT ![f] = n]
  BY <1>2 DEF RenewInMemory, Memory!Update, MapsMirrorRows
<1>5. \A p \in Pairs : rows'[p] = IF p = n THEN f ELSE IF p = old THEN NoFlow ELSE rows[p]
  BY <1>1, <1>3 DEF Inv, TypeOK
<1>6. \A g \in Flows : entries_by_flow_id'[g] = IF g = f THEN n ELSE entries_by_flow_id[g]
  BY <1>1, <1>4 DEF MapsMirrorRows
<1>7. entries_by_flow_id[f] = old
  BY <1>1, <1>2 DEF MapsMirrorRows
<1>8. \A p \in Pairs, g \in Flows : rows'[p] = g <=> entries_by_flow_id'[g] = p
  BY <1>1, <1>5, <1>6, <1>7 DEF MapsMirrorRows
<1> QED
  BY <1>1, <1>3, <1>4, <1>8 DEF MapsMirrorRows

\* remove_by_flow_id(): the one entry of the flow is all the flow has.
LEMMA EndFlowMirrors ==
    ASSUME Inv, MapsMirrorRows, NEW f \in Flows, EndFlow(f)
    PROVE  MapsMirrorRows'
<1> DEFINE p == entries_by_flow_id[f]
<1> USE NoFlowAssumption, NoPairAssumption
<1>1. /\ p \in Pairs /\ rows[p] = f
      /\ \A q \in Pairs : rows[q] = f => q = p
  BY DEF EndFlow, Memory!RemoveByFlowId, MapsMirrorRows
<1>2. /\ rows' = [q \in Pairs |-> IF rows[q] = f THEN NoFlow ELSE rows[q]]
      /\ entries_by_hash' = [entries_by_hash EXCEPT ![p] = NoFlow]
      /\ entries_by_id' = [entries_by_id EXCEPT ![p] = NoFlow]
      /\ entries_by_flow_id' = [entries_by_flow_id EXCEPT ![f] = NoPair]
  BY DEF EndFlow, RevokeToken, RemoveByFlowId, Memory!RemoveByFlowId
<1>3. rows' = [rows EXCEPT ![p] = NoFlow]
  BY <1>1, <1>2 DEF Inv, TypeOK
<1>4. \A q \in Pairs : rows'[q] = IF q = p THEN NoFlow ELSE rows[q]
  BY <1>1, <1>3 DEF Inv, TypeOK
<1>5. \A g \in Flows : entries_by_flow_id'[g] = IF g = f THEN NoPair ELSE entries_by_flow_id[g]
  BY <1>2 DEF MapsMirrorRows
<1>6. \A q \in Pairs, g \in Flows : rows'[q] = g <=> entries_by_flow_id'[g] = q
  BY <1>1, <1>4, <1>5 DEF MapsMirrorRows
<1>7. entries_by_flow_id' \in [Flows -> Pairs \cup {NoPair}]
  BY <1>2 DEF MapsMirrorRows
<1> QED
  BY <1>2, <1>3, <1>6, <1>7 DEF MapsMirrorRows

\* Over either store the manager takes its own steps, and with the maps these follow.
LEMMA SystemNextInv == SystemInv /\ [SystemNext]_systemVars => SystemInv'
<1> SUFFICES ASSUME SystemInv, [SystemNext]_systemVars PROVE SystemInv'
  OBVIOUS
<1>1. CASE UNCHANGED systemVars
  <2>1. Inv'
    BY <1>1, ManagerNext DEF systemVars, SystemInv
  <2> QED
    BY <1>1, <2>1 DEF systemVars, vars, indices, SystemInv, MapsMirrorRows
<1>2. CASE OverPostgres
  BY <1>2, ManagerNext DEF OverPostgres, SystemInv
<1>3. ASSUME NEW n \in Pairs, NEW f \in Flows, StartFlow(n, f) PROVE SystemInv'
  BY <1>3, StartFlowMirrors, GeneratePairInv DEF StartFlow, InMemory, SystemInv
<1>4. ASSUME NEW r \in Requests, NEW n \in Pairs, RenewInMemory(r, n) PROVE SystemInv'
  BY <1>4, RenewMirrors, RenewUpdateInv DEF RenewInMemory, InMemory, SystemInv
<1>5. ASSUME NEW f \in Flows, EndFlow(f) PROVE SystemInv'
  BY <1>5, EndFlowMirrors, RevokeTokenInv DEF EndFlow, InMemory, SystemInv
<1>6. ASSUME NEW r \in Requests, RenewStep(r) PROVE SystemInv'
  <2>1. Inv' /\ UNCHANGED <<rows, backing, indices>>
    BY <1>6, RenewFindInv, RenewFailsInv
       DEF RenewStep, InMemory, RenewFind, RenewNotFound, RenewAborts, SystemInv
  <2> QED
    BY <2>1 DEF indices, SystemInv, MapsMirrorRows
<1> QED
  BY <1>1, <1>2, <1>3, <1>4, <1>5, <1>6 DEF SystemNext

\* The maps of MemoryRenewableTokenStore answer what the contract promises, so every
\* call of the manager decides alike over either store.
THEOREM MemoryStoreAnswers == SystemSpec => []StoresAgree
<1>1. SystemInv => StoresAgree
  <2> SUFFICES ASSUME SystemInv, backing = "memory"
               PROVE  /\ \A p \in Pairs : Memory!FindById(p) = Find(p)
                                          /\ Memory!FindByRenewal(p) = Find(p)
                      /\ \A f \in Flows : RowsOf(f) = {Memory!FindByFlowId(f)} \ {NoPair}
    BY DEF StoresAgree
  <2>1. \A p \in Pairs : Memory!FindById(p) = Find(p) /\ Memory!FindByRenewal(p) = Find(p)
    BY DEF SystemInv, MapsMirrorRows, Memory!FindById, Memory!FindByRenewal, Find
  <2>2. \A f \in Flows : RowsOf(f) = {Memory!FindByFlowId(f)} \ {NoPair}
    BY NoPairAssumption DEF SystemInv, MapsMirrorRows, RowsOf, Memory!FindByFlowId
  <2> QED
    BY <2>1, <2>2
<1> QED
  BY <1>1, SystemInitInv, SystemNextInv, PTL DEF SystemSpec

\* What is proved of the token manager holds over either store: the manager's
\* refresh tokens are spent once and revocation is final.
THEOREM AssembledSafe == SystemSpec => [](SingleUse /\ RevocationIsFinal)
<1>1. SystemInv => SingleUse /\ RevocationIsFinal
  BY DEF SystemInv, Inv
<1> QED
  BY <1>1, SystemInitInv, SystemNextInv, PTL DEF SystemSpec

-----------------------------------------------------------------------------
(* The refresh of a token between consumer and provider *)

CallRecord == [phase : {"idle", "lock", "delete", "save", "reread", "remove", "saving",
                        "refresh", "update", "write", "returned", "crashed"},
               flow : Flows \cup {NoFlow}, pair : Pairs \cup {NoPair}, expires_at : Nat]

TokenRecords == [pair : Pairs \cup {NoPair}, expires_at : Nat, last_accessed : 0..now]

Messages == [kind : {"none", "request", "response", "rejected"},
             pair : Pairs \cup {NoPair}, expires_in : Nat]

\* RefreshTypeOK without the part of the manager.
ClientTyped ==
    /\ now \in 0..MaxTime
    /\ store \in Stores /\ owner \in Owners
    /\ offer \in [Flows -> Data]
    /\ tokens \in [Flows -> TokenRecords]
    /\ active \subseteq Flows
    /\ call \in [Requests -> CallRecord]
    /\ chan \in [Requests -> Messages]
    /\ held \subseteq {t \in Requests : call[t].flow \in Flows}
    /\ disturbed \subseteq Flows /\ mishap \subseteq Flows

\* A call that is under way has a flow, one that is not has nothing.
CallsKnown ==
    \A t \in Requests : /\ call[t].phase # "idle" => call[t].flow \in Flows
                        /\ call[t].phase = "idle" => call[t] = NoCall

\* Phases in which a call has a pair of its flow.
WithPair == {"save", "saving", "refresh", "update", "write"}

\* A pair that is anywhere at the consumer or on its way was drawn, for the flow it is
\* kept under.
PairsKnown ==
    /\ \A p \in drawn : origin[p] \in Flows
    /\ \A f \in Flows : offer[f] # NoData => offer[f].pair \in drawn /\ origin[offer[f].pair] = f
    /\ \A f \in Flows : tokens[f] # NoToken => tokens[f].pair \in drawn /\ origin[tokens[f].pair] = f
    /\ \A t \in Requests : call[t].phase \in WithPair =>
                             call[t].pair \in drawn /\ origin[call[t].pair] = call[t].flow
    /\ \A t \in Requests : chan[t].kind \in {"request", "response"} => chan[t].pair \in drawn

\* A message is of the call in progress on it, and only a call in phase "refresh" has one.
Correlated ==
    \A t \in Requests :
        /\ chan[t].kind # "none" => renewing[t] = Idle
        /\ call[t].phase \notin {"idle", "refresh", "returned", "crashed"} =>
               chan[t].kind = "none" /\ renewing[t] = Idle
        /\ call[t].phase = "refresh" =>
               /\ chan[t].kind \in {"request", "response"} => origin[chan[t].pair] = call[t].flow
               /\ renewing[t] # Idle => renewing[t].flow = call[t].flow

Base == Inv /\ ClientTyped /\ CallsKnown /\ PairsKnown /\ Correlated

USE NoFlowAssumption, NoPairAssumption, DurationAssumption

\* What the steps of the manager keep.
LEMMA ManagerMonotone ==
    ASSUME Inv, [Next]_vars
    PROVE  /\ drawn \subseteq drawn' /\ revoked \subseteq revoked'
           /\ \A p \in drawn : origin'[p] = origin[p]
<1> USE DEF Inv, TypeOK
<1>1. CASE UNCHANGED vars
  BY <1>1 DEF vars
<1>2. ASSUME NEW n \in Pairs, NEW f \in Flows, GeneratePair(n, f)
      PROVE  /\ drawn \subseteq drawn' /\ revoked \subseteq revoked'
             /\ \A p \in drawn : origin'[p] = origin[p]
  BY <1>2 DEF GeneratePair, Save
<1>3. ASSUME NEW r \in Requests, NEW n \in Pairs, RenewUpdate(r, n)
      PROVE  /\ drawn \subseteq drawn' /\ revoked \subseteq revoked'
             /\ \A p \in drawn : origin'[p] = origin[p]
  BY <1>3 DEF RenewUpdate, Update
<1>4. ASSUME NEW f \in Flows, RevokeToken(f)
      PROVE  /\ drawn \subseteq drawn' /\ revoked \subseteq revoked'
             /\ \A p \in drawn : origin'[p] = origin[p]
  BY <1>4 DEF RevokeToken, RemoveByFlowId
<1> QED
  BY <1>1, <1>2, <1>3, <1>4 DEF Next, RenewFind, RenewNotFound, RenewAborts

-----------------------------------------------------------------------------
(* Steps of a call *)

\* The call of t comes to a phase with flow f and pair p, the others stay.
Becomes(t, phase, f, p) ==
    /\ call'[t].phase = phase /\ call'[t].flow = f /\ call'[t].pair = p
    /\ \A u \in Requests : u # t => call'[u] = call[u]

\* SetCall replaces one call.
LEMMA CallSet ==
    ASSUME ClientTyped, NEW t \in Requests, NEW c \in CallRecord, SetCall(t, c)
    PROVE  call' \in [Requests -> CallRecord] /\ Becomes(t, c.phase, c.flow, c.pair)
BY DEF ClientTyped, SetCall, Becomes

\* A call that returns with pair p.
LEMMA Returns ==
    ASSUME ClientTyped, NEW t \in Requests, NEW p \in Pairs \cup {NoPair}, Return(t, p)
    PROVE  /\ call' \in [Requests -> CallRecord]
           /\ Becomes(t, "returned", call[t].flow, p)
<1> DEFINE c == [call[t] EXCEPT !.phase = "returned", !.pair = p]
<1>1. call[t] \in CallRecord
  BY DEF ClientTyped
<1>2. c \in CallRecord /\ c.phase = "returned" /\ c.flow = call[t].flow /\ c.pair = p
  BY <1>1 DEF CallRecord
<1>3. SetCall(t, c)
  BY DEF Return
<1> HIDE DEF c
<1> QED
  BY <1>2, <1>3, CallSet

\* A call that returns an error.
LEMMA Fails ==
    ASSUME ClientTyped, NEW t \in Requests, Fail(t)
    PROVE  call' \in [Requests -> CallRecord] /\ Becomes(t, "returned", call[t].flow, NoPair)
BY Returns DEF Fail

\* A call that goes on to another phase.
LEMMA GoesOn ==
    ASSUME ClientTyped, NEW t \in Requests, NEW phase \in {"reread", "remove", "saving", "write"},
           SetCall(t, Phase(t, phase))
    PROVE  /\ call' \in [Requests -> CallRecord]
           /\ Becomes(t, phase, call[t].flow, call[t].pair)
<1>1. call[t] \in CallRecord
  BY DEF ClientTyped
<1>2. /\ Phase(t, phase) \in CallRecord /\ Phase(t, phase).phase = phase
      /\ Phase(t, phase).flow = call[t].flow /\ Phase(t, phase).pair = call[t].pair
  BY <1>1 DEF Phase, CallRecord
<1> QED
  BY <1>2, CallSet

\* A read changes at most the time of the last access.
LEMMA Reads ==
    ASSUME Base, NEW f \in Flows, ReadToken(f), now' = now
    PROVE  /\ tokens' \in [Flows -> TokenRecords']
           /\ \A g \in Flows : /\ tokens'[g].pair = tokens[g].pair
                               /\ tokens'[g].expires_at = tokens[g].expires_at
                               /\ tokens[g] = NoToken <=> tokens'[g] = NoToken
<1>1. tokens \in [Flows -> TokenRecords] /\ now \in Nat
  BY DEF Base, ClientTyped
<1>2. CASE tokens' = tokens
  BY <1>1, <1>2 DEF TokenRecords
<1>3. CASE tokens' = [tokens EXCEPT ![f].last_accessed = now] /\ tokens[f] # NoToken
  <2>1. tokens[f].pair # NoPair /\ tokens[f] \in TokenRecords
    BY <1>1, <1>3 DEF Base, PairsKnown, Inv, TypeOK
  <2>2. /\ tokens'[f] = [tokens[f] EXCEPT !.last_accessed = now]
        /\ \A g \in Flows : g # f => tokens'[g] = tokens[g]
    BY <1>1, <1>3
  <2>3. /\ tokens'[f] \in TokenRecords /\ tokens'[f].pair = tokens[f].pair
        /\ tokens'[f].expires_at = tokens[f].expires_at
    BY <1>1, <2>1, <2>2 DEF TokenRecords
  <2>4. tokens' \in [Flows -> TokenRecords']
    BY <1>1, <1>3, <2>3 DEF TokenRecords
  <2> QED
    BY <1>3, <2>1, <2>2, <2>3, <2>4 DEF NoToken
<1> QED
  BY <1>2, <1>3 DEF ReadToken

\* Storing a pair under one flow.
LEMMA Saves ==
    ASSUME Base, NEW f \in Flows, NEW p \in Pairs, NEW at \in Nat,
           tokens' = [tokens EXCEPT ![f] = TokenRecord(p, at)], now' = now
    PROVE  /\ tokens' \in [Flows -> TokenRecords']
           /\ tokens'[f].pair = p /\ tokens'[f] # NoToken
           /\ \A g \in Flows : g # f => tokens'[g] = tokens[g]
<1>1. tokens \in [Flows -> TokenRecords] /\ now \in Nat
  BY DEF Base, ClientTyped
<1>2. TokenRecord(p, at) \in TokenRecords' /\ TokenRecord(p, at).pair = p
  BY <1>1 DEF TokenRecord, TokenRecords
<1> QED
  BY <1>1, <1>2 DEF TokenRecords, NoToken

\* Removing the pair of one flow.
LEMMA Removes ==
    ASSUME Base, NEW f \in Flows, RemoveToken(f), now' = now
    PROVE  /\ tokens' \in [Flows -> TokenRecords']
           /\ tokens'[f] = NoToken
           /\ \A g \in Flows : g # f => tokens'[g] = tokens[g]
<1>1. tokens \in [Flows -> TokenRecords] /\ now \in Nat
  BY DEF Base, ClientTyped
<1>2. NoToken \in TokenRecords'
  BY <1>1 DEF NoToken, TokenRecords
<1> QED
  BY <1>1, <1>2 DEF RemoveToken, TokenRecords

\* The pairs in the store stay.
TokensKept ==
    \A g \in Flows : /\ tokens'[g].pair = tokens[g].pair
                     /\ tokens'[g].expires_at = tokens[g].expires_at
                     /\ tokens[g] = NoToken <=> tokens'[g] = NoToken

\* The message of call t becomes one of this kind for p, the others stay.
Says(t, kind, p) ==
    /\ chan'[t].kind = kind /\ chan'[t].pair = p
    /\ \A u \in Requests : u # t => chan'[u] = chan[u]

\* One message replaced by another.
LEMMA MessageSet ==
    ASSUME ClientTyped, NEW t \in Requests, NEW kind \in {"none", "request", "response", "rejected"},
           NEW p \in Pairs \cup {NoPair}, NEW n \in Nat,
           chan' = [chan EXCEPT ![t] = Message(kind, p, n)]
    PROVE  chan' \in [Requests -> Messages] /\ Says(t, kind, p)
BY DEF ClientTyped, Messages, Message, Says

-----------------------------------------------------------------------------
(* The kinds of steps, as far as pairs and locks are concerned *)

\* Time passes.
Rests == TokensKept /\ UNCHANGED <<vars, offer, active, call, chan, held, disturbed, mishap>>

\* get_token or delete_token begins, or get_token returns what it read.
Begins(t, f) ==
    /\ call[t] = NoCall /\ chan[t].kind = "none" /\ renewing[t] = Idle
    /\ \E phase \in {"lock", "returned", "delete"}, p \in Pairs \cup {NoPair} :
          Becomes(t, phase, f, p)
    /\ TokensKept
    /\ UNCHANGED <<vars, offer, active, chan, held, disturbed, mishap>>

\* save_token begins.
TakesOffer(t, f) ==
    /\ call[t] = NoCall /\ chan[t].kind = "none" /\ renewing[t] = Idle
    /\ Announced(f)
    /\ Becomes(t, "save", f, offer[f].pair)
    /\ offer'[f] = NoData /\ \A g \in Flows : g # f => offer'[g] = offer[g]
    /\ UNCHANGED <<vars, active, tokens, chan, held, disturbed, mishap>>

\* A call gets the lock.
Locks(t) ==
    /\ call[t].phase \in DOMAIN Locked /\ t \notin held /\ ~Blocked(t)
    /\ held' = held \cup {t}
    /\ Becomes(t, Locked[call[t].phase], call[t].flow, call[t].pair)
    /\ UNCHANGED <<vars, offer, active, tokens, chan, disturbed, mishap>>

\* A call ends without storing a pair.  If it had one, or waited for one, that is a mishap,
\* unless the provider has said that there is none.
Ends(t) ==
    LET f == call[t].flow IN
    /\ call[t].phase # "idle"
    /\ \E phase \in {"returned", "crashed"}, p \in Pairs \cup {NoPair} : Becomes(t, phase, f, p)
    /\ mishap \subseteq mishap' /\ mishap' \subseteq mishap \cup {f}
    /\ call[t].phase \in WithPair =>
          f \in mishap' \/ (call[t].phase = "refresh" /\ chan[t].kind = "rejected")
    /\ \/ UNCHANGED chan
       \/ chan[t].kind = "rejected" /\ Says(t, "none", NoPair)
    /\ \/ TokensKept
       \/ /\ tokens'[f] = NoToken /\ (tokens[f] # NoToken => f \in mishap')
          /\ \A g \in Flows : g # f => tokens'[g] = tokens[g]
    /\ UNCHANGED <<vars, offer, active, held, disturbed>>

\* Records are removed although a call may want them.
Drops(F) ==
    /\ \A f \in Flows : IF f \in F THEN tokens'[f] = NoToken /\ f \in mishap'
                        ELSE tokens'[f] = tokens[f]
    /\ mishap' = mishap \cup F
    /\ active' \subseteq active /\ active \subseteq active' \cup F
    /\ UNCHANGED <<vars, offer, call, chan, held, disturbed>>

\* The record of f becomes one of pair p.
Puts(f, p) ==
    /\ tokens'[f].pair = p /\ tokens'[f] # NoToken
    /\ \A g \in Flows : g # f => tokens'[g] = tokens[g]

\* on_started.
Receives(f) ==
    /\ Announced(f)
    /\ Puts(f, offer[f].pair)
    /\ offer'[f] = NoData /\ \A g \in Flows : g # f => offer'[g] = offer[g]
    /\ active' = active \cup {f} /\ mishap' = mishap \ {f}
    /\ UNCHANGED <<vars, call, chan, held, disturbed>>

\* save_token ends.
Saved(t) ==
    /\ call[t].phase = "saving"
    /\ Becomes(t, "returned", call[t].flow, NoPair)
    /\ Puts(call[t].flow, call[t].pair)
    /\ active' = active \cup {call[t].flow} /\ mishap' = mishap \ {call[t].flow}
    /\ UNCHANGED <<vars, offer, chan, held, disturbed>>

\* get_token asks for a new pair.
Asks(t) ==
    LET p == tokens[call[t].flow].pair IN
    /\ call[t].phase = "reread"
    /\ tokens[call[t].flow] # NoToken /\ Expiring(tokens[call[t].flow])
    /\ Becomes(t, "refresh", call[t].flow, p)
    /\ Says(t, "request", p)
    /\ TokensKept
    /\ UNCHANGED <<vars, offer, active, held, disturbed, mishap>>

\* get_token gets it ...
Gets(t) ==
    /\ call[t].phase = "refresh" /\ chan[t].kind = "response"
    /\ Becomes(t, "update", call[t].flow, chan[t].pair)
    /\ Says(t, "none", NoPair)
    /\ UNCHANGED <<vars, offer, active, tokens, held, disturbed, mishap>>

\* ... reads the record in Vault ...
LooksUp(t) ==
    /\ store = "vault" /\ call[t].phase = "update"
    /\ Becomes(t, "write", call[t].flow, call[t].pair)
    /\ UNCHANGED <<vars, offer, active, tokens, chan, held, disturbed, mishap>>

\* ... and stores it.
Replaces(t) ==
    LET f == call[t].flow IN
    /\ call[t].phase \in {"update", "write"}
    /\ call[t].phase = "update" => store = "memory" /\ tokens[f] # NoToken
    /\ \E p \in Pairs \cup {NoPair} : Becomes(t, "returned", f, p)
    /\ Puts(f, call[t].pair)
    /\ mishap' = Replacing(f, call[t].pair)
    /\ UNCHANGED <<vars, offer, active, chan, held, disturbed>>

\* The guard of a call that is over is gone.
Leaves(t) ==
    /\ call[t].phase \in {"returned", "crashed"}
    /\ call'[t] = NoCall /\ \A u \in Requests : u # t => call'[u] = call[u]
    /\ held' = held \ {t}
    /\ disturbed' = IF \A u \in Requests \ {t} : call[u].flow # call[t].flow
                    THEN disturbed \ {call[t].flow} ELSE disturbed
    /\ UNCHANGED <<vars, offer, active, tokens, chan, mishap>>

\* A message is lost, or a request is turned away.
Vanishes(t) ==
    /\ chan[t].kind # "none"
    /\ \/ ~Refreshing(t) /\ Says(t, "none", NoPair)
       \/ chan[t].kind = "request" /\ ~Valid(chan[t].pair) /\ Says(t, "rejected", NoPair)
    /\ UNCHANGED <<vars, offer, active, tokens, call, held, disturbed, mishap>>

\* The provider starts a flow.
Offers(f) ==
    /\ RowsOf(f) = {} /\ offer[f] = NoData
    /\ NewPair \in Pairs /\ GeneratePair(NewPair, f)
    /\ offer'[f].pair = NewPair /\ \A g \in Flows : g # f => offer'[g] = offer[g]
    /\ UNCHANGED <<active, tokens, call, chan, held, disturbed, mishap>>

\* The provider suspends or terminates a flow.
Revokes(f) ==
    RevokeToken(f) /\ UNCHANGED <<offer, active, tokens, call, chan, held, disturbed, mishap>>

\* The provider's renew() accepts a request ...
Accepts(t) ==
    LET p == chan[t].pair IN
    /\ chan[t].kind = "request"
    /\ RenewFind(t, p, p, Subject[origin[p]])
    /\ Says(t, "none", NoPair)
    /\ UNCHANGED <<offer, active, tokens, call, held, disturbed, mishap>>

\* ... and answers with a new pair, or not, although there may be one.
Renews(t) ==
    /\ NewPair \in Pairs /\ RenewUpdate(t, NewPair)
    /\ \/ Says(t, "response", NewPair) /\ UNCHANGED mishap
       \/ Says(t, "rejected", NoPair) /\ mishap' = mishap \cup {renewing[t].flow}
    /\ UNCHANGED <<offer, active, tokens, call, held, disturbed>>

Refuses(t) ==
    /\ RenewNotFound(t) \/ RenewAborts(t)
    /\ Says(t, "rejected", NoPair)
    /\ UNCHANGED <<offer, active, tokens, call, held, disturbed, mishap>>

-----------------------------------------------------------------------------
(* Every step is of one of these kinds *)

\* Tick leaves pairs, calls and locks alone.
LEMMA TickKind ==
    ASSUME Base, Tick
    PROVE  ClientTyped' /\ Rests
<1> USE DEF Base
<1>1. now \in Nat /\ now' = now + 1 /\ now' \in 0..MaxTime /\ 0..now \subseteq 0..now'
  BY DEF ClientTyped, Tick
<1>2. UNCHANGED <<vars, store, owner, offer, active, tokens, call, chan, held, disturbed, mishap>>
  BY DEF Tick, clientVars
<1>3. TokenRecords \subseteq TokenRecords'
  BY <1>1 DEF TokenRecords
<1>4. tokens' \in [Flows -> TokenRecords']
  BY <1>2, <1>3 DEF ClientTyped
<1> QED
  BY <1>1, <1>2, <1>4 DEF ClientTyped, Rests, TokensKept

\* Steps that change neither the time nor the call or its guard.
LEMMA SameCalls ==
    ASSUME ClientTyped, UNCHANGED <<now, store, owner, call, held, disturbed>>,
           offer' \in [Flows -> Data], tokens' \in [Flows -> TokenRecords'],
           active' \subseteq Flows, chan' \in [Requests -> Messages], mishap' \subseteq Flows
    PROVE  ClientTyped'
BY DEF ClientTyped

\* Steps of a call whose flow stays.
LEMMA CallMoves ==
    ASSUME ClientTyped, UNCHANGED <<now, store, owner, disturbed>>,
           call' \in [Requests -> CallRecord],
           NEW t \in Requests, NEW phase, NEW p,
           Becomes(t, phase, call[t].flow, p), held' \subseteq held \cup {t}, call[t].flow \in Flows,
           offer' \in [Flows -> Data], tokens' \in [Flows -> TokenRecords'],
           active' \subseteq Flows, chan' \in [Requests -> Messages], mishap' \subseteq Flows
    PROVE  ClientTyped'
<1>1. held' \subseteq {u \in Requests : call'[u].flow \in Flows}
  BY DEF ClientTyped, Becomes
<1> QED
  BY <1>1 DEF ClientTyped

\* Nothing happens to the variables that the steps of a call leave alone.
LEMMA StaysTyped ==
    ASSUME ClientTyped
    PROVE  /\ tokens' = tokens /\ now' = now => tokens' \in [Flows -> TokenRecords']
           /\ offer' = offer => offer' \in [Flows -> Data]
           /\ chan' = chan => chan' \in [Requests -> Messages]
           /\ active' = active => active' \subseteq Flows
           /\ mishap' = mishap => mishap' \subseteq Flows
BY DEF ClientTyped, TokenRecords

\* get_token and delete_token begin a call.
LEMMA BeginKind ==
    ASSUME Base, NEW t \in Requests, NEW f \in Flows, GetToken(t, f) \/ DeleteToken(t, f)
    PROVE  ClientTyped' /\ Begins(t, f)
<1> USE DEF Base
<1>0. /\ call[t] = NoCall /\ chan[t] = NoMessage /\ renewing[t] = Idle
      /\ UNCHANGED <<vars, now, store, owner, offer, active, chan, held, disturbed, mishap>>
  BY DEF GetToken, DeleteToken
<1>1. /\ tokens' \in [Flows -> TokenRecords'] /\ TokensKept
      /\ call' \in [Requests -> CallRecord]
      /\ \E phase \in {"lock", "returned", "delete"}, p \in Pairs \cup {NoPair} :
            Becomes(t, phase, f, p)
  <2>1. CASE GetToken(t, f)
    <3> DEFINE phase == IF Expiring(tokens[f]) THEN "lock" ELSE "returned"
               p == IF Expiring(tokens[f]) THEN NoPair ELSE tokens[f].pair
               c == [NoCall EXCEPT !.phase = phase, !.flow = f, !.pair = p]
    <3>1. phase \in {"lock", "returned"} /\ p \in Pairs \cup {NoPair}
      BY DEF ClientTyped, TokenRecords
    <3>2. SetCall(t, c)
      BY <2>1 DEF GetToken
    <3> HIDE DEF phase, p
    <3>3. c \in CallRecord /\ c.phase = phase /\ c.flow = f /\ c.pair = p
      BY <3>1 DEF NoCall, CallRecord
    <3> HIDE DEF c
    <3>4. call' \in [Requests -> CallRecord] /\ Becomes(t, phase, f, p)
      BY <3>2, <3>3, CallSet
    <3> QED
      BY <1>0, <2>1, <3>1, <3>4, Reads DEF GetToken, TokensKept
  <2>2. CASE DeleteToken(t, f)
    <3> DEFINE c == [NoCall EXCEPT !.phase = "delete", !.flow = f]
    <3>1. c \in CallRecord /\ c.phase = "delete" /\ c.flow = f /\ c.pair = NoPair
      BY DEF NoCall, CallRecord
    <3>2. SetCall(t, c)
      BY <2>2 DEF DeleteToken
    <3> HIDE DEF c
    <3>3. call' \in [Requests -> CallRecord] /\ Becomes(t, "delete", f, NoPair)
      BY <3>1, <3>2, CallSet
    <3> QED
      BY <1>0, <2>2, <3>3, StaysTyped DEF DeleteToken, TokensKept
  <2> QED
    BY <2>1, <2>2
<1>2. held \subseteq {u \in Requests : call'[u].flow \in Flows}
  BY <1>1 DEF ClientTyped, Becomes
<1>3. Begins(t, f)
  BY <1>0, <1>1 DEF Begins, NoMessage, Message
<1> QED
  BY <1>0, <1>1, <1>2, <1>3 DEF ClientTyped

\* save_token takes up the pair that was offered.
LEMMA TakesOfferKind ==
    ASSUME Base, NEW t \in Requests, NEW f \in Flows, BeginSave(t, f)
    PROVE  ClientTyped' /\ TakesOffer(t, f)
<1> USE DEF Base
<1> DEFINE c == [phase |-> "save", flow |-> f, pair |-> offer[f].pair,
                 expires_at |-> now + offer[f].expires_at]
<1>1. offer[f] \in Data /\ now \in Nat
  BY DEF ClientTyped
<1>2. c \in CallRecord
  BY <1>1 DEF CallRecord, Data
<1>3. call' \in [Requests -> CallRecord] /\ Becomes(t, "save", f, offer[f].pair)
  BY <1>2, CallSet DEF BeginSave
<1>4. /\ offer' \in [Flows -> Data]
      /\ offer'[f] = NoData /\ \A g \in Flows : g # f => offer'[g] = offer[g]
  BY DEF BeginSave, ClientTyped, Data, NoData, TokenData
<1>5. held \subseteq {u \in Requests : call'[u].flow \in Flows}
  BY <1>3 DEF ClientTyped, Becomes
<1>6. UNCHANGED <<vars, now, store, owner, active, tokens, chan, held, disturbed, mishap>>
  BY DEF BeginSave
<1>7. TakesOffer(t, f)
  BY <1>3, <1>4, <1>6 DEF BeginSave, TakesOffer, NoMessage, Message
<1> QED
  BY <1>3, <1>4, <1>5, <1>6, <1>7 DEF ClientTyped, TokenRecords

\* lock() is granted, or the call fails.
LEMMA LockKind ==
    ASSUME Base, NEW t \in Requests, AcquireLock(t)
    PROVE  ClientTyped' /\ (Locks(t) \/ Ends(t))
<1> USE DEF Base
<1>0. UNCHANGED <<vars, now, store, owner, offer, active, tokens, chan, disturbed>>
  BY DEF AcquireLock
<1>1. call[t].phase \in {"lock", "delete", "save"} /\ call[t].flow \in Flows
  BY DEF AcquireLock, Locked, CallsKnown
<1>2. Locked[call[t].phase] \in {"reread", "remove", "saving"}
  BY <1>1 DEF Locked
<1>3. CASE ~Blocked(t)
  <2>1. /\ call' \in [Requests -> CallRecord]
        /\ Becomes(t, Locked[call[t].phase], call[t].flow, call[t].pair)
    BY <1>2, <1>3, GoesOn DEF AcquireLock
  <2>2. held' = held \cup {t} /\ mishap' = mishap
    BY <1>3 DEF AcquireLock
  <2>3. ClientTyped'
    BY <1>0, <1>1, <2>1, <2>2, CallMoves, StaysTyped
  <2> QED
    BY <1>0, <1>3, <2>1, <2>2, <2>3 DEF AcquireLock, Locks
<1>4. CASE Blocked(t)
  <2>1. call' \in [Requests -> CallRecord] /\ Becomes(t, "returned", call[t].flow, NoPair)
    BY <1>4, Fails DEF AcquireLock
  <2>2. /\ held' = held
        /\ mishap' = IF call[t].phase = "save" THEN mishap \cup {call[t].flow} ELSE mishap
    BY <1>4 DEF AcquireLock
  <2>3. mishap' \subseteq Flows
    BY <1>1, <2>2 DEF ClientTyped
  <2>4. ClientTyped'
    BY <1>0, <1>1, <2>1, <2>2, <2>3, CallMoves, StaysTyped
  <2>5. Ends(t)
    BY <1>0, <1>1, <2>1, <2>2 DEF Ends, WithPair, TokensKept
  <2> QED
    BY <2>4, <2>5
<1> QED
  BY <1>3, <1>4

\* save_token stores the pair of its call.
LEMMA SavedKind ==
    ASSUME Base, NEW t \in Requests, SaveUnderLock(t)
    PROVE  ClientTyped' /\ Saved(t)
<1> USE DEF Base
<1>0. UNCHANGED <<vars, now, store, owner, offer, chan, held, disturbed>>
  BY DEF SaveUnderLock
<1>1. /\ call[t].phase = "saving" /\ call[t].flow \in Flows /\ call[t].pair \in Pairs
      /\ call[t].expires_at \in Nat
  BY DEF SaveUnderLock, CallsKnown, PairsKnown, WithPair, Inv, TypeOK, ClientTyped, CallRecord
<1>2. call' \in [Requests -> CallRecord] /\ Becomes(t, "returned", call[t].flow, NoPair)
  BY Returns DEF SaveUnderLock
<1>3. tokens' \in [Flows -> TokenRecords'] /\ Puts(call[t].flow, call[t].pair)
  BY <1>0, <1>1, Saves DEF SaveUnderLock, SaveToken, Puts
<1>4. active' = active \cup {call[t].flow} /\ mishap' = mishap \ {call[t].flow}
  BY DEF SaveUnderLock
<1>5. active' \subseteq Flows /\ mishap' \subseteq Flows
  BY <1>1, <1>4 DEF ClientTyped
<1>6. ClientTyped'
  BY <1>0, <1>1, <1>2, <1>3, <1>5, CallMoves, StaysTyped
<1> QED
  BY <1>0, <1>1, <1>2, <1>3, <1>4, <1>6 DEF Saved

\* A call under way ends without a change to the tokens or messages.
LEMMA EndsPlainly ==
    ASSUME Base, NEW t \in Requests, call[t].phase # "idle", Fail(t),
           mishap' = mishap \cup {call[t].flow} \/ (mishap' = mishap /\ call[t].phase \notin WithPair),
           UNCHANGED <<vars, now, store, owner, offer, active, tokens, chan, held, disturbed>>
    PROVE  ClientTyped' /\ Ends(t)
<1> USE DEF Base
<1>1. call[t].flow \in Flows
  BY DEF CallsKnown
<1>2. call' \in [Requests -> CallRecord] /\ Becomes(t, "returned", call[t].flow, NoPair)
  BY Fails
<1>3. mishap' \subseteq Flows
  BY <1>1 DEF ClientTyped
<1>4. ClientTyped'
  BY <1>1, <1>2, <1>3, CallMoves, StaysTyped
<1>5. Ends(t)
  BY <1>2 DEF Ends, TokensKept
<1> QED
  BY <1>4, <1>5

\* delete_token ends by removing the pair.
LEMMA RemoveKind ==
    ASSUME Base, NEW t \in Requests, Remove(t)
    PROVE  ClientTyped' /\ Ends(t)
<1> USE DEF Base
<1> DEFINE f == call[t].flow
<1>0. UNCHANGED <<vars, now, store, owner, offer, active, chan, held, disturbed>>
  BY DEF Remove
<1>1. call[t].phase = "remove" /\ f \in Flows
  BY DEF Remove, CallsKnown
<1>2. call' \in [Requests -> CallRecord] /\ Becomes(t, "returned", f, NoPair)
  BY Returns DEF Remove
<1>3. /\ tokens' \in [Flows -> TokenRecords'] /\ tokens'[f] = NoToken
      /\ \A g \in Flows : g # f => tokens'[g] = tokens[g]
  BY <1>0, <1>1, Removes DEF Remove
<1>4. mishap' = IF tokens[f] # NoToken THEN mishap \cup {f} ELSE mishap
  BY DEF Remove
<1>5. mishap' \subseteq Flows
  BY <1>1, <1>4 DEF ClientTyped
<1>6. ClientTyped'
  BY <1>0, <1>1, <1>2, <1>3, <1>5, CallMoves, StaysTyped
<1>7. Ends(t)
  BY <1>0, <1>1, <1>2, <1>3, <1>4 DEF Ends, WithPair
<1> QED
  BY <1>6, <1>7

\* The second read: the call ends, or asks for a new pair.
LEMMA RereadKind ==
    ASSUME Base, NEW t \in Requests, Reread(t)
    PROVE  ClientTyped' /\ (Asks(t) \/ Ends(t))
<1> USE DEF Base
<1> DEFINE f == call[t].flow
           data == tokens[f]
<1>0. UNCHANGED <<vars, now, store, owner, offer, active, held, disturbed, mishap>>
  BY DEF Reread
<1>1. call[t].phase = "reread" /\ f \in Flows
  BY DEF Reread, CallsKnown
<1>2. tokens' \in [Flows -> TokenRecords'] /\ TokensKept
  BY <1>0, <1>1, Reads DEF Reread, TokensKept
<1>3. data.pair \in Pairs \cup {NoPair} /\ (data # NoToken => data.pair \in Pairs)
  BY <1>1 DEF ClientTyped, TokenRecords, PairsKnown, Inv, TypeOK
<1>4. ASSUME NEW p \in Pairs \cup {NoPair}, Return(t, p), UNCHANGED chan
      PROVE  ClientTyped' /\ Ends(t)
  <2>1. call' \in [Requests -> CallRecord] /\ Becomes(t, "returned", f, p)
    BY <1>4, Returns
  <2>2. ClientTyped'
    BY <1>0, <1>1, <1>2, <1>4, <2>1, CallMoves, StaysTyped
  <2>3. Ends(t)
    BY <1>0, <1>1, <1>2, <1>4, <2>1 DEF Ends, WithPair
  <2> QED
    BY <2>2, <2>3
<1>5. CASE /\ data # NoToken /\ Expiring(data)
           /\ SetCall(t, [call[t] EXCEPT !.phase = "refresh", !.pair = data.pair])
           /\ chan' = [chan EXCEPT ![t] = Message("request", data.pair, 0)]
  <2> DEFINE c == [call[t] EXCEPT !.phase = "refresh", !.pair = data.pair]
  <2>1. c \in CallRecord /\ c.phase = "refresh" /\ c.flow = f /\ c.pair = data.pair
    BY <1>3 DEF ClientTyped, CallRecord
  <2>2. SetCall(t, c)
    BY <1>5
  <2> HIDE DEF c
  <2>3. call' \in [Requests -> CallRecord] /\ Becomes(t, "refresh", f, data.pair)
    BY <2>1, <2>2, CallSet
  <2>4. chan' \in [Requests -> Messages] /\ Says(t, "request", data.pair)
    BY <1>3, <1>5, MessageSet
  <2>5. ClientTyped'
    BY <1>0, <1>1, <1>2, <2>3, <2>4, CallMoves, StaysTyped
  <2> QED
    BY <1>0, <1>1, <1>2, <1>5, <2>3, <2>4, <2>5 DEF Asks
<1> QED
  BY <1>3, <1>4, <1>5 DEF Reread, Fail

\* The answer of the provider hands a pair to the call.
LEMMA GetsKind ==
    ASSUME Base, NEW t \in Requests, Refreshed(t)
    PROVE  ClientTyped' /\ Gets(t)
<1> USE DEF Base
<1> DEFINE c == [call[t] EXCEPT !.phase = "update", !.pair = chan[t].pair,
                                !.expires_at = now + chan[t].expires_in]
<1>0. UNCHANGED <<vars, now, store, owner, offer, active, tokens, held, disturbed, mishap>>
  BY DEF Refreshed
<1>1. call[t].phase = "refresh" /\ chan[t].kind = "response" /\ call[t].flow \in Flows
  BY DEF Refreshed, CallsKnown
<1>2. chan[t].pair \in Pairs \cup {NoPair} /\ chan[t].expires_in \in Nat /\ now \in Nat
  BY DEF ClientTyped, Messages
<1>3. now + chan[t].expires_in \in Nat
  BY <1>2
<1>4. call[t] \in CallRecord
  BY DEF ClientTyped
<1>5. c \in CallRecord /\ c.phase = "update" /\ c.flow = call[t].flow /\ c.pair = chan[t].pair
  BY <1>2, <1>3, <1>4 DEF CallRecord
<1>6. SetCall(t, c)
  BY DEF Refreshed
<1> HIDE DEF c
<1>7. call' \in [Requests -> CallRecord] /\ Becomes(t, "update", call[t].flow, chan[t].pair)
  BY <1>5, <1>6, CallSet
<1>8. chan' \in [Requests -> Messages] /\ Says(t, "none", NoPair)
  BY MessageSet DEF Refreshed, NoMessage
<1>9. ClientTyped'
  BY <1>0, <1>1, <1>7, <1>8, CallMoves, StaysTyped
<1> QED
  BY <1>0, <1>1, <1>7, <1>8, <1>9 DEF Gets

\* A rejected refresh ends the call.
LEMMA RejectedKind ==
    ASSUME Base, NEW t \in Requests, RefreshRejected(t)
    PROVE  ClientTyped' /\ Ends(t)
<1> USE DEF Base
<1>0. UNCHANGED <<vars, now, store, owner, offer, active, tokens, held, disturbed, mishap>>
  BY DEF RefreshRejected
<1>1. call[t].phase = "refresh" /\ chan[t].kind = "rejected" /\ call[t].flow \in Flows
  BY DEF RefreshRejected, CallsKnown
<1>2. call' \in [Requests -> CallRecord] /\ Becomes(t, "returned", call[t].flow, NoPair)
  BY Fails DEF RefreshRejected
<1>3. chan' \in [Requests -> Messages] /\ Says(t, "none", NoPair)
  BY MessageSet DEF RefreshRejected, NoMessage
<1>4. ClientTyped'
  BY <1>0, <1>1, <1>2, <1>3, CallMoves, StaysTyped
<1>5. Ends(t)
  BY <1>0, <1>1, <1>2, <1>3 DEF Ends, TokensKept
<1> QED
  BY <1>4, <1>5

\* A timeout or a failing store ends the call.
LEMMA GiveUpKind ==
    ASSUME Base, NEW t \in Requests, GiveUp(t) \/ StoreFails(t)
    PROVE  ClientTyped' /\ Ends(t)
<1>1. CASE GiveUp(t)
  BY <1>1, EndsPlainly DEF GiveUp
<1>2. CASE StoreFails(t)
  <2>1. call[t].phase \in WithPair => Refreshing(t) \/ Saving(t)
    BY DEF WithPair, Refreshing, Saving
  <2> QED
    BY <1>2, <2>1, EndsPlainly DEF StoreFails
<1> QED
  BY <1>1, <1>2

\* A crash ends the call, wherever it was.
LEMMA CrashKind ==
    ASSUME Base, NEW t \in Requests, Crash(t)
    PROVE  ClientTyped' /\ Ends(t)
<1> USE DEF Base
<1> DEFINE c == [NoCall EXCEPT !.phase = "crashed", !.flow = call[t].flow]
<1>0. UNCHANGED <<vars, now, store, owner, offer, active, tokens, chan, held, disturbed>>
  BY DEF Crash
<1>1. call[t].phase # "idle" /\ call[t].flow \in Flows
  BY DEF Crash, CallsKnown
<1>2. c \in CallRecord /\ c.phase = "crashed" /\ c.flow = call[t].flow /\ c.pair = NoPair
  BY <1>1 DEF NoCall, CallRecord
<1>3. SetCall(t, c)
  BY DEF Crash
<1> HIDE DEF c
<1>4. call' \in [Requests -> CallRecord] /\ Becomes(t, "crashed", call[t].flow, NoPair)
  BY <1>2, <1>3, CallSet
<1>5. mishap' = IF Refreshing(t) \/ Saving(t) THEN mishap \cup {call[t].flow} ELSE mishap
  BY DEF Crash
<1>6. mishap' \subseteq Flows
  BY <1>1, <1>5 DEF ClientTyped
<1>7. ClientTyped'
  BY <1>0, <1>1, <1>4, <1>6, CallMoves, StaysTyped
<1>8. Ends(t)
  BY <1>0, <1>1, <1>4, <1>5 DEF Ends, TokensKept, WithPair, Refreshing, Saving
<1> QED
  BY <1>7, <1>8

\* A record is replaced by the one of the call's pair.
LEMMA ReplacesWhen ==
    ASSUME Base, NEW t \in Requests, call[t].phase \in {"update", "write"},
           call[t].phase = "update" => store = "memory" /\ tokens[call[t].flow] # NoToken,
           SaveToken(call[t].flow, call[t].pair, call[t].expires_at),
           mishap' = Replacing(call[t].flow, call[t].pair),
           Return(t, call[t].pair) \/ Fail(t),
           UNCHANGED <<vars, now, store, owner, offer, active, chan, held, disturbed>>
    PROVE  ClientTyped' /\ Replaces(t)
<1> USE DEF Base
<1>1. call[t].flow \in Flows /\ call[t].pair \in Pairs /\ call[t].expires_at \in Nat
  BY DEF CallsKnown, PairsKnown, WithPair, Inv, TypeOK, ClientTyped, CallRecord
<1>2. /\ call' \in [Requests -> CallRecord]
      /\ \E p \in Pairs \cup {NoPair} : Becomes(t, "returned", call[t].flow, p)
  BY <1>1, Returns, Fails
<1>3. tokens' \in [Flows -> TokenRecords'] /\ Puts(call[t].flow, call[t].pair)
  BY <1>1, Saves DEF SaveToken, Puts
<1>4. mishap' \subseteq Flows
  BY <1>1 DEF ClientTyped, Replacing
<1>5. ClientTyped'
  BY <1>1, <1>2, <1>3, <1>4, CallMoves, StaysTyped
<1> QED
  BY <1>2, <1>3, <1>5 DEF Replaces

\* update_token ends the call, looks the token up or replaces it.
LEMMA UpdateKind ==
    ASSUME Base, NEW t \in Requests,
           UpdateMemory(t) \/ UpdateVaultRead(t) \/ UpdateVaultWrite(t)
    PROVE  ClientTyped' /\ (Ends(t) \/ LooksUp(t) \/ Replaces(t))
<1> USE DEF Base
<1>1. CASE UpdateMemory(t)
  BY <1>1, EndsPlainly, ReplacesWhen DEF UpdateMemory, SaveToken
<1>2. CASE UpdateVaultWrite(t)
  BY <1>2, ReplacesWhen DEF UpdateVaultWrite
<1>3. CASE UpdateVaultRead(t)
  <2>0. UNCHANGED <<vars, now, store, owner, offer, active, tokens, chan, held, disturbed>>
    BY <1>3 DEF UpdateVaultRead
  <2>1. call[t].phase = "update" /\ call[t].flow \in Flows
    BY <1>3 DEF UpdateVaultRead, CallsKnown
  <2>2. CASE tokens[call[t].flow] = NoToken
    BY <1>3, <2>0, <2>1, <2>2, EndsPlainly DEF UpdateVaultRead
  <2>3. CASE tokens[call[t].flow] # NoToken
    <3>1. SetCall(t, Phase(t, "write")) /\ mishap' = mishap /\ store = "vault"
      BY <1>3, <2>3 DEF UpdateVaultRead
    <3>2. /\ call' \in [Requests -> CallRecord]
          /\ Becomes(t, "write", call[t].flow, call[t].pair)
      BY <3>1, GoesOn
    <3>3. ClientTyped'
      BY <2>0, <2>1, <3>1, <3>2, CallMoves, StaysTyped
    <3> QED
      BY <2>0, <2>1, <3>1, <3>2, <3>3 DEF LooksUp
  <2> QED
    BY <2>2, <2>3
<1> QED
  BY <1>1, <1>2, <1>3

\* The guard goes out of scope.
LEMMA LeavesKind ==
    ASSUME Base, NEW t \in Requests, Release(t)
    PROVE  ClientTyped' /\ Leaves(t)
<1> USE DEF Base
<1>1. NoCall \in CallRecord
  BY DEF NoCall, CallRecord
<1>2. /\ call' \in [Requests -> CallRecord]
      /\ call'[t] = NoCall /\ \A u \in Requests : u # t => call'[u] = call[u]
  BY <1>1 DEF Release, SetCall, ClientTyped
<1>3. Leaves(t)
  BY <1>2 DEF Release, Leaves
<1>4. held' \subseteq {u \in Requests : call'[u].flow \in Flows}
  BY <1>2, <1>3 DEF Leaves, ClientTyped
<1>5. disturbed' \subseteq Flows
  BY <1>3 DEF Leaves, ClientTyped
<1>6. UNCHANGED <<now, store, owner, offer, active, tokens, chan, mishap>>
  BY DEF Release
<1> QED
  BY <1>2, <1>3, <1>4, <1>5, <1>6 DEF ClientTyped, TokenRecords

\* The lease of the lock on f is over.
Expires(f) ==
    /\ held' = {t \in held : call[t].flow # f}
    /\ disturbed' = disturbed \cup {f}
    /\ UNCHANGED <<vars, offer, active, tokens, call, chan, mishap>>

\* The lease of a lock runs out.
LEMMA ExpiresKind ==
    ASSUME Base, NEW f \in Flows, LeaseEnds(f)
    PROVE  ClientTyped' /\ Expires(f)
<1> USE DEF Base
<1>1. Expires(f)
  BY DEF LeaseEnds, Expires
<1>2. UNCHANGED <<now, store, owner>>
  BY DEF LeaseEnds
<1> QED
  BY <1>1, <1>2 DEF Expires, ClientTyped, TokenRecords

\* Clean-up by age or by flow drops pairs.
LEMMA DropsKind ==
    ASSUME Base,
           \/ \E cutoff \in 0..now : RemoveTokensAccessedBefore(cutoff)
           \/ \E f \in Flows : ConsumerCleanup(f)
    PROVE  ClientTyped' /\ \E F \in SUBSET Flows : Drops(F)
<1> USE DEF Base
<1>1. NoToken \in TokenRecords
  BY DEF ClientTyped, NoToken, TokenRecords
<1>2. ASSUME NEW cutoff \in 0..now, RemoveTokensAccessedBefore(cutoff)
      PROVE  ClientTyped' /\ \E F \in SUBSET Flows : Drops(F)
  <2> DEFINE F == {f \in Flows : tokens[f] # NoToken /\ tokens[f].last_accessed <= cutoff}
  <2>1. /\ tokens' = [f \in Flows |-> IF f \in F THEN NoToken ELSE tokens[f]]
        /\ mishap' = mishap \cup F /\ F \in SUBSET Flows
        /\ UNCHANGED <<vars, now, store, owner, offer, active, call, chan, held, disturbed>>
    BY <1>2 DEF RemoveTokensAccessedBefore
  <2> HIDE DEF F
  <2>2. Drops(F)
    BY <2>1 DEF Drops
  <2>3. tokens' \in [Flows -> TokenRecords'] /\ mishap' \subseteq Flows
    BY <1>1, <2>1 DEF ClientTyped, TokenRecords
  <2> QED
    BY <2>1, <2>2, <2>3, SameCalls, StaysTyped
<1>3. ASSUME NEW f \in Flows, ConsumerCleanup(f)
      PROVE  ClientTyped' /\ \E F \in SUBSET Flows : Drops(F)
  <2>1. /\ active' = active \ {f} /\ mishap' = mishap \cup {f}
        /\ UNCHANGED <<vars, now, store, owner, offer, call, chan, held, disturbed>>
    BY <1>3 DEF ConsumerCleanup
  <2>2. /\ tokens' \in [Flows -> TokenRecords'] /\ tokens'[f] = NoToken
        /\ \A g \in Flows : g # f => tokens'[g] = tokens[g]
    BY <1>3, <2>1, Removes DEF ConsumerCleanup
  <2>3. Drops({f})
    BY <2>1, <2>2 DEF Drops
  <2>4. active' \subseteq Flows /\ mishap' \subseteq Flows
    BY <2>1 DEF ClientTyped
  <2> QED
    BY <2>1, <2>2, <2>3, <2>4, SameCalls, StaysTyped
<1> QED
  BY <1>2, <1>3

\* on_started hands the offer to the consumer.
LEMMA ReceivesKind ==
    ASSUME Base, NEW f \in Flows, OnStarted(f)
    PROVE  ClientTyped' /\ Receives(f)
<1> USE DEF Base
<1>0. UNCHANGED <<vars, now, store, owner, call, chan, held, disturbed>>
  BY DEF OnStarted
<1>1. /\ offer[f] # NoData /\ offer[f].pair \in Pairs
      /\ offer[f].expires_at \in Nat /\ now \in Nat
  BY DEF OnStarted, Announced, PairsKnown, Inv, TypeOK, ClientTyped, Data
<1>2. now + offer[f].expires_at \in Nat
  BY <1>1
<1>3. tokens' \in [Flows -> TokenRecords'] /\ Puts(f, offer[f].pair)
  BY <1>0, <1>1, <1>2, Saves DEF OnStarted, SaveToken, Puts
<1>4. /\ offer' \in [Flows -> Data]
      /\ offer'[f] = NoData /\ \A g \in Flows : g # f => offer'[g] = offer[g]
  BY DEF OnStarted, ClientTyped, Data, NoData, TokenData
<1>5. active' = active \cup {f} /\ mishap' = mishap \ {f} /\ Announced(f)
  BY DEF OnStarted
<1>6. active' \subseteq Flows /\ mishap' \subseteq Flows
  BY <1>5 DEF ClientTyped
<1>7. ClientTyped'
  BY <1>0, <1>3, <1>4, <1>6, SameCalls, StaysTyped
<1> QED
  BY <1>0, <1>3, <1>4, <1>5, <1>7 DEF Receives

\* on_start offers a new pair.
LEMMA OffersKind ==
    ASSUME Base, NEW f \in Flows, OnStart(f)
    PROVE  ClientTyped' /\ Offers(f)
<1> USE DEF Base
<1>0. UNCHANGED <<now, store, owner, active, tokens, call, held, disturbed, chan, mishap>>
  BY DEF OnStart, clientVars
<1>1. NewPair \in Pairs /\ ExpiresIn \in Nat
  BY DEF OnStart, ExpiresIn
<1>2. /\ offer' \in [Flows -> Data]
      /\ offer'[f].pair = NewPair /\ \A g \in Flows : g # f => offer'[g] = offer[g]
  BY <1>1 DEF OnStart, ClientTyped, Data, TokenData
<1>3. ClientTyped'
  BY <1>0, <1>2, SameCalls, StaysTyped
<1> QED
  BY <1>0, <1>2, <1>3 DEF OnStart, Offers

\* The provider's steps.
LEMMA ProviderKind ==
    ASSUME Base, NEW t \in Requests,
           \/ ProviderFind(t) \/ ProviderRejects(t) \/ ProviderRenews(t)
           \/ ProviderAckLost(t) \/ ProviderFails(t) \/ Lose(t)
    PROVE  ClientTyped' /\ (Accepts(t) \/ Vanishes(t) \/ Renews(t) \/ Refuses(t))
<1> USE DEF Base
<1>0. /\ UNCHANGED <<now, store, owner, offer, active, tokens, call, held, disturbed>>
      /\ ~ProviderAckLost(t) => UNCHANGED mishap
  BY DEF ProviderFind, ProviderRejects, ProviderRenews, ProviderAckLost, ProviderFails, Lose, clientVars
<1>1. ASSUME chan' \in [Requests -> Messages], mishap' \subseteq Flows PROVE ClientTyped'
  BY <1>0, <1>1, SameCalls, StaysTyped
<1>7. mishap \subseteq Flows
  BY DEF ClientTyped
<1>8. CASE ProviderAckLost(t)
  <2>1. chan' \in [Requests -> Messages] /\ Says(t, "rejected", NoPair)
    BY <1>8, MessageSet DEF ProviderAckLost, Answer
  <2>2. /\ NewPair \in Pairs /\ RenewUpdate(t, NewPair)
        /\ mishap' = mishap \cup {renewing[t].flow}
    BY <1>8 DEF ProviderAckLost
  <2>3. renewing[t].flow \in Flows
    BY <2>2 DEF RenewUpdate, Inv, RenewalKnown
  <2>4. ClientTyped'
    BY <1>1, <1>7, <2>1, <2>2, <2>3
  <2> QED
    BY <1>0, <2>1, <2>2, <2>4 DEF Renews
<1>9. SUFFICES ASSUME UNCHANGED mishap, ~ProviderAckLost(t)
               PROVE  ClientTyped' /\ (Accepts(t) \/ Vanishes(t) \/ Renews(t) \/ Refuses(t))
  BY <1>0, <1>8
<1>2. CASE ProviderFind(t)
  <2>1. chan' \in [Requests -> Messages] /\ Says(t, "none", NoPair)
    BY <1>2, MessageSet DEF ProviderFind, Answer, NoMessage
  <2> QED
    BY <1>0, <1>1, <1>2, <1>7, <1>9, <2>1 DEF ProviderFind, Accepts
<1>3. CASE ProviderRejects(t)
  <2>1. chan' \in [Requests -> Messages] /\ Says(t, "rejected", NoPair)
    BY <1>3, MessageSet DEF ProviderRejects, Answer
  <2> QED
    BY <1>0, <1>1, <1>3, <1>7, <1>9, <2>1 DEF ProviderRejects, Vanishes
<1>4. CASE ProviderRenews(t)
  <2>1. chan' \in [Requests -> Messages] /\ Says(t, "response", NewPair)
    BY <1>4, MessageSet DEF ProviderRenews, Answer, ExpiresIn
  <2> QED
    BY <1>0, <1>1, <1>4, <1>7, <1>9, <2>1 DEF ProviderRenews, Renews
<1>5. CASE ProviderFails(t)
  <2>1. chan' \in [Requests -> Messages] /\ Says(t, "rejected", NoPair)
    BY <1>5, MessageSet DEF ProviderFails, Answer
  <2> QED
    BY <1>0, <1>1, <1>5, <1>7, <1>9, <2>1 DEF ProviderFails, Refuses
<1>6. CASE Lose(t)
  <2>1. chan' \in [Requests -> Messages] /\ Says(t, "none", NoPair)
    BY <1>6, MessageSet DEF Lose, Answer, NoMessage
  <2> QED
    BY <1>0, <1>1, <1>6, <1>7, <1>9, <2>1 DEF Lose, Vanishes
<1> QED
  BY <1>2, <1>3, <1>4, <1>5, <1>6, <1>9

\* A step of the consumer and the provider, by its kind.
Step ==
    /\ UNCHANGED <<store, owner>> /\ now \in Nat /\ now' \in Nat /\ now <= now'
    /\ \/ Rests
       \/ \E F \in SUBSET Flows : Drops(F)
       \/ \E f \in Flows : Offers(f) \/ Receives(f) \/ Revokes(f) \/ Expires(f)
       \/ \E t \in Requests :
            \/ \E f \in Flows : Begins(t, f) \/ TakesOffer(t, f)
            \/ Locks(t) \/ Ends(t) \/ Saved(t) \/ Asks(t) \/ Gets(t) \/ LooksUp(t) \/ Replaces(t)
            \/ Leaves(t) \/ Vanishes(t) \/ Accepts(t) \/ Renews(t) \/ Refuses(t)

\* Every step of the specification is one.
LEMMA StepKinds ==
    ASSUME Base, [RefreshNext]_allVars
    PROVE  ClientTyped' /\ Step
<1>1. UNCHANGED <<store, owner>> /\ now \in Nat /\ now' \in Nat /\ now <= now'
  <2>1. UNCHANGED <<store, owner>> /\ (now' = now \/ now' = now + 1)
    BY DEF RefreshNext, allVars, Tick, RemoveTokensAccessedBefore, OnStart, OnStarted,
           ProviderCleanup, ConsumerCleanup, LeaseEnds, GetToken, DeleteToken, BeginSave,
           AcquireLock, SaveUnderLock, Remove, Reread, Refreshed, RefreshRejected, GiveUp,
           UpdateMemory, UpdateVaultRead, UpdateVaultWrite, StoreFails, Crash, Release,
           ProviderFind, ProviderRejects, ProviderRenews, ProviderAckLost, ProviderFails, Lose
  <2>2. now \in Nat
    BY DEF Base, ClientTyped
  <2> QED
    BY <2>1, <2>2
<1>2. CASE UNCHANGED allVars
  <2>1. UNCHANGED <<vars, now, store, owner, offer, active, tokens, call, chan, held, disturbed, mishap>>
    BY <1>2 DEF allVars
  <2>2. ClientTyped' /\ Rests
    BY <2>1 DEF Base, ClientTyped, TokenRecords, Rests, TokensKept
  <2> QED
    BY <1>1, <2>2 DEF Step
<1>3. CASE Tick
  BY <1>1, <1>3, TickKind DEF Step
<1>4. CASE \/ \E cutoff \in 0..now : RemoveTokensAccessedBefore(cutoff)
           \/ \E f \in Flows : ConsumerCleanup(f)
  BY <1>1, <1>4, DropsKind DEF Step
<1>5. ASSUME NEW f \in Flows, OnStart(f) \/ OnStarted(f) \/ LeaseEnds(f)
      PROVE  ClientTyped' /\ Step
  BY <1>1, <1>5, OffersKind, ReceivesKind, ExpiresKind DEF Step
<1>6. ASSUME NEW f \in Flows, ProviderCleanup(f)
      PROVE  ClientTyped' /\ Step
  <2>1. /\ RevokeToken(f)
        /\ UNCHANGED <<now, store, owner, offer, active, tokens, call, held, disturbed, chan, mishap>>
    BY <1>6 DEF ProviderCleanup, clientVars
  <2>2. ClientTyped'
    BY <2>1, SameCalls, StaysTyped DEF Base
  <2>3. Revokes(f)
    BY <2>1 DEF Revokes
  <2> QED
    BY <1>1, <2>2, <2>3 DEF Step
<1>7. ASSUME NEW t \in Requests, NEW f \in Flows,
             GetToken(t, f) \/ DeleteToken(t, f) \/ BeginSave(t, f)
      PROVE  ClientTyped' /\ Step
  BY <1>1, <1>7, BeginKind, TakesOfferKind DEF Step
<1>8. ASSUME NEW t \in Requests,
             AcquireLock(t) \/ SaveUnderLock(t) \/ Remove(t) \/ Reread(t) \/ Refreshed(t)
      PROVE  ClientTyped' /\ Step
  BY <1>1, <1>8, LockKind, SavedKind, RemoveKind, RereadKind, GetsKind DEF Step
<1>9. ASSUME NEW t \in Requests,
             \/ RefreshRejected(t) \/ GiveUp(t)
             \/ UpdateMemory(t) \/ UpdateVaultRead(t) \/ UpdateVaultWrite(t)
             \/ StoreFails(t) \/ Crash(t) \/ Release(t)
      PROVE  ClientTyped' /\ Step
  BY <1>1, <1>9, RejectedKind, GiveUpKind, UpdateKind, CrashKind, LeavesKind DEF Step
<1>10. ASSUME NEW t \in Requests,
              \/ ProviderFind(t) \/ ProviderRejects(t) \/ ProviderRenews(t)
              \/ ProviderAckLost(t) \/ ProviderFails(t) \/ Lose(t)
       PROVE  ClientTyped' /\ Step
  BY <1>1, <1>10, ProviderKind DEF Step
<1> QED
  BY <1>2, <1>3, <1>4, <1>5, <1>6, <1>7, <1>8, <1>9, <1>10 DEF RefreshNext

-----------------------------------------------------------------------------
(* Base is inductive *)

\* The manager takes a step of its own in every step of the whole.
LEMMA ManagerSteps ==
    ASSUME Base, Step
    PROVE  /\ Inv'
           /\ drawn \subseteq drawn' /\ revoked \subseteq revoked'
           /\ \A p \in drawn : origin'[p] = origin[p]
<1>1. [Next]_vars
  <2>1. CASE UNCHANGED vars
    BY <2>1
  <2>2. ASSUME NEW f \in Flows, Offers(f) \/ Revokes(f) PROVE [Next]_vars
    BY <2>2 DEF Offers, Revokes, Next
  <2>3. ASSUME NEW t \in Requests, Accepts(t) PROVE [Next]_vars
    <3> DEFINE p == chan[t].pair
    <3>1. p \in Pairs /\ origin[p] \in Flows
      BY <2>3 DEF Accepts, Base, PairsKnown, Inv, TypeOK
    <3>2. Subject[origin[p]] \in Parties
      BY <3>1, SubjectAssumption
    <3> QED
      BY <2>3, <3>1, <3>2 DEF Accepts, Next
  <2>4. ASSUME NEW t \in Requests, Renews(t) \/ Refuses(t) PROVE [Next]_vars
    BY <2>4 DEF Renews, Refuses, Next
  <2> QED
    BY <2>1, <2>2, <2>3, <2>4
       DEF Step, Rests, Drops, Receives, Expires, Begins, TakesOffer, Locks, Ends, Saved, Asks,
           Gets, LooksUp, Replaces, Leaves, Vanishes
<1> QED
  BY <1>1, ManagerNext, ManagerMonotone DEF Base

\* What the provider's steps do to its state, pair by pair and call by call.
LEMMA OffersDoes ==
    ASSUME Base, NEW f \in Flows, Offers(f)
    PROVE  /\ NewPair \in Pairs /\ NewPair \notin drawn /\ drawn' = drawn \cup {NewPair}
           /\ rows'[NewPair] = f /\ \A p \in Pairs : p # NewPair => rows'[p] = rows[p]
           /\ origin'[NewPair] = f /\ \A p \in Pairs : p # NewPair => origin'[p] = origin[p]
           /\ UNCHANGED <<renewing, renewed, revoked>>
BY DEF Offers, GeneratePair, Save, Base, Inv, TypeOK

\* Effect of a revocation on the provider's state.
LEMMA RevokesDoes ==
    ASSUME Base, NEW f \in Flows, Revokes(f)
    PROVE  /\ \A p \in Pairs : rows'[p] = IF rows[p] = f THEN NoFlow ELSE rows[p]
           /\ revoked' = revoked \cup {p \in drawn : origin[p] = f}
           /\ UNCHANGED <<drawn, renewing, origin, renewed>>
BY DEF Revokes, RevokeToken, RemoveByFlowId, Base, Inv, TypeOK

\* Effect of accepting a request on the provider's state.
LEMMA AcceptsDoes ==
    ASSUME Base, NEW t \in Requests, Accepts(t)
    PROVE  LET p == chan[t].pair IN
           /\ chan[t].kind = "request" /\ p \in Pairs /\ p \in drawn /\ rows[p] = origin[p] /\ rows[p] \in Flows
           /\ renewing'[t].pair = p /\ renewing'[t].flow = origin[p]
           /\ \A u \in Requests : u # t => renewing'[u] = renewing[u]
           /\ UNCHANGED <<rows, drawn, origin, renewed, revoked>>
<1> DEFINE p == chan[t].pair
<1>1. p \in Pairs /\ p \in drawn /\ rows[p] # NoFlow /\ chan[t].kind = "request"
  BY DEF Accepts, RenewFind, Find, Base, PairsKnown, Inv, TypeOK
<1>2. rows[p] = origin[p] /\ rows[p] \in Flows
  BY <1>1 DEF Base, Inv, TypeOK, FlowKept, Valid, Find
<1>3. renewing' = [renewing EXCEPT ![t] = [pair |-> p, flow |-> rows[p]]]
  BY DEF Accepts, RenewFind, Find
<1>4. renewing \in [Requests -> [pair : Pairs \cup {NoPair}, flow : Flows \cup {NoFlow}]]
  BY DEF Base, Inv, TypeOK
<1>5. /\ renewing'[t].pair = p /\ renewing'[t].flow = origin[p]
      /\ \A u \in Requests : u # t => renewing'[u] = renewing[u]
  BY <1>2, <1>3, <1>4
<1> QED
  BY <1>1, <1>2, <1>5 DEF Accepts, RenewFind

\* Effect of a renewal on the provider's state.
LEMMA RenewsDoes ==
    ASSUME Base, NEW t \in Requests, Renews(t)
    PROVE  LET old == renewing[t].pair IN
           /\ NewPair \in Pairs /\ NewPair \notin drawn /\ drawn' = drawn \cup {NewPair}
           /\ renewing[t] # Idle /\ old \in Pairs /\ old \in drawn /\ old \notin revoked
           /\ rows[old] = origin[old] /\ renewing[t].flow = origin[old] /\ rows[old] \in Flows
           /\ \A p \in Pairs : rows'[p] = IF p = NewPair THEN origin[old]
                                          ELSE IF p = old THEN NoFlow ELSE rows[p]
           /\ origin'[NewPair] = origin[old] /\ \A p \in Pairs : p # NewPair => origin'[p] = origin[p]
           /\ renewing'[t] = Idle /\ \A u \in Requests : u # t => renewing'[u] = renewing[u]
           /\ renewed' = renewed \cup {<<old, NewPair>>}
           /\ UNCHANGED revoked
<1> DEFINE old == renewing[t].pair
<1>1. NewPair \in Pairs /\ RenewUpdate(t, NewPair)
  BY DEF Renews
<1>2. /\ renewing[t] # Idle /\ old \in Pairs /\ old \in drawn /\ rows[old] # NoFlow
      /\ renewing[t].flow = origin[old] /\ renewing[t].flow \in Flows /\ NewPair \notin drawn
  BY <1>1 DEF RenewUpdate, Update, Base, Inv, RenewalKnown, TypeOK
<1>3. rows[old] = origin[old] /\ old \notin revoked
  BY <1>2 DEF Base, Inv, FlowKept, RevocationIsFinal, Valid, Find
<1> HIDE DEF NewPair
<1>4. /\ rows' = [rows EXCEPT ![old] = NoFlow, ![NewPair] = renewing[t].flow]
      /\ drawn' = drawn \cup {NewPair}
      /\ renewing' = [renewing EXCEPT ![t] = Idle]
      /\ origin' = [origin EXCEPT ![NewPair] = origin[old]]
      /\ renewed' = renewed \cup {<<old, NewPair>>}
      /\ revoked' = IF old \in revoked THEN revoked \cup {NewPair} ELSE revoked
  BY <1>1 DEF RenewUpdate, Update
<1>5. \A p \in Pairs : rows'[p] = IF p = NewPair THEN origin[old]
                                  ELSE IF p = old THEN NoFlow ELSE rows[p]
  BY <1>1, <1>2, <1>4 DEF Base, Inv, TypeOK
<1>6. origin'[NewPair] = origin[old] /\ \A p \in Pairs : p # NewPair => origin'[p] = origin[p]
  BY <1>1, <1>4 DEF Base, Inv, TypeOK
<1>7. renewing'[t] = Idle /\ \A u \in Requests : u # t => renewing'[u] = renewing[u]
  BY <1>4 DEF Base, Inv, TypeOK
<1> QED
  BY <1>1, <1>2, <1>3, <1>4, <1>5, <1>6, <1>7

\* Effect of a refusal on the provider's state.
LEMMA RefusesDoes ==
    ASSUME Base, NEW t \in Requests, Refuses(t)
    PROVE  /\ renewing[t] # Idle
           /\ renewing'[t] = Idle /\ \A u \in Requests : u # t => renewing'[u] = renewing[u]
           /\ UNCHANGED <<rows, drawn, origin, renewed, revoked>>
BY DEF Refuses, RenewNotFound, RenewAborts, Base, Inv, TypeOK

\* Every step keeps CallsKnown.
LEMMA CallsKnownStep ==
    ASSUME Base, Step
    PROVE  CallsKnown'
<1> USE DEF Base, CallsKnown
<1>1. CASE UNCHANGED call
  BY <1>1
<1>2. ASSUME NEW t \in Requests, NEW phase, phase # "idle", NEW f \in Flows, NEW p, Becomes(t, phase, f, p)
      PROVE  CallsKnown'
  BY <1>2 DEF Becomes
<1>3. ASSUME NEW t \in Requests, NEW f \in Flows, Begins(t, f) \/ TakesOffer(t, f)
      PROVE  CallsKnown'
  BY <1>2, <1>3 DEF Begins, TakesOffer
<1>4. ASSUME NEW t \in Requests, Locks(t)
      PROVE  CallsKnown'
  <2>1. Locked[call[t].phase] # "idle" /\ call[t].phase # "idle"
    BY <1>4 DEF Locks, Locked
  <2> QED
    BY <1>2, <1>4, <2>1 DEF Locks
<1>5. ASSUME NEW t \in Requests,
             Ends(t) \/ Saved(t) \/ Asks(t) \/ Gets(t) \/ LooksUp(t) \/ Replaces(t)
      PROVE  CallsKnown'
  <2>1. call[t].flow \in Flows
    BY <1>5 DEF Ends, Saved, Asks, Gets, LooksUp, Replaces
  <2> QED
    BY <1>2, <1>5, <2>1 DEF Ends, Saved, Asks, Gets, LooksUp, Replaces
<1>6. ASSUME NEW t \in Requests, Leaves(t) PROVE CallsKnown'
  BY <1>6 DEF Leaves, NoCall
<1> QED
  BY <1>1, <1>3, <1>4, <1>5, <1>6
     DEF Step, Rests, Drops, Offers, Receives, Revokes, Expires, Vanishes, Accepts, Renews, Refuses

\* Every step keeps PairsKnown.
LEMMA PairsKnownStep ==
    ASSUME Base, Step
    PROVE  PairsKnown'
<1> DEFINE Known(p, f) == p \in drawn /\ origin[p] = f
<1>1. \A p, f : Known(p, f) => Known(p, f)'
  BY ManagerSteps
<1>2. \A p \in drawn' : origin'[p] \in Flows
  <2>1. CASE drawn' = drawn
    BY <1>1, <2>1 DEF Base, PairsKnown
  <2>2. ASSUME NEW f \in Flows, Offers(f) PROVE \A p \in drawn' : origin'[p] \in Flows
    BY <1>1, <2>2, OffersDoes DEF Base, PairsKnown
  <2>3. ASSUME NEW t \in Requests, Renews(t) PROVE \A p \in drawn' : origin'[p] \in Flows
    BY <1>1, <2>3, RenewsDoes DEF Base, PairsKnown
  <2>4. ASSUME NEW f \in Flows, Revokes(f) PROVE drawn' = drawn
    BY <2>4, RevokesDoes
  <2>5. ASSUME NEW t \in Requests, Accepts(t) \/ Refuses(t) PROVE drawn' = drawn
    BY <2>5, AcceptsDoes, RefusesDoes
  <2> QED
    BY <2>1, <2>2, <2>3, <2>4, <2>5
       DEF Step, Rests, Drops, Receives, Expires, Begins, TakesOffer, Locks, Ends, Saved, Asks,
           Gets, LooksUp, Replaces, Leaves, Vanishes, vars
<1>3. \A f \in Flows : offer'[f] # NoData => Known(offer[f].pair, f)'
  <2>1. CASE UNCHANGED offer
    BY <1>1, <2>1 DEF Base, PairsKnown
  <2>2. ASSUME NEW f \in Flows, Offers(f)
        PROVE  \A g \in Flows : offer'[g] # NoData => Known(offer[g].pair, g)'
    BY <1>1, <2>2, OffersDoes DEF Base, PairsKnown, Offers
  <2>3. ASSUME NEW f \in Flows, offer'[f] = NoData, \A g \in Flows : g # f => offer'[g] = offer[g]
        PROVE  \A g \in Flows : offer'[g] # NoData => Known(offer[g].pair, g)'
    BY <1>1, <2>3 DEF Base, PairsKnown
  <2> QED
    BY <2>1, <2>2, <2>3
       DEF Step, Rests, Drops, Receives, Revokes, Expires, Begins, TakesOffer, Locks, Ends, Saved,
           Asks, Gets, LooksUp, Replaces, Leaves, Vanishes, Accepts, Renews, Refuses
<1>4. \A f \in Flows : tokens'[f] # NoToken => Known(tokens[f].pair, f)'
  <2>0. \A f \in Flows : tokens[f] # NoToken => Known(tokens[f].pair, f)
    BY DEF Base, PairsKnown
  <2>1. CASE \A f \in Flows : \/ tokens'[f] = NoToken
                              \/ tokens'[f].pair = tokens[f].pair /\ tokens[f] # NoToken
    BY <1>1, <2>0, <2>1
  <2>2. CASE TokensKept
    BY <2>1, <2>2 DEF TokensKept
  <2>3. ASSUME NEW f \in Flows, NEW p, Known(p, f), Puts(f, p)
        PROVE  \A g \in Flows : tokens'[g] # NoToken => Known(tokens[g].pair, g)'
    <3>1. Known(p, f)'
      BY <1>1, <2>3
    <3> QED
      BY <1>1, <2>0, <2>3, <3>1 DEF Puts
  <2>4. CASE UNCHANGED tokens
    BY <2>1, <2>4
  <2>5. ASSUME NEW f \in Flows, Receives(f)
        PROVE  \A g \in Flows : tokens'[g] # NoToken => Known(tokens[g].pair, g)'
    <3>1. Known(offer[f].pair, f)
      BY <2>5 DEF Receives, Announced, Base, PairsKnown
    <3> QED
      BY <2>3, <2>5, <3>1 DEF Receives
  <2>6. ASSUME NEW t \in Requests, Saved(t) \/ Replaces(t)
        PROVE  \A g \in Flows : tokens'[g] # NoToken => Known(tokens[g].pair, g)'
    <3>1. Known(call[t].pair, call[t].flow) /\ call[t].flow \in Flows
      BY <2>6 DEF Saved, Replaces, WithPair, Base, PairsKnown, CallsKnown
    <3> QED
      BY <2>3, <2>6, <3>1 DEF Saved, Replaces
  <2>7. ASSUME NEW t \in Requests, Ends(t)
        PROVE  \A g \in Flows : tokens'[g] # NoToken => Known(tokens[g].pair, g)'
    BY <2>1, <2>2, <2>7 DEF Ends
  <2>8. ASSUME NEW F \in SUBSET Flows, Drops(F)
        PROVE  \A g \in Flows : tokens'[g] # NoToken => Known(tokens[g].pair, g)'
    BY <2>1, <2>8 DEF Drops
  <2> QED
    BY <2>2, <2>4, <2>5, <2>6, <2>7, <2>8
       DEF Step, Rests, Offers, Revokes, Expires, Begins, TakesOffer, Locks,
           Asks, Gets, LooksUp, Leaves, Vanishes, Accepts, Renews, Refuses
<1>5. \A t \in Requests : call'[t].phase \in WithPair => Known(call[t].pair, call[t].flow)'
  <2>0. \A t \in Requests : call[t].phase \in WithPair => Known(call[t].pair, call[t].flow)
    BY DEF Base, PairsKnown
  <2>1. CASE UNCHANGED call
    BY <1>1, <2>0, <2>1
  <2>2. ASSUME NEW t \in Requests, NEW phase, NEW f, NEW p, Becomes(t, phase, f, p),
               phase \in WithPair => Known(p, f)
        PROVE  \A u \in Requests : call'[u].phase \in WithPair => Known(call[u].pair, call[u].flow)'
    BY <1>1, <2>0, <2>2 DEF Becomes
  <2>3. ASSUME NEW t \in Requests, NEW f \in Flows, Begins(t, f) \/ TakesOffer(t, f)
        PROVE  \A u \in Requests : call'[u].phase \in WithPair => Known(call[u].pair, call[u].flow)'
    BY <2>2, <2>3 DEF Begins, TakesOffer, Announced, Base, PairsKnown, WithPair
  <2>4. ASSUME NEW t \in Requests, Locks(t)
        PROVE  \A u \in Requests : call'[u].phase \in WithPair => Known(call[u].pair, call[u].flow)'
    <3>1. Locked[call[t].phase] \in WithPair => call[t].phase \in WithPair
      BY <2>4 DEF Locks, Locked, WithPair
    <3> QED
      BY <2>0, <2>2, <2>4, <3>1 DEF Locks
  <2>5. ASSUME NEW t \in Requests, Asks(t)
        PROVE  \A u \in Requests : call'[u].phase \in WithPair => Known(call[u].pair, call[u].flow)'
    <3>1. Known(tokens[call[t].flow].pair, call[t].flow)
      BY <2>5 DEF Asks, Base, PairsKnown, CallsKnown
    <3> QED
      BY <2>2, <2>5, <3>1 DEF Asks
  <2>6. ASSUME NEW t \in Requests, Gets(t)
        PROVE  \A u \in Requests : call'[u].phase \in WithPair => Known(call[u].pair, call[u].flow)'
    <3>1. Known(chan[t].pair, call[t].flow)
      BY <2>6 DEF Gets, Base, PairsKnown, Correlated
    <3> QED
      BY <2>2, <2>6, <3>1 DEF Gets
  <2>7. ASSUME NEW t \in Requests, LooksUp(t)
        PROVE  \A u \in Requests : call'[u].phase \in WithPair => Known(call[u].pair, call[u].flow)'
    BY <2>0, <2>2, <2>7 DEF LooksUp, WithPair
  <2>8. ASSUME NEW t \in Requests, Ends(t) \/ Saved(t) \/ Replaces(t)
        PROVE  \A u \in Requests : call'[u].phase \in WithPair => Known(call[u].pair, call[u].flow)'
    BY <2>2, <2>8 DEF Ends, Saved, Replaces, WithPair
  <2>9. ASSUME NEW t \in Requests, Leaves(t)
        PROVE  \A u \in Requests : call'[u].phase \in WithPair => Known(call[u].pair, call[u].flow)'
    BY <1>1, <2>0, <2>9 DEF Leaves, NoCall, WithPair
  <2> QED
    BY <2>1, <2>3, <2>4, <2>5, <2>6, <2>7, <2>8, <2>9
       DEF Step, Rests, Drops, Offers, Receives, Revokes, Expires, Vanishes, Accepts, Renews, Refuses
<1>6. \A t \in Requests : chan'[t].kind \in {"request", "response"} => chan'[t].pair \in drawn'
  <2>0. /\ \A t \in Requests : chan[t].kind \in {"request", "response"} => chan[t].pair \in drawn
        /\ drawn \subseteq drawn'
    BY ManagerSteps DEF Base, PairsKnown
  <2>1. CASE UNCHANGED chan
    BY <2>0, <2>1
  <2>2. ASSUME NEW t \in Requests, NEW kind, NEW p, Says(t, kind, p),
               kind \in {"request", "response"} => p \in drawn'
        PROVE  \A u \in Requests : chan'[u].kind \in {"request", "response"} => chan'[u].pair \in drawn'
    BY <2>0, <2>2 DEF Says
  <2>3. ASSUME NEW t \in Requests, Asks(t) PROVE tokens[call[t].flow].pair \in drawn'
    BY <2>0, <2>3 DEF Asks, Base, PairsKnown, CallsKnown
  <2>4. ASSUME NEW t \in Requests, Renews(t) PROVE NewPair \in drawn'
    BY <2>4, RenewsDoes
  <2> QED
    BY <2>1, <2>2, <2>3, <2>4
       DEF Step, Rests, Drops, Offers, Receives, Revokes, Expires, Begins, TakesOffer, Locks, Ends,
           Saved, Asks, Gets, LooksUp, Replaces, Leaves, Vanishes, Accepts, Renews, Refuses
<1> QED
  BY <1>2, <1>3, <1>4, <1>5, <1>6 DEF PairsKnown, NoData, NoToken, TokenData

\* Every step keeps Correlated.
LEMMA CorrelatedStep ==
    ASSUME Base, Step
    PROVE  Correlated'
<1> DEFINE Corr(t) ==
             /\ chan[t].kind # "none" => renewing[t] = Idle
             /\ call[t].phase \notin {"idle", "refresh", "returned", "crashed"} =>
                    chan[t].kind = "none" /\ renewing[t] = Idle
             /\ call[t].phase = "refresh" =>
                    /\ chan[t].kind \in {"request", "response"} => origin[chan[t].pair] = call[t].flow
                    /\ renewing[t] # Idle => renewing[t].flow = call[t].flow
           Same(t) == call'[t] = call[t] /\ chan'[t] = chan[t] /\ renewing'[t] = renewing[t]
<1>1. \A t \in Requests : Corr(t)
  BY DEF Base, Correlated
<1>2. SUFFICES \A t \in Requests : Corr(t)'
  BY DEF Correlated
<1>3. \A p \in drawn : origin'[p] = origin[p]
  BY ManagerSteps
<1>4. \A t \in Requests : Same(t) => Corr(t)'
  BY <1>1, <1>3 DEF Base, PairsKnown
<1>5. CASE UNCHANGED <<call, chan, renewing>>
  BY <1>4, <1>5
<1>6. ASSUME NEW f \in Flows, Offers(f) \/ Revokes(f) PROVE UNCHANGED <<call, chan, renewing>>
  BY <1>6, OffersDoes, RevokesDoes DEF Offers, Revokes
<1>7. ASSUME NEW t \in Requests, NEW f \in Flows, Begins(t, f) \/ TakesOffer(t, f)
      PROVE  \A u \in Requests : Corr(u)'
  <2>1. UNCHANGED <<chan, renewing>> /\ chan[t].kind = "none" /\ renewing[t] = Idle
    BY <1>7 DEF Begins, TakesOffer, vars
  <2>2. \A u \in Requests : u # t => Same(u)
    BY <1>7, <2>1 DEF Begins, TakesOffer, Becomes
  <2> QED
    BY <1>4, <2>1, <2>2
<1>8. ASSUME NEW t \in Requests, Locks(t) \/ LooksUp(t)
      PROVE  \A u \in Requests : Corr(u)'
  <2>1. UNCHANGED <<chan, renewing>> /\ chan[t].kind = "none" /\ renewing[t] = Idle
    BY <1>1, <1>8 DEF Locks, Locked, LooksUp, vars
  <2>2. \A u \in Requests : u # t => Same(u)
    BY <1>8, <2>1 DEF Locks, LooksUp, Becomes
  <2> QED
    BY <1>4, <2>1, <2>2
<1>9. ASSUME NEW t \in Requests, Ends(t) \/ Saved(t) \/ Replaces(t)
      PROVE  \A u \in Requests : Corr(u)'
  <2>1. /\ chan' = chan \/ (Says(t, "none", NoPair) /\ chan[t].kind = "rejected")
        /\ renewing' = renewing
        /\ \E phase \in {"returned", "crashed"}, p \in Pairs \cup {NoPair} :
              Becomes(t, phase, call[t].flow, p)
    BY <1>9 DEF Ends, Saved, Replaces, vars
  <2>2. \A u \in Requests : u # t => Same(u)
    BY <2>1 DEF Says, Becomes
  <2>3. Corr(t)'
    BY <1>1, <2>1 DEF Says, Becomes
  <2> QED
    BY <1>4, <2>2, <2>3
<1>10. ASSUME NEW t \in Requests, Asks(t)
       PROVE  \A u \in Requests : Corr(u)'
  <2>1. renewing' = renewing /\ renewing[t] = Idle
    BY <1>1, <1>10 DEF Asks, vars
  <2>2. \A u \in Requests : u # t => Same(u)
    BY <1>10, <2>1 DEF Asks, Says, Becomes
  <2>3. origin'[tokens[call[t].flow].pair] = call[t].flow
    BY <1>3, <1>10 DEF Asks, Base, PairsKnown, CallsKnown
  <2>4. Corr(t)'
    BY <1>10, <2>1, <2>3 DEF Asks, Says, Becomes
  <2> QED
    BY <1>4, <2>2, <2>4
<1>11. ASSUME NEW t \in Requests, Gets(t)
       PROVE  \A u \in Requests : Corr(u)'
  <2>1. renewing' = renewing /\ renewing[t] = Idle
    BY <1>1, <1>11 DEF Gets, vars
  <2>2. \A u \in Requests : u # t => Same(u)
    BY <1>11, <2>1 DEF Gets, Says, Becomes
  <2>3. Corr(t)'
    BY <1>11, <2>1 DEF Gets, Says, Becomes
  <2> QED
    BY <1>4, <2>2, <2>3
<1>12. ASSUME NEW t \in Requests, Leaves(t)
       PROVE  \A u \in Requests : Corr(u)'
  <2>1. UNCHANGED <<chan, renewing>>
    BY <1>12 DEF Leaves, vars
  <2>2. \A u \in Requests : u # t => Same(u)
    BY <1>12, <2>1 DEF Leaves
  <2>3. Corr(t)'
    BY <1>1, <1>12, <2>1 DEF Leaves, NoCall
  <2> QED
    BY <1>4, <2>2, <2>3
<1>13. ASSUME NEW t \in Requests, Vanishes(t)
       PROVE  \A u \in Requests : Corr(u)'
  <2>1. renewing' = renewing /\ renewing[t] = Idle
    BY <1>1, <1>13 DEF Vanishes, vars
  <2>2. \A u \in Requests : u # t => Same(u)
    BY <1>13, <2>1 DEF Vanishes, Says
  <2>3. Corr(t)'
    BY <1>1, <1>13, <2>1 DEF Vanishes, Says
  <2> QED
    BY <1>4, <2>2, <2>3
<1>14. ASSUME NEW t \in Requests, Accepts(t)
       PROVE  \A u \in Requests : Corr(u)'
  <2>1. \A u \in Requests : u # t => Same(u)
    BY <1>14, AcceptsDoes DEF Accepts, Says
  <2>2. call'[t] = call[t] /\ chan[t].kind = "request" /\ chan'[t].kind = "none"
    BY <1>14 DEF Accepts, Says
  <2>3. renewing'[t].flow = origin[chan[t].pair]
    BY <1>14, AcceptsDoes
  <2>4. Corr(t)'
    BY <1>1, <2>2, <2>3
  <2> QED
    BY <1>4, <2>1, <2>4
<1>15. ASSUME NEW t \in Requests, Renews(t) \/ Refuses(t)
       PROVE  \A u \in Requests : Corr(u)'
  <2>1. \A u \in Requests : u # t => Same(u)
    BY <1>15, RenewsDoes, RefusesDoes DEF Renews, Refuses, Says
  <2>2. /\ call'[t] = call[t] /\ renewing[t] # Idle /\ renewing'[t] = Idle
        /\ chan'[t].kind \in {"response", "rejected"}
        /\ chan'[t].kind = "response" => chan'[t].pair = NewPair /\ origin'[NewPair] = renewing[t].flow
    BY <1>15, RenewsDoes, RefusesDoes DEF Renews, Refuses, Says
  <2>3. Corr(t)'
    BY <1>1, <2>2
  <2> QED
    BY <1>4, <2>1, <2>3
<1> QED
  BY <1>5, <1>6, <1>7, <1>8, <1>9, <1>10, <1>11, <1>12, <1>13, <1>14, <1>15
     DEF Step, Rests, Drops, Receives, Expires, vars

\* Base is inductive.
LEMMA BaseInit == Fresh => Base
<1> SUFFICES ASSUME Fresh PROVE Base
  OBVIOUS
<1>1. Inv
  BY ManagerInit DEF Fresh
<1>2. NoData \in Data /\ NoToken \in TokenRecords /\ NoCall \in CallRecord /\ NoMessage \in Messages
  BY DEF Fresh, NoData, TokenData, Data, NoToken, TokenRecords, NoCall, CallRecord, NoMessage,
         Message, Messages
<1>3. ClientTyped
  BY <1>2 DEF Fresh, ClientTyped
<1>4. /\ drawn = {} /\ renewing = [t \in Requests |-> Idle]
      /\ offer = [f \in Flows |-> NoData] /\ tokens = [f \in Flows |-> NoToken]
      /\ call = [t \in Requests |-> NoCall] /\ chan = [t \in Requests |-> NoMessage]
  BY DEF Fresh, Init, InitStore
<1>5. CallsKnown /\ PairsKnown
  BY <1>4 DEF CallsKnown, PairsKnown, NoCall, WithPair, NoMessage, Message
<1>6. Correlated
  BY <1>4 DEF Correlated, NoCall, NoMessage, Message
<1> QED
  BY <1>1, <1>3, <1>5, <1>6 DEF Base

\* Every step keeps Base, and is one of the kinds.
LEMMA BaseStep ==
    ASSUME Base, [RefreshNext]_allVars
    PROVE  Base' /\ Step
BY StepKinds, ManagerSteps, CallsKnownStep, PairsKnownStep, CorrelatedStep DEF Base

\* Type correctness of the consumer and the provider together.
THEOREM RefreshTypeCorrect == RefreshSpec => []RefreshTypeOK
<1>1. Base => RefreshTypeOK
  BY DEF Base, Inv, ClientTyped, RefreshTypeOK, TokenRecords, CallRecord, Messages
<1>2. Base /\ [RefreshNext]_allVars => Base'
  BY BaseStep
<1> QED
  BY <1>1, <1>2, BaseInit, PTL DEF RefreshSpec

-----------------------------------------------------------------------------
(* The lock *)

\* Phases that follow lock().
UnderLock == {"reread", "remove", "saving", "refresh", "update", "write"}

\* Calls past lock() have their guard, unless a lease ended, and guards of a flow have
\* one owner.
LockTaken ==
    /\ \A t \in Requests : call[t].phase \in UnderLock => t \in held \/ call[t].flow \in disturbed
    /\ \A t, u \in held : call[t].flow = call[u].flow => owner[t] = owner[u]

\* Every step keeps LockTaken.
LEMMA LockTakenStep ==
    ASSUME Base, Step, LockTaken
    PROVE  LockTaken'
<1> USE DEF LockTaken
<1>0. owner' = owner /\ held \subseteq {t \in Requests : call[t].flow \in Flows}
  BY DEF Step, Base, ClientTyped
<1>1. CASE UNCHANGED <<call, held, disturbed>>
  BY <1>0, <1>1
<1>2. ASSUME NEW t \in Requests, NEW f \in Flows, Begins(t, f) \/ TakesOffer(t, f)
      PROVE  LockTaken'
  <2>1. t \notin held
    BY <1>0, <1>2 DEF Begins, TakesOffer, NoCall
  <2>2. UNCHANGED <<held, disturbed>> /\ call'[t].phase \notin UnderLock
    BY <1>2 DEF Begins, TakesOffer, Becomes, UnderLock
  <2>3. \A u \in Requests : u # t => call'[u] = call[u]
    BY <1>2 DEF Begins, TakesOffer, Becomes
  <2> QED
    BY <1>0, <2>1, <2>2, <2>3
<1>3. ASSUME NEW t \in Requests, Locks(t)
      PROVE  LockTaken'
  <2>1. /\ call'[t].flow = call[t].flow /\ \A u \in Requests : u # t => call'[u] = call[u]
        /\ held' = held \cup {t} /\ disturbed' = disturbed
        /\ \A u \in held : call[u].flow = call[t].flow => owner[u] = owner[t]
    BY <1>3 DEF Locks, Becomes, Blocked
  <2> QED
    BY <1>0, <2>1
<1>4. ASSUME NEW t \in Requests,
             Ends(t) \/ Saved(t) \/ Asks(t) \/ Gets(t) \/ LooksUp(t) \/ Replaces(t)
      PROVE  LockTaken'
  <2>1. /\ call'[t].flow = call[t].flow /\ \A u \in Requests : u # t => call'[u] = call[u]
        /\ UNCHANGED <<held, disturbed>>
        /\ call'[t].phase \in UnderLock => call[t].phase \in UnderLock
    BY <1>4 DEF Ends, Saved, Asks, Gets, LooksUp, Replaces, Becomes, UnderLock
  <2> QED
    BY <1>0, <2>1
<1>5. ASSUME NEW t \in Requests, Leaves(t)
      PROVE  LockTaken'
  <2>1. /\ call'[t].phase \notin UnderLock /\ \A u \in Requests : u # t => call'[u] = call[u]
        /\ held' = held \ {t}
        /\ \A u \in Requests : u # t /\ call[u].flow \in disturbed => call[u].flow \in disturbed'
    BY <1>5 DEF Leaves, NoCall, UnderLock
  <2> QED
    BY <1>0, <2>1
<1>6. ASSUME NEW f \in Flows, Expires(f)
      PROVE  LockTaken'
  BY <1>0, <1>6 DEF Expires
<1> QED
  BY <1>1, <1>2, <1>3, <1>4, <1>5, <1>6
     DEF Step, Rests, Drops, Offers, Receives, Revokes, Vanishes, Accepts, Renews, Refuses

-----------------------------------------------------------------------------
(* The memory store after a cleanup *)

\* With the memory store there is no gap between reading and writing a record, and a
\* record is there only while its flow is active.
KeptWhileActive ==
    store = "memory" => /\ \A t \in Requests : call[t].phase # "write"
                        /\ \A f \in Flows : tokens[f] # NoToken => f \in active

\* Every step keeps KeptWhileActive.
LEMMA KeptWhileActiveStep ==
    ASSUME Base, Step, KeptWhileActive
    PROVE  KeptWhileActive'
<1> SUFFICES ASSUME store = "memory"
             PROVE  /\ \A t \in Requests : call'[t].phase # "write"
                    /\ \A f \in Flows : tokens'[f] # NoToken => f \in active'
  BY DEF Step, KeptWhileActive, NoToken
<1>0. /\ \A t \in Requests : call[t].phase # "write"
      /\ \A f \in Flows : tokens[f] # NoToken => f \in active
  BY DEF KeptWhileActive
<1>1. \A t \in Requests : call'[t].phase # "write"
  <2>1. CASE UNCHANGED call
    BY <1>0, <2>1
  <2>2. ASSUME NEW t \in Requests, NEW phase, phase # "write", NEW f, NEW p, Becomes(t, phase, f, p)
        PROVE  \A u \in Requests : call'[u].phase # "write"
    BY <1>0, <2>2 DEF Becomes
  <2>3. ASSUME NEW t \in Requests, Locks(t)
        PROVE  \A u \in Requests : call'[u].phase # "write"
    <3>1. Locked[call[t].phase] # "write"
      BY <2>3 DEF Locks, Locked
    <3> QED
      BY <2>2, <2>3, <3>1 DEF Locks
  <2>4. ASSUME NEW t \in Requests, Leaves(t)
        PROVE  \A u \in Requests : call'[u].phase # "write"
    BY <1>0, <2>4 DEF Leaves, NoCall
  <2> QED
    BY <2>1, <2>2, <2>3, <2>4
       DEF Step, Rests, Drops, Offers, Receives, Revokes, Expires, Begins, TakesOffer, Ends, Saved,
           Asks, Gets, LooksUp, Replaces, Vanishes, Accepts, Renews, Refuses
<1>2. \A f \in Flows : tokens'[f] # NoToken => f \in active'
  <2>1. CASE active' = active /\ TokensKept
    BY <1>0, <2>1 DEF TokensKept
  <2>2. CASE UNCHANGED <<tokens, active>>
    BY <1>0, <2>2
  <2>3. ASSUME NEW F \in SUBSET Flows, Drops(F)
        PROVE  \A f \in Flows : tokens'[f] # NoToken => f \in active'
    BY <1>0, <2>3 DEF Drops
  <2>4. ASSUME NEW f \in Flows, NEW p, Puts(f, p), f \in active', active \subseteq active'
        PROVE  \A g \in Flows : tokens'[g] # NoToken => g \in active'
    BY <1>0, <2>4 DEF Puts
  <2>5. ASSUME NEW t \in Requests, Saved(t) \/ Replaces(t)
        PROVE  \A f \in Flows : tokens'[f] # NoToken => f \in active'
    <3>1. call[t].flow \in Flows
      BY <2>5 DEF Saved, Replaces, Base, CallsKnown
    <3> QED
      BY <1>0, <2>4, <2>5, <3>1 DEF Saved, Replaces
  <2>6. ASSUME NEW t \in Requests, Ends(t)
        PROVE  \A f \in Flows : tokens'[f] # NoToken => f \in active'
    BY <1>0, <2>1, <2>6 DEF Ends
  <2> QED
    BY <2>1, <2>2, <2>3, <2>4, <2>5, <2>6
       DEF Step, Rests, Offers, Receives, Revokes, Expires, Begins, TakesOffer, Locks,
           Asks, Gets, LooksUp, Leaves, Vanishes, Accepts, Renews, Refuses
<1> QED
  BY <1>1, <1>2

\* With the memory store a token that was removed when its flow was suspended or
\* terminated does not come back, whatever refresh was under way.
THEOREM CleanupIsFinal == RefreshSpec => []MemoryCleanupIsFinal
<1>1. Fresh => KeptWhileActive
  BY DEF Fresh, KeptWhileActive, NoCall
<1>2. KeptWhileActive => MemoryCleanupIsFinal
  BY DEF KeptWhileActive, MemoryCleanupIsFinal, NoTokenAfterCleanup
<1>3. Base /\ KeptWhileActive /\ [RefreshNext]_allVars => Base' /\ KeptWhileActive'
  BY BaseStep, KeptWhileActiveStep
<1> QED
  BY <1>1, <1>2, <1>3, BaseInit, PTL DEF RefreshSpec

-----------------------------------------------------------------------------
(* What becomes of a pair *)

\* A flow with a pair that was not revoked has a row.
AliveUnlessRevoked ==
    \A p \in drawn : p \notin revoked => \E q \in Pairs : rows[q] = origin[p]

\* A pair is valid, or was revoked or renewed.
Accounted ==
    \A p \in drawn : Valid(p) \/ p \in revoked \/ \E x \in renewed : x[1] = p

\* Every step keeps AliveUnlessRevoked and Accounted.
LEMMA ManagerAccounts ==
    ASSUME Base, Step, AliveUnlessRevoked, Accounted
    PROVE  AliveUnlessRevoked' /\ Accounted'
<1> USE DEF AliveUnlessRevoked, Accounted, Valid, Find
<1>0. drawn \subseteq Pairs
  BY DEF Base, Inv, TypeOK
<1>1. CASE UNCHANGED <<rows, drawn, origin, renewed, revoked>>
  BY <1>1
<1>2. ASSUME NEW f \in Flows, Offers(f) PROVE AliveUnlessRevoked' /\ Accounted'
  <2> HIDE DEF NewPair
  <2>1. /\ NewPair \in Pairs /\ NewPair \notin drawn /\ drawn' = drawn \cup {NewPair}
        /\ rows'[NewPair] = f /\ \A p \in Pairs : p # NewPair => rows'[p] = rows[p]
        /\ origin'[NewPair] = f /\ \A p \in Pairs : p # NewPair => origin'[p] = origin[p]
        /\ UNCHANGED <<renewed, revoked>>
    BY <1>2, OffersDoes
  <2>2. rows[NewPair] = NoFlow
    BY <2>1 DEF Base, Inv, Undrawn
  <2>3. \A p \in drawn : origin[p] \in Flows
    BY DEF Base, PairsKnown
  <2>4. AliveUnlessRevoked'
    BY <1>0, <2>1, <2>2, <2>3
  <2>5. Accounted'
    BY <1>0, <2>1
  <2> QED
    BY <2>4, <2>5
<1>3. ASSUME NEW f \in Flows, Revokes(f) PROVE AliveUnlessRevoked' /\ Accounted'
  <2>1. /\ \A p \in Pairs : rows'[p] = IF rows[p] = f THEN NoFlow ELSE rows[p]
        /\ revoked' = revoked \cup {p \in drawn : origin[p] = f}
        /\ UNCHANGED <<drawn, origin, renewed>>
    BY <1>3, RevokesDoes
  <2>2. AliveUnlessRevoked'
    BY <1>0, <2>1
  <2>3. \A p \in drawn : rows[p] # NoFlow => rows[p] = origin[p]
    BY <1>0 DEF Base, Inv, FlowKept
  <2>4. Accounted'
    BY <1>0, <2>1, <2>3
  <2> QED
    BY <2>2, <2>4
<1>4. ASSUME NEW t \in Requests, Renews(t) PROVE AliveUnlessRevoked' /\ Accounted'
  <2> DEFINE old == renewing[t].pair
  <2> HIDE DEF NewPair
  <2>1. /\ NewPair \in Pairs /\ NewPair \notin drawn /\ drawn' = drawn \cup {NewPair}
        /\ old \in Pairs /\ old \in drawn /\ rows[old] = origin[old] /\ rows[old] \in Flows
        /\ \A p \in Pairs : rows'[p] = IF p = NewPair THEN origin[old]
                                       ELSE IF p = old THEN NoFlow ELSE rows[p]
        /\ origin'[NewPair] = origin[old] /\ \A p \in Pairs : p # NewPair => origin'[p] = origin[p]
        /\ renewed' = renewed \cup {<<old, NewPair>>}
        /\ UNCHANGED revoked
    BY <1>4, RenewsDoes DEF NewPair
  <2>2. \A p \in drawn : rows[p] = NoFlow => rows'[p] = NoFlow
    BY <1>0, <2>1
  <2>3. ASSUME NEW p \in drawn', p \notin revoked' PROVE \E q \in Pairs : rows'[q] = origin'[p]
    <3>1. CASE origin'[p] = origin[old]
      BY <2>1, <3>1
    <3>2. CASE origin'[p] # origin[old]
      <4>1. p # NewPair /\ p \in drawn /\ origin'[p] = origin[p]
        BY <1>0, <2>1, <2>3, <3>2
      <4>2. PICK q \in Pairs : rows[q] = origin[p]
        BY <2>1, <2>3, <4>1
      <4>3. q # old /\ q # NewPair
        BY <2>1, <3>2, <4>1, <4>2 DEF Base, Inv, Undrawn, PairsKnown
      <4> QED
        BY <2>1, <4>1, <4>2, <4>3
    <3> QED
      BY <3>1, <3>2
  <2>4. ASSUME NEW p \in drawn'
        PROVE  rows'[p] # NoFlow \/ p \in revoked' \/ \E x \in renewed' : x[1] = p
    <3>1. CASE p = NewPair
      BY <2>1, <3>1
    <3>2. CASE p = old
      <4>1. <<old, NewPair>> \in renewed' /\ <<old, NewPair>>[1] = p
        BY <2>1, <3>2
      <4> QED
        BY <4>1
    <3>3. CASE p # NewPair /\ p # old
      BY <1>0, <2>1, <2>4, <3>3
    <3> QED
      BY <3>1, <3>2, <3>3
  <2> QED
    BY <2>3, <2>4
<1>5. ASSUME NEW t \in Requests, Accepts(t) \/ Refuses(t)
      PROVE  UNCHANGED <<rows, drawn, origin, renewed, revoked>>
  BY <1>5, AcceptsDoes, RefusesDoes
<1> QED
  BY <1>1, <1>2, <1>3, <1>4, <1>5
     DEF Step, Rests, Drops, Receives, Expires, Begins, TakesOffer, Locks, Ends, Saved, Asks,
         Gets, LooksUp, Replaces, Leaves, Vanishes, vars

-----------------------------------------------------------------------------
(* Where a pair is *)

\* A pair on its way to the consumer's store is in one of these hands ...
AtOffer(f, p) == offer[f] # NoData /\ offer[f].pair = p
AtCall(t, p) == call[t].phase \in {"save", "saving", "update", "write"} /\ call[t].pair = p
AtAnswer(t, p) == chan[t].kind = "response" /\ chan[t].pair = p

\* ... and is used once it has been stored.
Used(p) ==
    \/ \E f \in Flows : tokens[f].pair = p
    \/ \E t \in Requests : chan[t].kind = "request" /\ chan[t].pair = p
    \/ \E t \in Requests : renewing[t].pair = p
    \/ \E x \in renewed : x[1] = p

\* A pair is in one hand at most, and is not used while it is in a hand.
Unshared ==
    \A p \in drawn :
        /\ \A f \in Flows : AtOffer(f, p) =>
              ~Used(p) /\ \A t \in Requests : ~AtCall(t, p) /\ ~AtAnswer(t, p)
        /\ \A t \in Requests : AtCall(t, p) =>
              ~Used(p) /\ \A u \in Requests : ~AtAnswer(u, p) /\ (AtCall(u, p) => u = t)
        /\ \A t \in Requests : AtAnswer(t, p) =>
              ~Used(p) /\ \A u \in Requests : AtAnswer(u, p) => u = t

\* A pair that was not drawn is nowhere.
LEMMA UndrawnIsNowhere ==
    ASSUME Base, NEW p \in Pairs, p \notin drawn
    PROVE  /\ ~Used(p)
           /\ \A f \in Flows : ~AtOffer(f, p)
           /\ \A t \in Requests : ~AtCall(t, p) /\ ~AtAnswer(t, p)
<1>1. \A f \in Flows : tokens[f].pair # p
  BY DEF Base, PairsKnown, NoToken
<1>2. \A t \in Requests : renewing[t].pair # p
  BY DEF Base, Inv, RenewalKnown, Idle
<1>3. \A x \in renewed : x[1] # p
  BY DEF Base, Inv, Undrawn
<1> QED
  BY <1>1, <1>2, <1>3 DEF Base, PairsKnown, WithPair, Used, AtOffer, AtCall, AtAnswer

\* An offer of a pair is for the flow of its chain.
LEMMA OfferOfOrigin ==
    ASSUME Base, NEW p \in drawn, NEW f \in Flows, NEW g \in Flows, AtOffer(f, p), AtOffer(g, p)
    PROVE  f = g
BY DEF Base, PairsKnown, AtOffer

\* In a step in which no pair goes to another hand.
LEMMA UnsharedShrinks ==
    ASSUME Unshared, drawn' = drawn,
           \A p \in drawn :
               /\ Used(p)' => Used(p)
               /\ \A f \in Flows : AtOffer(f, p)' => AtOffer(f, p)
               /\ \A t \in Requests : AtCall(t, p)' => AtCall(t, p)
               /\ \A t \in Requests : AtAnswer(t, p)' => AtAnswer(t, p)
    PROVE  Unshared'
<1> SUFFICES ASSUME NEW p \in drawn
             PROVE  /\ \A f \in Flows : AtOffer(f, p)' =>
                          ~Used(p)' /\ \A t \in Requests : ~AtCall(t, p)' /\ ~AtAnswer(t, p)'
                    /\ \A t \in Requests : AtCall(t, p)' =>
                          ~Used(p)' /\ \A u \in Requests : ~AtAnswer(u, p)' /\ (AtCall(u, p)' => u = t)
                    /\ \A t \in Requests : AtAnswer(t, p)' =>
                          ~Used(p)' /\ \A u \in Requests : AtAnswer(u, p)' => u = t
  BY DEF Unshared
<1> QED
  BY DEF Unshared

\* Steps that change neither the records nor what the provider knows do not use a pair.
LEMMA UsesNothing ==
    ASSUME Base, UNCHANGED <<renewing, renewed, drawn>>,
           \A f \in Flows : tokens'[f].pair = tokens[f].pair \/ tokens'[f] = NoToken,
           \A t \in Requests : chan'[t].kind = "request" => chan'[t] = chan[t],
           NEW p \in drawn
    PROVE  Used(p)' => Used(p)
<1>1. p # NoPair
  BY DEF Base, Inv, TypeOK
<1> QED
  BY <1>1 DEF Used, NoToken

\* Every step keeps Unshared.
LEMMA UnsharedStep ==
    ASSUME Base, Base', Step, Unshared
    PROVE  Unshared'
<1> DEFINE Hands(p) == /\ \A f \in Flows : AtOffer(f, p)' => AtOffer(f, p)
                       /\ \A t \in Requests : AtCall(t, p)' => AtCall(t, p)
                       /\ \A t \in Requests : AtAnswer(t, p)' => AtAnswer(t, p)
<1>0. drawn \subseteq Pairs
  BY DEF Base, Inv, TypeOK
<1>1. CASE Rests \/ \E F \in SUBSET Flows : Drops(F)
  <2>1. UNCHANGED <<renewing, renewed, drawn, offer, call, chan>>
    BY <1>1 DEF Rests, Drops, vars
  <2>2. \A f \in Flows : tokens'[f].pair = tokens[f].pair \/ tokens'[f] = NoToken
    BY <1>1 DEF Rests, Drops, TokensKept
  <2>3. \A p \in drawn : (Used(p)' => Used(p)) /\ Hands(p)
    BY <2>1, <2>2, UsesNothing DEF AtOffer, AtCall, AtAnswer
  <2> QED
    BY <2>1, <2>3, UnsharedShrinks
<1>2. ASSUME NEW f \in Flows, Revokes(f) \/ Expires(f) PROVE Unshared'
  <2>1. UNCHANGED <<renewing, renewed, drawn, offer, call, chan, tokens>>
    BY <1>2, RevokesDoes DEF Revokes, Expires, vars
  <2>2. \A p \in drawn : (Used(p)' => Used(p)) /\ Hands(p)
    BY <2>1 DEF AtOffer, AtCall, AtAnswer, Used
  <2> QED
    BY <2>1, <2>2, UnsharedShrinks
<1>3. ASSUME NEW t \in Requests, NEW f \in Flows, Begins(t, f) PROVE Unshared'
  <2>1. UNCHANGED <<renewing, renewed, drawn, offer, chan>>
    BY <1>3 DEF Begins, vars
  <2>2. \A p \in drawn : Hands(p)
    BY <1>3, <2>1 DEF Begins, Becomes, AtOffer, AtCall, AtAnswer
  <2>3. \A p \in drawn : Used(p)' => Used(p)
    BY <1>3, <2>1, UsesNothing DEF Begins, TokensKept
  <2> QED
    BY <2>1, <2>2, <2>3, UnsharedShrinks
<1>4. ASSUME NEW t \in Requests, Locks(t) \/ LooksUp(t) \/ Leaves(t) PROVE Unshared'
  <2>1. UNCHANGED <<renewing, renewed, drawn, offer, chan, tokens>>
    BY <1>4 DEF Locks, LooksUp, Leaves, vars
  <2>2. \A p \in drawn : Hands(p)
    BY <1>4, <2>1 DEF Locks, Locked, LooksUp, Leaves, NoCall, Becomes, AtOffer, AtCall, AtAnswer
  <2>3. \A p \in drawn : Used(p)' => Used(p)
    BY <2>1 DEF Used
  <2> QED
    BY <2>1, <2>2, <2>3, UnsharedShrinks
<1>5. ASSUME NEW t \in Requests, Ends(t) PROVE Unshared'
  <2>1. UNCHANGED <<renewing, renewed, drawn, offer>>
    BY <1>5 DEF Ends, vars
  <2>2. \A u \in Requests : chan'[u].kind \in {"request", "response"} => chan'[u] = chan[u]
    BY <1>5 DEF Ends, Says
  <2>3. \A g \in Flows : tokens'[g].pair = tokens[g].pair \/ tokens'[g] = NoToken
    BY <1>5 DEF Ends, TokensKept
  <2>4. \A p \in drawn : Hands(p)
    BY <1>5, <2>1, <2>2 DEF Ends, Becomes, AtOffer, AtCall, AtAnswer
  <2>5. \A p \in drawn : Used(p)' => Used(p)
    BY <2>1, <2>2, <2>3, UsesNothing
  <2> QED
    BY <2>1, <2>4, <2>5, UnsharedShrinks
<1>6. ASSUME NEW t \in Requests, Asks(t) PROVE Unshared'
  <2>1. UNCHANGED <<renewing, renewed, drawn, offer>>
    BY <1>6 DEF Asks, vars
  <2>2. \A p \in drawn : Hands(p)
    BY <1>6, <2>1 DEF Asks, Says, Becomes, AtOffer, AtCall, AtAnswer
  <2>3. call[t].flow \in Flows /\ TokensKept
    BY <1>6 DEF Asks, Base, CallsKnown
  <2>4. \A p \in drawn : Used(p)' => Used(p)
    BY <1>6, <2>1, <2>3 DEF Asks, Says, Used, TokensKept
  <2> QED
    BY <2>1, <2>2, <2>4, UnsharedShrinks
<1>7. ASSUME NEW t \in Requests, Vanishes(t) PROVE Unshared'
  <2>1. UNCHANGED <<renewing, renewed, drawn, offer, call, tokens>>
    BY <1>7 DEF Vanishes, vars
  <2>2. \A u \in Requests : chan'[u].kind \in {"request", "response"} => chan'[u] = chan[u]
    BY <1>7 DEF Vanishes, Says
  <2>3. \A p \in drawn : Hands(p) /\ (Used(p)' => Used(p))
    BY <2>1, <2>2 DEF Used, AtOffer, AtCall, AtAnswer
  <2> QED
    BY <2>1, <2>3, UnsharedShrinks
<1>8. ASSUME NEW t \in Requests, Accepts(t) \/ Refuses(t) PROVE Unshared'
  <2>1. UNCHANGED <<renewed, drawn, offer, call, tokens>>
    BY <1>8, AcceptsDoes, RefusesDoes DEF Accepts, Refuses
  <2>2. \A u \in Requests : chan'[u].kind \in {"request", "response"} => chan'[u] = chan[u]
    BY <1>8 DEF Accepts, Refuses, Says
  <2>3. \A u \in Requests : \/ renewing'[u].pair = renewing[u].pair
                            \/ renewing'[u].pair = NoPair
                            \/ chan[u].kind = "request" /\ renewing'[u].pair = chan[u].pair
    BY <1>8, AcceptsDoes, RefusesDoes DEF Idle
  <2>4. \A p \in drawn : Hands(p)
    BY <2>1, <2>2 DEF AtOffer, AtCall, AtAnswer
  <2>5. \A p \in drawn : Used(p)' => Used(p)
    BY <1>0, <2>1, <2>2, <2>3 DEF Used
  <2> QED
    BY <2>1, <2>4, <2>5, UnsharedShrinks
<1>9. ASSUME NEW t \in Requests, NEW f \in Flows, TakesOffer(t, f) PROVE Unshared'
  <2>1. /\ UNCHANGED <<renewing, renewed, drawn, chan, tokens>>
        /\ AtOffer(f, offer[f].pair) /\ offer[f].pair \in drawn
    BY <1>9 DEF TakesOffer, vars, Announced, AtOffer, Base, PairsKnown
  <2>2. \A p \in drawn : /\ Used(p)' => Used(p)
                         /\ \A u \in Requests : AtAnswer(u, p)' => AtAnswer(u, p)
    BY <2>1 DEF Used, AtAnswer
  <2>3. \A p \in drawn, u \in Requests :
            AtCall(u, p)' => IF u = t THEN p = offer[f].pair ELSE AtCall(u, p)
    BY <1>9 DEF TakesOffer, Becomes, AtCall
  <2>4. \A p \in drawn, g \in Flows : AtOffer(g, p)' => AtOffer(g, p) /\ p # offer[f].pair
    <3>1. \A p \in drawn, g \in Flows : AtOffer(g, p)' => AtOffer(g, p) /\ g # f
      BY <1>9 DEF TakesOffer, AtOffer
    <3> QED
      BY <2>1, <3>1, OfferOfOrigin
  <2> QED
    BY <2>1, <2>2, <2>3, <2>4 DEF Unshared
<1>10. ASSUME NEW f \in Flows, Receives(f) PROVE Unshared'
  <2>1. /\ UNCHANGED <<renewing, renewed, drawn, call, chan>>
        /\ AtOffer(f, offer[f].pair) /\ offer[f].pair \in drawn
    BY <1>10 DEF Receives, vars, Announced, AtOffer, Base, PairsKnown
  <2>2. \A p \in drawn, u \in Requests : /\ AtAnswer(u, p)' => AtAnswer(u, p)
                                         /\ AtCall(u, p)' => AtCall(u, p)
    BY <2>1 DEF AtCall, AtAnswer
  <2>3. \A p \in drawn : Used(p)' => Used(p) \/ p = offer[f].pair
    BY <1>10, <2>1 DEF Receives, Puts, Used
  <2>4. \A p \in drawn, g \in Flows : AtOffer(g, p)' => AtOffer(g, p) /\ p # offer[f].pair
    <3>1. \A p \in drawn, g \in Flows : AtOffer(g, p)' => AtOffer(g, p) /\ g # f
      BY <1>10 DEF Receives, AtOffer
    <3> QED
      BY <2>1, <3>1, OfferOfOrigin
  <2> QED
    BY <2>1, <2>2, <2>3, <2>4 DEF Unshared
<1>11. ASSUME NEW t \in Requests, Saved(t) \/ Replaces(t) PROVE Unshared'
  <2>1. /\ UNCHANGED <<renewing, renewed, drawn, offer, chan>>
        /\ AtCall(t, call[t].pair) /\ call[t].pair \in drawn
    BY <1>11 DEF Saved, Replaces, vars, AtCall, WithPair, Base, PairsKnown
  <2>2. \A p \in drawn : /\ \A u \in Requests : AtAnswer(u, p)' => AtAnswer(u, p)
                         /\ \A f \in Flows : AtOffer(f, p)' => AtOffer(f, p)
    BY <2>1 DEF AtOffer, AtAnswer
  <2>3. Puts(call[t].flow, call[t].pair)
    BY <1>11 DEF Saved, Replaces
  <2>4. \A p \in drawn : Used(p)' => Used(p) \/ p = call[t].pair
    BY <2>1, <2>3 DEF Puts, Used
  <2>5. \A p \in drawn, u \in Requests : AtCall(u, p)' => AtCall(u, p) /\ u # t
    BY <1>11 DEF Saved, Replaces, Becomes, AtCall
  <2> QED
    BY <2>1, <2>2, <2>4, <2>5 DEF Unshared
<1>12. ASSUME NEW t \in Requests, Gets(t) PROVE Unshared'
  <2>1. /\ UNCHANGED <<renewing, renewed, drawn, offer, tokens>>
        /\ AtAnswer(t, chan[t].pair) /\ chan[t].pair \in drawn
    BY <1>12 DEF Gets, vars, AtAnswer, Base, PairsKnown
  <2>2. \A p \in drawn : /\ Used(p)' => Used(p)
                         /\ \A f \in Flows : AtOffer(f, p)' => AtOffer(f, p)
    BY <1>12, <2>1 DEF Gets, Says, Used, AtOffer
  <2>3. \A p \in drawn, u \in Requests : AtAnswer(u, p)' => AtAnswer(u, p) /\ u # t
    BY <1>12 DEF Gets, Says, AtAnswer
  <2>4. \A p \in drawn, u \in Requests :
            AtCall(u, p)' => IF u = t THEN p = chan[t].pair ELSE AtCall(u, p)
    BY <1>12 DEF Gets, Becomes, AtCall
  <2> QED
    BY <2>1, <2>2, <2>3, <2>4 DEF Unshared
<1>13. ASSUME NEW f \in Flows, Offers(f) PROVE Unshared'
  <2> HIDE DEF NewPair
  <2>1. /\ UNCHANGED <<renewing, renewed, call, chan, tokens>>
        /\ NewPair \in Pairs /\ NewPair \notin drawn /\ drawn' = drawn \cup {NewPair}
    BY <1>13, OffersDoes DEF Offers
  <2>2. \A p \in drawn' : /\ Used(p)' <=> Used(p)
                          /\ \A u \in Requests : /\ AtAnswer(u, p)' <=> AtAnswer(u, p)
                                                 /\ AtCall(u, p)' <=> AtCall(u, p)
    BY <2>1 DEF Used, AtCall, AtAnswer
  <2>3. \A p \in drawn', g \in Flows : AtOffer(g, p)' => AtOffer(g, p) \/ p = NewPair
    BY <1>13 DEF Offers, AtOffer
  <2>4. ~Used(NewPair) /\ \A u \in Requests : ~AtCall(u, NewPair) /\ ~AtAnswer(u, NewPair)
    BY <2>1, UndrawnIsNowhere
  <2> QED
    BY <2>1, <2>2, <2>3, <2>4 DEF Unshared
<1>14. ASSUME NEW t \in Requests, Renews(t) PROVE Unshared'
  <2> DEFINE old == renewing[t].pair
  <2> HIDE DEF NewPair
  <2>1. /\ UNCHANGED <<call, tokens, offer>>
        /\ NewPair \in Pairs /\ NewPair \notin drawn /\ drawn' = drawn \cup {NewPair}
        /\ renewing'[t] = Idle /\ \A u \in Requests : u # t => renewing'[u] = renewing[u]
        /\ renewed' = renewed \cup {<<old, NewPair>>}
    BY <1>14, RenewsDoes DEF Renews, NewPair
  <2>2. \A p \in drawn' : Used(p)' => Used(p)
    <3>1. \A x \in renewed' : x \in renewed \/ x[1] = old
      BY <2>1
    <3>2. \A u \in Requests : renewing'[u].pair = renewing[u].pair \/ renewing'[u].pair = NoPair
      BY <2>1 DEF Idle
    <3>3. \A u \in Requests : chan'[u].kind = "request" => chan'[u] = chan[u]
      BY <1>14 DEF Renews, Says
    <3>4. \A p \in drawn' : p # NoPair
      BY <1>0, <2>1
    <3> QED
      BY <2>1, <3>1, <3>2, <3>3, <3>4 DEF Used
  <2>3. \A p \in drawn' : /\ \A u \in Requests : AtCall(u, p)' <=> AtCall(u, p)
                          /\ \A f \in Flows : AtOffer(f, p)' <=> AtOffer(f, p)
    BY <2>1 DEF AtCall, AtOffer
  <2>4. \A p \in drawn', u \in Requests :
            AtAnswer(u, p)' => IF u = t THEN p = NewPair ELSE AtAnswer(u, p)
    BY <1>14 DEF Renews, Says, AtAnswer
  <2>5. /\ ~Used(NewPair)
        /\ \A f \in Flows : ~AtOffer(f, NewPair)
        /\ \A u \in Requests : ~AtCall(u, NewPair) /\ ~AtAnswer(u, NewPair)
    BY <2>1, UndrawnIsNowhere
  <2> QED
    BY <2>1, <2>2, <2>3, <2>4, <2>5 DEF Unshared
<1> QED
  BY <1>1, <1>2, <1>3, <1>4, <1>5, <1>6, <1>7, <1>8, <1>9, <1>10, <1>11, <1>12, <1>13, <1>14
     DEF Step

-----------------------------------------------------------------------------
(* A flow that starts again *)

\* One save_token at a time for a flow: the consumer handles its events one by one.
OneSaving ==
    \A t, u \in Requests : Saving(t) /\ Saving(u) /\ call[t].flow = call[u].flow => t = u

\* While a flow starts, all its pairs but the ones of this start are revoked.
OnlyOffered ==
    /\ \A f \in Flows, p \in drawn :
          offer[f] # NoData /\ origin[p] = f /\ p # offer[f].pair => p \in revoked
    /\ \A t \in Requests, p \in drawn :
          /\ Saving(t) /\ origin[p] = call[t].flow
          /\ p # call[t].pair /\ p # offer[call[t].flow].pair
          => p \in revoked

\* Every step keeps OneSaving.
LEMMA OneSavingStep ==
    ASSUME Base, Step, OneSaving
    PROVE  OneSaving'
<1> USE DEF OneSaving, Saving
<1>1. CASE UNCHANGED call
  BY <1>1
<1>2. ASSUME NEW t \in Requests, \A u \in Requests : u # t => call'[u] = call[u],
             call'[t].phase \in {"save", "saving"} =>
                 call[t].phase \in {"save", "saving"} /\ call'[t].flow = call[t].flow
      PROVE  OneSaving'
  BY <1>2
<1>3. ASSUME NEW t \in Requests, NEW f \in Flows, TakesOffer(t, f) PROVE OneSaving'
  BY <1>3 DEF TakesOffer, Becomes, Announced
<1>4. ASSUME NEW t \in Requests,
             \/ \E f \in Flows : Begins(t, f)
             \/ Ends(t) \/ Saved(t) \/ Asks(t) \/ Gets(t) \/ LooksUp(t) \/ Replaces(t)
      PROVE  OneSaving'
  BY <1>2, <1>4 DEF Begins, Ends, Saved, Asks, Gets, LooksUp, Replaces, Becomes
<1>5. ASSUME NEW t \in Requests, Locks(t) PROVE OneSaving'
  BY <1>2, <1>5 DEF Locks, Locked, Becomes
<1>6. ASSUME NEW t \in Requests, Leaves(t) PROVE OneSaving'
  BY <1>2, <1>6 DEF Leaves, NoCall
<1> QED
  BY <1>1, <1>3, <1>4, <1>5, <1>6
     DEF Step, Rests, Drops, Offers, Receives, Revokes, Expires, Vanishes, Accepts, Renews, Refuses

\* Every step keeps OnlyOffered.
LEMMA OnlyOfferedStep ==
    ASSUME Base, Step, AliveUnlessRevoked, Unshared, OnlyOffered
    PROVE  OnlyOffered'
<1> USE DEF OnlyOffered, Saving
<1>0. /\ drawn \subseteq Pairs /\ revoked \subseteq revoked'
      /\ \A p \in drawn : origin'[p] = origin[p] /\ p # NoPair
  BY ManagerSteps DEF Base, Inv, TypeOK
<1>1. ASSUME UNCHANGED <<drawn, offer>>,
             \A t \in Requests : call'[t].phase \in {"save", "saving"} =>
                 /\ call[t].phase \in {"save", "saving"}
                 /\ call'[t].flow = call[t].flow /\ call'[t].pair = call[t].pair
      PROVE  OnlyOffered'
  BY <1>0, <1>1
<1>2. ASSUME NEW f \in Flows, Revokes(f) \/ Expires(f) PROVE OnlyOffered'
  BY <1>1, <1>2, RevokesDoes DEF Revokes, Expires, vars
<1>3. CASE Rests \/ \E F \in SUBSET Flows : Drops(F)
  BY <1>1, <1>3 DEF Rests, Drops, vars
<1>4. ASSUME NEW t \in Requests,
             \/ \E f \in Flows : Begins(t, f)
             \/ Ends(t) \/ Saved(t) \/ Asks(t) \/ Gets(t) \/ LooksUp(t) \/ Replaces(t)
      PROVE  OnlyOffered'
  BY <1>1, <1>4 DEF Begins, Ends, Saved, Asks, Gets, LooksUp, Replaces, Becomes, vars
<1>5. ASSUME NEW t \in Requests, Locks(t) PROVE OnlyOffered'
  BY <1>1, <1>5 DEF Locks, Locked, Becomes, vars
<1>6. ASSUME NEW t \in Requests, Leaves(t) PROVE OnlyOffered'
  BY <1>1, <1>6 DEF Leaves, NoCall, vars
<1>7. ASSUME NEW t \in Requests, Vanishes(t) \/ Accepts(t) \/ Refuses(t) PROVE OnlyOffered'
  BY <1>1, <1>7, AcceptsDoes, RefusesDoes DEF Vanishes, Accepts, Refuses, vars
<1>8. ASSUME NEW f \in Flows, Receives(f) PROVE OnlyOffered'
  <2>1. /\ UNCHANGED <<drawn, call>> /\ Announced(f)
        /\ offer'[f] = NoData /\ \A g \in Flows : g # f => offer'[g] = offer[g]
    BY <1>8 DEF Receives, vars
  <2>2. \A t \in Requests : Saving(t) => call[t].flow \in Flows /\ call[t].flow # f
    BY <2>1 DEF Announced, Base, CallsKnown
  <2> QED
    BY <1>0, <2>1, <2>2
<1>9. ASSUME NEW t \in Requests, NEW f \in Flows, TakesOffer(t, f) PROVE OnlyOffered'
  <2>1. /\ UNCHANGED drawn /\ offer[f] # NoData
        /\ offer'[f] = NoData /\ \A g \in Flows : g # f => offer'[g] = offer[g]
        /\ call'[t].flow = f /\ call'[t].pair = offer[f].pair
        /\ \A u \in Requests : u # t => call'[u] = call[u]
    BY <1>9 DEF TakesOffer, Becomes, Announced, vars
  <2>2. \A u \in Requests : Saving(u) => call[u].flow \in Flows /\ call[u].flow # f
    BY <1>9 DEF TakesOffer, Announced, Base, CallsKnown
  <2>3. \A g \in Flows, p \in drawn' :
            offer'[g] # NoData /\ origin'[p] = g /\ p # offer'[g].pair => p \in revoked'
    BY <1>0, <2>1
  <2>4. \A p \in drawn' : origin'[p] = f /\ p # call'[t].pair => p \in revoked'
    BY <1>0, <2>1
  <2>5. \A u \in Requests, p \in drawn' :
            u # t /\ Saving(u)' /\ origin'[p] = call'[u].flow
              /\ p # call'[u].pair /\ p # offer'[call'[u].flow].pair => p \in revoked'
    BY <1>0, <2>1, <2>2
  <2> QED
    BY <2>1, <2>3, <2>4, <2>5
<1>10. ASSUME NEW f \in Flows, Offers(f) PROVE OnlyOffered'
  <2> HIDE DEF NewPair
  <2>1. /\ NewPair \in Pairs /\ NewPair \notin drawn /\ drawn' = drawn \cup {NewPair}
        /\ origin'[NewPair] = f /\ UNCHANGED call
        /\ offer'[f].pair = NewPair /\ \A g \in Flows : g # f => offer'[g] = offer[g]
    BY <1>10, OffersDoes DEF Offers
  <2>2. \A p \in drawn : origin[p] = f => p \in revoked
    BY <1>10 DEF Offers, RowsOf, AliveUnlessRevoked
  <2>3. \A t \in Requests : Saving(t) => call[t].flow \in Flows
    BY DEF Base, CallsKnown
  <2> QED
    BY <1>0, <2>1, <2>2, <2>3
<1>11. ASSUME NEW t \in Requests, Renews(t) PROVE OnlyOffered'
  <2> DEFINE old == renewing[t].pair
  <2> HIDE DEF NewPair
  <2>1. /\ NewPair \in Pairs /\ NewPair \notin drawn /\ drawn' = drawn \cup {NewPair}
        /\ old \in drawn /\ old \notin revoked /\ origin[old] \in Flows
        /\ origin'[NewPair] = origin[old] /\ UNCHANGED <<call, offer>>
    BY <1>11, RenewsDoes DEF Renews
  <2>2. Used(old)
    BY DEF Used
  <2>3. offer[origin[old]] = NoData
    <3>1. offer[origin[old]] # NoData => AtOffer(origin[old], old)
      BY <2>1 DEF AtOffer
    <3> QED
      BY <2>1, <2>2, <3>1 DEF Unshared
  <2>4. \A u \in Requests : Saving(u) => call[u].flow # origin[old]
    <3>1. ASSUME NEW u \in Requests, Saving(u), call[u].flow = origin[old] PROVE AtCall(u, old)
      BY <1>0, <2>1, <2>3, <3>1 DEF AtCall, NoData, TokenData
    <3> QED
      BY <2>1, <2>2, <3>1 DEF Unshared
  <2> QED
    BY <1>0, <2>1, <2>3, <2>4
<1> QED
  BY <1>2, <1>3, <1>4, <1>5, <1>6, <1>7, <1>8, <1>9, <1>10, <1>11 DEF Step

\* A mishap is over when the flow starts again: its used pairs are revoked.
LEMMA MishapOver ==
    ASSUME Base, Step, Unshared, OnlyOffered,
           NEW p \in drawn, Used(p), origin[p] \in mishap, origin[p] \notin mishap'
    PROVE  p \in revoked
<1>1. ASSUME NEW f \in Flows, Receives(f) PROVE p \in revoked
  <2>1. origin[p] = f /\ offer[f] # NoData
    BY <1>1 DEF Receives, Announced
  <2>2. p # offer[f].pair
    BY <2>1 DEF Unshared, AtOffer
  <2> QED
    BY <2>1, <2>2 DEF OnlyOffered
<1>2. ASSUME NEW t \in Requests, Saved(t) PROVE p \in revoked
  <2>1. origin[p] = call[t].flow /\ Saving(t) /\ call[t].flow \in Flows /\ p # NoPair
    BY <1>2 DEF Saved, Saving, Base, CallsKnown, Inv, TypeOK
  <2>2. p # call[t].pair
    BY <2>1 DEF Unshared, AtCall, Saving
  <2>3. p # offer[call[t].flow].pair
    BY <2>1 DEF Unshared, AtOffer, NoData, TokenData
  <2> QED
    BY <2>1, <2>2, <2>3 DEF OnlyOffered
<1> QED
  BY <1>1, <1>2
     DEF Step, Rests, Drops, Offers, Revokes, Expires, Begins, TakesOffer, Locks, Ends, Asks, Gets,
         LooksUp, Replaces, Replacing, Leaves, Vanishes, Accepts, Renews, Refuses

\* A pair that is not valid does not become so.
LEMMA ValidShrinks ==
    ASSUME Base, Step, NEW p \in drawn, Valid(p)'
    PROVE  Valid(p) /\ p \notin revoked
<1> USE DEF Valid, Find
<1>0. p \in Pairs
  BY DEF Base, Inv, TypeOK
<1>1. Valid(p)
  <2>1. ASSUME NEW f \in Flows, Offers(f) \/ Revokes(f) PROVE Valid(p)
    BY <1>0, <2>1, OffersDoes, RevokesDoes
  <2>2. ASSUME NEW t \in Requests, Renews(t) PROVE Valid(p)
    <3> HIDE DEF NewPair
    <3>1. /\ NewPair \notin drawn
          /\ \A q \in Pairs : rows'[q] = IF q = NewPair THEN origin[renewing[t].pair]
                                         ELSE IF q = renewing[t].pair THEN NoFlow ELSE rows[q]
      BY <2>2, RenewsDoes
    <3> QED
      BY <1>0, <3>1
  <2>3. ASSUME NEW t \in Requests, Accepts(t) \/ Refuses(t) PROVE Valid(p)
    BY <2>3, AcceptsDoes, RefusesDoes
  <2> QED
    BY <2>1, <2>2, <2>3
       DEF Step, Rests, Drops, Receives, Expires, Begins, TakesOffer, Locks, Ends, Saved, Asks,
           Gets, LooksUp, Replaces, Leaves, Vanishes, vars
<1> QED
  BY <1>0, <1>1 DEF Base, Inv, RevocationIsFinal

-----------------------------------------------------------------------------
(* The renewable pair *)

\* A renewal that nobody waits for can still succeed at the provider, which makes a
\* mishap of it.
Abandoned ==
    \A t \in Requests : call[t].phase # "refresh" =>
        /\ chan[t].kind = "request" /\ Valid(chan[t].pair) => origin[chan[t].pair] \in mishap
        /\ renewing[t] # Idle /\ Valid(renewing[t].pair) => renewing[t].flow \in mishap

\* Where requests and renewals come from, and when they are left alone.
LEMMA RequestMoves ==
    ASSUME Base, Step, NEW t \in Requests, call'[t].phase # "refresh"
    PROVE  /\ chan'[t].kind = "request" => chan'[t] = chan[t]
           /\ renewing'[t] # Idle =>
                 \/ renewing'[t] = renewing[t]
                 \/ /\ chan[t].kind = "request" /\ call'[t] = call[t]
                    /\ renewing'[t].pair = chan[t].pair /\ renewing'[t].flow = origin[chan[t].pair]
           /\ call[t].phase = "refresh" =>
                 \/ chan'[t].kind # "request" /\ renewing'[t] = Idle
                 \/ call[t].flow \in mishap' /\ renewing' = renewing /\ chan' = chan
<1>1. CASE UNCHANGED <<call, chan, renewing>>
  BY <1>1
<1>2. ASSUME NEW f \in Flows, Offers(f) \/ Revokes(f) PROVE UNCHANGED <<call, chan, renewing>>
  BY <1>2, OffersDoes, RevokesDoes DEF Offers, Revokes
<1>3. ASSUME NEW u \in Requests, call[u].phase # "refresh", UNCHANGED <<chan, renewing>>,
             \A v \in Requests : v # u => call'[v] = call[v]
      PROVE  /\ chan'[t] = chan[t] /\ renewing'[t] = renewing[t]
             /\ call[t].phase # "refresh"
  BY <1>3
<1>4. ASSUME NEW u \in Requests, NEW f \in Flows, Begins(u, f) \/ TakesOffer(u, f)
      PROVE  /\ chan'[t] = chan[t] /\ renewing'[t] = renewing[t]
             /\ call[t].phase # "refresh"
  BY <1>3, <1>4 DEF Begins, TakesOffer, Becomes, NoCall, vars
<1>5. ASSUME NEW u \in Requests, Locks(u) \/ Saved(u) \/ LooksUp(u) \/ Replaces(u) \/ Leaves(u)
      PROVE  /\ chan'[t] = chan[t] /\ renewing'[t] = renewing[t]
             /\ call[t].phase # "refresh"
  BY <1>3, <1>5 DEF Locks, Locked, Saved, LooksUp, Replaces, Leaves, Becomes, vars
<1>6. ASSUME NEW u \in Requests, Ends(u)
      PROVE  /\ chan'[t].kind = "request" => chan'[t] = chan[t]
             /\ renewing' = renewing
             /\ call[t].phase = "refresh" =>
                 \/ chan'[t].kind # "request" /\ renewing'[t] = Idle
                 \/ call[t].flow \in mishap' /\ chan' = chan
  <2>1. renewing' = renewing
    BY <1>6 DEF Ends, vars
  <2>2. u # t => call[t].phase # "refresh"
    BY <1>6 DEF Ends, Becomes
  <2>3. chan'[t].kind = "request" => chan'[t] = chan[t]
    BY <1>6 DEF Ends, Says
  <2>4. chan[u].kind = "rejected" => renewing[u] = Idle /\ chan'[u].kind # "request"
    BY <1>6 DEF Ends, Says, Base, Correlated
  <2>5. call[u].phase = "refresh" => \/ chan[u].kind = "rejected"
                                     \/ call[u].flow \in mishap' /\ chan' = chan
    BY <1>6 DEF Ends, WithPair
  <2> QED
    BY <2>1, <2>2, <2>3, <2>4, <2>5
<1>7. ASSUME NEW u \in Requests, Asks(u)
      PROVE  chan'[t] = chan[t] /\ renewing'[t] = renewing[t] /\ call[t].phase # "refresh"
  BY <1>7 DEF Asks, Becomes, Says, vars
<1>8. ASSUME NEW u \in Requests, Gets(u)
      PROVE  /\ chan'[t].kind = "request" => chan'[t] = chan[t]
             /\ renewing' = renewing
             /\ call[t].phase = "refresh" => chan'[t].kind # "request" /\ renewing'[t] = Idle
  BY <1>8 DEF Gets, Becomes, Says, vars, Base, Correlated
<1>9. ASSUME NEW u \in Requests, Vanishes(u)
      PROVE  /\ chan'[t].kind = "request" => chan'[t] = chan[t]
             /\ UNCHANGED <<renewing, call>>
  BY <1>9 DEF Vanishes, Says, vars
<1>10. ASSUME NEW u \in Requests, Accepts(u)
       PROVE  /\ chan'[t].kind = "request" => chan'[t] = chan[t]
              /\ UNCHANGED call
              /\ \/ renewing'[t] = renewing[t]
                 \/ /\ chan[t].kind = "request"
                    /\ renewing'[t].pair = chan[t].pair /\ renewing'[t].flow = origin[chan[t].pair]
  BY <1>10, AcceptsDoes DEF Accepts, Says
<1>11. ASSUME NEW u \in Requests, Renews(u) \/ Refuses(u)
       PROVE  /\ chan'[t].kind = "request" => chan'[t] = chan[t]
              /\ UNCHANGED call
              /\ renewing'[t] = renewing[t] \/ renewing'[t] = Idle
  BY <1>11, RenewsDoes, RefusesDoes DEF Renews, Refuses, Says
<1> QED
  BY <1>1, <1>2, <1>4, <1>5, <1>6, <1>7, <1>8, <1>9, <1>10, <1>11
     DEF Step, Rests, Drops, Receives, Expires, vars

\* Every step keeps Abandoned.
LEMMA AbandonedStep ==
    ASSUME Base, Base', Step, Unshared, OnlyOffered, Abandoned
    PROVE  Abandoned'
<1> SUFFICES ASSUME NEW t \in Requests, call'[t].phase # "refresh"
             PROVE  /\ chan'[t].kind = "request" /\ Valid(chan[t].pair)' =>
                           origin'[chan'[t].pair] \in mishap'
                    /\ renewing'[t] # Idle /\ Valid(renewing[t].pair)' => renewing'[t].flow \in mishap'
  BY DEF Abandoned
<1>0. \A p \in drawn : origin'[p] = origin[p]
  BY ManagerSteps
<1>1. \A p \in drawn : Valid(p)' => Valid(p)
  BY ValidShrinks
<1>2. \A p \in drawn : Used(p) /\ Valid(p)' /\ origin[p] \in mishap => origin[p] \in mishap'
  BY MishapOver, ValidShrinks
<1>3. /\ chan[t].kind = "request" => chan[t].pair \in drawn /\ Used(chan[t].pair)
      /\ renewing[t] # Idle => /\ renewing[t].pair \in drawn /\ Used(renewing[t].pair)
                               /\ renewing[t].flow = origin[renewing[t].pair]
  BY DEF Base, PairsKnown, Inv, RenewalKnown, Used
<1>4. /\ call[t].phase = "refresh" /\ chan[t].kind = "request" => origin[chan[t].pair] = call[t].flow
      /\ call[t].phase = "refresh" /\ renewing[t] # Idle => renewing[t].flow = call[t].flow
  BY DEF Base, Correlated
<1>5. chan'[t].kind = "request" /\ Valid(chan[t].pair)' => origin'[chan'[t].pair] \in mishap'
  <2> SUFFICES ASSUME chan'[t].kind = "request", Valid(chan[t].pair)'
               PROVE  origin'[chan'[t].pair] \in mishap'
    OBVIOUS
  <2>1. chan'[t] = chan[t]
    BY RequestMoves
  <2>2. Valid(chan[t].pair) /\ origin'[chan'[t].pair] = origin[chan[t].pair]
    BY <1>0, <1>1, <1>3, <2>1 DEF Valid, Find
  <2>3. CASE call[t].phase = "refresh"
    BY <1>4, <2>1, <2>2, <2>3, RequestMoves
  <2>4. CASE call[t].phase # "refresh"
    BY <1>2, <1>3, <2>1, <2>2, <2>4 DEF Abandoned, Valid, Find
  <2> QED
    BY <2>3, <2>4
<1>6. renewing'[t] # Idle /\ Valid(renewing[t].pair)' => renewing'[t].flow \in mishap'
  <2> SUFFICES ASSUME renewing'[t] # Idle, Valid(renewing[t].pair)'
               PROVE  renewing'[t].flow \in mishap'
    OBVIOUS
  <2>1. CASE renewing'[t] = renewing[t]
    <3>1. Valid(renewing[t].pair)
      BY <1>1, <1>3, <2>1 DEF Valid, Find
    <3>2. CASE call[t].phase = "refresh"
      BY <1>4, <2>1, <3>2, RequestMoves
    <3>3. CASE call[t].phase # "refresh"
      BY <1>2, <1>3, <2>1, <3>1, <3>3 DEF Abandoned, Valid, Find
    <3> QED
      BY <3>2, <3>3
  <2>2. CASE /\ chan[t].kind = "request" /\ call'[t] = call[t]
             /\ renewing'[t].pair = chan[t].pair /\ renewing'[t].flow = origin[chan[t].pair]
    BY <1>1, <1>2, <1>3, <2>2 DEF Abandoned, Valid, Find
  <2> QED
    BY <2>1, <2>2, RequestMoves
<1> QED
  BY <1>5, <1>6

\* p is stored for its flow or on its way into the store.
Kept(p) ==
    \/ tokens[origin[p]].pair = p
    \/ AtOffer(origin[p], p)
    \/ \E t \in Requests : AtCall(t, p) \/ (call[t].phase = "refresh" /\ AtAnswer(t, p))
    \/ origin[p] \in mishap

\* RenewablePairKept, in terms of the hands.
LEMMA KeptIsRenewable ==
    ASSUME Base
    PROVE  RenewablePairKept <=> \A p \in drawn : Valid(p) => Kept(p)
<1>1. \A p \in Pairs : Valid(p) => p \in drawn
  BY DEF Base, Inv, Undrawn, Valid, Find
<1>2. drawn \subseteq Pairs /\ \A p \in drawn : origin[p] \in Flows /\ p # NoPair
  BY DEF Base, PairsKnown, Inv, TypeOK
<1>3. \A p \in drawn : offer[origin[p]].pair = p <=> AtOffer(origin[p], p)
  BY <1>2 DEF AtOffer, NoData, TokenData
<1>4. \A p \in drawn, t \in Requests :
          /\ AtCall(t, p) => call[t].flow = origin[p]
          /\ call[t].phase = "refresh" /\ AtAnswer(t, p) => call[t].flow = origin[p]
  BY DEF Base, PairsKnown, Correlated, WithPair, AtCall, AtAnswer
<1>5. \A p \in drawn :
        Kept(p) <=>
            \/ tokens[origin[p]].pair = p \/ offer[origin[p]].pair = p
            \/ \E t \in Requests :
                 /\ call[t].flow = origin[p]
                 /\ \/ call[t].phase \in {"update", "write", "save", "saving"} /\ call[t].pair = p
                    \/ call[t].phase = "refresh" /\ chan[t].kind = "response" /\ chan[t].pair = p
            \/ origin[p] \in mishap
  BY <1>3, <1>4 DEF Kept, AtCall, AtAnswer
<1> QED
  BY <1>1, <1>2, <1>5 DEF RenewablePairKept

\* The pair that a renewal brings is kept.
LEMMA NewIsKept ==
    ASSUME Base, Base', Step, Abandoned, NEW p \in drawn', p \notin drawn
    PROVE  Kept(p)'
<1>1. ASSUME NEW f \in Flows, Offers(f) PROVE Kept(p)'
  <2>1. p = NewPair /\ origin'[p] = f /\ offer'[f].pair = p /\ p # NoPair
    BY <1>1, OffersDoes DEF Offers
  <2> QED
    BY <2>1 DEF Kept, AtOffer, NoData, TokenData
<1>2. ASSUME NEW t \in Requests, Renews(t) PROVE Kept(p)'
  <2>1. p = NewPair /\ origin'[p] = renewing[t].flow /\ renewing[t] # Idle /\ Valid(renewing[t].pair)
    BY <1>2, RenewsDoes DEF Valid, Find
  <2>0. CASE renewing[t].flow \in mishap'
    BY <2>0, <2>1 DEF Kept
  <2>2. \/ chan'[t].kind = "response" /\ chan'[t].pair = p /\ UNCHANGED mishap
        \/ renewing[t].flow \in mishap'
    BY <1>2, <2>1 DEF Renews, Says
  <2>5. UNCHANGED call
    BY <1>2 DEF Renews
  <2>3. CASE call[t].phase = "refresh"
    BY <2>0, <2>2, <2>3, <2>5 DEF Kept, AtAnswer
  <2>4. CASE call[t].phase # "refresh"
    BY <2>0, <2>1, <2>2, <2>4 DEF Abandoned, Kept
  <2> QED
    BY <2>3, <2>4
<1>3. ASSUME NEW f \in Flows, Revokes(f) PROVE drawn' = drawn
  BY <1>3, RevokesDoes
<1>4. ASSUME NEW t \in Requests, Accepts(t) \/ Refuses(t) PROVE drawn' = drawn
  BY <1>4, AcceptsDoes, RefusesDoes
<1> QED
  BY <1>1, <1>2, <1>3, <1>4
     DEF Step, Rests, Drops, Receives, Expires, Begins, TakesOffer, Locks, Ends, Saved, Asks,
         Gets, LooksUp, Replaces, Leaves, Vanishes, vars

\* A valid pair stays in its place or goes to the next, unless there is a mishap.
LEMMA KeptStep ==
    ASSUME Base, Base', Step, OnlyOffered, NEW p \in drawn, Valid(p), p \notin revoked, Kept(p)
    PROVE  Kept(p)'
<1> DEFINE f == origin[p]
<1>0. f \in Flows /\ p \in Pairs /\ p # NoPair /\ origin'[p] = f /\ f' = f
  BY ManagerSteps DEF Base, PairsKnown, Inv, TypeOK
<1> HIDE DEF f
<1>1. ASSUME UNCHANGED <<call, chan, offer, mishap>>, TokensKept PROVE Kept(p)'
  BY <1>0, <1>1 DEF Kept, f, AtOffer, AtCall, AtAnswer, TokensKept
<1>2. CASE Rests
  BY <1>1, <1>2 DEF Rests
<1>3. ASSUME NEW F \in SUBSET Flows, Drops(F) PROVE Kept(p)'
  BY <1>0, <1>3 DEF Drops, Kept, f, AtOffer, AtCall, AtAnswer
<1>4. ASSUME NEW g \in Flows, Revokes(g) \/ Expires(g) PROVE Kept(p)'
  BY <1>1, <1>4 DEF Revokes, Expires, TokensKept
<1>5. ASSUME NEW g \in Flows, Offers(g) PROVE Kept(p)'
  <2>1. UNCHANGED <<tokens, call, chan, mishap>>
    BY <1>5 DEF Offers
  <2>2. AtOffer(f, p) => AtOffer(f, p)'
    BY <1>0, <1>5 DEF Offers, AtOffer
  <2> QED
    BY <1>0, <2>1, <2>2 DEF Kept, f, AtCall, AtAnswer
<1>6. ASSUME NEW g \in Flows, Receives(g) PROVE Kept(p)'
  <2>1. CASE f = g
    <3>1. p = offer[g].pair
      BY <1>6, <2>1 DEF Receives, Announced, OnlyOffered, f
    <3> QED
      BY <1>0, <1>6, <2>1, <3>1 DEF Receives, Puts, Kept
  <2>2. CASE f # g
    BY <1>0, <1>6, <2>2 DEF Receives, Puts, Kept, f, AtOffer, AtCall, AtAnswer
  <2> QED
    BY <2>1, <2>2
<1>7. ASSUME NEW t \in Requests, Saved(t) PROVE Kept(p)'
  <2>0. call[t].flow \in Flows /\ Saving(t)
    BY <1>7 DEF Saved, Saving, Base, CallsKnown
  <2>1. CASE f = call[t].flow
    <3>1. p = call[t].pair \/ p = offer[f].pair
      BY <2>0, <2>1 DEF OnlyOffered, f
    <3>2. CASE p = call[t].pair
      BY <1>0, <1>7, <2>1, <3>2 DEF Saved, Puts, Kept
    <3>3. CASE p = offer[f].pair
      BY <1>0, <1>7, <3>3 DEF Saved, Kept, AtOffer, NoData, TokenData
    <3> QED
      BY <3>1, <3>2, <3>3
  <2>2. CASE f # call[t].flow
    <3>1. ~AtCall(t, p)
      BY <2>0, <2>2 DEF AtCall, Base, PairsKnown, WithPair, f
    <3>2. \A u \in Requests : /\ AtCall(u, p) => AtCall(u, p)'
                              /\ call[u].phase = "refresh" /\ AtAnswer(u, p) =>
                                     call'[u].phase = "refresh" /\ AtAnswer(u, p)'
      BY <1>7, <3>1 DEF Saved, Becomes, AtCall, AtAnswer
    <3> QED
      BY <1>0, <1>7, <2>2, <3>2 DEF Saved, Puts, Kept, f, AtOffer
  <2> QED
    BY <2>1, <2>2
<1>8. ASSUME NEW t \in Requests, NEW g \in Flows, Begins(t, g) \/ TakesOffer(t, g) PROVE Kept(p)'
  <2>1. \A h \in Flows : tokens'[h].pair = tokens[h].pair
    BY <1>8 DEF Begins, TakesOffer, TokensKept
  <2>2. UNCHANGED <<chan, mishap>> /\ call[t] = NoCall /\ \A u \in Requests : u # t => call'[u] = call[u]
    BY <1>8 DEF Begins, TakesOffer, Becomes
  <2>3. \A u \in Requests : /\ AtCall(u, p) => AtCall(u, p)'
                            /\ call[u].phase = "refresh" /\ AtAnswer(u, p) =>
                                   call'[u].phase = "refresh" /\ AtAnswer(u, p)'
    BY <2>2 DEF NoCall, AtCall, AtAnswer
  <2>4. AtOffer(f, p) => AtOffer(f, p)' \/ AtCall(t, p)'
    BY <1>0, <1>8 DEF Begins, TakesOffer, Becomes, AtOffer, AtCall
  <2> QED
    BY <1>0, <2>1, <2>2, <2>3, <2>4 DEF Kept, f
<1>9. ASSUME NEW t \in Requests, Locks(t) \/ LooksUp(t) \/ Leaves(t) PROVE Kept(p)'
  <2>1. UNCHANGED <<tokens, offer, chan, mishap>>
    BY <1>9 DEF Locks, LooksUp, Leaves
  <2>2. \A u \in Requests : /\ AtCall(u, p) => AtCall(u, p)'
                            /\ call[u].phase = "refresh" /\ AtAnswer(u, p) =>
                                   call'[u].phase = "refresh" /\ AtAnswer(u, p)'
    BY <1>9, <2>1 DEF Locks, Locked, LooksUp, Leaves, Becomes, AtCall, AtAnswer
  <2> QED
    BY <1>0, <2>1, <2>2 DEF Kept, f, AtOffer
<1>10. ASSUME NEW t \in Requests, Ends(t) PROVE Kept(p)'
  <2> DEFINE g == call[t].flow
  <2>0. g \in Flows /\ UNCHANGED offer /\ mishap \subseteq mishap'
    BY <1>10 DEF Ends, Base, CallsKnown
  <2>1. \A u \in Requests : u # t => call'[u] = call[u] /\ chan'[u] = chan[u]
    BY <1>10 DEF Ends, Becomes, Says
  <2>2. tokens[f].pair = p => tokens'[f].pair = p \/ f \in mishap'
    BY <1>0, <1>10, <2>0 DEF Ends, TokensKept, NoToken
  <2>3. AtCall(t, p) => f \in mishap'
    BY <1>10 DEF Ends, AtCall, WithPair, f, Base, PairsKnown
  <2>4. call[t].phase = "refresh" /\ AtAnswer(t, p) => f \in mishap'
    BY <1>10 DEF Ends, AtAnswer, WithPair, f, Base, Correlated
  <2> QED
    BY <1>0, <2>0, <2>1, <2>2, <2>3, <2>4 DEF Kept, f, AtOffer, AtCall, AtAnswer
<1>11. ASSUME NEW t \in Requests, Asks(t) PROVE Kept(p)'
  <2>1. UNCHANGED <<offer, mishap>> /\ TokensKept
    BY <1>11 DEF Asks
  <2>2. ~AtCall(t, p) /\ call[t].phase # "refresh"
    BY <1>11 DEF Asks, AtCall
  <2>3. \A u \in Requests : u # t => call'[u] = call[u] /\ chan'[u] = chan[u]
    BY <1>11 DEF Asks, Becomes, Says
  <2> QED
    BY <1>0, <2>1, <2>2, <2>3 DEF Kept, f, AtOffer, AtCall, AtAnswer, TokensKept
<1>12. ASSUME NEW t \in Requests, Gets(t) PROVE Kept(p)'
  <2>1. UNCHANGED <<offer, tokens, mishap>>
    BY <1>12 DEF Gets
  <2>2. AtAnswer(t, p) => AtCall(t, p)'
    BY <1>12 DEF Gets, Becomes, AtAnswer, AtCall
  <2>3. ~AtCall(t, p)
    BY <1>12 DEF Gets, AtCall
  <2>4. \A u \in Requests : u # t => call'[u] = call[u] /\ chan'[u] = chan[u]
    BY <1>12 DEF Gets, Becomes, Says
  <2> QED
    BY <1>0, <2>1, <2>2, <2>3, <2>4 DEF Kept, f, AtOffer, AtCall, AtAnswer
<1>13. ASSUME NEW t \in Requests, Replaces(t) PROVE Kept(p)'
  <2> DEFINE g == call[t].flow
  <2>0. /\ g \in Flows /\ UNCHANGED <<offer, chan>> /\ mishap \subseteq mishap'
        /\ call[t].phase # "refresh"
    BY <1>13 DEF Replaces, Replacing, Base, CallsKnown
  <2>1. \A u \in Requests : u # t => call'[u] = call[u]
    BY <1>13 DEF Replaces, Becomes
  <2>2. AtCall(t, p) => tokens'[f].pair = p
    BY <1>13 DEF Replaces, Puts, AtCall, WithPair, f, Base, PairsKnown
  <2>3. tokens[f].pair = p => tokens'[f].pair = p \/ f \in mishap'
    <3>1. CASE f = g
      <4>1. <<p, call[t].pair>> \notin renewed
        <5>1. rows[p] # NoFlow
          BY DEF Valid, Find
        <5>2. \A x \in renewed : x[1] # p
          BY <5>1 DEF Base, Inv, SpentIsGone
        <5>3. <<p, call[t].pair>>[1] = p
          OBVIOUS
        <5> QED
          BY <5>2, <5>3
      <4> QED
        BY <1>13, <3>1, <4>1 DEF Replaces, Replacing
    <3>2. CASE f # g
      BY <1>0, <1>13, <3>2 DEF Replaces, Puts
    <3> QED
      BY <3>1, <3>2
  <2> QED
    BY <1>0, <2>0, <2>1, <2>2, <2>3 DEF Kept, f, AtOffer, AtCall, AtAnswer
<1>14. ASSUME NEW t \in Requests, Vanishes(t) \/ Accepts(t) \/ Renews(t) \/ Refuses(t) PROVE Kept(p)'
  <2>1. UNCHANGED <<offer, tokens, call>> /\ mishap \subseteq mishap'
    BY <1>14 DEF Vanishes, Accepts, Renews, Refuses
  <2>2. \A u \in Requests : call[u].phase = "refresh" /\ AtAnswer(u, p) => AtAnswer(u, p)'
    BY <1>14, RenewsDoes, RefusesDoes
       DEF Vanishes, Refreshing, Accepts, Renews, Refuses, Says, AtAnswer, Base, Correlated
  <2> QED
    BY <1>0, <2>1, <2>2 DEF Kept, f, AtOffer, AtCall
<1> QED
  BY <1>2, <1>3, <1>4, <1>5, <1>6, <1>7, <1>8, <1>9, <1>10, <1>11, <1>12, <1>13, <1>14 DEF Step

\* The inductive invariant behind RenewablePairKept.
PairInv ==
    /\ Base
    /\ AliveUnlessRevoked /\ Accounted
    /\ Unshared
    /\ OneSaving /\ OnlyOffered
    /\ Abandoned
    /\ RenewablePairKept

\* PairInv holds initially.
LEMMA PairInvInit == Fresh => PairInv
<1> SUFFICES ASSUME Fresh PROVE PairInv
  OBVIOUS
<1>1. Base
  BY BaseInit
<1>2. /\ drawn = {} /\ renewing = [t \in Requests |-> Idle] /\ rows = [p \in Pairs |-> NoFlow]
      /\ offer = [f \in Flows |-> NoData]
      /\ call = [t \in Requests |-> NoCall] /\ chan = [t \in Requests |-> NoMessage]
  BY DEF Fresh, Init, InitStore
<1>3. AliveUnlessRevoked /\ Accounted /\ Unshared /\ OneSaving /\ OnlyOffered
  BY <1>2 DEF AliveUnlessRevoked, Accounted, Unshared, OneSaving, OnlyOffered, Saving, NoCall
<1>4. Abandoned
  BY <1>2 DEF Abandoned, NoMessage, Message
<1>5. RenewablePairKept
  BY <1>1, <1>2, KeptIsRenewable
<1> QED
  BY <1>1, <1>3, <1>4, <1>5 DEF PairInv

\* Every step keeps PairInv.
LEMMA PairInvStep ==
    ASSUME PairInv, [RefreshNext]_allVars
    PROVE  PairInv' /\ Step
<1>1. Base /\ Base' /\ Step
  BY BaseStep DEF PairInv
<1>2. AliveUnlessRevoked' /\ Accounted' /\ Unshared' /\ OneSaving' /\ OnlyOffered' /\ Abandoned'
  BY <1>1, ManagerAccounts, UnsharedStep, OneSavingStep, OnlyOfferedStep, AbandonedStep DEF PairInv
<1>3. \A p \in drawn' : Valid(p)' => Kept(p)'
  <2>1. \A p \in drawn : Valid(p) => Kept(p)
    BY <1>1, KeptIsRenewable DEF PairInv
  <2> QED
    BY <1>1, <2>1, NewIsKept, KeptStep, ValidShrinks DEF PairInv
<1>4. RenewablePairKept'
  <2>1. (RenewablePairKept <=> \A p \in drawn : Valid(p) => Kept(p))'
    BY <1>1, KeptIsRenewable, PTL
  <2> QED
    BY <1>3, <2>1
<1> QED
  BY <1>1, <1>2, <1>4 DEF PairInv

\* The consumer keeps the pair it can renew: however calls, lost messages, timeouts,
\* ended leases and restarts of the flow interleave, the provider's valid pair is
\* stored or on its way into the store, or the flow had one of the mishaps named.
THEOREM ConsumerKeepsPair == RefreshSpec => []RenewablePairKept
<1>1. PairInv => RenewablePairKept
  BY DEF PairInv
<1>2. PairInv /\ [RefreshNext]_allVars => PairInv'
  BY PairInvStep
<1> QED
  BY <1>1, <1>2, PairInvInit, PTL DEF RefreshSpec

-----------------------------------------------------------------------------
(* Useless requests *)

\* A request with p is not turned away, or only because p is revoked.
Good(p) == Valid(p) \/ p \in revoked

\* Call t has the pair that follows the stored one.
Arriving(t) ==
    call[t].phase \in {"update", "write"} \/ (call[t].phase = "refresh" /\ chan[t].kind = "response")

\* The stored pair is good, or its successor arrives, unless there was a mishap.
StoredIsGood ==
    \A f \in Flows :
        tokens[f] # NoToken /\ f \notin mishap =>
            Good(tokens[f].pair) \/ \E t \in Requests : call[t].flow = f /\ Arriving(t)

\* No other call locks with the owner of t.
OwnOwner(t) == \A u \in Requests \ {t} : owner[u] # owner[t]

\* What a call asked for under a lock of its own is good.
AskedIsGood ==
    \A t \in Requests :
        /\ call[t].phase = "refresh" /\ chan[t].kind = "request"
        /\ call[t].flow \notin disturbed \cup mishap /\ OwnOwner(t)
        => Good(chan[t].pair)

UselessInv == PairInv /\ LockTaken /\ StoredIsGood /\ AskedIsGood

\* A pair in a hand was not renewed.
LEMMA InHandIsGood ==
    ASSUME Accounted, Unshared, NEW p \in drawn,
           (\E f \in Flows : AtOffer(f, p)) \/ (\E t \in Requests : AtCall(t, p))
    PROVE  Good(p)
<1>1. ~Used(p)
  BY DEF Unshared
<1> QED
  BY <1>1 DEF Used, Accounted, Good

\* A good pair stays good until it is renewed.
LEMMA GoodStays ==
    ASSUME Base, Step, NEW p \in drawn, Good(p)
    PROVE  Good(p)' \/ \E t \in Requests : Renews(t) /\ renewing[t].pair = p
<1> USE DEF Good, Valid, Find
<1>0. p \in Pairs
  BY DEF Base, Inv, TypeOK
<1>1. ASSUME NEW f \in Flows, Offers(f) PROVE Good(p)'
  BY <1>0, <1>1, OffersDoes
<1>2. ASSUME NEW f \in Flows, Revokes(f) PROVE Good(p)'
  <2>1. rows[p] # NoFlow => rows[p] = origin[p]
    BY <1>0 DEF Base, Inv, FlowKept
  <2> QED
    BY <1>0, <1>2, <2>1, RevokesDoes
<1>3. ASSUME NEW t \in Requests, Renews(t), renewing[t].pair # p PROVE Good(p)'
  <2> HIDE DEF NewPair
  <2>1. /\ NewPair \notin drawn /\ revoked' = revoked
        /\ \A q \in Pairs : rows'[q] = IF q = NewPair THEN origin[renewing[t].pair]
                                       ELSE IF q = renewing[t].pair THEN NoFlow ELSE rows[q]
    BY <1>3, RenewsDoes
  <2> QED
    BY <1>0, <1>3, <2>1
<1>4. ASSUME NEW t \in Requests, Accepts(t) \/ Refuses(t) PROVE Good(p)'
  BY <1>4, AcceptsDoes, RefusesDoes
<1> QED
  BY <1>1, <1>2, <1>3, <1>4
     DEF Step, Rests, Drops, Receives, Expires, Begins, TakesOffer, Locks, Ends, Saved, Asks,
         Gets, LooksUp, Replaces, Leaves, Vanishes, vars

\* A renewal that is not a mishap is of a call that waits for it.
LEMMA RenewsForCall ==
    ASSUME Base, Abandoned, NEW t \in Requests, Renews(t)
    PROVE  LET f == origin[renewing[t].pair] IN
           f \in mishap \/ (call[t].phase = "refresh" /\ call[t].flow = f)
<1>1. /\ renewing[t] # Idle /\ Valid(renewing[t].pair)
      /\ renewing[t].flow = origin[renewing[t].pair]
  BY RenewsDoes DEF Valid, Find
<1> QED
  BY <1>1 DEF Abandoned, Base, Correlated

\* The successor arrives until it is stored.
LEMMA ArrivingStays ==
    ASSUME Base, Step, NEW t \in Requests, Arriving(t)
    PROVE  \/ Arriving(t)' /\ call'[t].flow = call[t].flow
           \/ call[t].flow \in mishap'
           \/ Replaces(t)
<1> USE DEF Arriving
<1>1. CASE call'[t] = call[t] /\ chan'[t] = chan[t]
  BY <1>1
<1>2. ASSUME NEW f \in Flows, Offers(f) \/ Receives(f) \/ Revokes(f) \/ Expires(f)
      PROVE  call'[t] = call[t] /\ chan'[t] = chan[t]
  BY <1>2 DEF Offers, Receives, Revokes, Expires
<1>3. ASSUME NEW u \in Requests, NEW f \in Flows, Begins(u, f) \/ TakesOffer(u, f)
      PROVE  call'[t] = call[t] /\ chan'[t] = chan[t]
  BY <1>3 DEF Begins, TakesOffer, Becomes, NoCall
<1>4. ASSUME NEW u \in Requests, Locks(u) \/ Saved(u) \/ Leaves(u) \/ Asks(u)
      PROVE  call'[t] = call[t] /\ chan'[t] = chan[t]
  BY <1>4 DEF Locks, Locked, Saved, Leaves, Asks, Becomes, Says
<1>5. ASSUME NEW u \in Requests, Ends(u)
      PROVE  (call'[t] = call[t] /\ chan'[t] = chan[t]) \/ call[t].flow \in mishap'
  BY <1>5 DEF Ends, Becomes, Says, WithPair
<1>6. ASSUME NEW u \in Requests, Gets(u) \/ LooksUp(u)
      PROVE  Arriving(t)' /\ call'[t].flow = call[t].flow
  BY <1>6 DEF Gets, LooksUp, Becomes, Says
<1>7. ASSUME NEW u \in Requests, Replaces(u), u # t
      PROVE  call'[t] = call[t] /\ chan'[t] = chan[t]
  BY <1>7 DEF Replaces, Becomes
<1>8. ASSUME NEW u \in Requests, Vanishes(u) \/ Accepts(u)
      PROVE  Arriving(t)' /\ call'[t].flow = call[t].flow
  BY <1>8 DEF Vanishes, Refreshing, Accepts, Says
<1>9. ASSUME NEW u \in Requests, Renews(u) \/ Refuses(u)
      PROVE  Arriving(t)' /\ call'[t].flow = call[t].flow
  <2>1. renewing[u] # Idle
    BY <1>9, RenewsDoes, RefusesDoes
  <2>2. u = t => call[t].phase \in {"idle", "refresh", "returned", "crashed"} /\ chan[t].kind = "none"
    BY <2>1 DEF Base, Correlated
  <2> QED
    BY <1>9, <2>2 DEF Renews, Refuses, Says
<1> QED
  BY <1>1, <1>2, <1>3, <1>4, <1>5, <1>6, <1>7, <1>8, <1>9 DEF Step, Rests, Drops

\* Where a record comes from.
LEMMA RecordMoves ==
    ASSUME Base, Step, NEW f \in Flows, tokens'[f] # NoToken
    PROVE  \/ /\ tokens[f] # NoToken /\ tokens'[f].pair = tokens[f].pair
              /\ tokens'[f].expires_at = tokens[f].expires_at
              /\ \A t \in Requests : Replaces(t) => call[t].flow # f
           \/ /\ UNCHANGED <<rows, revoked>> /\ tokens'[f].pair \in drawn
              /\ AtOffer(f, tokens'[f].pair) \/ \E t \in Requests : AtCall(t, tokens'[f].pair)
<1> DEFINE Stays == /\ tokens[f] # NoToken /\ tokens'[f].pair = tokens[f].pair
                    /\ tokens'[f].expires_at = tokens[f].expires_at
           Arrives == /\ UNCHANGED <<rows, revoked>> /\ tokens'[f].pair \in drawn
                      /\ AtOffer(f, tokens'[f].pair) \/ \E t \in Requests : AtCall(t, tokens'[f].pair)
<1>1. ASSUME NEW t \in Requests, Saved(t) \/ Replaces(t), call[t].flow = f PROVE Arrives
  <2>1. tokens'[f].pair = call[t].pair /\ UNCHANGED <<rows, revoked>>
    BY <1>1 DEF Saved, Replaces, Puts, vars
  <2>2. AtCall(t, call[t].pair) /\ call[t].pair \in drawn
    BY <1>1 DEF Saved, Replaces, AtCall, WithPair, Base, PairsKnown
  <2> QED
    BY <2>1, <2>2
<1>2. ASSUME NEW t \in Requests, Saved(t) \/ Replaces(t), call[t].flow # f PROVE Stays
  BY <1>2 DEF Saved, Replaces, Puts
<1>3. ASSUME Receives(f) PROVE Arrives
  BY <1>3 DEF Receives, Announced, Puts, AtOffer, vars, Base, PairsKnown
<1>4. ASSUME NEW g \in Flows, Receives(g), g # f PROVE Stays
  BY <1>4 DEF Receives, Puts
<1>5. ASSUME NEW F \in SUBSET Flows, Drops(F) PROVE Stays
  BY <1>5 DEF Drops
<1>6. ASSUME NEW t \in Requests, Ends(t) PROVE Stays
  BY <1>6 DEF Ends, TokensKept
<1>7. ASSUME TokensKept PROVE Stays
  BY <1>7 DEF TokensKept
<1>8. ASSUME UNCHANGED tokens PROVE Stays
  BY <1>8
<1>9. Stays \/ Arrives
  BY <1>1, <1>2, <1>3, <1>4, <1>5, <1>6, <1>7, <1>8
     DEF Step, Rests, Offers, Revokes, Expires, Begins, TakesOffer, Locks, Asks, Gets, LooksUp,
         Leaves, Vanishes, Accepts, Renews, Refuses
<1> QED
  BY <1>1, <1>9

\* Every step keeps StoredIsGood.
LEMMA StoredIsGoodStep ==
    ASSUME PairInv, Step, StoredIsGood
    PROVE  StoredIsGood'
<1> USE DEF PairInv
<1> SUFFICES ASSUME NEW f \in Flows, tokens'[f] # NoToken, f \notin mishap'
             PROVE  Good(tokens[f].pair)' \/ \E t \in Requests : call'[t].flow = f /\ Arriving(t)'
  BY DEF StoredIsGood, NoToken
<1>0. PICK p : p = tokens'[f].pair
  OBVIOUS
<1>1. CASE /\ UNCHANGED <<rows, revoked>> /\ p \in drawn
           /\ AtOffer(f, p) \/ \E t \in Requests : AtCall(t, p)
  <2>1. Good(p)
    BY <1>1, InHandIsGood
  <2> QED
    BY <1>0, <1>1, <2>1 DEF Good, Valid, Find
<1>2. CASE /\ tokens[f] # NoToken /\ p = tokens[f].pair
           /\ \A t \in Requests : Replaces(t) => call[t].flow # f
  <2>1. p \in drawn /\ origin[p] = f /\ Used(p)
    BY <1>2 DEF Base, PairsKnown, Used
  <2>2. CASE f \in mishap
    <3>1. p \in revoked
      BY <2>1, <2>2, MishapOver
    <3>2. p \in revoked'
      BY <3>1, ManagerSteps
    <3> QED
      BY <1>0, <3>2 DEF Good
  <2>3. CASE f \notin mishap /\ Good(p)
    <3>1. CASE Good(p)'
      BY <1>0, <3>1 DEF Good, Valid, Find
    <3>2. ASSUME NEW t \in Requests, Renews(t), renewing[t].pair = p
          PROVE  call'[t].flow = f /\ Arriving(t)'
      <4>1. call[t].phase = "refresh" /\ call[t].flow = f
        BY <2>1, <2>3, <3>2, RenewsForCall
      <4>2. renewing[t].flow = f
        BY <2>1, <3>2, RenewsDoes
      <4> QED
        BY <3>2, <4>1, <4>2 DEF Renews, Says, Arriving
    <3> QED
      BY <2>1, <2>3, <3>1, <3>2, GoodStays
  <2>4. ASSUME f \notin mishap, NEW t \in Requests, call[t].flow = f, Arriving(t)
        PROVE  call'[t].flow = f /\ Arriving(t)'
    BY <1>2, <2>4, ArrivingStays
  <2> QED
    BY <1>2, <2>2, <2>3, <2>4 DEF StoredIsGood
<1> QED
  BY <1>0, <1>1, <1>2, RecordMoves

\* A request that waits was just sent, or has waited before.
LEMMA AsksOrWaits ==
    ASSUME Base, Step, NEW t \in Requests, call'[t].phase = "refresh", chan'[t].kind = "request"
    PROVE  \/ Asks(t)
           \/ /\ call'[t] = call[t] /\ chan'[t] = chan[t]
              /\ call[t].flow \in disturbed => call[t].flow \in disturbed'
<1>1. CASE UNCHANGED <<call, chan>> /\ disturbed \subseteq disturbed'
  BY <1>1
<1>2. ASSUME NEW f \in Flows, Offers(f) \/ Receives(f) \/ Revokes(f) \/ Expires(f)
      PROVE  UNCHANGED <<call, chan>> /\ disturbed \subseteq disturbed'
  BY <1>2 DEF Offers, Receives, Revokes, Expires
<1>3. ASSUME NEW u \in Requests, NEW f \in Flows, Begins(u, f) \/ TakesOffer(u, f)
      PROVE  call'[t] = call[t] /\ chan'[t] = chan[t] /\ disturbed' = disturbed
  BY <1>3 DEF Begins, TakesOffer, Becomes
<1>4. ASSUME NEW u \in Requests,
             Locks(u) \/ Ends(u) \/ Saved(u) \/ Gets(u) \/ LooksUp(u) \/ Replaces(u)
      PROVE  call'[t] = call[t] /\ chan'[t] = chan[t] /\ disturbed' = disturbed
  BY <1>4 DEF Locks, Locked, Ends, Saved, Gets, LooksUp, Replaces, Becomes, Says
<1>5. ASSUME NEW u \in Requests, Leaves(u)
      PROVE  /\ call'[t] = call[t] /\ chan'[t] = chan[t]
             /\ call[t].flow \in disturbed => call[t].flow \in disturbed'
  BY <1>5 DEF Leaves, NoCall
<1>6. ASSUME NEW u \in Requests, Asks(u), u # t
      PROVE  call'[t] = call[t] /\ chan'[t] = chan[t] /\ disturbed' = disturbed
  BY <1>6 DEF Asks, Becomes, Says
<1>7. ASSUME NEW u \in Requests, Vanishes(u) \/ Accepts(u) \/ Renews(u) \/ Refuses(u)
      PROVE  call'[t] = call[t] /\ chan'[t] = chan[t] /\ disturbed' = disturbed
  BY <1>7 DEF Vanishes, Accepts, Renews, Refuses, Says
<1> QED
  BY <1>1, <1>2, <1>3, <1>4, <1>5, <1>6, <1>7 DEF Step, Rests, Drops

\* Every step keeps AskedIsGood.
LEMMA AskedIsGoodStep ==
    ASSUME UselessInv, Step
    PROVE  AskedIsGood'
<1> USE DEF UselessInv, PairInv
<1> SUFFICES ASSUME NEW t \in Requests, call'[t].phase = "refresh", chan'[t].kind = "request",
                    call'[t].flow \notin disturbed' \cup mishap', OwnOwner(t)'
             PROVE  Good(chan[t].pair)'
  BY DEF AskedIsGood
<1>0. PICK p : p = chan'[t].pair
  OBVIOUS
<1>1. SUFFICES Good(p)'
  BY <1>0 DEF Good, Valid, Find
<1>2. OwnOwner(t)
  BY DEF OwnOwner, Step
\* The guards of t and of another call of the flow would have one owner.
<1>3. ASSUME NEW u \in Requests, u # t, call[u].phase \in UnderLock, call[t].phase \in UnderLock,
             call[u].flow = call[t].flow, call[t].flow \notin disturbed
      PROVE  FALSE
  BY <1>2, <1>3 DEF LockTaken, OwnOwner
<1>4. CASE Asks(t)
  <2> DEFINE f == call[t].flow
  <2>1. /\ f \in Flows /\ tokens[f] # NoToken /\ p = tokens[f].pair /\ call[t].phase = "reread"
        /\ f \notin disturbed /\ f \notin mishap /\ UNCHANGED <<rows, revoked>>
    BY <1>0, <1>4 DEF Asks, Becomes, Says, Base, CallsKnown, vars
  <2>2. ASSUME NEW u \in Requests, call[u].flow = f, Arriving(u) PROVE FALSE
    BY <1>3, <2>1, <2>2 DEF Arriving, UnderLock
  <2>3. Good(p)
    BY <2>1, <2>2 DEF StoredIsGood
  <2> QED
    BY <2>1, <2>3 DEF Good, Valid, Find
<1>5. CASE /\ call'[t] = call[t] /\ chan'[t] = chan[t]
           /\ call[t].flow \in disturbed => call[t].flow \in disturbed'
  <2> DEFINE f == call[t].flow
  <2>1. /\ p = chan[t].pair /\ p \in drawn /\ origin[p] = f /\ Used(p) /\ renewing[t] = Idle
        /\ f \notin disturbed /\ f \notin mishap'
        /\ call[t].phase = "refresh" /\ chan[t].kind = "request"
    BY <1>0, <1>5 DEF Base, PairsKnown, Correlated, Used
  <2>2. CASE f \in mishap
    <3>1. p \in revoked
      BY <2>1, <2>2, MishapOver
    <3>2. p \in revoked'
      BY <3>1, ManagerSteps
    <3> QED
      BY <3>2 DEF Good
  <2>3. CASE f \notin mishap
    <3>1. Good(p)
      BY <1>2, <2>1, <2>3 DEF AskedIsGood
    <3>2. ASSUME NEW u \in Requests, Renews(u), renewing[u].pair = p PROVE FALSE
      <4>1. call[u].phase = "refresh" /\ call[u].flow = f
        BY <2>1, <2>3, <3>2, RenewsForCall
      <4>2. u # t
        BY <2>1, <3>2, RenewsDoes
      <4> QED
        BY <1>3, <2>1, <4>1, <4>2 DEF UnderLock
    <3> QED
      BY <2>1, <3>1, <3>2, GoodStays
  <2> QED
    BY <2>2, <2>3
<1> QED
  BY <1>4, <1>5, AsksOrWaits

\* The lock and the second read under it spare the provider useless requests: a waiting
\* consumer is turned away only if its pair was revoked, its flow had a mishap or a
\* lease that ended, or another call locks with the same owner.
THEOREM UsefulRequests == RefreshSpec => NoUselessRefresh
<1>1. Fresh => UselessInv
  <2> SUFFICES ASSUME Fresh PROVE UselessInv
    OBVIOUS
  <2>1. PairInv
    BY PairInvInit
  <2>2. /\ call = [t \in Requests |-> NoCall] /\ tokens = [f \in Flows |-> NoToken] /\ held = {}
    BY DEF Fresh
  <2>3. LockTaken /\ StoredIsGood /\ AskedIsGood
    BY <2>2 DEF LockTaken, StoredIsGood, AskedIsGood, NoCall, UnderLock
  <2> QED
    BY <2>1, <2>3 DEF UselessInv
<1>2. UselessInv /\ [RefreshNext]_allVars => UselessInv'
  <2> SUFFICES ASSUME UselessInv, [RefreshNext]_allVars PROVE UselessInv'
    OBVIOUS
  <2>1. PairInv' /\ Step /\ Base
    BY PairInvStep DEF UselessInv, PairInv
  <2> QED
    BY <2>1, LockTakenStep, StoredIsGoodStep, AskedIsGoodStep DEF UselessInv
<1>3. UselessInv =>
        [\A t \in Requests :
            ProviderRejects(t) /\ call[t].phase = "refresh" =>
                \/ chan[t].pair \in revoked
                \/ call[t].flow \in disturbed \cup mishap
                \/ \E u \in Requests \ {t} : owner[u] = owner[t]]_allVars
  BY DEF UselessInv, AskedIsGood, OwnOwner, Good, ProviderRejects
<1> QED
  BY <1>1, <1>2, <1>3, PTL DEF RefreshSpec, NoUselessRefresh

-----------------------------------------------------------------------------
(* What is served from the cache *)

\* p was presented to the provider, and may have been replaced.
Asked(p) ==
    \/ \E t \in Requests : chan[t].kind = "request" /\ chan[t].pair = p
    \/ \E t \in Requests : renewing[t].pair = p
    \/ \E x \in renewed : x[1] = p

\* A stored token is presented only when it is about to expire.
FreshUnasked ==
    \A f \in Flows : tokens[f] # NoToken /\ ~Expiring(tokens[f]) => ~Asked(tokens[f].pair)

\* A pair is presented by the call that read it under the lock, and by no other step.
LEMMA AskedMoves ==
    ASSUME Base, Step, NEW p \in drawn, Asked(p)'
    PROVE  Asked(p) \/ \E t \in Requests : Asks(t) /\ p = tokens[call[t].flow].pair
<1>0. p # NoPair
  BY DEF Base, Inv, TypeOK
<1>1. CASE /\ UNCHANGED <<renewing, renewed>>
           /\ \A t \in Requests : chan'[t].kind = "request" => chan'[t] = chan[t]
  BY <1>1 DEF Asked
<1>2. ASSUME NEW f \in Flows, Offers(f) \/ Revokes(f) \/ Receives(f) \/ Expires(f)
      PROVE  UNCHANGED <<renewing, renewed, chan>>
  BY <1>2, OffersDoes, RevokesDoes DEF Offers, Revokes, Receives, Expires, vars
<1>3. ASSUME NEW t \in Requests, NEW f \in Flows, Begins(t, f) \/ TakesOffer(t, f)
      PROVE  UNCHANGED <<renewing, renewed, chan>>
  BY <1>3 DEF Begins, TakesOffer, vars
<1>4. ASSUME NEW t \in Requests,
             \/ Locks(t) \/ Ends(t) \/ Saved(t) \/ Gets(t) \/ LooksUp(t) \/ Replaces(t)
             \/ Leaves(t) \/ Vanishes(t)
      PROVE  /\ UNCHANGED <<renewing, renewed>>
             /\ \A u \in Requests : chan'[u].kind = "request" => chan'[u] = chan[u]
  BY <1>4 DEF Locks, Ends, Saved, Gets, LooksUp, Replaces, Leaves, Vanishes, Says, vars
<1>5. ASSUME NEW t \in Requests, Asks(t)
      PROVE  Asked(p) \/ p = tokens[call[t].flow].pair
  BY <1>5 DEF Asks, Says, Asked, vars
<1>6. ASSUME NEW t \in Requests, Accepts(t) PROVE Asked(p)
  <2>1. /\ UNCHANGED renewed
        /\ \A u \in Requests : chan'[u].kind = "request" => chan'[u] = chan[u]
        /\ \A u \in Requests : \/ renewing'[u].pair = renewing[u].pair
                               \/ chan[u].kind = "request" /\ renewing'[u].pair = chan[u].pair
    BY <1>6, AcceptsDoes DEF Accepts, Says
  <2> QED
    BY <2>1 DEF Asked
<1>7. ASSUME NEW t \in Requests, Renews(t) \/ Refuses(t) PROVE Asked(p)
  <2>1. \A x \in renewed' : x \in renewed \/ x[1] = renewing[t].pair
    BY <1>7, RenewsDoes, RefusesDoes
  <2>2. \A u \in Requests : renewing'[u].pair = renewing[u].pair \/ renewing'[u].pair = NoPair
    BY <1>7, RenewsDoes, RefusesDoes DEF Idle
  <2>3. \A u \in Requests : chan'[u].kind = "request" => chan'[u] = chan[u]
    BY <1>7 DEF Renews, Refuses, Says
  <2> QED
    BY <1>0, <2>1, <2>2, <2>3 DEF Asked
<1> QED
  BY <1>1, <1>2, <1>3, <1>4, <1>5, <1>6, <1>7 DEF Step, Rests, Drops, vars

\* Every step keeps FreshUnasked.
LEMMA FreshUnaskedStep ==
    ASSUME Base, Step, Unshared, FreshUnasked
    PROVE  FreshUnasked'
<1> SUFFICES ASSUME NEW f \in Flows, tokens'[f] # NoToken, ~Expiring(tokens[f])', Asked(tokens[f].pair)'
             PROVE  FALSE
  BY DEF FreshUnasked, NoToken
<1>0. PICK p : p = tokens'[f].pair
  OBVIOUS
<1>1. CASE /\ p \in drawn
           /\ AtOffer(f, p) \/ \E t \in Requests : AtCall(t, p)
  <2>1. ~Used(p)
    BY <1>1 DEF Unshared
  <2>2. ~Asked(p) /\ \A t \in Requests : Asks(t) => p # tokens[call[t].flow].pair
    BY <2>1 DEF Used, Asked, Asks, Base, CallsKnown
  <2> QED
    BY <1>0, <1>1, <2>2, AskedMoves DEF Asked
<1>2. CASE /\ tokens[f] # NoToken /\ p = tokens[f].pair
           /\ tokens'[f].expires_at = tokens[f].expires_at
  <2>1. p \in drawn /\ origin[p] = f
    BY <1>2 DEF Base, PairsKnown
  <2>2. tokens[f].expires_at \in Nat /\ now \in Nat /\ now' \in Nat /\ now <= now'
    BY DEF Step, Base, ClientTyped, TokenRecords
  <2>3. ~Expiring(tokens[f])
    BY <1>2, <2>2 DEF Expiring
  <2>4. ~Asked(p)
    BY <1>2, <2>3 DEF FreshUnasked
  <2>5. ASSUME NEW t \in Requests, Asks(t), p = tokens[call[t].flow].pair PROVE FALSE
    <3>1. call[t].flow = f
      BY <2>1, <2>5 DEF Asks, Base, PairsKnown, CallsKnown
    <3> QED
      BY <2>3, <2>5, <3>1 DEF Asks
  <2> QED
    BY <1>0, <2>1, <2>4, <2>5, AskedMoves DEF Asked
<1> QED
  BY <1>0, <1>1, <1>2, RecordMoves

\* What get_token serves from the cache still has its entry at the provider or was
\* revoked: no refresh of any caller, own owner or shared, can have replaced it.
THEOREM CacheIsCurrent == RefreshSpec => []CachedTokenCurrent
<1>1. Fresh => FreshUnasked
  <2> SUFFICES ASSUME Fresh PROVE FreshUnasked
    OBVIOUS
  <2>1. tokens = [f \in Flows |-> NoToken]
    BY DEF Fresh
  <2> QED
    BY <2>1 DEF FreshUnasked
<1>2. PairInv /\ FreshUnasked /\ [RefreshNext]_allVars => PairInv' /\ FreshUnasked'
  BY PairInvStep, FreshUnaskedStep DEF PairInv
<1>3. PairInv /\ FreshUnasked => CachedTokenCurrent
  <2> SUFFICES ASSUME PairInv, FreshUnasked, NEW f \in Flows, tokens[f] # NoToken,
                      ~Expiring(tokens[f])
               PROVE  Valid(tokens[f].pair) \/ tokens[f].pair \in revoked
    BY DEF CachedTokenCurrent
  <2>1. tokens[f].pair \in drawn /\ ~Asked(tokens[f].pair)
    BY DEF FreshUnasked, PairInv, Base, PairsKnown
  <2> QED
    BY <2>1 DEF Asked, PairInv, Accounted
<1> QED
  BY <1>1, <1>2, <1>3, PairInvInit, PTL DEF RefreshSpec
=============================================================================
