---------------------------- MODULE TokenManager ----------------------------
(***************************************************************************)
(* JwtTokenManager (crates/facet-core/src/token/manager/mod.rs) over a       *)
(* RenewableTokenStore shared by all replicas.                              *)
(*                                                                         *)
(* renew() reads the entry of the refresh token, verifies the proof and      *)
(* signs a new token, which takes remote calls, and then updates the entry   *)
(* it read.  Other requests run in between.                                  *)
(*                                                                         *)
(* Signing and HMAC are external; a proof is the pair whose token it embeds  *)
(* and the party that signed it.                                            *)
(***************************************************************************)
EXTENDS RenewableTokenStore

CONSTANTS Requests,  \* renew() calls that can be in progress at one time
          Parties,   \* subjects: counter-parties tokens are issued to
          Subject    \* Subject[f]: the counter-party of flow f

ASSUME SubjectAssumption == Subject \in [Flows -> Parties]

VARIABLES renewing,  \* renewing[r]: the entry that renew() call r found
          root,      \* root[p]: the pair generate_pair issued that p descends from
          origin,    \* origin[p]: the flow p's root was generated for
          renewed,   \* <<old, new>> for every renew() that updated the store
          revoked    \* pairs whose flow was revoked after their root was generated

managerVars == <<renewing, root, origin, renewed, revoked>>
vars == <<rows, drawn, renewing, root, origin, renewed, revoked>>

-----------------------------------------------------------------------------
Idle == [pair |-> NoPair, flow |-> NoFlow]

Init ==
    /\ InitStore
    /\ renewing = [r \in Requests |-> Idle]
    /\ root = [p \in Pairs |-> NoPair]
    /\ origin = [p \in Pairs |-> NoFlow]
    /\ renewed = {}
    /\ revoked = {}

\* generate_pair()
GeneratePair(n, f) ==
    /\ Save(n, f)
    /\ root' = [root EXCEPT ![n] = n]
    /\ origin' = [origin EXCEPT ![n] = f]
    /\ UNCHANGED <<renewing, renewed, revoked>>

\* renew() with the refresh token of p and a proof by s that embeds the token of
\* q, up to the point where the entry is accepted.  A rejected request (no entry,
\* wrong subject, wrong token) changes nothing.
RenewFind(r, p, q, s) ==
    /\ renewing[r] = Idle
    /\ Find(p) # NoFlow
    /\ s = Subject[Find(p)]
    /\ q = p
    /\ renewing' = [renewing EXCEPT ![r] = [pair |-> p, flow |-> Find(p)]]
    /\ UNCHANGED <<rows, drawn, root, origin, renewed, revoked>>

\* The rest of renew(): the entry is replaced by one of a new pair.  This step is the
\* statement taking effect; whether its answer reaches renew() is the caller's matter
\* (TokenRefresh), as nothing else is done here after it.
RenewUpdate(r, n) ==
    LET old == renewing[r].pair IN
    /\ renewing[r] # Idle
    /\ Update(old, n, renewing[r].flow)
    /\ renewing' = [renewing EXCEPT ![r] = Idle]
    /\ root' = [root EXCEPT ![n] = root[old]]
    /\ origin' = [origin EXCEPT ![n] = origin[old]]
    /\ renewed' = renewed \cup {<<old, n>>}
    /\ revoked' = IF old \in revoked THEN revoked \cup {n} ELSE revoked

\* renew() fails after the entry was found: update() reports TokenNotFound.
RenewNotFound(r) ==
    /\ renewing[r] # Idle
    /\ Find(renewing[r].pair) = NoFlow
    /\ renewing' = [renewing EXCEPT ![r] = Idle]
    /\ UNCHANGED <<rows, drawn, root, origin, renewed, revoked>>

\* renew() fails after the entry was found and nothing was updated: signing fails, the
\* update does not take effect, or the replica dies.
RenewAborts(r) ==
    /\ renewing[r] # Idle
    /\ renewing' = [renewing EXCEPT ![r] = Idle]
    /\ UNCHANGED <<rows, drawn, root, origin, renewed, revoked>>

\* revoke_token()
RevokeToken(f) ==
    /\ RemoveByFlowId(f)
    /\ revoked' = revoked \cup {p \in drawn : origin[p] = f}
    /\ UNCHANGED <<renewing, root, origin, renewed>>

\* validate_token() for an unexpired token: nothing but find_by_id decides.
Valid(p) == Find(p) # NoFlow

-----------------------------------------------------------------------------
Next ==
    \/ \E n \in Pairs, f \in Flows : GeneratePair(n, f)
    \/ \E r \in Requests :
         \/ \E p, q \in Pairs, s \in Parties : RenewFind(r, p, q, s)
         \/ \E n \in Pairs : RenewUpdate(r, n)
         \/ RenewNotFound(r) \/ RenewAborts(r)
    \/ \E f \in Flows : RevokeToken(f)

Spec == Init /\ [][Next]_vars

-----------------------------------------------------------------------------
\* Type invariant.
TypeOK ==
    /\ rows \in [Pairs -> Flows \cup {NoFlow}]
    /\ drawn \subseteq Pairs
    /\ renewing \in [Requests -> [pair : Pairs \cup {NoPair}, flow : Flows \cup {NoFlow}]]
    /\ root \in [Pairs -> Pairs \cup {NoPair}]
    /\ origin \in [Pairs -> Flows \cup {NoFlow}]
    /\ renewed \subseteq Pairs \X Pairs
    /\ revoked \subseteq Pairs

\* A refresh token is spent once: however renew() calls that found the same entry
\* interleave, at most one of them gets a new pair for it.
SingleUse == \A x, y \in renewed : x[1] = y[1] => x = y

\* A generated pair and its renewals have at most one valid access token between
\* them: renew() retires the token it replaces.
OneValidPerChain ==
    \A p, q \in Pairs : Valid(p) /\ Valid(q) /\ root[p] = root[q] => p = q

\* Revocation is final (docs/siglet.md: "If the token has been revoked (flow
\* terminated), this returns 401"): no token issued for the flow before it was
\* revoked, and no token renewed from one, is valid, also when the revocation
\* came between the two halves of renew().
RevocationIsFinal == \A p \in Pairs : Valid(p) => p \notin revoked

\* A valid token belongs to the flow its chain was generated for.
FlowKept == \A p \in Pairs : Valid(p) => Find(p) = origin[p]
=============================================================================
