------------------------- MODULE SigningKeysProofs -------------------------
(***************************************************************************)
(* Proof that verification with cached keys decides rightly, for any number   *)
(* of signers, verifiers, key versions and failed loads.                      *)
(***************************************************************************)
EXTENDS SigningKeys, FiniteSetTheorems, TLAPS

\* A version Vault has had.
Known(i) == i \in Versions /\ i <= latest

\* The versions of the signers and of the tokens in circulation exist.
VersionsExist ==
    /\ latest \in Versions /\ retired \in 0..MaxRetired /\ retired < latest
    /\ signer \in [Signers -> Versions \cup {NoKey}]
    /\ \A s \in Signers : signer[s] # NoKey => Known(signer[s])
    /\ \A t \in minted : t \in AccessTokens /\ Known(t.kid)

\* Each key is cached under its own version.
CacheRight ==
    /\ public_keys \in [Versions -> Versions \cup {NoKey}]
    /\ \A i \in Versions : public_keys[i] \in {NoKey, i}

\* An answer on its way holds keys in the order of their versions, as many as there were.
Listed(keys) == \E n \in Versions : n <= latest /\ keys = [i \in 1..n |-> i]

AnswersRight ==
    /\ answer = [l \in Loaders |-> answer[l]]
    /\ \A l \in Loaders : answer[l] = <<>> \/ Listed(answer[l])

\* What a verifier has loaded contains the key of its token, and stays in the cache.
VerifierRight ==
    /\ verifier \in [Verifiers -> [token : AccessTokens \cup {NoToken},
                                   at : {"idle", "load", "store", "retry"} \cup Results]]
    /\ \A v \in Verifiers :
        LET token == verifier[v].token IN
        /\ verifier[v].at # "idle" => token \in AccessTokens /\ Known(token.kid)
        /\ verifier[v].at = "store" => Listed(answer[v]) /\ token.kid \in DOMAIN answer[v]
        /\ verifier[v].at = "retry" => public_keys[token.kid] # NoKey

Right == CacheRight /\ AnswersRight /\ VerifierRight /\ VerdictIsRight

\* The positions are the versions only as long as Vault lists the first one.
Inv == VersionsExist /\ (retired = 0 => Right)

-----------------------------------------------------------------------------
\* Sorting what Vault lists by the numbers of the versions: the i-th comes i after the retired.
LEMMA SortedByNumber ==
    ASSUME latest \in Versions, retired \in 0..MaxRetired, retired < latest
    PROVE  KeysOf = [i \in 1..(latest - retired) |-> i + retired]
<1> DEFINE S == (retired + 1)..latest
           Up(v) == {w \in S : Before(w, v)}
<1>1. /\ latest \in Nat /\ retired \in Nat /\ latest - retired \in Nat
      /\ retired + 1 \in Nat /\ 1 <= retired + 1
  BY KeysAssumption DEF Versions
<1>2. S \in Listings
  BY DEF Listings
<1>3. Cardinality(S) = latest - retired
  <2>1. Cardinality(S) = IF retired + 1 > latest THEN 0 ELSE latest - (retired + 1) + 1
    BY <1>1, FS_Interval
  <2> QED
    BY <1>1, <2>1
<1>4. \A v \in S : Cardinality(Up(v)) = v - retired
  <2> SUFFICES ASSUME NEW v \in S PROVE Cardinality(Up(v)) = v - retired
    OBVIOUS
  <2>1. v \in Nat /\ retired + 1 <= v /\ v <= latest
    BY <1>1
  <2>2. Up(v) = (retired + 1)..v
    BY <1>1, <2>1 DEF Before
  <2>3. Cardinality((retired + 1)..v) = IF retired + 1 > v THEN 0 ELSE v - (retired + 1) + 1
    BY <1>1, <2>1, FS_Interval
  <2>4. Cardinality((retired + 1)..v) = v - retired
    BY <1>1, <2>1, <2>3
  <2> QED
    BY <2>2, <2>4
<1>5. ASSUME NEW i \in 1..(latest - retired)
      PROVE  (CHOOSE v \in S : Cardinality(Up(v)) = i) = i + retired
  <2>1. i + retired \in S /\ (i + retired) - retired = i
    BY <1>1
  <2>2. \A v \in S : v - retired = i => v = i + retired
    BY <1>1
  <2> HIDE DEF S, Up
  <2>3. Cardinality(Up(i + retired)) = i
    BY <1>4, <2>1
  <2>4. \A v \in S : Cardinality(Up(v)) = i => v = i + retired
    BY <1>4, <2>2
  <2> QED
    BY <2>1, <2>3, <2>4
<1>6. KeysOf = [i \in 1..Cardinality(S) |-> CHOOSE v \in S : Cardinality(Up(v)) = i]
  BY <1>2 DEF KeysOf, Sorted
<1> HIDE DEF S, Up
<1> QED
  BY <1>3, <1>5, <1>6

\* The cache holds the versions of the start, nobody has asked for a key.
LEMMA KeysInit == Init => Inv
<1> SUFFICES ASSUME Init PROVE Inv
  OBVIOUS
<1> USE KeysAssumption DEF Init, Versions, NoKey
<1>1. VersionsExist
  BY DEF VersionsExist
<1>2. CacheRight
  BY DEF CacheRight
<1>3. AnswersRight
  BY DEF AnswersRight
<1>4. VerifierRight /\ VerdictIsRight
  BY DEF VerifierRight, VerdictIsRight
<1> QED
  BY <1>1, <1>2, <1>3, <1>4 DEF Inv, Right

\* A newer version makes nothing wrong that was right.
LEMMA RotateInv == ASSUME Inv, RotateKey PROVE Inv'
<1> USE KeysAssumption DEF RotateKey
<1>1. latest \in Nat /\ latest' = latest + 1 /\ latest' \in Versions
  BY DEF Inv, VersionsExist, Versions
<1>2. \A i : Known(i) => Known(i)'
  BY <1>1 DEF Known, Versions
<1>3. VersionsExist'
  BY <1>1, <1>2 DEF Inv, VersionsExist
<1>4. \A keys : Listed(keys) => Listed(keys)'
  BY <1>1 DEF Listed, Versions
<1>5. ASSUME Right PROVE Right'
  <2>1. CacheRight' /\ VerdictIsRight'
    BY <1>5 DEF Right, CacheRight, VerdictIsRight
  <2>2. AnswersRight'
    BY <1>4, <1>5 DEF Right, AnswersRight
  <2>3. VerifierRight'
    BY <1>2, <1>4, <1>5 DEF Right, VerifierRight
  <2> QED
    BY <2>1, <2>2, <2>3 DEF Right
<1> QED
  BY <1>3, <1>5 DEF Inv

\* Afterwards nothing is claimed of the cache.
LEMMA RetireInv == ASSUME Inv, RetireKey PROVE Inv'
<1>1. retired' # 0 /\ retired' \in 0..MaxRetired /\ retired' < latest
  BY KeysAssumption DEF RetireKey, Inv, VersionsExist, Versions
<1>2. VersionsExist'
  BY <1>1 DEF RetireKey, Inv, VersionsExist, Known
<1> QED
  BY <1>1, <1>2 DEF Inv

\* A signer names a version that exists, whichever signs.
LEMMA SignInv ==
    ASSUME Inv, NEW s \in Signers, ReadVersion(s) \/ SignContent(s)
    PROVE  Inv'
<1>1. VersionsExist'
  <2>1. CASE ReadVersion(s)
    BY <2>1, KeysAssumption DEF ReadVersion, Inv, VersionsExist, Known, Versions
  <2>2. CASE SignContent(s)
    BY <2>2 DEF SignContent, Inv, VersionsExist, Known, AccessTokens
  <2> QED
    BY <2>1, <2>2
<1>2. UNCHANGED <<latest, retired, public_keys, answer, verifier>>
  BY DEF ReadVersion, SignContent
<1> QED
  BY <1>1, <1>2 DEF Inv, Right, CacheRight, AnswersRight, Listed, VerifierRight, Known, VerdictIsRight

\* The answer of Vault, as long as it lists all versions.
LEMMA AllListed ==
    ASSUME Inv, retired = 0
    PROVE  KeysOf = [i \in 1..latest |-> i] /\ Listed(KeysOf) /\ DOMAIN KeysOf = 1..latest
<1>1. latest \in Nat /\ latest \in Versions
  BY KeysAssumption DEF Inv, VersionsExist, Versions
<1>2. KeysOf = [i \in 1..(latest - retired) |-> i + retired]
  BY SortedByNumber DEF Inv, VersionsExist
<1>3. KeysOf = [i \in 1..latest |-> i]
  BY <1>1, <1>2
<1> QED
  BY <1>1, <1>3 DEF Listed

\* Storing an answer, however old, keeps the keys in place and takes none away.
LEMMA ExtendRight ==
    ASSUME Inv, CacheRight, NEW keys, Listed(keys), extend(keys)
    PROVE  /\ CacheRight'
           /\ \A i \in Versions : public_keys[i] # NoKey => public_keys'[i] # NoKey
           /\ \A i \in Versions : i \in DOMAIN keys => public_keys'[i] # NoKey
<1>1. PICK n \in Versions : keys = [i \in 1..n |-> i]
  BY DEF Listed
<1>2. \A i \in Versions : public_keys'[i] = IF i \in 1..n THEN i ELSE public_keys[i]
  BY <1>1 DEF extend
<1>3. CacheRight'
  BY <1>2 DEF CacheRight, extend
<1> QED
  BY <1>1, <1>2, <1>3, KeysAssumption DEF CacheRight, Versions, NoKey

\* The refresh loop.
LEMMA RefreshInv ==
    ASSUME Inv, RefreshFetch \/ RefreshStore \/ RefreshFails
    PROVE  Inv'
<1>1. VersionsExist'
  BY DEF RefreshFetch, RefreshStore, RefreshFails, Inv, VersionsExist, Known
<1>2. UNCHANGED <<latest, retired, verifier>>
  BY DEF RefreshFetch, RefreshStore, RefreshFails
<1>3. Refresher \in Loaders /\ Refresher \notin Verifiers /\ Verifiers \subseteq Loaders
  BY KeysAssumption DEF Loaders
<1>4. ASSUME retired = 0 PROVE Right'
  <2>1. Right
    BY <1>4 DEF Inv
  <2>2. AnswersRight' /\ \A v \in Verifiers : answer'[v] = answer[v]
    <3>1. CASE RefreshFetch
      <4>1. answer' = [answer EXCEPT ![Refresher] = KeysOf]
        BY <3>1 DEF RefreshFetch, FetchMetadata
      <4>2. Listed(KeysOf) /\ \A keys : Listed(keys) => Listed(keys)'
        BY <1>2, <1>4, AllListed DEF Listed
      <4>3. \A l \in Loaders : answer'[l] = IF l = Refresher THEN KeysOf ELSE answer[l]
        BY <2>1, <4>1 DEF Right, AnswersRight
      <4>4. answer' = [l \in Loaders |-> answer'[l]]
        BY <2>1, <4>1 DEF Right, AnswersRight
      <4> QED
        BY <1>3, <2>1, <4>2, <4>3, <4>4 DEF Right, AnswersRight
    <3>2. CASE RefreshStore \/ RefreshFails
      BY <3>2, <2>1, <1>2, <1>3 DEF RefreshStore, RefreshFails, Right, AnswersRight, Listed
    <3> QED
      BY <3>1, <3>2
  <2>3. CacheRight' /\ \A i \in Versions : public_keys[i] # NoKey => public_keys'[i] # NoKey
    <3>1. CASE RefreshStore
      <4>1. Listed(answer[Refresher]) /\ extend(answer[Refresher])
        BY <3>1, <2>1, <1>3 DEF RefreshStore, Right, AnswersRight
      <4> QED
        BY <4>1, <2>1, ExtendRight DEF Right
    <3>2. CASE RefreshFetch \/ RefreshFails
      BY <3>2, <2>1 DEF RefreshFetch, RefreshFails, Right, CacheRight
    <3> QED
      BY <3>1, <3>2
  <2>4. VerifierRight' /\ VerdictIsRight'
    BY <2>1, <2>2, <2>3, <1>2 DEF Right, VerifierRight, VerdictIsRight, AccessTokens, Known, Listed
  <2> QED
    BY <2>2, <2>3, <2>4 DEF Right
<1> QED
  BY <1>1, <1>2, <1>4 DEF Inv

\* A verdict over a right cache is right.
LEMMA VerdictRight ==
    ASSUME CacheRight, NEW token \in AccessTokens, public_keys[token.kid] # NoKey
    PROVE  /\ Verdict(token) \in {"accepted", "bad_signature"}
           /\ Verdict(token) = "accepted" => token.kid = token.key
           /\ Verdict(token) = "bad_signature" => token.kid # token.key
BY DEF CacheRight, AccessTokens, Verdict

\* The steps of resolve_key.
LEMMA VerifyInv ==
    ASSUME Inv, NEW v \in Verifiers,
           \/ \E token \in minted : Lookup(v, token)
           \/ MissFetch(v) \/ MissFails(v) \/ MissStore(v) \/ MissRetry(v)
    PROVE  Inv'
<1>1. VersionsExist' /\ UNCHANGED <<latest, retired>>
  BY DEF Lookup, MissFetch, MissFails, MissStore, MissRetry, Inv, VersionsExist, Known
<1>2. v \in Loaders
  BY DEF Loaders
<1>3. ASSUME retired = 0 PROVE Right'
  <2>1. Right
    BY <1>3 DEF Inv
  <2>2. ASSUME NEW token \in minted, Lookup(v, token) PROVE Right'
    <3>1. token \in AccessTokens /\ Known(token.kid)
      BY DEF Inv, VersionsExist
    <3>2. UNCHANGED <<public_keys, answer, latest, retired>>
      BY <2>2 DEF Lookup
    <3>3. CacheRight' /\ AnswersRight'
      BY <2>1, <3>2 DEF Right, CacheRight, AnswersRight, Listed
    <3>4. CASE public_keys[token.kid] = NoKey
      <4>1. verifier' = [verifier EXCEPT ![v] = [token |-> token, at |-> "load"]]
        BY <2>2, <3>4 DEF Lookup
      <4> QED
        BY <2>1, <3>1, <3>2, <3>3, <4>1 DEF Right, VerifierRight, VerdictIsRight, Known, Listed
    <3>5. CASE public_keys[token.kid] # NoKey
      <4>1. verifier' = [verifier EXCEPT ![v] = [token |-> token, at |-> Verdict(token)]]
        BY <2>2, <3>5 DEF Lookup
      <4>2. /\ Verdict(token) \in {"accepted", "bad_signature"}
            /\ Verdict(token) = "accepted" => token.kid = token.key
            /\ Verdict(token) = "bad_signature" => token.kid # token.key
        BY <2>1, <3>1, <3>5, VerdictRight DEF Right
      <4> QED
        BY <2>1, <3>1, <3>2, <3>3, <4>1, <4>2
           DEF Right, VerifierRight, VerdictIsRight, Results, Known, Listed
    <3> QED
      BY <3>4, <3>5
  <2>3. CASE MissFetch(v)
    <3>1. /\ verifier' = [verifier EXCEPT ![v].at = "store"]
          /\ answer' = [answer EXCEPT ![v] = KeysOf]
          /\ verifier[v].at = "load" /\ UNCHANGED <<public_keys, latest, retired>>
      BY <2>3 DEF MissFetch, FetchMetadata
    <3>2. Listed(KeysOf) /\ DOMAIN KeysOf = 1..latest
      BY <1>3, AllListed
    <3>3. CacheRight' /\ AnswersRight'
      BY <2>1, <3>1, <3>2 DEF Right, CacheRight, AnswersRight, Listed
    <3>4. Known(verifier[v].token.kid) /\ verifier[v].token \in AccessTokens
      BY <2>1, <3>1 DEF Right, VerifierRight
    <3>5. verifier[v].token.kid \in 1..latest
      BY <3>4, KeysAssumption DEF Known, Versions, Inv, VersionsExist
    <3>6. VerifierRight'
      <4>1. /\ \A keys : Listed(keys) => Listed(keys)'
            /\ \A i : Known(i) => Known(i)'
        BY <3>1 DEF Listed, Known
      <4>2. /\ answer'[v] = KeysOf
            /\ \A w \in Verifiers : w # v => answer'[w] = answer[w]
        BY <1>2, <2>1, <3>1 DEF Right, AnswersRight, Loaders
      <4>3. /\ verifier'[v] = [token |-> verifier[v].token, at |-> "store"]
            /\ \A w \in Verifiers : w # v => verifier'[w] = verifier[w]
        BY <2>1, <3>1 DEF Right, VerifierRight
      <4>4. verifier' \in [Verifiers -> [token : AccessTokens \cup {NoToken},
                                at : {"idle", "load", "store", "retry"} \cup Results]]
        BY <2>1, <3>1 DEF Right, VerifierRight
      <4> QED
        BY <2>1, <3>1, <3>2, <3>4, <3>5, <4>1, <4>2, <4>3, <4>4 DEF Right, VerifierRight
    <3>7. VerdictIsRight'
      BY <2>1, <3>1 DEF Right, VerifierRight, VerdictIsRight
    <3> QED
      BY <3>3, <3>6, <3>7 DEF Right
  <2>4. CASE MissFails(v)
    BY <2>1, <2>4 DEF MissFails, Right, CacheRight, AnswersRight, Listed, VerifierRight,
                      VerdictIsRight, Results, Known
  <2>5. CASE MissStore(v)
    <3>1. /\ verifier' = [verifier EXCEPT ![v].at = "retry"]
          /\ answer' = [answer EXCEPT ![v] = <<>>]
          /\ verifier[v].at = "store" /\ UNCHANGED <<latest, retired>>
          /\ extend(answer[v])
      BY <2>5 DEF MissStore
    <3>2. /\ Listed(answer[v]) /\ verifier[v].token.kid \in DOMAIN answer[v]
          /\ verifier[v].token \in AccessTokens
      BY <2>1, <3>1 DEF Right, VerifierRight
    <3>3. /\ CacheRight'
          /\ \A i \in Versions : public_keys[i] # NoKey => public_keys'[i] # NoKey
          /\ public_keys'[verifier[v].token.kid] # NoKey
      BY <2>1, <3>1, <3>2, ExtendRight DEF Right, AccessTokens
    <3>4. AnswersRight'
      BY <2>1, <3>1 DEF Right, AnswersRight, Listed
    <3>5. VerifierRight'
      <4>1. /\ \A keys : Listed(keys) => Listed(keys)'
            /\ \A i : Known(i) => Known(i)'
        BY <3>1 DEF Listed, Known
      <4>2. \A w \in Verifiers : w # v => answer'[w] = answer[w]
        BY <2>1, <3>1 DEF Right, AnswersRight, Loaders
      <4>3. /\ verifier'[v] = [token |-> verifier[v].token, at |-> "retry"]
            /\ \A w \in Verifiers : w # v => verifier'[w] = verifier[w]
        BY <2>1, <3>1 DEF Right, VerifierRight
      <4>4. verifier' \in [Verifiers -> [token : AccessTokens \cup {NoToken},
                                at : {"idle", "load", "store", "retry"} \cup Results]]
        BY <2>1, <3>1 DEF Right, VerifierRight
      <4>5. Known(verifier[v].token.kid)
        BY <2>1, <3>1 DEF Right, VerifierRight
      <4>6. \A w \in Verifiers : verifier[w].at # "idle" => verifier[w].token.kid \in Versions
        BY <2>1 DEF Right, VerifierRight, AccessTokens
      <4> QED
        BY <2>1, <3>2, <3>3, <4>1, <4>2, <4>3, <4>4, <4>5, <4>6 DEF Right, VerifierRight
    <3>6. VerdictIsRight'
      BY <2>1, <3>1 DEF Right, VerifierRight, VerdictIsRight
    <3> QED
      BY <3>3, <3>4, <3>5, <3>6 DEF Right
  <2>6. CASE MissRetry(v)
    <3> DEFINE token == verifier[v].token
    <3>1. token \in AccessTokens /\ Known(token.kid) /\ public_keys[token.kid] # NoKey
      BY <2>1, <2>6 DEF MissRetry, Right, VerifierRight
    <3>2. /\ verifier' = [verifier EXCEPT ![v].at = Verdict(token)]
          /\ UNCHANGED <<public_keys, answer, latest, retired>>
      BY <2>6, <3>1 DEF MissRetry
    <3>3. /\ Verdict(token) \in {"accepted", "bad_signature"}
          /\ Verdict(token) = "accepted" => token.kid = token.key
          /\ Verdict(token) = "bad_signature" => token.kid # token.key
      BY <2>1, <3>1, VerdictRight DEF Right
    <3>4. CacheRight' /\ AnswersRight'
      BY <2>1, <3>2 DEF Right, CacheRight, AnswersRight, Listed
    <3> QED
      BY <2>1, <3>1, <3>2, <3>3, <3>4
         DEF Right, VerifierRight, VerdictIsRight, Results, Known, Listed
  <2> QED
    BY <2>2, <2>3, <2>4, <2>5, <2>6
<1> QED
  BY <1>1, <1>3 DEF Inv

\* Key mappings and proofs do not touch the access tokens.
LEMMA ProofStepInv ==
    ASSUME Inv, UNCHANGED <<latest, retired, signer, minted, public_keys, answer, verifier>>
    PROVE  Inv'
BY DEF Inv, VersionsExist, Right, CacheRight, AnswersRight, Listed, VerifierRight, Known, VerdictIsRight

\* Every step.
LEMMA KeysNext == Inv /\ [Next]_vars => Inv'
<1> SUFFICES ASSUME Inv, [Next]_vars PROVE Inv'
  OBVIOUS
<1>1. CASE UNCHANGED vars \/ \E k \in KeyNames : RotateMappedKey(k)
  BY <1>1, ProofStepInv DEF vars, RotateMappedKey
<1>2. ASSUME NEW c \in ParticipantContexts,
             ManageKeyMapping(c) \/ ResolveMapping(c) \/ SignProof(c)
      PROVE  Inv'
  BY <1>2, ProofStepInv DEF ManageKeyMapping, CreateKeyMapping, UpdateKeyMapping,
                            DeleteKeyMapping, Store, ResolveMapping, SignProof
<1>3. CASE RotateKey \/ RetireKey \/ RefreshFetch \/ RefreshStore \/ RefreshFails
  BY <1>3, RotateInv, RetireInv, RefreshInv
<1>4. ASSUME NEW s \in Signers, ReadVersion(s) \/ SignContent(s) PROVE Inv'
  BY <1>4, SignInv
<1>5. ASSUME NEW v \in Verifiers,
             \/ \E token \in minted : Lookup(v, token)
             \/ MissFetch(v) \/ MissFails(v) \/ MissStore(v) \/ MissRetry(v)
      PROVE  Inv'
  BY <1>5, VerifyInv
<1> QED
  BY <1>1, <1>2, <1>3, <1>4, <1>5 DEF Next

\* While Vault lists all versions, the resolver finds the key of every token and the
\* verifier's verdict depends only on who signed it, whatever loads overlap.
THEOREM VerdictsRight == Spec => []VerdictIsRight
<1>1. Inv => VerdictIsRight
  BY DEF Inv, Right, VerdictIsRight
<1> QED
  BY <1>1, KeysInit, KeysNext, PTL DEF Spec

-----------------------------------------------------------------------------
(* Proof tokens. *)

\* While the operator is careful, every mapping resolves to the version that signs, and so
\* does what a prover has read, also from a mapping replaced since, until its key is rotated.
InStep(holder, c) == holder[c] # NoMapping => Published(c, holder[c])

ProofInv ==
    /\ transit \in [KeyNames -> Nat]
    /\ mappings \in [ParticipantContexts -> KeyMappings \cup {NoMapping}]
    /\ prover \in [ParticipantContexts -> KeyMappings \cup {NoMapping}]
    /\ DOMAIN proof = ParticipantContexts
    /\ careful => \A c \in ParticipantContexts :
           InStep(mappings, c) /\ (c \notin overtaken => InStep(prover, c))
    /\ ProofVerifies

\* The steps of the management API and of the provers.
LEMMA ProofInvStep ==
    ASSUME ProofInv, NEW c \in ParticipantContexts,
           ManageKeyMapping(c) \/ ResolveMapping(c) \/ SignProof(c)
    PROVE  ProofInv'
<1>1. CASE ManageKeyMapping(c)
  <2>1. PICK m \in KeyMappings \cup {NoMapping} : Store(c, m)
    BY <1>1 DEF ManageKeyMapping, CreateKeyMapping, UpdateKeyMapping, DeleteKeyMapping
  <2>2. /\ mappings' = [mappings EXCEPT ![c] = m] /\ (careful /\ m # NoMapping => Published(c, m))
        /\ UNCHANGED <<careful, transit, prover, overtaken, proof>>
    BY <2>1 DEF Store
  <2>3. ASSUME careful, NEW d \in ParticipantContexts
        PROVE  InStep(mappings, d)' /\ (d \notin overtaken => InStep(prover, d)')
    <3>1. mappings'[d] = IF d = c THEN m ELSE mappings[d]
      BY <2>2 DEF ProofInv
    <3> QED
      BY <2>2, <2>3, <3>1 DEF ProofInv, InStep, Published, Current
  <2>4. ProofVerifies'
    BY <2>2 DEF ProofInv, ProofVerifies
  <2> QED
    BY <2>2, <2>3, <2>4 DEF ProofInv
<1>2. CASE ResolveMapping(c)
  <2>1. /\ prover' = [prover EXCEPT ![c] = mappings[c]]
        /\ UNCHANGED <<careful, transit, mappings, overtaken, proof>>
    BY <1>2 DEF ResolveMapping
  <2>2. ASSUME careful, NEW d \in ParticipantContexts
        PROVE  InStep(mappings, d)' /\ (d \notin overtaken => InStep(prover, d)')
    <3>1. prover'[d] = IF d = c THEN mappings[c] ELSE prover[d]
      BY <2>1 DEF ProofInv
    <3> QED
      BY <2>1, <2>2, <3>1 DEF ProofInv, InStep, Published, Current
  <2>3. ProofVerifies'
    BY <2>1 DEF ProofInv, ProofVerifies
  <2> QED
    BY <2>1, <2>2, <2>3 DEF ProofInv
<1>3. CASE SignProof(c)
  <2> DEFINE p == [kid |-> prover[c].kid, key |-> Current(prover[c].key_name),
                   late |-> c \in overtaken]
  <2>1. /\ prover[c] # NoMapping /\ prover' = [prover EXCEPT ![c] = NoMapping]
        /\ proof' = [proof EXCEPT ![c] = p] /\ overtaken' = overtaken \ {c}
        /\ UNCHANGED <<careful, transit, mappings>>
    BY <1>3 DEF SignProof
  <2>2. p.kid = prover[c].kid /\ p.key = Current(prover[c].key_name) /\ p.late = (c \in overtaken)
    OBVIOUS
  <2> HIDE DEF p
  <2>3. ASSUME careful, NEW d \in ParticipantContexts
        PROVE  InStep(mappings, d)' /\ (d \notin overtaken' => InStep(prover, d)')
    <3>1. prover'[d] = IF d = c THEN NoMapping ELSE prover[d]
      BY <2>1 DEF ProofInv
    <3> QED
      BY <2>1, <2>3, <3>1 DEF ProofInv, InStep, Published, Current
  <2>4. ASSUME careful, NEW d \in ParticipantContexts, proof'[d] # NoMapping, ~proof'[d].late
        PROVE  ResolveDidKey(d, proof'[d].kid) = proof'[d].key
    <3>1. proof'[d] = IF d = c THEN p ELSE proof[d]
      BY <2>1 DEF ProofInv
    <3>2. CASE d # c
      BY <2>4, <3>1, <3>2 DEF ProofInv, ProofVerifies
    <3>3. CASE d = c
      <4>1. c \notin overtaken
        BY <2>2, <2>4, <3>1, <3>3
      <4>2. Published(c, prover[c])
        BY <2>1, <2>4, <4>1 DEF ProofInv, InStep
      <4> QED
        BY <2>2, <3>1, <3>3, <4>2 DEF Published
    <3> QED
      BY <3>2, <3>3
  <2>5. ProofVerifies'
    BY <2>1, <2>4 DEF ProofVerifies
  <2> QED
    BY <2>1, <2>3, <2>5 DEF ProofInv
<1> QED
  BY <1>1, <1>2, <1>3

\* A careful operator rotates a key that no mapping names; a prover that still holds it has
\* been overtaken.
LEMMA RotateMappedStep ==
    ASSUME ProofInv, NEW k \in KeyNames, RotateMappedKey(k)
    PROVE  ProofInv'
<1>1. /\ transit' = [transit EXCEPT ![k] = @ + 1]
      /\ UNCHANGED <<careful, mappings, prover, proof>>
      /\ careful => \A c \in ParticipantContexts : ~Uses(mappings, c, k)
      /\ overtaken' = overtaken \cup {c \in ParticipantContexts : Uses(prover, c, k)}
  BY Zenon DEF RotateMappedKey
<1>2. transit' \in [KeyNames -> Nat] /\ \A n \in KeyNames : n # k => transit'[n] = transit[n]
  BY <1>1 DEF ProofInv
<1>3. ASSUME NEW m \in KeyMappings, NEW c, m.key_name # k, Published(c, m) PROVE Published(c, m)'
  <2>1. m.key_name \in KeyNames
    BY DEF KeyNames
  <2> QED
    BY <1>2, <1>3, <2>1 DEF Published, Current
<1>4. ASSUME careful, NEW c \in ParticipantContexts
      PROVE  InStep(mappings, c)' /\ (c \notin overtaken' => InStep(prover, c)')
  <2>1. ASSUME mappings[c] # NoMapping PROVE Published(c, mappings[c])'
    <3>1. mappings[c] \in KeyMappings /\ mappings[c].key_name # k /\ Published(c, mappings[c])
      BY <1>1, <1>4, <2>1 DEF ProofInv, InStep, Uses
    <3> QED
      BY <1>1, <1>2, <3>1 DEF Published, Current, KeyNames
  <2>2. ASSUME prover[c] # NoMapping, c \notin overtaken' PROVE Published(c, prover[c])'
    <3>1. prover[c] \in KeyMappings /\ prover[c].key_name # k /\ Published(c, prover[c])
      BY <1>1, <1>4, <2>2 DEF ProofInv, InStep, Uses
    <3> QED
      BY <1>1, <1>2, <3>1 DEF Published, Current, KeyNames
  <2> QED
    BY <1>1, <2>1, <2>2 DEF InStep
<1>5. ProofVerifies'
  BY <1>1 DEF ProofInv, ProofVerifies
<1> QED
  BY <1>1, <1>2, <1>4, <1>5 DEF ProofInv

\* With a careful operator a proof verifies with the issuer's DID document, for any mappings,
\* documents and rotations: the mapping is read once, and what it says of the key stays true
\* until the key is rotated, however often the mapping is replaced.
THEOREM ProofsVerify == Spec => []ProofVerifies
<1>1. Init => ProofInv
  <2>1. Init => transit \in [KeyNames -> Nat]
    BY DEF Init
  <2> QED
    BY <2>1 DEF Init, ProofInv, InStep, ProofVerifies
<1>2. ProofInv /\ [Next]_vars => ProofInv'
  <2> SUFFICES ASSUME ProofInv, [Next]_vars PROVE ProofInv'
    OBVIOUS
  <2>1. ASSUME UNCHANGED proofVars PROVE ProofInv'
    BY <2>1 DEF proofVars, ProofInv, InStep, Published, Current, ProofVerifies
  <2>2. ASSUME NEW c \in ParticipantContexts,
               ManageKeyMapping(c) \/ ResolveMapping(c) \/ SignProof(c)
        PROVE  ProofInv'
    BY <2>2, ProofInvStep
  <2>3. ASSUME NEW k \in KeyNames, RotateMappedKey(k) PROVE ProofInv'
    BY <2>3, RotateMappedStep
  <2>4. \/ UNCHANGED proofVars
        \/ \E c \in ParticipantContexts :
              ManageKeyMapping(c) \/ ResolveMapping(c) \/ SignProof(c)
        \/ \E k \in KeyNames : RotateMappedKey(k)
    BY DEF Next, vars, proofVars, RotateKey, RetireKey, ReadVersion, SignContent, RefreshFetch,
           RefreshStore, RefreshFails, Lookup, MissFetch, MissFails, MissStore, MissRetry
  <2> QED
    BY <2>1, <2>2, <2>3, <2>4
<1>3. ProofInv => ProofVerifies
  BY DEF ProofInv
<1> QED
  BY <1>1, <1>2, <1>3, PTL DEF Spec

-----------------------------------------------------------------------------
(* Types, and what stays published *)

\* Whatever was fetched is a list of versions.
Answered == DOMAIN answer = Loaders /\ \A l \in Loaders : answer[l] \in Seq(Versions)

\* The metadata Vault returns is a list of versions.
LEMMA MetadataTyped ==
    ASSUME TypeOK
    PROVE  KeysOf \in Seq(Versions)
<1>1. latest \in Nat /\ retired \in Nat /\ retired < latest /\ latest <= MaxVersion
  BY KeysAssumption DEF TypeOK, Versions
<1>2. latest - retired \in Nat /\ \A i \in 1..(latest - retired) : i + retired \in 1..MaxVersion
  BY <1>1, KeysAssumption
<1> DEFINE n == latest - retired
<1>3. n \in Nat /\ KeysOf \in [1..n -> Versions]
  BY <1>2, SortedByNumber DEF Versions, TypeOK
<1> HIDE DEF n
<1> QED
  BY <1>3

\* Every version and every key that a request carries is a version.
LEMMA TypedStep ==
    ASSUME TypeOK, Answered, [Next]_vars
    PROVE  TypeOK' /\ Answered'
<1>1. CASE UNCHANGED vars
  BY <1>1 DEF vars, proofVars, TypeOK, Answered
<1>2. CASE RotateKey \/ RetireKey
  <2>1. latest' \in Versions /\ retired' \in 0..MaxRetired /\ retired' < latest'
    BY <1>2, KeysAssumption DEF RotateKey, RetireKey, TypeOK, Versions
  <2>2. UNCHANGED <<key_resolver, signer, minted, public_keys, answer, verifier, faults,
                    mappings, careful, transit, prover, overtaken, proof>>
    BY <1>2 DEF RotateKey, RetireKey, proofVars
  <2> QED
    BY <2>1, <2>2 DEF TypeOK, Answered
<1>3. ASSUME NEW s \in Signers, ReadVersion(s) \/ SignContent(s)
      PROVE  TypeOK' /\ Answered'
  <2>1. UNCHANGED <<key_resolver, latest, retired, public_keys, answer, verifier, faults,
                    mappings, careful, transit, prover, overtaken, proof>>
    BY <1>3 DEF ReadVersion, SignContent, proofVars
  <2>2. signer' \in [Signers -> Versions \cup {NoKey}]
    BY <1>3 DEF ReadVersion, SignContent, TypeOK
  <2>3. minted' \subseteq AccessTokens
    <3>1. CASE ReadVersion(s)
      BY <3>1 DEF ReadVersion, TypeOK
    <3>2. CASE SignContent(s)
      <4>1. [kid |-> signer[s], key |-> latest] \in AccessTokens
        BY <3>2 DEF SignContent, TypeOK, AccessTokens
      <4> QED
        BY <3>2, <4>1 DEF SignContent, TypeOK
    <3> QED
      BY <1>3, <3>1, <3>2
  <2> QED
    BY <2>1, <2>2, <2>3 DEF TypeOK, Answered
<1>4. \A l \in Loaders : answer[l] \in Seq(Versions) /\ <<>> \in Seq(Versions)
  BY DEF Answered
<1>5. ASSUME NEW l \in Loaders, extend(answer[l])
      PROVE  public_keys' \in [Versions -> Versions \cup {NoKey}]
  <2>1. \A i \in DOMAIN answer[l] : answer[l][i] \in Versions
    BY <1>4
  <2> QED
    BY <1>5, <2>1 DEF extend, TypeOK
<1>6. ASSUME NEW l \in Loaders, NEW x \in Seq(Versions), answer' = [answer EXCEPT ![l] = x]
      PROVE  Answered'
  BY <1>6 DEF Answered
<1>7. ASSUME RefreshFetch \/ RefreshStore \/ RefreshFails
      PROVE  TypeOK' /\ Answered'
  <2>1. Refresher \in Loaders
    BY DEF Loaders
  <2>2. Answered'
    BY <1>4, <1>6, <1>7, <2>1, MetadataTyped DEF RefreshFetch, RefreshStore, RefreshFails, FetchMetadata
  <2>3. public_keys' \in [Versions -> Versions \cup {NoKey}]
    <3>1. CASE RefreshStore
      BY <1>5, <2>1, <3>1 DEF RefreshStore
    <3>2. CASE RefreshFetch \/ RefreshFails
      BY <3>2 DEF RefreshFetch, RefreshFails, TypeOK
    <3> QED
      BY <1>7, <3>1, <3>2
  <2>4. faults' \in 0..MaxFaults
    BY <1>7, KeysAssumption DEF RefreshFetch, RefreshStore, RefreshFails, TypeOK
  <2>5. UNCHANGED <<key_resolver, latest, retired, signer, minted, verifier,
                    mappings, careful, transit, prover, overtaken, proof>>
    BY <1>7 DEF RefreshFetch, RefreshStore, RefreshFails, proofVars
  <2> QED
    BY <2>2, <2>3, <2>4, <2>5 DEF TypeOK, Answered
<1>8. ASSUME NEW v \in Verifiers,
             \/ \E token \in minted : Lookup(v, token)
             \/ MissFetch(v) \/ MissFails(v) \/ MissStore(v) \/ MissRetry(v)
      PROVE  TypeOK' /\ Answered'
  <2>1. v \in Loaders
    BY DEF Loaders
  <2>2. Answered'
    <3>1. CASE answer' = answer
      BY <3>1 DEF Answered
    <3>2. CASE MissFetch(v) \/ MissStore(v)
      BY <1>4, <1>6, <2>1, <3>2, MetadataTyped DEF MissFetch, MissStore, FetchMetadata
    <3> QED
      BY <1>8, <3>1, <3>2 DEF Lookup, MissFails, MissRetry
  <2>3. public_keys' \in [Versions -> Versions \cup {NoKey}]
    <3>1. CASE MissStore(v)
      BY <1>5, <2>1, <3>1 DEF MissStore
    <3>2. CASE public_keys' = public_keys
      BY <3>2 DEF TypeOK
    <3> QED
      BY <1>8, <3>1, <3>2 DEF Lookup, MissFetch, MissFails, MissRetry
  <2>4. faults' \in 0..MaxFaults
    BY <1>8, KeysAssumption DEF Lookup, MissFetch, MissFails, MissStore, MissRetry, TypeOK
  <2>5. UNCHANGED <<key_resolver, latest, retired, signer, minted, mappings, careful, transit,
                    prover, overtaken, proof>>
    BY <1>8 DEF Lookup, MissFetch, MissFails, MissStore, MissRetry, proofVars
  <2>6. verifier' \in [Verifiers -> [token : AccessTokens \cup {NoToken},
                                     at : {"idle", "load", "store", "retry"} \cup Results]]
    <3> DEFINE At == {"idle", "load", "store", "retry"} \cup Results
               Tokens == AccessTokens \cup {NoToken}
    <3>1. \A token : Verdict(token) \in At
      BY DEF Verdict, Results
    <3>2. {"load", "store", "retry", "not_found", "unavailable"} \subseteq At
      BY DEF Results
    <3>3. verifier \in [Verifiers -> [token : Tokens, at : At]] /\ minted \subseteq Tokens
      BY DEF TypeOK
    <3> HIDE DEF At, Tokens
    <3>4. CASE \E token \in minted : Lookup(v, token)
      <4>1. PICK token \in minted : Lookup(v, token)
        BY <3>4
      <4>2. \E a \in At : verifier' = [verifier EXCEPT ![v] = [token |-> token, at |-> a]]
        BY <3>1, <3>2, <4>1 DEF Lookup
      <4> QED
        BY <3>3, <4>2 DEF At, Tokens
    <3>5. CASE MissFetch(v) \/ MissFails(v) \/ MissStore(v) \/ MissRetry(v)
      <4>1. \E a \in At : verifier' = [verifier EXCEPT ![v].at = a]
        BY <3>1, <3>2, <3>5 DEF MissFetch, MissFails, MissStore, MissRetry
      <4> QED
        BY <3>3, <4>1 DEF At, Tokens
    <3> QED
      BY <1>8, <3>4, <3>5
  <2> QED
    BY <2>2, <2>3, <2>4, <2>5, <2>6 DEF TypeOK, Answered
<1>9. ASSUME NEW c \in ParticipantContexts, ManageKeyMapping(c) \/ ResolveMapping(c) \/ SignProof(c)
      PROVE  TypeOK' /\ Answered'
  <2>0. careful' = careful /\ transit' = transit /\ overtaken' \subseteq overtaken
    BY <1>9 DEF ManageKeyMapping, CreateKeyMapping, UpdateKeyMapping, DeleteKeyMapping, Store,
         ResolveMapping, SignProof
  <2>1. UNCHANGED <<key_resolver, latest, retired, signer, minted, public_keys, answer, verifier,
                    faults>>
    BY <1>9 DEF ManageKeyMapping, CreateKeyMapping, UpdateKeyMapping, DeleteKeyMapping, Store,
         ResolveMapping, SignProof
  <2>2. mappings' \in [ParticipantContexts -> KeyMappings \cup {NoMapping}]
    BY <1>9 DEF ManageKeyMapping, CreateKeyMapping, UpdateKeyMapping, DeleteKeyMapping, Store,
         ResolveMapping, SignProof, TypeOK
  <2>3. prover' \in [ParticipantContexts -> KeyMappings \cup {NoMapping}]
    BY <1>9 DEF ManageKeyMapping, CreateKeyMapping, UpdateKeyMapping, DeleteKeyMapping, Store,
         ResolveMapping, SignProof, TypeOK
  <2>4. proof' \in [ParticipantContexts -> Proofs \cup {NoMapping}]
    <3>1. CASE ManageKeyMapping(c) \/ ResolveMapping(c)
      BY <3>1 DEF ManageKeyMapping, CreateKeyMapping, UpdateKeyMapping, DeleteKeyMapping, Store,
           ResolveMapping, TypeOK
    <3>2. CASE SignProof(c)
      <4> DEFINE p == [kid |-> prover[c].kid, key |-> Current(prover[c].key_name),
                       late |-> c \in overtaken]
      <4>1. proof' = [proof EXCEPT ![c] = p]
        BY <3>2 DEF SignProof
      <4>2. prover[c] \in KeyMappings
        BY <3>2 DEF SignProof, TypeOK
      <4>3. Current(prover[c].key_name) \in TransitKeys
        BY <4>2 DEF Current, TransitKeys, KeyNames, TypeOK
      <4>4. (c \in overtaken) \in BOOLEAN
        OBVIOUS
      <4>5. p \in Proofs
        BY <4>2, <4>3, <4>4 DEF Proofs
      <4> HIDE DEF p
      <4> QED
        BY <4>1, <4>5 DEF TypeOK
    <3> QED
      BY <1>9, <3>1, <3>2
  <2> QED
    BY <2>0, <2>1, <2>2, <2>3, <2>4 DEF TypeOK, Answered
<1>10. ASSUME NEW k \in KeyNames, RotateMappedKey(k)
       PROVE  TypeOK' /\ Answered'
  <2>1. transit' \in [KeyNames -> 1..MaxKeyVersion]
    BY <1>10, KeysAssumption DEF RotateMappedKey, TypeOK
  <2> QED
    BY <1>10, <2>1 DEF RotateMappedKey, TypeOK, Answered
<1> QED
  BY <1>1, <1>2, <1>3, <1>7, <1>8, <1>9, <1>10 DEF Next

\* TypeOK and Answered hold at the start.
LEMMA TypedInit == Init => TypeOK /\ Answered
<1> SUFFICES ASSUME Init PROVE TypeOK /\ Answered
  OBVIOUS
<1>1. /\ FirstVersion \in Versions /\ retired < latest /\ 0 \in 0..MaxRetired
      /\ 0 \in 0..MaxFaults /\ 1 \in 1..MaxKeyVersion
  BY KeysAssumption DEF Init, Versions
<1>2. Answered
  BY DEF Init, Answered
<1>3. verifier \in [Verifiers -> [token : AccessTokens \cup {NoToken},
                                  at : {"idle", "load", "store", "retry"} \cup Results]]
  BY DEF Init
<1> QED
  BY <1>1, <1>2, <1>3 DEF Init, TypeOK

\* TypeOK: in particular nothing but the key of some version is cached, signed with or fetched.
THEOREM KeysTypeCorrect == Spec => []TypeOK
<1>1. TypeOK /\ Answered /\ [Next]_vars => (TypeOK /\ Answered)'
  BY TypedStep
<1> QED
  BY <1>1, TypedInit, PTL DEF Spec

\* A key that is published stays published, also when Vault no longer lists its version: a
\* refresh and a reload only ever add to the cache or overwrite a key by one that is listed.
KeyStays == \A i \in Versions : public_keys[i] # NoKey => public_keys'[i] # NoKey

\* The part of KeysPublished that is about safety, for retired versions too: extend never takes
\* a key out of the JWK set.
THEOREM PublishedKeysStay == Spec => [][KeyStays]_vars
<1>1. TypeOK /\ Answered /\ [Next]_vars => [KeyStays]_vars
  <2> SUFFICES ASSUME Answered, TypeOK, Next PROVE KeyStays
    BY DEF KeyStays
  <2>1. ASSUME NEW l \in Loaders, extend(answer[l]) PROVE KeyStays
    <3>1. \A i \in DOMAIN answer[l] : answer[l][i] # NoKey
      BY KeysAssumption DEF Answered, Versions, NoKey
    <3> QED
      BY <2>1, <3>1 DEF extend, KeyStays
  <2>2. CASE public_keys' = public_keys
    BY <2>2 DEF KeyStays
  <2>3. CASE RefreshStore
    BY <2>1, <2>3 DEF RefreshStore, Loaders
  <2>4. ASSUME NEW v \in Verifiers, MissStore(v) PROVE KeyStays
    BY <2>1, <2>4 DEF MissStore, Loaders
  <2> QED
    BY <2>2, <2>3, <2>4 DEF Next, RotateKey, RetireKey, ReadVersion, SignContent, RefreshFetch,
         RefreshFails, Lookup, MissFetch, MissFails, MissRetry, ManageKeyMapping, CreateKeyMapping,
         UpdateKeyMapping, DeleteKeyMapping, Store, ResolveMapping, SignProof, RotateMappedKey
<1>2. TypeOK /\ Answered /\ [Next]_vars => (TypeOK /\ Answered)'
  BY TypedStep
<1> QED
  BY <1>1, <1>2, TypedInit, PTL DEF Spec
=============================================================================
