---------------------------- MODULE SigningKeys ----------------------------
(***************************************************************************)
(* Who signs with which key, and who finds it (facet-core/src/jwt/).          *)
(*                                                                         *)
(* Access tokens: VaultJwtGenerator with the FixedTransitKeyResolver reads the  *)
(* version of the transit key and then asks Vault to sign;                    *)
(* VaultVerificationKeyResolver caches the public keys of all versions, reloads  *)
(* them in the background and on a miss, and serves them as a JWK set.          *)
(*                                                                         *)
(* Proof tokens: the MappingTransitKeyResolver takes key and kid from the        *)
(* mappings of the management API, DidWebVerificationKeyResolver finds the key     *)
(* in the DID document of the issuer.                                        *)
(***************************************************************************)
EXTENDS Naturals, Sequences, FiniteSets, SequencesExt

CONSTANTS Signers, Verifiers,
          FirstVersion,      \* latest version of the transit key when the process starts
          MaxVersion,        \* bound: versions of the transit key
          MaxRetired,        \* bound: versions Vault no longer lists
          MaxFaults,         \* bound: failed loads
          ParticipantContexts,
          documents,         \* documents[c]: verification methods of a participant's DID, each
                             \* with a version of a transit key
          KeyMappings,       \* bodies of requests to the management API: key_name and kid
          MaxKeyVersion,     \* bound: versions of a mapped transit key
          NoMapping

Versions == 1..MaxVersion
NoKey == 0
Refresher == "refresh"
Loaders == Verifiers \cup {Refresher}
KeyNames == {m.key_name : m \in KeyMappings}

ASSUME KeysAssumption ==
    /\ MaxVersion \in Nat \ {0} /\ FirstVersion \in Versions
    /\ MaxKeyVersion \in Nat \ {0} /\ MaxRetired \in Nat /\ MaxFaults \in Nat
    /\ Refresher \notin Verifiers /\ NoMapping \notin KeyMappings

VARIABLES key_resolver, \* of the generator: "fixed" or "mapping"
          latest,       \* Vault: latest_version of the transit key
          retired,      \* Vault: versions 1..retired are no longer listed
          signer,       \* signer[s]: the version it put into the header, or NoKey
          minted,       \* access tokens: version named in kid, version that signed
          public_keys,  \* public_keys[i]: key cached under kid "{key_name}-i"
          answer,       \* answer[l]: keys of the metadata that l has fetched
          verifier,     \* verifier[v]: its token and how far the verification is
          faults,
          mappings,     \* SigningKeyMappingRepository
          careful,      \* whether the operator keeps mappings, documents and keys in step
          transit,      \* Vault: transit[k]: latest version of the mapped key k
          prover,       \* prover[c]: what the mapping resolver returned for c
          overtaken,    \* history: participants whose key was rotated since prover[c] was read
          proof         \* proof[c]: last proof token: kid, key version that signed, overtaken

proofVars == <<mappings, careful, transit, prover, overtaken, proof>>
vars == <<key_resolver, latest, retired, signer, minted, public_keys, answer, verifier, faults,
          mappings, careful, transit, prover, overtaken, proof>>

AccessTokens == [kid : Versions, key : Versions]
NoToken == [kid |-> NoKey, key |-> NoKey]
Results == {"accepted", "bad_signature", "not_found", "unavailable"}
TransitKeys == [name : KeyNames, version : 1..MaxKeyVersion]
Proofs == [kid : {m.kid : m \in KeyMappings}, key : TransitKeys, late : BOOLEAN]

\* Type invariant.
TypeOK ==
    /\ key_resolver \in {"fixed", "mapping"}
    /\ latest \in Versions /\ retired \in 0..MaxRetired /\ retired < latest
    /\ signer \in [Signers -> Versions \cup {NoKey}]
    /\ minted \subseteq AccessTokens
    /\ public_keys \in [Versions -> Versions \cup {NoKey}]
    /\ \A l \in Loaders : answer[l] = <<>> \/ answer[l] \in Seq(Versions)
    /\ verifier \in [Verifiers -> [token : AccessTokens \cup {NoToken},
                                   at : {"idle", "load", "store", "retry"} \cup Results]]
    /\ faults \in 0..MaxFaults
    /\ mappings \in [ParticipantContexts -> KeyMappings \cup {NoMapping}]
    /\ prover \in [ParticipantContexts -> KeyMappings \cup {NoMapping}]
    /\ careful \in BOOLEAN /\ transit \in [KeyNames -> 1..MaxKeyVersion]
    /\ overtaken \subseteq ParticipantContexts
    /\ proof \in [ParticipantContexts -> Proofs \cup {NoMapping}]

-----------------------------------------------------------------------------
(* Vault *)

\* The sets of versions that Vault may list.
Listings == {(r + 1)..l : r \in 0..MaxRetired, l \in Versions}

\* Mutant: versions are sorted as the strings they come as (of at most two digits).
Before_AsText(v, w) ==
    LET First(n) == IF n < 10 THEN n ELSE n \div 10
    IN  First(v) < First(w) \/ (First(v) = First(w) /\ v <= w)

\* The order of the versions, parsed as numbers.
Before(v, w) == v <= w

\* sort_unstable of the versions listed.
Sorted ==
    [S \in Listings |-> [i \in 1..Cardinality(S) |->
        CHOOSE v \in S : Cardinality({w \in S : Before(w, v)}) = i]]

\* get_key_metadata: the listed keys, sorted by version.
KeysOf == Sorted[(retired + 1)..latest]

\* External: the key of the access tokens is rotated.  (The two kinds of generators share
\* nothing; key_resolver says which one a behaviour is about.)
RotateKey ==
    /\ key_resolver = "fixed"
    /\ latest < MaxVersion /\ latest' = latest + 1
    /\ UNCHANGED <<key_resolver, retired, signer, minted, public_keys, answer, verifier, faults,
                   proofVars>>

\* External: the operator raises the first version Vault lists.
RetireKey ==
    /\ key_resolver = "fixed"
    /\ retired < MaxRetired /\ retired + 1 < latest /\ retired' = retired + 1
    /\ UNCHANGED <<key_resolver, latest, signer, minted, public_keys, answer, verifier, faults,
                   proofVars>>

-----------------------------------------------------------------------------
(* VaultJwtGenerator with the fixed key *)

\* The kid for the header: current_version of the metadata.
ReadVersion(s) ==
    /\ key_resolver = "fixed" /\ signer[s] = NoKey
    /\ signer' = [signer EXCEPT ![s] = latest]
    /\ UNCHANGED <<key_resolver, latest, retired, minted, public_keys, answer, verifier, faults,
                   proofVars>>

\* sign_content: Vault signs with the version that is the latest by then.
SignContent(s) ==
    /\ signer[s] # NoKey
    /\ minted' = minted \cup {[kid |-> signer[s], key |-> latest]}
    /\ signer' = [signer EXCEPT ![s] = NoKey]
    /\ UNCHANGED <<key_resolver, latest, retired, public_keys, answer, verifier, faults,
                   proofVars>>

-----------------------------------------------------------------------------
(* VaultVerificationKeyResolver *)

\* Mutant: the cache is replaced by the keys loaded.
extend_Replaces(keys) ==
    public_keys' = [i \in Versions |-> IF i \in DOMAIN keys THEN keys[i] ELSE NoKey]

\* The i-th key listed is cached under kid i; keys cached before stay.
extend(keys) ==
    public_keys' = [i \in Versions |-> IF i \in DOMAIN keys THEN keys[i] ELSE public_keys[i]]

\* The first half of load_keys: the request.
FetchMetadata(l) == answer' = [answer EXCEPT ![l] = KeysOf]

RefreshFetch ==
    /\ answer[Refresher] = <<>>
    /\ FetchMetadata(Refresher)
    /\ UNCHANGED <<key_resolver, latest, retired, signer, minted, public_keys, verifier, faults,
                   proofVars>>

\* Mutant: the keys of a refresh are not stored.
RefreshStore_Skips ==
    /\ answer[Refresher] # <<>>
    /\ public_keys' = public_keys
    /\ answer' = [answer EXCEPT ![Refresher] = <<>>]
    /\ UNCHANGED <<key_resolver, latest, retired, signer, minted, verifier, faults,
                   proofVars>>

RefreshStore ==
    /\ answer[Refresher] # <<>>
    /\ extend(answer[Refresher])
    /\ answer' = [answer EXCEPT ![Refresher] = <<>>]
    /\ UNCHANGED <<key_resolver, latest, retired, signer, minted, verifier, faults,
                   proofVars>>

\* The error is logged, the loop goes on.
RefreshFails ==
    /\ faults < MaxFaults /\ faults' = faults + 1
    /\ answer' = [answer EXCEPT ![Refresher] = <<>>]
    /\ UNCHANGED <<key_resolver, latest, retired, signer, minted, public_keys, verifier,
                   proofVars>>

\* LocalJwtVerifier with the key found for the kid.
Verdict(token) ==
    IF public_keys[token.kid] = token.key THEN "accepted" ELSE "bad_signature"

\* resolve_key: a cached key, or a reload.
Lookup(v, token) ==
    /\ verifier[v].at \in {"idle"} \cup Results
    /\ verifier' = [verifier EXCEPT ![v] = [token |-> token,
           at |-> IF public_keys[token.kid] = NoKey THEN "load" ELSE Verdict(token)]]
    /\ UNCHANGED <<key_resolver, latest, retired, signer, minted, public_keys, answer, faults,
                   proofVars>>

MissFetch(v) ==
    /\ verifier[v].at = "load"
    /\ FetchMetadata(v)
    /\ verifier' = [verifier EXCEPT ![v].at = "store"]
    /\ UNCHANGED <<key_resolver, latest, retired, signer, minted, public_keys, faults,
                   proofVars>>

MissFails(v) ==
    /\ verifier[v].at = "load" /\ faults < MaxFaults /\ faults' = faults + 1
    /\ verifier' = [verifier EXCEPT ![v].at = "unavailable"]
    /\ UNCHANGED <<key_resolver, latest, retired, signer, minted, public_keys, answer,
                   proofVars>>

MissStore(v) ==
    /\ verifier[v].at = "store"
    /\ extend(answer[v])
    /\ answer' = [answer EXCEPT ![v] = <<>>]
    /\ verifier' = [verifier EXCEPT ![v].at = "retry"]
    /\ UNCHANGED <<key_resolver, latest, retired, signer, minted, faults, proofVars>>

\* The second look at the cache.
MissRetry(v) ==
    /\ verifier[v].at = "retry"
    /\ verifier' = [verifier EXCEPT ![v].at =
           IF public_keys[verifier[v].token.kid] = NoKey THEN "not_found"
           ELSE Verdict(verifier[v].token)]
    /\ UNCHANGED <<key_resolver, latest, retired, signer, minted, public_keys, answer, faults,
                   proofVars>>

-----------------------------------------------------------------------------
(* Signing key mappings and proof tokens *)

\* find_verification_method: by the full id or by the fragment.
FindMethod(methods, fragment) ==
    SelectInSeq(methods, LAMBDA m : m.fragment = fragment)

\* DidWebVerificationKeyResolver: a kid that is no DID URL is relative to the issuer.
ResolveDidKey(iss, kid) ==
    LET did == IF kid.did = NoMapping THEN iss ELSE kid.did
        i   == FindMethod(documents[did], kid.fragment)
    IN  IF i = 0 THEN NoMapping ELSE documents[did][i].key

\* sign_content: the version of a mapped key that signs.
Current(k) == [name |-> k, version |-> transit[k]]

\* "The operator is responsible for creating the transit key and publishing the
\* corresponding public key" (VaultJwtGenerator): a careful one enters a mapping only if
\* the kid resolves to what signs now.  The management API does not look.
Published(c, mapping) == ResolveDidKey(c, mapping.kid) = Current(mapping.key_name)

Store(c, mapping) ==
    /\ key_resolver = "mapping"
    /\ careful /\ mapping # NoMapping => Published(c, mapping)
    /\ mappings' = [mappings EXCEPT ![c] = mapping]
    /\ UNCHANGED <<key_resolver, latest, retired, signer, minted, public_keys, answer,
                   verifier, faults, careful, transit, prover, overtaken, proof>>

Uses(holder, c, k) == holder[c] # NoMapping /\ holder[c].key_name = k

\* External: a key of the mappings is rotated, by a careful operator when no mapping names it.
RotateMappedKey(k) ==
    /\ key_resolver = "mapping" /\ transit[k] < MaxKeyVersion
    /\ careful => \A c \in ParticipantContexts : ~Uses(mappings, c, k)
    /\ transit' = [transit EXCEPT ![k] = @ + 1]
    /\ overtaken' = overtaken \cup {c \in ParticipantContexts : Uses(prover, c, k)}
    /\ UNCHANGED <<key_resolver, latest, retired, signer, minted, public_keys, answer,
                   verifier, faults, mappings, careful, prover, proof>>

CreateKeyMapping(c, mapping) == mappings[c] = NoMapping /\ Store(c, mapping)

UpdateKeyMapping(c, mapping) == mappings[c] # NoMapping /\ Store(c, mapping)

DeleteKeyMapping(c) == mappings[c] # NoMapping /\ Store(c, NoMapping)

\* The management API passes a request to the repository; conflicts and missing mappings
\* are errors that change nothing.
ManageKeyMapping(c) ==
    \/ \E m \in KeyMappings : CreateKeyMapping(c, m) \/ UpdateKeyMapping(c, m)
    \/ DeleteKeyMapping(c)

\* MappingTransitKeyResolver: without a mapping no proof is made.
ResolveMapping(c) ==
    /\ key_resolver = "mapping" /\ prover[c] = NoMapping /\ mappings[c] # NoMapping
    /\ prover' = [prover EXCEPT ![c] = mappings[c]]
    /\ UNCHANGED <<key_resolver, latest, retired, signer, minted, public_keys, answer,
                   verifier, faults, mappings, careful, transit, overtaken, proof>>

\* Mutant: the mapping is read again for the key.
SignProof_ReadsAgain(c) ==
    /\ prover[c] # NoMapping /\ mappings[c] # NoMapping
    /\ proof' = [proof EXCEPT ![c] = [kid |-> prover[c].kid, key |-> Current(mappings[c].key_name),
                                      late |-> c \in overtaken]]
    /\ prover' = [prover EXCEPT ![c] = NoMapping]
    /\ overtaken' = overtaken \ {c}
    /\ UNCHANGED <<key_resolver, latest, retired, signer, minted, public_keys, answer,
                   verifier, faults, mappings, careful, transit>>

\* The kid of the mapping goes into the header as it is, and the latest version of its key
\* signs.
SignProof(c) ==
    /\ prover[c] # NoMapping
    /\ proof' = [proof EXCEPT ![c] = [kid |-> prover[c].kid, key |-> Current(prover[c].key_name),
                                      late |-> c \in overtaken]]
    /\ prover' = [prover EXCEPT ![c] = NoMapping]
    /\ overtaken' = overtaken \ {c}
    /\ UNCHANGED <<key_resolver, latest, retired, signer, minted, public_keys, answer,
                   verifier, faults, mappings, careful, transit>>

-----------------------------------------------------------------------------

\* initialize of the resolver has loaded the keys before anyone verifies.
Init ==
    /\ key_resolver \in {"fixed", "mapping"}
    /\ latest = FirstVersion /\ retired = 0
    /\ signer = [s \in Signers |-> NoKey] /\ minted = {}
    /\ public_keys = [i \in Versions |-> IF i <= FirstVersion THEN i ELSE NoKey]
    /\ answer = [l \in Loaders |-> <<>>]
    /\ verifier = [v \in Verifiers |-> [token |-> NoToken, at |-> "idle"]]
    /\ faults = 0
    /\ mappings = [c \in ParticipantContexts |-> NoMapping]
    /\ careful \in BOOLEAN /\ (key_resolver = "fixed" => careful)
    /\ transit = [k \in KeyNames |-> 1]
    /\ prover = [c \in ParticipantContexts |-> NoMapping] /\ overtaken = {}
    /\ proof = [c \in ParticipantContexts |-> NoMapping]

Next ==
    \/ RotateKey \/ RetireKey
    \/ \E s \in Signers : ReadVersion(s) \/ SignContent(s)
    \/ RefreshFetch \/ RefreshStore \/ RefreshFails
    \/ \E v \in Verifiers :
          \/ \E token \in minted : Lookup(v, token)
          \/ MissFetch(v) \/ MissFails(v) \/ MissStore(v) \/ MissRetry(v)
    \/ \E c \in ParticipantContexts :
          ManageKeyMapping(c) \/ ResolveMapping(c) \/ SignProof(c)
    \/ \E k \in KeyNames : RotateMappedKey(k)

\* The refresh loop is a task with a timer.
Spec == Init /\ [][Next]_vars /\ WF_vars(RefreshFetch \/ RefreshStore)

-----------------------------------------------------------------------------
(* Properties *)

\* As long as Vault lists all versions, the keys cached by position are the keys of the
\* versions: a token is refused for its signature only if a rotation came between reading
\* the version and signing, accepted only if the version it names has signed it, and its
\* key is always found, whatever older answers other loads store between this verifier's
\* reload and its second look.
VerdictIsRight ==
    \A v \in Verifiers :
        LET token == verifier[v].token IN
        retired = 0 =>
            /\ verifier[v].at = "accepted" => token.kid = token.key
            /\ verifier[v].at = "bad_signature" => token.kid # token.key
            /\ verifier[v].at # "not_found"

\* Behind the fixed kid of a mapping Vault signs with whatever version is the latest.  If
\* the operator maps only kids that resolve to what signs, and rotates only keys that no
\* mapping names, a proof verifies with the issuer's DID document, although mappings are
\* replaced and keys rotated while it is made; except one that was overtaken: its
\* mapping was replaced, and then the key rotated, before it was signed.
ProofVerifies ==
    careful => \A c \in ParticipantContexts :
        proof[c] # NoMapping /\ ~proof[c].late =>
            ResolveDidKey(c, proof[c].kid) = proof[c].key

\* The JWK set comes to contain the key of every token in circulation, and keeps it
\* (while Vault lists all versions).  Tokens name FirstVersion or a later one.
KeysPublished ==
    \A i \in FirstVersion..MaxVersion :
        (\E token \in minted : token.kid = i) ~> (retired > 0 \/ [](public_keys[i] # NoKey))
=============================================================================
