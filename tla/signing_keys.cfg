SPECIFICATION Spec
CONSTANTS
    Signers = {s1}
    Verifiers = {v1, v2}
    FirstVersion = 8
    MaxVersion = 10
    MaxRetired = 1
    MaxFaults = 1
    ParticipantContexts <- MCContexts
    documents <- MCDocuments
    KeyMappings <- MCKeyMappings
    MaxKeyVersion = 2
    NoMapping = none
    none = none
INVARIANTS VerdictIsRight ProofVerifies
PROPERTY KeysPublished
CHECK_DEADLOCK FALSE
