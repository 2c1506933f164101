CONSTANTS
    a1 = a1
    a2 = a2
    a3 = a3
    kyc = kyc
    accredited = accredited
    Address <- MCAddress2
    ClaimType <- MCClaimType2
    NoAdmin = NoAdmin
    NoExpiration = NoExpiration
    NotStored = NotStored
    MaxTime = 1
    MaxEvents = 3
SPECIFICATION Spec
SYMMETRY Symmetry2
INVARIANTS
    QueryMatchesRegistry
