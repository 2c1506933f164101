CONSTANTS
    a1 = a1
    a2 = a2
    a3 = a3
    kyc = kyc
    accredited = accredited
    Address <- MCAddress
    ClaimType <- MCClaimType
    NoAdmin = NoAdmin
    NoExpiration = NoExpiration
    NotStored = NotStored
    MaxTime = 1
    MaxEvents = 3
SPECIFICATION Spec
SYMMETRY Symmetry
INVARIANTS
    QueryMatchesRegistry
PROPERTIES
    RegistrySpec
