CONSTANTS
    a1 = a1
    a2 = a2
    kyc = kyc
    Address <- MCAddress
    ClaimType <- MCClaimType
    NoAdmin = NoAdmin
    NoExpiration = NoExpiration
    NotStored = NotStored
    MaxTime = 2
    MaxEvents = 2
    Lifetime = 1
    MinTTL = 1
SPECIFICATION TTLSpec
SYMMETRY Symmetry
PROPERTIES
    AdminSlotKeptByUse
