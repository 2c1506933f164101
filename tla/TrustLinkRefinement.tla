------------------------- MODULE TrustLinkRefinement -------------------------
(***************************************************************************)
(* The contract implements the abstract registry: the records held under   *)
(* the Attestation(id) keys, stripped of their ids, are the registry, and  *)
(* the ledger timestamp is its clock.  The indexes and the event log have *)
(* no abstract counterpart.                                                *)
(***************************************************************************)
EXTENDS TrustLink

AbsRecord(a) ==
    [issuer |-> a.issuer, subject |-> a.subject, claim_type |-> a.claim_type,
     timestamp |-> a.timestamp, expiration |-> a.expiration,
     revoked |-> a.revoked]

StoredIds == {id \in AttId : has_attestation(id)}

Registry == INSTANCE AttestationRegistry
              WITH registry <- {AbsRecord(attestations[id]) : id \in StoredIds},
                   clock <- now

(* Every behaviour of the contract is a behaviour of the abstract          *)
(* registry: create_attestation adds a new record only for a currently     *)
(* authorized issuer and never replaces one, revoke_attestation flips only *)
(* the revoked flag of one unrevoked record, and nothing else changes the  *)
(* records.                                                                *)
RegistrySpec == Registry!Spec

(* has_valid_claim, which scans the subject's index list rather than the   *)
(* store, answers exactly the abstract question "is some record of this   *)
(* type about this subject unrevoked and unexpired now".                   *)
QueryMatchesRegistry ==
    \A s \in Address, c \in ClaimType :
        has_valid_claim(s, c) <=> Registry!ValidClaim(s, c)
=============================================================================
