----------------------------- MODULE MCTrustLink -----------------------------
(* Small instances of the contract for TLC: three addresses and one claim *)
(* type, or two of each (MCAddress2, MCClaimType2) for the claim-type      *)
(* filter of has_valid_claim; timestamps 0..MaxTime and at most MaxEvents  *)
(* successful mutations.                                                   *)
EXTENDS TrustLinkRefinement, TLC

CONSTANTS a1, a2, a3, kyc, accredited

MCAddress == {a1, a2, a3}
MCClaimType == {kyc}

Symmetry == Permutations(MCAddress) \cup Permutations(MCClaimType)

MCAddress2 == {a1, a2}
MCClaimType2 == {kyc, accredited}

Symmetry2 == Permutations(MCAddress2) \cup Permutations(MCClaimType2)
=============================================================================
