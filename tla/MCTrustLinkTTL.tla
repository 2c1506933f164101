---------------------------- MODULE MCTrustLinkTTL ----------------------------
(* A small instance of the contract over expiring storage for TLC: two    *)
(* addresses, one claim type, ledgers 0 .. MaxTime and INSTANCE_LIFETIME   *)
(* scaled to one ledger, so that entries archive inside the run.           *)
EXTENDS TrustLinkTTL, TLC

CONSTANTS a1, a2, kyc

MCAddress == {a1, a2}
MCClaimType == {kyc}

Symmetry == Permutations(MCAddress)
=============================================================================
