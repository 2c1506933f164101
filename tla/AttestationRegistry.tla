-------------------------- MODULE AttestationRegistry --------------------------
(***************************************************************************)
(* What the registry promises, without ids, storage keys or indexes: one  *)
(* administrator set once, a set of authorized issuers, and a set of      *)
(* attestation records in which a record is added by a currently          *)
(* authorized issuer (at most one per issuer, subject, claim type and     *)
(* clock tick), never removed, and changed only by being revoked once.    *)
(* Who may revoke is not visible here, as the registry has no callers:    *)
(* TrustLink's EventLogConsistent and AuthorCanRevoke state the contract's *)
(* authorship rule.  A claim is valid for a subject when some record of   *)
(* that type about the subject is neither revoked nor expired at the      *)
(* current clock.  The clock only moves forward.                          *)
(***************************************************************************)
EXTENDS Naturals

CONSTANTS Address, ClaimType, NoAdmin, NoExpiration, MaxTime

VARIABLES admin, issuers, registry, clock

avars == <<admin, issuers, registry, clock>>

Time == 0 .. MaxTime

Record ==
    [issuer : Address, subject : Address, claim_type : ClaimType,
     timestamp : Time, expiration : Time \cup {NoExpiration}, revoked : BOOLEAN]

(* Two records with the same key are the same attestation. *)
SameKey(r, q) ==
    /\ r.issuer = q.issuer
    /\ r.subject = q.subject
    /\ r.claim_type = q.claim_type
    /\ r.timestamp = q.timestamp

IsValid(r, t) ==
    /\ ~r.revoked
    /\ r.expiration = NoExpiration \/ t < r.expiration

ValidClaim(s, c) ==
    \E r \in registry : r.subject = s /\ r.claim_type = c /\ IsValid(r, clock)

Init ==
    /\ admin = NoAdmin
    /\ issuers = {}
    /\ registry = {}
    /\ clock = 0

SetAdmin(a) ==
    /\ admin = NoAdmin
    /\ admin' = a
    /\ UNCHANGED <<issuers, registry, clock>>

ChangeIssuers(S) ==
    /\ admin # NoAdmin
    /\ issuers' = S
    /\ UNCHANGED <<admin, registry, clock>>

Issue(r) ==
    /\ r.issuer \in issuers
    /\ r.timestamp = clock
    /\ ~r.revoked
    /\ \A q \in registry : ~SameKey(r, q)
    /\ registry' = registry \cup {r}
    /\ UNCHANGED <<admin, issuers, clock>>

Revoke(r) ==
    /\ r \in registry
    /\ ~r.revoked
    /\ registry' = (registry \ {r}) \cup {[r EXCEPT !.revoked = TRUE]}
    /\ UNCHANGED <<admin, issuers, clock>>

AdvanceClock ==
    /\ clock' \in Time
    /\ clock' > clock
    /\ UNCHANGED <<admin, issuers, registry>>

Next ==
    \/ \E a \in Address : SetAdmin(a)
    \/ \E S \in SUBSET Address : ChangeIssuers(S)
    \/ \E r \in Record : Issue(r) \/ Revoke(r)
    \/ AdvanceClock

Spec == Init /\ [][Next]_avars

================================================================================
