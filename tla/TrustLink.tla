------------------------------ MODULE TrustLink ------------------------------
(***************************************************************************)
(* The TrustLink attestation registry contract (src/src/lib.rs) together   *)
(* with the storage layer it writes through (src/src/storage.rs), the      *)
(* authorization checks (src/src/validation.rs) and the event log          *)
(* (src/src/events.rs).                                                    *)
(*                                                                         *)
(* Every public entry point of the contract is one action.  The host runs *)
(* a call to completion and rolls back all of its writes when it returns   *)
(* an error, so an error path is modelled by the guard of the action being *)
(* false: the failed call is a stuttering step.  A call runs authenticated *)
(* as the address it passes to require_auth (a call that fails             *)
(* authentication is likewise rolled back).                                *)
(*                                                                         *)
(* Storage lifetime (extend_ttl) is not modelled: every entry written      *)
(* stays readable.  Read-only entry points are operators over the state.  *)
(***************************************************************************)
EXTENDS Naturals, Sequences

CONSTANTS
    Address,          \* principals: admin, issuers and subjects alike
    ClaimType,        \* opaque claim labels (soroban String)
    NoAdmin,          \* the Admin key is absent from instance storage
    NoExpiration,     \* Option<u64>::None for the expiration
    NotStored,        \* no persistent entry under Attestation(id)
    MaxTime,          \* last ledger timestamp explored
    MaxEvents         \* bound on the number of successful mutations

ASSUME ConstantsAssumption ==
    /\ NoAdmin \notin Address
    /\ NoExpiration \notin Nat
    /\ MaxTime \in Nat
    /\ MaxEvents \in Nat

VARIABLES
    admin,            \* instance storage, StorageKey::Admin
    issuers,          \* persistent StorageKey::Issuer(a) present
    attestations,     \* persistent StorageKey::Attestation(id)
    subjectIdx,       \* persistent StorageKey::SubjectAttestations(s)
    issuerIdx,        \* persistent StorageKey::IssuerAttestations(i)
    events,           \* events published by the contract, in order
    now               \* env.ledger().timestamp()

vars == <<admin, issuers, attestations, subjectIdx, issuerIdx, events, now>>

Time == 0 .. MaxTime

(* Attestation ids: the tuple generate_id derives the id from. *)
AttId == Address \X Address \X ClaimType \X Time

Expiration == Time \cup {NoExpiration}

Attestation ==
    [id : AttId, issuer : Address, subject : Address, claim_type : ClaimType,
     timestamp : Time, expiration : Expiration, revoked : BOOLEAN]

ASSUME StoreAssumption == NotStored \notin Attestation

Event ==
    [kind : {"created"}, topic : Address, id : AttId, issuer : Address,
     claim_type : ClaimType, timestamp : Time]
    \cup [kind : {"revoked"}, topic : Address, id : AttId]

AttestationStatus == {"Valid", "Expired", "Revoked"}

-----------------------------------------------------------------------------
(* types.rs: Attestation::generate_id and Attestation::get_status.         *)

(* The id is a deterministic function of issuer, subject, claim type and  *)
(* creation time: equal inputs at one timestamp give the same id.          *)
generate_id(issuer, subject, claim_type, timestamp) ==
    <<issuer, subject, claim_type, timestamp>>

(* Revoked dominates Expired; expiry is reached at current_time >= exp.   *)
get_status(a, current_time) ==
    IF a.revoked THEN "Revoked"
    ELSE IF a.expiration # NoExpiration /\ current_time >= a.expiration
         THEN "Expired"
         ELSE "Valid"

-----------------------------------------------------------------------------
(* storage.rs                                                              *)

has_admin == admin # NoAdmin

is_issuer(a) == a \in issuers

has_attestation(id) == attestations[id] # NotStored

set_attestation(a) == [attestations EXCEPT ![a.id] = a]

(* Mutant: the index entry is written without reading the old list. *)
add_subject_attestation_overwrite(subject, id) ==
    [subjectIdx EXCEPT ![subject] = <<id>>]

add_subject_attestation(subject, id) ==
    [subjectIdx EXCEPT ![subject] = Append(@, id)]

add_issuer_attestation(issuer, id) ==
    [issuerIdx EXCEPT ![issuer] = Append(@, id)]

(* validation.rs: get_admin fails NotInitialized, a mismatch Unauthorized. *)
require_admin(caller) == has_admin /\ caller = admin

require_issuer(caller) == is_issuer(caller)

(* events.rs *)
attestation_created(a) ==
    Append(events, [kind |-> "created", topic |-> a.subject, id |-> a.id,
                    issuer |-> a.issuer, claim_type |-> a.claim_type,
                    timestamp |-> a.timestamp])

attestation_revoked(id, issuer) ==
    Append(events, [kind |-> "revoked", topic |-> issuer, id |-> id])

-----------------------------------------------------------------------------
(* lib.rs: the contract's entry points.                                    *)

Init ==
    /\ admin = NoAdmin
    /\ issuers = {}
    /\ attestations = [id \in AttId |-> NotStored]
    /\ subjectIdx = [s \in Address |-> <<>>]
    /\ issuerIdx = [i \in Address |-> <<>>]
    /\ events = <<>>
    /\ now = 0

(* has_admin is checked first; any address may become the admin. *)
initialize(a) ==
    /\ ~has_admin
    /\ admin' = a
    /\ UNCHANGED <<issuers, attestations, subjectIdx, issuerIdx, events, now>>

register_issuer(a, issuer) ==
    /\ require_admin(a)
    /\ issuers' = issuers \cup {issuer}
    /\ UNCHANGED <<admin, attestations, subjectIdx, issuerIdx, events, now>>

remove_issuer(a, issuer) ==
    /\ require_admin(a)
    /\ issuers' = issuers \ {issuer}
    /\ UNCHANGED <<admin, attestations, subjectIdx, issuerIdx, events, now>>

(* Mutant: the DuplicateAttestation check is missing. *)
create_attestation_no_duplicate_check(issuer, subject, claim_type, expiration) ==
    LET id == generate_id(issuer, subject, claim_type, now)
        a  == [id |-> id, issuer |-> issuer, subject |-> subject,
               claim_type |-> claim_type, timestamp |-> now,
               expiration |-> expiration, revoked |-> FALSE]
    IN  /\ Len(events) < MaxEvents
        /\ require_issuer(issuer)
        /\ attestations' = set_attestation(a)
        /\ subjectIdx' = add_subject_attestation(subject, id)
        /\ issuerIdx' = add_issuer_attestation(issuer, id)
        /\ events' = attestation_created(a)
        /\ UNCHANGED <<admin, issuers, now>>

(* Mutant: the expiration is taken as a duration from creation time. *)
create_attestation_relative_expiry(issuer, subject, claim_type, expiration) ==
    LET id == generate_id(issuer, subject, claim_type, now)
        a  == [id |-> id, issuer |-> issuer, subject |-> subject,
               claim_type |-> claim_type, timestamp |-> now,
               expiration |-> IF expiration = NoExpiration THEN expiration
                              ELSE now + expiration,
               revoked |-> FALSE]
    IN  /\ Len(events) < MaxEvents
        /\ require_issuer(issuer)
        /\ ~has_attestation(id)
        /\ attestations' = set_attestation(a)
        /\ subjectIdx' = add_subject_attestation(subject, id)
        /\ issuerIdx' = add_issuer_attestation(issuer, id)
        /\ events' = attestation_created(a)
        /\ UNCHANGED <<admin, issuers, now>>

create_attestation(issuer, subject, claim_type, expiration) ==
    LET id == generate_id(issuer, subject, claim_type, now)
        a  == [id |-> id, issuer |-> issuer, subject |-> subject,
               claim_type |-> claim_type, timestamp |-> now,
               expiration |-> expiration, revoked |-> FALSE]
    IN  /\ Len(events) < MaxEvents
        /\ require_issuer(issuer)
        /\ ~has_attestation(id)
        /\ attestations' = set_attestation(a)
        /\ subjectIdx' = add_subject_attestation(subject, id)
        /\ issuerIdx' = add_issuer_attestation(issuer, id)
        /\ events' = attestation_created(a)
        /\ UNCHANGED <<admin, issuers, now>>

(* Mutant: the original-issuer check is missing. *)
revoke_attestation_any_caller(issuer, id) ==
    /\ Len(events) < MaxEvents
    /\ has_attestation(id)
    /\ ~attestations[id].revoked
    /\ attestations' = set_attestation([attestations[id] EXCEPT !.revoked = TRUE])
    /\ events' = attestation_revoked(id, issuer)
    /\ UNCHANGED <<admin, issuers, subjectIdx, issuerIdx, now>>

(* Mutant: the revoked record is rewritten with the current timestamp. *)
revoke_attestation_restamp(issuer, id) ==
    /\ Len(events) < MaxEvents
    /\ has_attestation(id)
    /\ attestations[id].issuer = issuer
    /\ ~attestations[id].revoked
    /\ attestations' = set_attestation([attestations[id] EXCEPT !.revoked = TRUE,
                                                              !.timestamp = now])
    /\ events' = attestation_revoked(id, issuer)
    /\ UNCHANGED <<admin, issuers, subjectIdx, issuerIdx, now>>

(* NotFound, then Unauthorized (not the author), then AlreadyRevoked. *)
(* Mutant: revocation also requires the caller to be a current issuer. *)
revoke_attestation_requires_membership(issuer, id) ==
    /\ Len(events) < MaxEvents
    /\ require_issuer(issuer)
    /\ has_attestation(id)
    /\ attestations[id].issuer = issuer
    /\ ~attestations[id].revoked
    /\ attestations' = set_attestation([attestations[id] EXCEPT !.revoked = TRUE])
    /\ events' = attestation_revoked(id, issuer)
    /\ UNCHANGED <<admin, issuers, subjectIdx, issuerIdx, now>>

revoke_attestation(issuer, id) ==
    /\ Len(events) < MaxEvents
    /\ has_attestation(id)
    /\ attestations[id].issuer = issuer
    /\ ~attestations[id].revoked
    /\ attestations' = set_attestation([attestations[id] EXCEPT !.revoked = TRUE])
    /\ events' = attestation_revoked(id, issuer)
    /\ UNCHANGED <<admin, issuers, subjectIdx, issuerIdx, now>>

(* The ledger closes: the timestamp seen by later calls advances. *)
Tick ==
    /\ now < MaxTime
    /\ now' = now + 1
    /\ UNCHANGED <<admin, issuers, attestations, subjectIdx, issuerIdx, events>>

Next ==
    \/ \E a \in Address : initialize(a)
    \/ \E a, i \in Address : register_issuer(a, i) \/ remove_issuer(a, i)
    \/ \E i, s \in Address, c \in ClaimType, e \in Expiration :
          create_attestation(i, s, c, e)
    \/ \E i \in Address, id \in AttId : revoke_attestation(i, id)
    \/ Tick

Spec == Init /\ [][Next]_vars

-----------------------------------------------------------------------------
(* Read-only entry points.                                                 *)

(* has_valid_claim: scan the subject's index, skip ids with no record,    *)
(* and answer whether one of the requested type is Valid now.              *)
(* Mutant: the first record of the requested type decides the answer. *)
has_valid_claim_first_match(subject, claim_type) ==
    LET idx     == subjectIdx[subject]
        matches == {k \in 1 .. Len(idx) :
                      has_attestation(idx[k])
                      /\ attestations[idx[k]].claim_type = claim_type}
        first   == CHOOSE k \in matches : \A j \in matches : k <= j
    IN  matches # {} /\ get_status(attestations[idx[first]], now) = "Valid"

(* Mutant: the claim-type filter is missing. *)
has_valid_claim_any_type(subject, claim_type) ==
    \E k \in 1 .. Len(subjectIdx[subject]) :
        LET id == subjectIdx[subject][k]
        IN  /\ has_attestation(id)
            /\ get_status(attestations[id], now) = "Valid"

has_valid_claim(subject, claim_type) ==
    \E k \in 1 .. Len(subjectIdx[subject]) :
        LET id == subjectIdx[subject][k]
        IN  /\ has_attestation(id)
            /\ attestations[id].claim_type = claim_type
            /\ get_status(attestations[id], now) = "Valid"

(* The ? on get_attestation: a missing record is the NotFound error. *)
get_attestation_status(id) ==
    IF has_attestation(id) THEN get_status(attestations[id], now) ELSE "NotFound"

-----------------------------------------------------------------------------
(* Properties.                                                             *)

TypeOK ==
    /\ admin \in Address \cup {NoAdmin}
    /\ issuers \subseteq Address
    /\ attestations \in [AttId -> Attestation \cup {NotStored}]
    /\ subjectIdx \in [Address -> Seq(AttId)]
    /\ issuerIdx \in [Address -> Seq(AttId)]
    /\ events \in Seq(Event)
    /\ now \in Time

(* The subject and issuer indexes agree with the attestation store that   *)
(* create_attestation writes them beside: every listed id has a record     *)
(* about (by) the key it is listed under, every record is listed under its *)
(* subject and its issuer, and no id is listed twice under one key (the    *)
(* duplicate guard keeps a same-tick re-creation from appending it again). *)
IndexSound(store, idx, field) ==
    \A k \in Address : \A j \in 1 .. Len(idx[k]) :
        /\ store[idx[k][j]] # NotStored
        /\ store[idx[k][j]][field] = k

IndexComplete(store, idx, field) ==
    \A id \in AttId :
        store[id] # NotStored =>
            \E j \in 1 .. Len(idx[store[id][field]]) : idx[store[id][field]][j] = id

IndexNoDuplicates(idx) ==
    \A k \in Address : \A i, j \in 1 .. Len(idx[k]) :
        idx[k][i] = idx[k][j] => i = j

IndexConsistent ==
    /\ IndexSound(attestations, subjectIdx, "subject")
    /\ IndexSound(attestations, issuerIdx, "issuer")
    /\ IndexComplete(attestations, subjectIdx, "subject")
    /\ IndexComplete(attestations, issuerIdx, "issuer")
    /\ IndexNoDuplicates(subjectIdx)
    /\ IndexNoDuplicates(issuerIdx)

(* The event log tells the story the store tells: every created event     *)
(* names a stored record with the fields it was created with, and every    *)
(* revoked event names a revoked record whose original issuer is the       *)
(* address that revoked it (revocation rights follow authorship, also     *)
(* after the issuer is removed), once per attestation.                     *)
EventLogConsistent ==
    \A k \in 1 .. Len(events) :
        LET e == events[k]
        IN  /\ has_attestation(e.id)
            /\ e.kind = "created" =>
                  /\ attestations[e.id].subject = e.topic
                  /\ attestations[e.id].issuer = e.issuer
                  /\ attestations[e.id].timestamp = e.timestamp
            /\ e.kind = "revoked" =>
                  /\ attestations[e.id].revoked
                  /\ attestations[e.id].issuer = e.topic
                  /\ \A j \in 1 .. Len(events) :
                        events[j].kind = "revoked" /\ events[j].id = e.id => j = k

StatusRank == [s \in AttestationStatus |->
                  IF s = "Valid" THEN 0 ELSE IF s = "Expired" THEN 1 ELSE 2]

(* What a verifier observes of a stored attestation only moves forward:   *)
(* the record is never deleted, its issuer, subject, claim type, creation  *)
(* time and expiration never change, and its status (get_status against   *)
(* the ledger clock) goes Valid -> Expired -> Revoked and never back, in   *)
(* particular a revoked attestation is never made valid again by a later   *)
(* create_attestation or revoke_attestation.                               *)
AttestationHistory ==
    [][\A id \in AttId :
          has_attestation(id) =>
             /\ attestations'[id] # NotStored
             /\ [attestations'[id] EXCEPT !.revoked = FALSE]
                   = [attestations[id] EXCEPT !.revoked = FALSE]
             /\ StatusRank[get_status(attestations[id], now)]
                   <= StatusRank[get_status(attestations'[id], now')]]_vars

(* Revocation depends on authorship alone: whatever happened since (the   *)
(* admin removing the author from the issuers, other records created or   *)
(* revoked, ledgers passing), the author of a stored unrevoked record can *)
(* revoke it.  Only the model's bound on the number of calls is excluded.  *)
AuthorCanRevoke ==
    \A id \in AttId :
        (has_attestation(id) /\ ~attestations[id].revoked /\ Len(events) < MaxEvents)
            => ENABLED revoke_attestation(attestations[id].issuer, id)

=============================================================================
