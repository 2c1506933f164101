----------------------------- MODULE TrustLinkTTL -----------------------------
(***************************************************************************)
(* The contract of TrustLink.tla over Soroban's expiring storage.          *)
(*                                                                         *)
(* Every persistent entry and the contract instance (which holds the Admin *)
(* key) has a live-until ledger.  An entry whose live-until ledger is      *)
(* behind the current ledger is archived: its value is kept, but a call    *)
(* whose footprint holds it fails and is rolled back until someone         *)
(* restores the entry, which any account may do at any time.  A new entry  *)
(* gets the network's minimum TTL; rewriting an entry keeps its TTL; the   *)
(* contract's extend_ttl(INSTANCE_LIFETIME, INSTANCE_LIFETIME) calls       *)
(* (storage.rs) raise the TTL to Lifetime when it is below Lifetime.       *)
(*                                                                         *)
(* One ledger is one tick of the clock `now` of TrustLink.tla; Lifetime is *)
(* INSTANCE_LIFETIME and MinTTL the network's minimum persistent TTL, both *)
(* scaled to ticks.                                                         *)
(***************************************************************************)
EXTENDS TrustLink

CONSTANTS
    Lifetime,         \* INSTANCE_LIFETIME (storage.rs:14), in ticks
    MinTTL            \* the network's minimum TTL of a new persistent entry

ASSUME TTLAssumption == Lifetime \in Nat /\ MinTTL \in Nat \ {0}

VARIABLE liveUntil    \* the live-until ledger of every storage key

ttlVars == <<vars, liveUntil>>

(* StorageKey (storage.rs:5-11); the Admin key lives in the instance. *)
InstanceKey == <<"Instance">>
IssuerKey(a) == <<"Issuer", a>>
AttestationKey(id) == <<"Attestation", id>>
SubjectKey(s) == <<"SubjectAttestations", s>>
IssuerIndexKey(i) == <<"IssuerAttestations", i>>

StorageKey ==
    {InstanceKey}
    \cup {IssuerKey(a) : a \in Address}
    \cup {AttestationKey(id) : id \in AttId}
    \cup {SubjectKey(s) : s \in Address}
    \cup {IssuerIndexKey(i) : i \in Address}

(* Whether the entry exists: the instance from deployment on, the others  *)
(* once written and until removed.  An index is first written by its       *)
(* first append; before that get_*_attestations reads a missing key.       *)
Exists(k) ==
    CASE k = InstanceKey    -> TRUE
      [] k[1] = "Issuer"     -> is_issuer(k[2])
      [] k[1] = "Attestation" -> has_attestation(k[2])
      [] k[1] = "SubjectAttestations" -> subjectIdx[k[2]] # <<>>
      [] k[1] = "IssuerAttestations"  -> issuerIdx[k[2]] # <<>>

Archived(k) == Exists(k) /\ liveUntil[k] < now

(* A call can run only when no entry of its footprint is archived. *)
Live(footprint) == \A k \in footprint : ~Archived(k)

(* set on a missing key creates it with the minimum TTL, on a present key *)
(* keeps its TTL; extend_ttl(Lifetime, Lifetime) then raises a TTL below  *)
(* Lifetime to Lifetime.                                                   *)
new_ttl(k) == IF Exists(k) THEN liveUntil[k] ELSE now + MinTTL - 1

extend_ttl(until) == IF until - now < Lifetime THEN now + Lifetime ELSE until

written_ttl(k) == extend_ttl(new_ttl(k))

(* Mutant: the append rewrites the index without extending its TTL. *)
index_ttl_no_extend(k) == new_ttl(k)

(* add_subject_attestation / add_issuer_attestation: set, then extend. *)
index_ttl(k) == written_ttl(k)

-----------------------------------------------------------------------------
(* The entry points over expiring storage: the footprint must be live,    *)
(* and every entry the call writes gets the TTL of its set and extend_ttl. *)

TTLInit ==
    /\ Init
    /\ liveUntil = [k \in StorageKey |->
                      IF k = InstanceKey THEN MinTTL - 1 ELSE 0]

ttl_initialize(a) ==
    /\ Live({InstanceKey})
    /\ initialize(a)
    /\ liveUntil' = [liveUntil EXCEPT ![InstanceKey] = extend_ttl(@)]

ttl_register_issuer(a, i) ==
    /\ Live({InstanceKey, IssuerKey(i)})
    /\ register_issuer(a, i)
    /\ liveUntil' = [liveUntil EXCEPT ![IssuerKey(i)] = written_ttl(IssuerKey(i))]

ttl_remove_issuer(a, i) ==
    /\ Live({InstanceKey, IssuerKey(i)})
    /\ remove_issuer(a, i)
    /\ UNCHANGED liveUntil

ttl_create_attestation(i, s, c, e) ==
    LET id == generate_id(i, s, c, now)
    IN  /\ Live({InstanceKey, IssuerKey(i), AttestationKey(id),
                 SubjectKey(s), IssuerIndexKey(i)})
        /\ create_attestation(i, s, c, e)
        /\ liveUntil' = [liveUntil EXCEPT
                           ![AttestationKey(id)] = written_ttl(AttestationKey(id)),
                           ![SubjectKey(s)] = index_ttl(SubjectKey(s)),
                           ![IssuerIndexKey(i)] = index_ttl(IssuerIndexKey(i))]

ttl_revoke_attestation(i, id) ==
    /\ Live({InstanceKey, AttestationKey(id)})
    /\ revoke_attestation(i, id)
    /\ liveUntil' = [liveUntil EXCEPT ![AttestationKey(id)] = extend_ttl(@)]

(* RestoreFootprint, by any account: an archived entry is live again for  *)
(* the minimum TTL, with its value unchanged.                              *)
restore(k) ==
    /\ Archived(k)
    /\ liveUntil' = [liveUntil EXCEPT ![k] = now + MinTTL - 1]
    /\ UNCHANGED vars

TTLTick == Tick /\ UNCHANGED liveUntil

TTLNext ==
    \/ \E a \in Address : ttl_initialize(a)
    \/ \E a, i \in Address : ttl_register_issuer(a, i) \/ ttl_remove_issuer(a, i)
    \/ \E i, s \in Address, c \in ClaimType, e \in Expiration :
          ttl_create_attestation(i, s, c, e)
    \/ \E i \in Address, id \in AttId : ttl_revoke_attestation(i, id)
    \/ \E k \in StorageKey : restore(k)
    \/ TTLTick

TTLSpec == TTLInit /\ [][TTLNext]_ttlVars

-----------------------------------------------------------------------------
(* has_valid_claim reads the instance, the subject's index and then the   *)
(* records in index order up to the first Valid one of the claim type:     *)
(* those are the keys it needs live.                                       *)
claim_matches(s, c, k) ==
    LET id == subjectIdx[s][k]
    IN  has_attestation(id) /\ attestations[id].claim_type = c
        /\ get_status(attestations[id], now) = "Valid"

query_footprint(s, c) ==
    {InstanceKey, SubjectKey(s)}
    \cup {AttestationKey(subjectIdx[s][k]) :
            k \in {j \in 1 .. Len(subjectIdx[s]) :
                     \A m \in 1 .. j - 1 : ~claim_matches(s, c, m)}}

-----------------------------------------------------------------------------
(* Properties.                                                             *)

TTLTypeOK ==
    /\ TypeOK
    /\ liveUntil \in [StorageKey -> Nat]

(* The extend_ttl calls keep each attestation's data reachable for a full *)
(* INSTANCE_LIFETIME after its creation: the record itself and the subject *)
(* and issuer index entries that list it stay live (or are restored) for  *)
(* at least Lifetime ledgers past the record's creation timestamp, however *)
(* many other attestations later rewrite those indexes.                    *)
TTLCoversCreation ==
    \A id \in AttId :
        has_attestation(id) =>
            LET a == attestations[id]
            IN  \A k \in {AttestationKey(id), SubjectKey(a.subject),
                          IssuerIndexKey(a.issuer)} :
                    liveUntil[k] >= a.timestamp + Lifetime

(* A successful call of an entry point. *)
ContractCall ==
    \/ \E a \in Address : ttl_initialize(a)
    \/ \E a, i \in Address : ttl_register_issuer(a, i) \/ ttl_remove_issuer(a, i)
    \/ \E i, s \in Address, c \in ClaimType, e \in Expiration :
          ttl_create_attestation(i, s, c, e)
    \/ \E i \in Address, id \in AttId : ttl_revoke_attestation(i, id)

(* Spec section 1 (c): the core relies on an admin slot of unbounded       *)
(* lifetime.  Storage can only approach that by extending the slot while   *)
(* the contract is in use: after every successful call the instance entry *)
(* that holds the Admin key is live for at least INSTANCE_LIFETIME more    *)
(* ledgers.                                                                 *)
AdminSlotKeptByUse ==
    [][ContractCall => liveUntil'[InstanceKey] >= now + Lifetime]_ttlVars

(* Spec section 4 (hasValidClaim): a record the query cannot read must not *)
(* fail the whole request.  When the contract and the subject's index are  *)
(* live and a live record of the claim type is Valid, has_valid_claim can  *)
(* run, i.e. no record it reads before that one is archived.               *)
QueryNotBlockedBySkippedRecord ==
    \A s \in Address, c \in ClaimType :
        ( /\ Live({InstanceKey, SubjectKey(s)})
          /\ \E k \in 1 .. Len(subjectIdx[s]) :
                claim_matches(s, c, k) /\ ~Archived(AttestationKey(subjectIdx[s][k])) )
        => Live(query_footprint(s, c))

=============================================================================
