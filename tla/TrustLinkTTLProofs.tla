-------------------------- MODULE TrustLinkTTLProofs --------------------------
(***************************************************************************)
(* Proofs about the contract over expiring storage (TrustLinkTTL.tla), for *)
(* every Lifetime, every positive minimum TTL and every value of the      *)
(* contract's constants.                                                   *)
(***************************************************************************)
EXTENDS TrustLinkTTL, TrustLinkRefinementProofs, TLAPS

USE ConstantsAssumption, StoreAssumption, TTLAssumption

-----------------------------------------------------------------------------
(* Archival only blocks calls: every step of the contract over expiring   *)
(* storage is a step of the contract, or leaves the contract state alone.  *)

LEMMA TTLStepIsContractStep == [TTLNext]_ttlVars => [Next]_vars
<1> SUFFICES ASSUME [TTLNext]_ttlVars PROVE [Next]_vars
  OBVIOUS
<1>1. CASE \E a \in Address : ttl_initialize(a)
  BY <1>1 DEF ttl_initialize, Next
<1>2. CASE \E a, i \in Address : ttl_register_issuer(a, i) \/ ttl_remove_issuer(a, i)
  BY <1>2 DEF ttl_register_issuer, ttl_remove_issuer, Next
<1>3. CASE \E i, s \in Address, c \in ClaimType, e \in Expiration :
              ttl_create_attestation(i, s, c, e)
  BY <1>3 DEF ttl_create_attestation, Next
<1>4. CASE \E i \in Address, id \in AttId : ttl_revoke_attestation(i, id)
  BY <1>4 DEF ttl_revoke_attestation, Next
<1>5. CASE \E k \in StorageKey : restore(k)
  BY <1>5 DEF restore
<1>6. CASE TTLTick
  BY <1>6 DEF TTLTick, Next
<1>7. CASE UNCHANGED ttlVars
  BY <1>7 DEF ttlVars
<1>8. QED
  BY <1>1, <1>2, <1>3, <1>4, <1>5, <1>6, <1>7 DEF TTLNext

(* The contract keeps all of its properties over expiring storage: the    *)
(* behaviours of TrustLinkTTL, with the TTLs hidden, are behaviours of     *)
(* TrustLink, so archival and restoration never change what is stored.     *)
LEMMA TTLRefinesContract == TTLSpec => Spec
<1>1. TTLInit => Init
  BY DEF TTLInit
<1>2. [TTLNext]_ttlVars => [Next]_vars
  BY TTLStepIsContractStep
<1>3. QED
  BY <1>1, <1>2, PTL DEF TTLSpec, Spec

(* In particular the indexes stay consistent with the store through       *)
(* archival, restoration and the calls that archival makes fail.           *)
THEOREM TTLIndexesConsistent == TTLSpec => []IndexConsistent
BY TTLRefinesContract, IndexesConsistent, PTL

(* Over expiring storage the contract still implements the abstract       *)
(* registry: archival can make calls fail, and restoration changes only    *)
(* TTLs, so no record is lost, replaced or altered but by a revocation.   *)
THEOREM TTLImplementsRegistry == TTLSpec => RegistrySpec
BY TTLRefinesContract, ImplementsRegistry

(* When has_valid_claim can run over expiring storage, its answer is the  *)
(* abstract registry's: archival never makes it report a wrong validity.   *)
THEOREM TTLQueryCorrect == TTLSpec => []QueryMatchesRegistry
BY TTLRefinesContract, QueryCorrect, PTL

-----------------------------------------------------------------------------
(* TTL coverage.                                                           *)

(* Every stored record was created at or before the current ledger. *)
TimestampsPast ==
    \A id \in AttId : has_attestation(id) => attestations[id].timestamp <= now

TTLInv == TTLTypeOK /\ StoreKeyed /\ TimestampsPast /\ TTLCoversCreation

(* extend_ttl(Lifetime, Lifetime) never shortens a TTL and always leaves  *)
(* at least Lifetime ledgers.                                              *)
LEMMA ExtendTTL ==
  ASSUME NEW u \in Nat, now \in Nat
  PROVE  /\ extend_ttl(u) \in Nat
         /\ extend_ttl(u) >= u
         /\ extend_ttl(u) >= now + Lifetime
BY DEF extend_ttl

(* A written entry gets at least Lifetime ledgers. *)
LEMMA WrittenTTL ==
  ASSUME NEW k \in StorageKey, now \in Nat, liveUntil \in [StorageKey -> Nat]
  PROVE  /\ written_ttl(k) \in Nat
         /\ written_ttl(k) >= now + Lifetime
<1>1. new_ttl(k) \in Nat
  BY DEF new_ttl
<1>2. QED
  BY <1>1, ExtendTTL DEF written_ttl

(* The storage keys of the different kinds never collide. *)
LEMMA KeysDistinct ==
  ASSUME NEW id \in AttId, NEW s \in Address, NEW i \in Address
  PROVE  /\ AttestationKey(id) # SubjectKey(s)
         /\ AttestationKey(id) # IssuerIndexKey(i)
         /\ SubjectKey(s) # IssuerIndexKey(i)
         /\ InstanceKey \notin {AttestationKey(id), SubjectKey(s), IssuerIndexKey(i)}
         /\ \A a \in Address :
               IssuerKey(a) \notin {AttestationKey(id), SubjectKey(s), IssuerIndexKey(i)}
BY DEF AttestationKey, SubjectKey, IssuerIndexKey, InstanceKey, IssuerKey

LEMMA KeysInStorage ==
  ASSUME NEW id \in AttId, NEW s \in Address, NEW i \in Address
  PROVE  {AttestationKey(id), SubjectKey(s), IssuerIndexKey(i)} \subseteq StorageKey
BY DEF StorageKey

LEMMA TTLInitInv == TTLInit => TTLInv
<1> SUFFICES ASSUME TTLInit PROVE TTLInv
  OBVIOUS
<1>1. TypeOK /\ StoreKeyed
  BY InitTypeInv DEF TTLInit, TypeInv
<1>2. liveUntil \in [StorageKey -> Nat]
  BY DEF TTLInit
<1>3. \A id \in AttId : ~has_attestation(id)
  BY DEF TTLInit, Init, has_attestation
<1>4. QED
  BY <1>1, <1>2, <1>3 DEF TTLInv, TTLTypeOK, TimestampsPast, TTLCoversCreation

(* The contract only stores records stamped with the current ledger, and  *)
(* the ledger only advances.                                               *)
LEMMA NextTimestampsPast ==
    TypeInv /\ TimestampsPast /\ [Next]_vars => TimestampsPast'
<1> SUFFICES ASSUME TypeOK, StoreKeyed, TimestampsPast, [Next]_vars,
                    NEW x \in AttId, has_attestation(x)'
             PROVE  attestations'[x].timestamp <= now'
  BY DEF TypeInv, TimestampsPast
<1>1. ASSUME NEW i \in Address, NEW s \in Address, NEW c \in ClaimType,
             NEW e \in Expiration, create_attestation(i, s, c, e)
      PROVE  attestations'[x].timestamp <= now'
  <2> DEFINE id == generate_id(i, s, c, now)
  <2>1. id \in AttId
    BY DEF generate_id, AttId, TypeOK
  <2>2. CASE x = id
    BY <1>1, <2>1, <2>2 DEF create_attestation, set_attestation, TypeOK, Time
  <2>3. CASE x # id
    BY <1>1, <2>1, <2>3 DEF create_attestation, set_attestation, has_attestation,
                            TimestampsPast, TypeOK
  <2>4. QED
    BY <2>2, <2>3
<1>2. ASSUME NEW i \in Address, NEW id \in AttId, revoke_attestation(i, id)
      PROVE  attestations'[x].timestamp <= now'
  <2> DEFINE rec == [attestations[id] EXCEPT !.revoked = TRUE]
  <2>1. attestations[id] \in Attestation /\ rec.id = id
    BY <1>2 DEF revoke_attestation, has_attestation, TypeOK, StoreKeyed
  <2>2. attestations' = [attestations EXCEPT ![id] = rec] /\ now' = now
    BY <1>2, <2>1 DEF revoke_attestation, set_attestation
  <2>3. rec.timestamp = attestations[id].timestamp
    BY <2>1 DEF Attestation
  <2>4. QED
    BY <2>1, <2>2, <2>3 DEF TimestampsPast, has_attestation, TypeOK
<1>3. CASE Tick
  BY <1>3 DEF Tick, TimestampsPast, has_attestation, TypeOK, Time, Attestation
<1>4. CASE UNCHANGED <<attestations, now>>
  BY <1>4 DEF TimestampsPast, has_attestation
<1>5. QED
  BY <1>1, <1>2, <1>3, <1>4 DEF Next, vars, initialize, register_issuer,
                                remove_issuer

(* Every step keeps the live-until ledgers natural numbers. *)
LEMMA NextLiveUntilType ==
    TTLInv /\ [TTLNext]_ttlVars => liveUntil' \in [StorageKey -> Nat]
<1> SUFFICES ASSUME TTLInv, [TTLNext]_ttlVars PROVE liveUntil' \in [StorageKey -> Nat]
  OBVIOUS
<1>0. now \in Nat /\ liveUntil \in [StorageKey -> Nat]
  BY DEF TTLInv, TTLTypeOK, TypeOK, Time
<1>1. CASE \E a \in Address : ttl_initialize(a)
  BY <1>0, <1>1, ExtendTTL DEF ttl_initialize, StorageKey
<1>2. CASE \E a, i \in Address : ttl_register_issuer(a, i)
  BY <1>0, <1>2, WrittenTTL DEF ttl_register_issuer, StorageKey
<1>3. CASE \E i, s \in Address, c \in ClaimType, e \in Expiration :
              ttl_create_attestation(i, s, c, e)
  <2> SUFFICES ASSUME NEW i \in Address, NEW s \in Address, NEW c \in ClaimType,
                      NEW e \in Expiration, ttl_create_attestation(i, s, c, e)
               PROVE  liveUntil' \in [StorageKey -> Nat]
    BY <1>3
  <2> DEFINE id == generate_id(i, s, c, now)
  <2>1. id \in AttId
    BY <1>0 DEF generate_id, AttId, Time, TTLInv, TTLTypeOK, TypeOK
  <2>2. {AttestationKey(id), SubjectKey(s), IssuerIndexKey(i)} \subseteq StorageKey
    BY <2>1, KeysInStorage
  <2>3. /\ written_ttl(AttestationKey(id)) \in Nat
        /\ index_ttl(SubjectKey(s)) \in Nat
        /\ index_ttl(IssuerIndexKey(i)) \in Nat
    BY <1>0, <2>2, WrittenTTL DEF index_ttl
  <2>4. QED
    BY <1>0, <2>3 DEF ttl_create_attestation
<1>4. CASE \E i \in Address, id \in AttId : ttl_revoke_attestation(i, id)
  BY <1>0, <1>4, ExtendTTL DEF ttl_revoke_attestation, StorageKey
<1>5. CASE \E k \in StorageKey : restore(k)
  BY <1>0, <1>5 DEF restore
<1>6. CASE UNCHANGED liveUntil
  BY <1>0, <1>6
<1>7. QED
  BY <1>1, <1>2, <1>3, <1>4, <1>5, <1>6
     DEF TTLNext, ttlVars, ttl_remove_issuer, TTLTick

(* The three keys whose TTL TTLCoversCreation bounds for record a at id. *)
CoveredKeys(id, a) ==
    {AttestationKey(id), SubjectKey(a.subject), IssuerIndexKey(a.issuer)}

LEMMA CoveredKeysFacts ==
  ASSUME NEW id \in AttId, NEW a \in Attestation
  PROVE  /\ CoveredKeys(id, a) \subseteq StorageKey
         /\ InstanceKey \notin CoveredKeys(id, a)
         /\ \A b \in Address : IssuerKey(b) \notin CoveredKeys(id, a)
BY KeysDistinct, KeysInStorage DEF CoveredKeys, Attestation

(* A step that leaves a record alone and does not shorten the TTL of the  *)
(* key in question keeps the bound for that key.                           *)
LEMMA KeepsCoverage ==
  ASSUME TTLInv, liveUntil' \in [StorageKey -> Nat],
         NEW x \in AttId, has_attestation(x),
         attestations'[x] = attestations[x],
         NEW k \in CoveredKeys(x, attestations[x]),
         liveUntil'[k] >= liveUntil[k]
  PROVE  liveUntil'[k] >= attestations'[x].timestamp + Lifetime
<1>1. attestations[x] \in Attestation
  BY DEF TTLInv, TTLTypeOK, TypeOK, has_attestation
<1>2. liveUntil[k] >= attestations[x].timestamp + Lifetime
  BY DEF TTLInv, TTLCoversCreation, CoveredKeys
<1>3. k \in StorageKey /\ attestations[x].timestamp \in Nat
  BY <1>1, CoveredKeysFacts DEF Attestation, Time
<1>4. QED
  BY <1>2, <1>3 DEF TTLInv, TTLTypeOK

(* The extend_ttl calls keep every stored record, and both index entries  *)
(* that list it, live for Lifetime ledgers past its creation.             *)
LEMMA NextCovers == TTLInv /\ [TTLNext]_ttlVars => TTLCoversCreation'
<1> SUFFICES ASSUME TTLInv, [TTLNext]_ttlVars,
                    NEW x \in AttId, has_attestation(x)',
                    NEW k \in CoveredKeys(x, attestations'[x])
             PROVE  liveUntil'[k] >= attestations'[x].timestamp + Lifetime
  BY DEF TTLCoversCreation, CoveredKeys
<1>0. /\ TypeOK /\ StoreKeyed /\ now \in Nat
      /\ liveUntil \in [StorageKey -> Nat]
      /\ liveUntil' \in [StorageKey -> Nat]
      /\ [Next]_vars
      /\ TypeOK' /\ TimestampsPast'
  <2>1. TypeOK /\ StoreKeyed /\ now \in Nat /\ liveUntil \in [StorageKey -> Nat]
    BY DEF TTLInv, TTLTypeOK, TypeOK, Time
  <2>2. [Next]_vars
    BY TTLStepIsContractStep
  <2>3. QED
    BY <2>1, <2>2, NextLiveUntilType, NextTypeOK, NextTimestampsPast
       DEF TTLInv, TypeInv
<1>9. attestations'[x] \in Attestation /\ attestations'[x].timestamp <= now'
      /\ k \in StorageKey /\ k # InstanceKey /\ \A b \in Address : k # IssuerKey(b)
  <2>1. attestations'[x] \in Attestation /\ attestations'[x].timestamp <= now'
    BY <1>0 DEF TypeOK, TimestampsPast, has_attestation
  <2>2. QED
    BY <2>1, CoveredKeysFacts
<1>1. CASE \E a \in Address : ttl_initialize(a)
  <2>1. attestations' = attestations /\ liveUntil'[k] = liveUntil[k]
    BY <1>1, <1>9 DEF ttl_initialize, initialize
  <2>2. /\ has_attestation(x)
        /\ k \in CoveredKeys(x, attestations[x])
        /\ liveUntil'[k] >= liveUntil[k]
    BY <2>1, <1>0, <1>9 DEF has_attestation
  <2>3. QED
    BY <2>1, <2>2, <1>0, KeepsCoverage
<1>2. CASE \E a, i \in Address : ttl_register_issuer(a, i)
  <2>1. attestations' = attestations /\ liveUntil'[k] = liveUntil[k]
    BY <1>2, <1>9 DEF ttl_register_issuer, register_issuer
  <2>2. /\ has_attestation(x)
        /\ k \in CoveredKeys(x, attestations[x])
        /\ liveUntil'[k] >= liveUntil[k]
    BY <2>1, <1>0, <1>9 DEF has_attestation
  <2>3. QED
    BY <2>1, <2>2, <1>0, KeepsCoverage
<1>3. CASE \E i, s \in Address, c \in ClaimType, e \in Expiration :
              ttl_create_attestation(i, s, c, e)
  <2> SUFFICES ASSUME NEW i \in Address, NEW s \in Address, NEW c \in ClaimType,
                      NEW e \in Expiration, ttl_create_attestation(i, s, c, e)
               PROVE  liveUntil'[k] >= attestations'[x].timestamp + Lifetime
    BY <1>3
  <2> DEFINE id == generate_id(i, s, c, now)
             rec == [id |-> id, issuer |-> i, subject |-> s, claim_type |-> c,
                     timestamp |-> now, expiration |-> e, revoked |-> FALSE]
             W  == {AttestationKey(id), SubjectKey(s), IssuerIndexKey(i)}
  <2>1. id \in AttId
    BY <1>0 DEF generate_id, AttId, TypeOK
  <2>2. /\ ~has_attestation(id) /\ now' = now
        /\ attestations' = [attestations EXCEPT ![id] = rec]
        /\ liveUntil' = [liveUntil EXCEPT
                           ![AttestationKey(id)] = written_ttl(AttestationKey(id)),
                           ![SubjectKey(s)] = index_ttl(SubjectKey(s)),
                           ![IssuerIndexKey(i)] = index_ttl(IssuerIndexKey(i))]
    BY DEF ttl_create_attestation, create_attestation, set_attestation
  <2>3. CASE k \in W
    <3>1. W \subseteq StorageKey
      BY <2>1, KeysInStorage
    <3>2. \A w \in W : liveUntil'[w] >= now + Lifetime
      BY <1>0, <2>2, <3>1, WrittenTTL DEF index_ttl
    <3>3. QED
      BY <2>3, <3>2, <1>9, <2>2, <1>0 DEF Attestation, Time
  <2>4. CASE k \notin W
    <3>1. x # id
      BY <2>4, <2>2, <2>1, <1>0 DEF CoveredKeys, TypeOK
    <3>2. attestations'[x] = attestations[x] /\ has_attestation(x)
      BY <3>1, <2>2, <1>0 DEF TypeOK, has_attestation
    <3>3. liveUntil'[k] = liveUntil[k] /\ liveUntil[k] \in Nat
      BY <2>4, <2>2, <1>0, <1>9
    <3>4. k \in CoveredKeys(x, attestations[x])
      BY <3>2
    <3>5. QED
      BY <3>2, <3>3, <3>4, <1>0, KeepsCoverage
  <2>5. QED
    BY <2>3, <2>4
<1>4. CASE \E i \in Address, id \in AttId : ttl_revoke_attestation(i, id)
  <2> SUFFICES ASSUME NEW i \in Address, NEW id \in AttId,
                      ttl_revoke_attestation(i, id)
               PROVE  liveUntil'[k] >= attestations'[x].timestamp + Lifetime
    BY <1>4
  <2> DEFINE rec == [attestations[id] EXCEPT !.revoked = TRUE]
  <2>1. attestations[id] \in Attestation /\ rec.id = id
    BY <1>0 DEF ttl_revoke_attestation, revoke_attestation, has_attestation,
                TypeOK, StoreKeyed
  <2>2. attestations' = [attestations EXCEPT ![id] = rec]
        /\ liveUntil' = [liveUntil EXCEPT ![AttestationKey(id)] = extend_ttl(@)]
    BY <2>1 DEF ttl_revoke_attestation, revoke_attestation, set_attestation
  <2>3. /\ rec.timestamp = attestations[id].timestamp
        /\ rec.subject = attestations[id].subject
        /\ rec.issuer = attestations[id].issuer
    BY <2>1 DEF Attestation
  <2>4. /\ has_attestation(x)
        /\ CoveredKeys(x, attestations'[x]) = CoveredKeys(x, attestations[x])
        /\ attestations'[x].timestamp = attestations[x].timestamp
    BY <2>1, <2>2, <2>3, <1>0 DEF has_attestation, CoveredKeys, TypeOK
  <2>5. liveUntil'[k] >= liveUntil[k]
    <3>1. AttestationKey(id) \in StorageKey
      BY DEF StorageKey
    <3>2. QED
      BY <1>9, <2>2, <3>1, <1>0, ExtendTTL
  <2>6. liveUntil[k] >= attestations[x].timestamp + Lifetime
    BY <2>4 DEF TTLInv, TTLCoversCreation, CoveredKeys
  <2>7. attestations[x].timestamp \in Nat
    BY <2>4, <1>0 DEF has_attestation, TypeOK, Attestation, Time
  <2>8. QED
    BY <2>4, <2>5, <2>6, <2>7, <1>0, <1>9
<1>5. CASE \E k0 \in StorageKey : restore(k0)
  <2> SUFFICES ASSUME NEW k0 \in StorageKey, restore(k0)
               PROVE  liveUntil'[k] >= attestations'[x].timestamp + Lifetime
    BY <1>5
  <2>1. attestations' = attestations
    BY DEF restore, vars
  <2>2. liveUntil'[k] >= liveUntil[k]
    BY <1>9, <1>0 DEF restore, Archived
  <2>3. QED
    BY <2>1, <2>2, <1>0, KeepsCoverage DEF has_attestation
<1>6. CASE UNCHANGED <<attestations, liveUntil>>
  BY <1>6, <1>0, <1>9, KeepsCoverage DEF has_attestation
<1>7. QED
  BY <1>1, <1>2, <1>3, <1>4, <1>5, <1>6
     DEF TTLNext, ttlVars, vars, ttl_remove_issuer, remove_issuer, TTLTick, Tick

LEMMA TTLInvariant == TTLSpec => []TTLInv
<1>1. TTLInv /\ [TTLNext]_ttlVars => TTLInv'
  <2> SUFFICES ASSUME TTLInv, [TTLNext]_ttlVars PROVE TTLInv'
    OBVIOUS
  <2>1. [Next]_vars /\ TypeInv
    BY TTLStepIsContractStep DEF TTLInv, TTLTypeOK, TypeInv
  <2>2. QED
    BY <2>1, NextTypeOK, NextStoreKeyed, NextTimestampsPast, NextLiveUntilType,
       NextCovers DEF TTLInv, TTLTypeOK
<1>2. QED
  BY TTLInitInv, <1>1, PTL DEF TTLSpec

(* Whatever the network's minimum TTL and the contract's INSTANCE_LIFETIME, *)
(* the extend_ttl calls of set_attestation and of the two index appends    *)
(* keep a record and both index entries listing it live for Lifetime       *)
(* ledgers past the record's creation.                                     *)
THEOREM TTLCoverage == TTLSpec => []TTLCoversCreation
BY TTLInvariant, PTL DEF TTLInv

(* The contract over expiring storage keeps its type. *)
THEOREM TTLTypeCorrect == TTLSpec => []TTLTypeOK
BY TTLInvariant, PTL DEF TTLInv

=============================================================================
