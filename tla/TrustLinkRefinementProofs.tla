----------------------- MODULE TrustLinkRefinementProofs -----------------------
(***************************************************************************)
(* Proofs that the contract answers and behaves as the abstract registry  *)
(* of AttestationRegistry.tla, under the mapping of TrustLinkRefinement.  *)
(***************************************************************************)
EXTENDS TrustLinkRefinement, TrustLinkProofs, TLAPS

USE ConstantsAssumption, StoreAssumption

-----------------------------------------------------------------------------
(* has_valid_claim answers the abstract validity question.                 *)

(* get_status reports Valid exactly when the abstract record is unrevoked  *)
(* and unexpired at that time.                                             *)
LEMMA StatusValid ==
  ASSUME NEW a \in Attestation, NEW t \in Nat
  PROVE  get_status(a, t) = "Valid" <=> Registry!IsValid(AbsRecord(a), t)
BY DEF get_status, Registry!IsValid, AbsRecord, Attestation, Expiration, Time

LEMMA QueryFromIndex ==
  ASSUME TypeOK, IndexConsistent, NEW s \in Address, NEW c \in ClaimType
  PROVE  has_valid_claim(s, c) <=> Registry!ValidClaim(s, c)
<1> DEFINE reg == {AbsRecord(attestations[id]) : id \in StoredIds}
<1>0. now \in Nat /\ subjectIdx[s] \in Seq(AttId)
  BY DEF TypeOK, Time
<1>1. ASSUME has_valid_claim(s, c) PROVE Registry!ValidClaim(s, c)
  <2>1. PICK k \in 1 .. Len(subjectIdx[s]) :
             LET id == subjectIdx[s][k]
             IN  /\ has_attestation(id)
                 /\ attestations[id].claim_type = c
                 /\ get_status(attestations[id], now) = "Valid"
    BY <1>1 DEF has_valid_claim
  <2> DEFINE id == subjectIdx[s][k]
  <2>2. id \in AttId /\ attestations[id] \in Attestation /\ id \in StoredIds
    BY <2>1, <1>0 DEF TypeOK, has_attestation, StoredIds
  <2>3. attestations[id].subject = s
    BY <2>1 DEF IndexConsistent, IndexSound
  <2>4. Registry!IsValid(AbsRecord(attestations[id]), now)
    BY <2>1, <2>2, <1>0, StatusValid
  <2>5. AbsRecord(attestations[id]) \in reg
    BY <2>2
  <2>6. QED
    BY <2>1, <2>3, <2>4, <2>5 DEF Registry!ValidClaim, AbsRecord
<1>2. ASSUME Registry!ValidClaim(s, c) PROVE has_valid_claim(s, c)
  <2>1. PICK r \in reg : r.subject = s /\ r.claim_type = c
                         /\ Registry!IsValid(r, now)
    BY <1>2 DEF Registry!ValidClaim
  <2>2. PICK id \in StoredIds : r = AbsRecord(attestations[id])
    OBVIOUS
  <2>3. id \in AttId /\ has_attestation(id) /\ attestations[id] \in Attestation
    BY DEF StoredIds, has_attestation, TypeOK
  <2>4. attestations[id].subject = s /\ attestations[id].claim_type = c
        /\ get_status(attestations[id], now) = "Valid"
    BY <2>1, <2>2, <2>3, <1>0, StatusValid DEF AbsRecord
  <2>5. \E j \in 1 .. Len(subjectIdx[s]) : subjectIdx[s][j] = id
    BY <2>3, <2>4 DEF IndexConsistent, IndexComplete, has_attestation
  <2>6. QED
    BY <2>3, <2>4, <2>5 DEF has_valid_claim
<1>3. QED
  BY <1>1, <1>2

(* has_valid_claim, which scans the subject's index list, always answers  *)
(* the abstract question whether some record of the claim type about the *)
(* subject is unrevoked and unexpired now: the scan finds every such      *)
(* record because the index lists every stored record of its subject.     *)
THEOREM QueryCorrect == Spec => []QueryMatchesRegistry
<1>1. TypeOK /\ IndexConsistent => QueryMatchesRegistry
  BY QueryFromIndex DEF QueryMatchesRegistry
<1>2. QED
  BY <1>1, TypeCorrect, IndexesConsistent, PTL

-----------------------------------------------------------------------------
(* The contract implements the abstract registry.                          *)

(* Every stored record sits under the id generate_id derives from its     *)
(* issuer, subject, claim type and timestamp, so two stored records never *)
(* share that key and stripping the ids loses no record.                   *)
IdsDerived ==
    \A id \in AttId :
        has_attestation(id) =>
            LET a == attestations[id]
            IN  id = generate_id(a.issuer, a.subject, a.claim_type, a.timestamp)

RInv == TypeInv /\ IdsDerived

LEMMA NextIdsDerived == RInv /\ [Next]_vars => IdsDerived'
<1> SUFFICES ASSUME TypeOK, StoreKeyed, IdsDerived, [Next]_vars,
                    NEW x \in AttId, has_attestation(x)'
             PROVE  LET a == attestations'[x]
                    IN  x = generate_id(a.issuer, a.subject, a.claim_type, a.timestamp)
  BY DEF RInv, TypeInv, IdsDerived
<1>1. CASE has_attestation(x)
  BY <1>1, RecordsKept DEF RecordKept, IdsDerived
<1>2. CASE ~has_attestation(x)
  <2>1. PICK i \in Address, s \in Address, c \in ClaimType, e \in Expiration :
               create_attestation(i, s, c, e)
    <3>1. attestations'[x] # attestations[x]
      BY <1>2 DEF has_attestation
    <3>2. ASSUME NEW i \in Address, NEW id \in AttId, revoke_attestation(i, id)
          PROVE  FALSE
      <4>1. id # x /\ attestations[id].id = id
        BY <3>2, <1>2 DEF revoke_attestation, StoreKeyed
      <4>2. attestations'[x] = attestations[x]
        BY <3>2, <4>1 DEF revoke_attestation, set_attestation, TypeOK
      <4>3. QED
        BY <3>1, <4>2
    <3>3. QED
      BY <3>1, <3>2 DEF Next, vars, initialize, register_issuer, remove_issuer,
                        Tick
  <2> DEFINE id == generate_id(i, s, c, now)
  <2>2. id \in AttId
    BY DEF generate_id, AttId, TypeOK
  <2>3. x = id
    BY <1>2, <2>1, <2>2 DEF create_attestation, set_attestation, has_attestation,
                            TypeOK
  <2>4. QED
    BY <2>1, <2>2, <2>3 DEF create_attestation, set_attestation, TypeOK
<1>3. QED
  BY <1>1, <1>2

LEMMA InitRInv == Init => RInv
BY InitTypeInv DEF Init, RInv, IdsDerived, has_attestation

LEMMA RInvariant == Spec => []RInv
<1>1. RInv /\ [Next]_vars => RInv'
  BY NextTypeOK, NextStoreKeyed, NextIdsDerived DEF RInv, TypeInv
<1>2. QED
  BY InitRInv, <1>1, PTL DEF Spec

(* The abstract registry the mapping gives. *)
Reg == {AbsRecord(attestations[id]) : id \in StoredIds}

(* Two stored records with the same abstract record are one record. *)
LEMMA AbsInjective ==
  ASSUME TypeOK, IdsDerived, NEW x \in StoredIds, NEW y \in StoredIds,
         AbsRecord(attestations[x]) = AbsRecord(attestations[y])
  PROVE  x = y
BY DEF IdsDerived, StoredIds, AbsRecord, generate_id

LEMMA AbsRecordType ==
  ASSUME NEW a \in Attestation
  PROVE  AbsRecord(a) \in Registry!Record
BY DEF AbsRecord, Attestation, Registry!Record, Expiration, Time, Registry!Time

(* Revoking a record revokes its abstract record. *)
LEMMA AbsRevoke ==
  ASSUME NEW x \in Attestation
  PROVE  AbsRecord([x EXCEPT !.revoked = TRUE]) = [AbsRecord(x) EXCEPT !.revoked = TRUE]
<1> DEFINE y == AbsRecord(x)
           z == [issuer |-> x.issuer, subject |-> x.subject,
                 claim_type |-> x.claim_type, timestamp |-> x.timestamp,
                 expiration |-> x.expiration, revoked |-> TRUE]
<1>1. AbsRecord([x EXCEPT !.revoked = TRUE]) = z
  BY DEF AbsRecord, Attestation
<1>2. [y EXCEPT !.revoked = TRUE] = z
  <2>1. y \in [issuer : Address, subject : Address, claim_type : ClaimType,
                timestamp : Time, expiration : Expiration, revoked : BOOLEAN]
    BY DEF AbsRecord, Attestation
  <2> DEFINE w == [y EXCEPT !.revoked = TRUE]
  <2>3. w.issuer = z.issuer /\ w.subject = z.subject
        /\ w.claim_type = z.claim_type /\ w.timestamp = z.timestamp
        /\ w.expiration = z.expiration /\ w.revoked = z.revoked
    BY <2>1 DEF AbsRecord
  <2>4. w \in [issuer : Address, subject : Address, claim_type : ClaimType,
               timestamp : Time, expiration : Expiration, revoked : BOOLEAN]
    BY <2>1
  <2>5. z \in [issuer : Address, subject : Address, claim_type : ClaimType,
               timestamp : Time, expiration : Expiration, revoked : BOOLEAN]
    BY DEF Attestation
  <2>6. QED
    BY <2>3, <2>4, <2>5
<1>3. QED
  BY <1>1, <1>2

LEMMA RegistryStep == RInv /\ [Next]_vars => [Registry!Next]_Registry!avars
<1> SUFFICES ASSUME TypeOK, StoreKeyed, IdsDerived, [Next]_vars
             PROVE  [Registry!Next]_Registry!avars
  BY DEF RInv, TypeInv
<1>0. attestations' = attestations => Reg' = Reg
  BY DEF Reg, StoredIds, has_attestation
<1>1. ASSUME NEW a \in Address, initialize(a) PROVE Registry!SetAdmin(a)
  BY <1>0, <1>1 DEF initialize, Registry!SetAdmin, has_admin, Reg
<1>2. ASSUME NEW a \in Address, NEW i \in Address,
             register_issuer(a, i) \/ remove_issuer(a, i)
      PROVE  \E S \in SUBSET Address : Registry!ChangeIssuers(S)
  <2>1. CASE register_issuer(a, i)
    <3>1. Registry!ChangeIssuers(issuers \cup {i})
      BY <1>0, <2>1 DEF register_issuer, require_admin, has_admin,
                        Registry!ChangeIssuers, Reg
    <3>2. QED
      BY <3>1 DEF TypeOK
  <2>2. CASE remove_issuer(a, i)
    <3>1. Registry!ChangeIssuers(issuers \ {i})
      BY <1>0, <2>2 DEF remove_issuer, require_admin, has_admin,
                        Registry!ChangeIssuers, Reg
    <3>2. QED
      BY <3>1 DEF TypeOK
  <2>3. QED
    BY <1>2, <2>1, <2>2
<1>3. ASSUME NEW i \in Address, NEW s \in Address, NEW c \in ClaimType,
             NEW e \in Expiration, create_attestation(i, s, c, e)
      PROVE  \E r \in Registry!Record : Registry!Issue(r)
  <2> DEFINE id == generate_id(i, s, c, now)
             a  == [id |-> id, issuer |-> i, subject |-> s, claim_type |-> c,
                    timestamp |-> now, expiration |-> e, revoked |-> FALSE]
             r  == AbsRecord(a)
  <2>1. id \in AttId /\ a \in Attestation /\ a # NotStored
    <3>1. now \in Time
      BY DEF TypeOK
    <3>2. id \in AttId
      BY <3>1 DEF generate_id, AttId
    <3>3. a \in Attestation
      BY <3>1, <3>2 DEF Attestation
    <3>4. QED
      BY <3>2, <3>3, StoreAssumption
  <2>2. /\ ~has_attestation(id)
        /\ attestations' = [attestations EXCEPT ![id] = a]
        /\ i \in issuers
        /\ UNCHANGED <<admin, issuers, now>>
    BY <1>3 DEF create_attestation, set_attestation, require_issuer, is_issuer
  <2>3. /\ StoredIds' = StoredIds \cup {id}
        /\ attestations'[id] = a
        /\ \A y \in StoredIds : attestations'[y] = attestations[y]
    BY <2>1, <2>2 DEF StoredIds, has_attestation, TypeOK
  <2>4. Reg' = Reg \cup {r}
    <3>1. Reg' = {AbsRecord(attestations'[y]) : y \in StoredIds \cup {id}}
      BY <2>3 DEF Reg
    <3>2. {AbsRecord(attestations'[y]) : y \in StoredIds \cup {id}}
            = {AbsRecord(attestations[y]) : y \in StoredIds} \cup {r}
      BY <2>3
    <3>3. QED
      BY <3>1, <3>2 DEF Reg
  <2>5. \A q \in Reg : ~Registry!SameKey(r, q)
    <3> SUFFICES ASSUME NEW y \in StoredIds,
                        Registry!SameKey(r, AbsRecord(attestations[y]))
                 PROVE  FALSE
      BY DEF Reg
    <3>1. y = id
      BY DEF IdsDerived, StoredIds, Registry!SameKey, AbsRecord, generate_id
    <3>2. QED
      BY <3>1, <2>2 DEF StoredIds
  <2>6. Registry!Issue(r)
    BY <2>2, <2>4, <2>5 DEF Registry!Issue, AbsRecord, Reg
  <2>7. QED
    BY <2>1, <2>6, AbsRecordType
<1>4. ASSUME NEW i \in Address, NEW id \in AttId, revoke_attestation(i, id)
      PROVE  \E r \in Registry!Record : Registry!Revoke(r)
  <2> DEFINE rec == [attestations[id] EXCEPT !.revoked = TRUE]
             r   == AbsRecord(attestations[id])
  <2>1. attestations[id] \in Attestation /\ rec.id = id /\ id \in StoredIds
        /\ ~attestations[id].revoked
    BY <1>4 DEF revoke_attestation, has_attestation, TypeOK, StoreKeyed,
                Attestation, StoredIds
  <2>2. attestations' = [attestations EXCEPT ![id] = rec]
        /\ UNCHANGED <<admin, issuers, now>>
    BY <1>4, <2>1 DEF revoke_attestation, set_attestation
  <2>3. AbsRecord(rec) = [r EXCEPT !.revoked = TRUE]
    BY <2>1, AbsRevoke
  <2>4. /\ StoredIds' = StoredIds
        /\ \A y \in StoredIds \ {id} : attestations'[y] = attestations[y]
        /\ attestations'[id] = rec
    <3>1. rec \in Attestation /\ rec # NotStored /\ rec.id = id
      BY <2>1, StoreAssumption DEF Attestation
    <3>2. attestations' = [attestations EXCEPT ![id] = rec]
      BY <2>2
    <3>3. attestations'[id] = rec
      BY <3>2 DEF TypeOK
    <3>4. \A y \in AttId \ {id} : attestations'[y] = attestations[y]
      BY <3>2 DEF TypeOK
    <3>5. StoredIds' = StoredIds
      BY <2>1, <3>1, <3>3, <3>4 DEF StoredIds, has_attestation
    <3>6. QED
      BY <3>3, <3>4, <3>5 DEF StoredIds
  <2>5. \A y \in StoredIds \ {id} : AbsRecord(attestations[y]) # r
    BY <2>1, AbsInjective
  <2>6. Reg' = (Reg \ {r}) \cup {[r EXCEPT !.revoked = TRUE]}
    <3>1. Reg' = {AbsRecord(attestations'[y]) : y \in StoredIds}
      BY <2>4 DEF Reg
    <3>2. Reg \ {r} = {AbsRecord(attestations[y]) : y \in StoredIds \ {id}}
      BY <2>1, <2>5 DEF Reg
    <3>3. {AbsRecord(attestations'[y]) : y \in StoredIds}
            = {AbsRecord(attestations[y]) : y \in StoredIds \ {id}}
              \cup {AbsRecord(rec)}
      BY <2>1, <2>4
    <3>4. QED
      BY <3>1, <3>2, <3>3, <2>3
  <2>7. Registry!Revoke(r)
    BY <2>1, <2>2, <2>6 DEF Registry!Revoke, Reg, AbsRecord
  <2>8. QED
    BY <2>1, <2>7, AbsRecordType
<1>5. ASSUME Tick PROVE Registry!AdvanceClock
  <2>1. now' \in Registry!Time /\ now' > now
    BY <1>5 DEF Tick, Registry!Time, TypeOK, Time
  <2>2. Reg' = Reg /\ UNCHANGED <<admin, issuers>>
    BY <1>0, <1>5 DEF Tick
  <2>3. QED
    BY <2>1, <2>2 DEF Registry!AdvanceClock, Reg
<1>6. ASSUME UNCHANGED vars PROVE UNCHANGED Registry!avars
  BY <1>0, <1>6 DEF vars, Registry!avars, Reg
<1>7. QED
  BY <1>1, <1>2, <1>3, <1>4, <1>5, <1>6 DEF Next, Registry!Next, Registry!avars, Reg

(* Every behaviour of the contract is a behaviour of the abstract          *)
(* registry: the records stored under the Attestation(id) keys, stripped   *)
(* of their ids, change only by the issue of a fresh record by a current  *)
(* issuer or by the revocation of an unrevoked one, and the ledger clock   *)
(* only advances.                                                          *)
THEOREM ImplementsRegistry == Spec => RegistrySpec
<1>1. Init => Registry!Init
  BY DEF Init, Registry!Init, StoredIds, has_attestation
<1>2. RInv /\ [Next]_vars => [Registry!Next]_Registry!avars
  BY RegistryStep
<1>3. QED
  BY <1>1, <1>2, RInvariant, PTL DEF Spec, RegistrySpec, Registry!Spec

=============================================================================
