---------------------------- MODULE TrustLinkProofs ----------------------------
(***************************************************************************)
(* Proofs about the contract model of TrustLink.tla, for every value of    *)
(* the constants that satisfies ConstantsAssumption.                       *)
(***************************************************************************)
EXTENDS TrustLink, SequenceTheorems, TLAPS

USE ConstantsAssumption, StoreAssumption

-----------------------------------------------------------------------------
(* Type correctness.                                                       *)

(* Every record is stored under its own id, so revoke_attestation, which   *)
(* writes the loaded record back under record.id, rewrites the same key.  *)
StoreKeyed == \A id \in AttId : has_attestation(id) => attestations[id].id = id

TypeInv == TypeOK /\ StoreKeyed

LEMMA InitTypeInv == Init => TypeInv
BY DEF Init, TypeInv, TypeOK, StoreKeyed, has_attestation, Time

LEMMA NextTypeOK == TypeInv /\ [Next]_vars => TypeOK'
<1> SUFFICES ASSUME TypeOK, StoreKeyed, [Next]_vars PROVE TypeOK'
  BY DEF TypeInv
<1>1. ASSUME NEW a \in Address, initialize(a) PROVE TypeOK'
  BY <1>1 DEF initialize, TypeOK
<1>2. ASSUME NEW a \in Address, NEW i \in Address, register_issuer(a, i)
      PROVE TypeOK'
  BY <1>2 DEF register_issuer, TypeOK
<1>3. ASSUME NEW a \in Address, NEW i \in Address, remove_issuer(a, i)
      PROVE TypeOK'
  BY <1>3 DEF remove_issuer, TypeOK
<1>4. ASSUME NEW i \in Address, NEW s \in Address, NEW c \in ClaimType,
             NEW e \in Expiration, create_attestation(i, s, c, e)
      PROVE TypeOK'
  <2> DEFINE id == generate_id(i, s, c, now)
             a  == [id |-> id, issuer |-> i, subject |-> s, claim_type |-> c,
                    timestamp |-> now, expiration |-> e, revoked |-> FALSE]
  <2>1. id \in AttId /\ a \in Attestation
    BY DEF TypeOK, generate_id, AttId, Attestation
  <2>2. attestations' = set_attestation(a)
        /\ subjectIdx' = add_subject_attestation(s, id)
        /\ issuerIdx' = add_issuer_attestation(i, id)
        /\ events' = attestation_created(a)
        /\ UNCHANGED <<admin, issuers, now>>
    BY <1>4 DEF create_attestation
  <2>3. attestations' \in [AttId -> Attestation \cup {NotStored}]
    BY <2>1, <2>2 DEF TypeOK, set_attestation
  <2>4. subjectIdx' \in [Address -> Seq(AttId)] /\ issuerIdx' \in [Address -> Seq(AttId)]
    BY <2>1, <2>2 DEF TypeOK, add_subject_attestation, add_issuer_attestation
  <2>5. events' \in Seq(Event)
    BY <2>1, <2>2 DEF TypeOK, attestation_created, Event, Attestation
  <2>6. QED
    BY <2>2, <2>3, <2>4, <2>5 DEF TypeOK
<1>5. ASSUME NEW i \in Address, NEW id \in AttId, revoke_attestation(i, id)
      PROVE TypeOK'
  <2>1. attestations[id] \in Attestation
    BY <1>5 DEF revoke_attestation, has_attestation, TypeOK
  <2>2. [attestations[id] EXCEPT !.revoked = TRUE] \in Attestation
    BY <2>1 DEF Attestation
  <2>3. [attestations[id] EXCEPT !.revoked = TRUE].id = id
    BY <2>1, <1>5 DEF StoreKeyed, revoke_attestation, Attestation
  <2>4. attestations' \in [AttId -> Attestation \cup {NotStored}]
    BY <1>5, <2>2, <2>3 DEF revoke_attestation, set_attestation, TypeOK
  <2>5. events' \in Seq(Event)
    BY <1>5 DEF revoke_attestation, attestation_revoked, TypeOK, Event
  <2>6. QED
    BY <1>5, <2>4, <2>5 DEF revoke_attestation, TypeOK
<1>6. CASE Tick
  BY <1>6 DEF Tick, TypeOK, Time
<1>7. CASE UNCHANGED vars
  BY <1>7 DEF vars, TypeOK
<1>8. QED
  BY <1>1, <1>2, <1>3, <1>4, <1>5, <1>6, <1>7 DEF Next

LEMMA NextStoreKeyed == TypeInv /\ [Next]_vars => StoreKeyed'
<1> SUFFICES ASSUME TypeOK, StoreKeyed, [Next]_vars PROVE StoreKeyed'
  BY DEF TypeInv
<1>1. ASSUME NEW i \in Address, NEW s \in Address, NEW c \in ClaimType,
             NEW e \in Expiration, create_attestation(i, s, c, e)
      PROVE StoreKeyed'
  BY <1>1 DEF create_attestation, set_attestation, generate_id, StoreKeyed,
              has_attestation, TypeOK, AttId
<1>2. ASSUME NEW i \in Address, NEW id \in AttId, revoke_attestation(i, id)
      PROVE StoreKeyed'
  BY <1>2 DEF revoke_attestation, set_attestation, StoreKeyed, has_attestation,
              TypeOK
<1>3. CASE UNCHANGED attestations
  BY <1>3 DEF StoreKeyed, has_attestation
<1>4. QED
  BY <1>1, <1>2, <1>3 DEF Next, vars, initialize, register_issuer,
                          remove_issuer, Tick

LEMMA TypeInvariant == Spec => []TypeInv
<1>1. TypeInv /\ [Next]_vars => TypeInv'
  BY NextTypeOK, NextStoreKeyed DEF TypeInv
<1>2. QED
  BY InitTypeInv, <1>1, PTL DEF Spec

(* The contract's state always has the shape of TypeOK: the store maps    *)
(* ids to attestation records or nothing, the indexes are lists of ids and *)
(* the ledger timestamp stays in range.                                    *)
THEOREM TypeCorrect == Spec => []TypeOK
BY TypeInvariant, PTL DEF TypeInv

-----------------------------------------------------------------------------
(* Index consistency.                                                      *)

Fields == {"subject", "issuer"}

(* Appending an id that is not yet stored to the list of the key the new  *)
(* record files it under keeps that index sound, complete and free of     *)
(* duplicates.                                                             *)
LEMMA CreateKeepsIndex ==
  ASSUME NEW st \in [AttId -> Attestation \cup {NotStored}],
         NEW idx \in [Address -> Seq(AttId)],
         NEW field \in Fields, NEW id \in AttId, NEW rec \in Attestation,
         NEW key \in Address,
         st[id] = NotStored, rec # NotStored, rec[field] = key,
         IndexSound(st, idx, field), IndexComplete(st, idx, field),
         IndexNoDuplicates(idx)
  PROVE  LET st2  == [st EXCEPT ![id] = rec]
             idx2 == [idx EXCEPT ![key] = Append(idx[key], id)]
         IN  /\ IndexSound(st2, idx2, field)
             /\ IndexComplete(st2, idx2, field)
             /\ IndexNoDuplicates(idx2)
<1> DEFINE st2  == [st EXCEPT ![id] = rec]
           idx2 == [idx EXCEPT ![key] = Append(idx[key], id)]
<1>1. \A k \in Address : \A j \in 1 .. Len(idx[k]) : idx[k][j] # id
  BY DEF IndexSound
<1>2. /\ Append(idx[key], id) \in Seq(AttId)
      /\ Len(Append(idx[key], id)) = Len(idx[key]) + 1
      /\ \A j \in 1 .. Len(idx[key]) : Append(idx[key], id)[j] = idx[key][j]
      /\ Append(idx[key], id)[Len(idx[key]) + 1] = id
  BY AppendProperties
<1>3. idx2 \in [Address -> Seq(AttId)]
  BY <1>2
<1>4. \A k \in Address : \A j \in 1 .. Len(idx2[k]) :
        \/ j \in 1 .. Len(idx[k]) /\ idx2[k][j] = idx[k][j]
        \/ k = key /\ j = Len(idx[key]) + 1 /\ idx2[k][j] = id
  BY <1>2
<1>5. IndexSound(st2, idx2, field)
  BY <1>1, <1>4 DEF IndexSound
<1>6. IndexComplete(st2, idx2, field)
  <2> SUFFICES ASSUME NEW x \in AttId, st2[x] # NotStored
               PROVE  \E j \in 1 .. Len(idx2[st2[x][field]]) : idx2[st2[x][field]][j] = x
    BY DEF IndexComplete
  <2>1. CASE x = id
    BY <2>1, <1>2
  <2>2. CASE x # id
    <3>1. st2[x] = st[x] /\ st[x] # NotStored
      BY <2>2
    <3>2. st[x] \in Attestation /\ st[x][field] \in Address
      BY <3>1 DEF Attestation, Fields
    <3>3. PICK j \in 1 .. Len(idx[st[x][field]]) : idx[st[x][field]][j] = x
      BY <3>1 DEF IndexComplete
    <3>4. QED
      BY <3>1, <3>2, <3>3, <1>2
  <2>3. QED
    BY <2>1, <2>2
<1>7. IndexNoDuplicates(idx2)
  BY <1>1, <1>4 DEF IndexNoDuplicates
<1>8. QED
  BY <1>5, <1>6, <1>7

(* Rewriting a stored record with only its revoked flag changed keeps an  *)
(* unchanged index sound and complete.                                     *)
LEMMA RevokeKeepsIndex ==
  ASSUME NEW st \in [AttId -> Attestation \cup {NotStored}],
         NEW idx \in [Address -> Seq(AttId)],
         NEW field \in Fields, NEW id \in AttId, NEW rec \in Attestation,
         st[id] # NotStored, rec # NotStored, rec[field] = st[id][field],
         IndexSound(st, idx, field), IndexComplete(st, idx, field)
  PROVE  LET st2 == [st EXCEPT ![id] = rec]
         IN  IndexSound(st2, idx, field) /\ IndexComplete(st2, idx, field)
BY DEF IndexSound, IndexComplete

IInv == TypeInv /\ IndexConsistent

LEMMA InitIInv == Init => IInv
BY InitTypeInv DEF Init, IInv, IndexConsistent, IndexSound, IndexComplete,
                   IndexNoDuplicates

LEMMA NextIndexConsistent == IInv /\ [Next]_vars => IndexConsistent'
<1> SUFFICES ASSUME TypeOK, StoreKeyed, IndexConsistent, [Next]_vars
             PROVE  IndexConsistent'
  BY DEF IInv, TypeInv
<1>1. ASSUME NEW i \in Address, NEW s \in Address, NEW c \in ClaimType,
             NEW e \in Expiration, create_attestation(i, s, c, e)
      PROVE IndexConsistent'
  <2> DEFINE id == generate_id(i, s, c, now)
             a  == [id |-> id, issuer |-> i, subject |-> s, claim_type |-> c,
                    timestamp |-> now, expiration |-> e, revoked |-> FALSE]
  <2>1. id \in AttId /\ a \in Attestation /\ a # NotStored
    <3>1. id \in AttId
      BY DEF TypeOK, generate_id, AttId
    <3>2. a \in Attestation
      BY <3>1 DEF TypeOK, Attestation
    <3>3. QED
      BY <3>1, <3>2, StoreAssumption
  <2>2. /\ attestations[id] = NotStored
        /\ attestations' = [attestations EXCEPT ![id] = a]
        /\ subjectIdx' = [subjectIdx EXCEPT ![s] = Append(subjectIdx[s], id)]
        /\ issuerIdx' = [issuerIdx EXCEPT ![i] = Append(issuerIdx[i], id)]
    BY <1>1 DEF create_attestation, set_attestation, add_subject_attestation,
                add_issuer_attestation, has_attestation
  <2>3. a["subject"] = s /\ a["issuer"] = i
    OBVIOUS
  <2>4. "subject" \in Fields /\ "issuer" \in Fields
    BY DEF Fields
  <2>5. QED
    BY <2>1, <2>2, <2>3, <2>4, CreateKeepsIndex DEF TypeOK, IndexConsistent
<1>2. ASSUME NEW i \in Address, NEW id \in AttId, revoke_attestation(i, id)
      PROVE IndexConsistent'
  <2> DEFINE rec == [attestations[id] EXCEPT !.revoked = TRUE]
  <2>1. attestations[id] \in Attestation /\ attestations[id] # NotStored
    BY <1>2 DEF revoke_attestation, has_attestation, TypeOK
  <2>2. rec \in Attestation /\ rec # NotStored
        /\ rec["subject"] = attestations[id]["subject"]
        /\ rec["issuer"] = attestations[id]["issuer"]
    BY <2>1 DEF Attestation
  <2>3. rec.id = id
    BY <2>1 DEF StoreKeyed, has_attestation, Attestation
  <2>4. /\ attestations' = [attestations EXCEPT ![id] = rec]
        /\ UNCHANGED <<subjectIdx, issuerIdx>>
    BY <1>2, <2>3 DEF revoke_attestation, set_attestation
  <2>5. "subject" \in Fields /\ "issuer" \in Fields
    BY DEF Fields
  <2>6. QED
    BY <2>1, <2>2, <2>4, <2>5, RevokeKeepsIndex DEF TypeOK, IndexConsistent
<1>3. CASE UNCHANGED <<attestations, subjectIdx, issuerIdx>>
  BY <1>3 DEF IndexConsistent
<1>4. QED
  BY <1>1, <1>2, <1>3 DEF Next, vars, initialize, register_issuer,
                          remove_issuer, Tick

(* The subject and issuer indexes always agree with the attestation       *)
(* store: listed ids are stored under the key's subject (issuer), every   *)
(* stored attestation is listed under both, and no list holds an id twice.*)
THEOREM IndexesConsistent == Spec => []IndexConsistent
<1>1. IInv /\ [Next]_vars => IInv'
  BY NextTypeOK, NextStoreKeyed, NextIndexConsistent DEF IInv, TypeInv
<1>2. QED
  BY InitIInv, <1>1, PTL DEF Spec, IInv

-----------------------------------------------------------------------------
(* Attestation history.                                                    *)

(* The status of one record, read at a later time, is no earlier in the   *)
(* order Valid, Expired, Revoked.                                          *)
LEMMA StatusMonotoneInTime ==
  ASSUME NEW r \in Attestation, NEW t1 \in Nat, NEW t2 \in Nat, t1 <= t2
  PROVE  StatusRank[get_status(r, t1)] <= StatusRank[get_status(r, t2)]
BY DEF get_status, StatusRank, AttestationStatus, Attestation, Time,
       Expiration

(* The body of AttestationHistory, a step predicate. *)
HistoryStep ==
    \A id \in AttId :
        has_attestation(id) =>
           /\ attestations'[id] # NotStored
           /\ [attestations'[id] EXCEPT !.revoked = FALSE]
                 = [attestations[id] EXCEPT !.revoked = FALSE]
           /\ StatusRank[get_status(attestations[id], now)]
                 <= StatusRank[get_status(attestations'[id], now')]

LEMMA HistoryStepHolds == TypeInv /\ [Next]_vars => HistoryStep
<1> SUFFICES ASSUME TypeOK, StoreKeyed, [Next]_vars,
                    NEW x \in AttId, has_attestation(x)
             PROVE  /\ attestations'[x] # NotStored
                    /\ [attestations'[x] EXCEPT !.revoked = FALSE]
                          = [attestations[x] EXCEPT !.revoked = FALSE]
                    /\ StatusRank[get_status(attestations[x], now)]
                          <= StatusRank[get_status(attestations'[x], now')]
  BY DEF TypeInv, HistoryStep
<1>0. attestations[x] \in Attestation /\ attestations[x] # NotStored /\ now \in Nat
  BY DEF has_attestation, TypeOK, Time
<1>1. ASSUME NEW i \in Address, NEW s \in Address, NEW c \in ClaimType,
             NEW e \in Expiration, create_attestation(i, s, c, e)
      PROVE attestations'[x] = attestations[x] /\ now' = now
  <2> DEFINE id == generate_id(i, s, c, now)
  <2>1. id \in AttId /\ attestations[id] = NotStored
    BY <1>1 DEF generate_id, AttId, TypeOK, create_attestation, has_attestation
  <2>2. x # id
    BY <2>1, <1>0
  <2>3. QED
    BY <1>1, <2>1, <2>2 DEF create_attestation, set_attestation, TypeOK
<1>2. ASSUME NEW i \in Address, NEW id \in AttId, revoke_attestation(i, id)
      PROVE  \/ attestations'[x] = attestations[x] /\ now' = now
             \/ attestations'[x] = [attestations[x] EXCEPT !.revoked = TRUE]
                /\ now' = now
  <2> DEFINE rec == [attestations[id] EXCEPT !.revoked = TRUE]
  <2>1. attestations[id] \in Attestation /\ rec.id = id
    BY <1>2 DEF revoke_attestation, has_attestation, TypeOK, StoreKeyed
  <2>2. attestations' = [attestations EXCEPT ![id] = rec] /\ now' = now
    BY <1>2, <2>1 DEF revoke_attestation, set_attestation
  <2>3. QED
    BY <2>2 DEF TypeOK
<1>3. CASE attestations'[x] = attestations[x] /\ now \in Nat /\ now' \in Nat
           /\ now <= now'
  BY <1>0, <1>3, StatusMonotoneInTime
<1>4. CASE attestations'[x] = [attestations[x] EXCEPT !.revoked = TRUE]
  <2>1. attestations'[x] # NotStored /\ attestations'[x] \in Attestation
    BY <1>0, <1>4, StoreAssumption DEF Attestation
  <2>2. get_status(attestations'[x], now') = "Revoked"
    BY <1>4, <1>0 DEF get_status, Attestation
  <2>3. get_status(attestations[x], now) \in AttestationStatus
    BY DEF get_status, AttestationStatus
  <2>4. [attestations'[x] EXCEPT !.revoked = FALSE]
          = [attestations[x] EXCEPT !.revoked = FALSE]
    BY <1>0, <1>4 DEF Attestation
  <2>5. StatusRank[get_status(attestations[x], now)] <= StatusRank["Revoked"]
    BY <2>3 DEF StatusRank, AttestationStatus
  <2>6. QED
    BY <2>1, <2>2, <2>4, <2>5
<1>6. QED
  <2>1. CASE Tick
    BY <2>1, <1>3 DEF Tick, TypeOK, Time
  <2>2. CASE UNCHANGED vars
    BY <2>2, <1>3, <1>0 DEF vars
  <2>3. CASE \E a \in Address : initialize(a)
    BY <2>3, <1>3, <1>0 DEF initialize
  <2>4. CASE \E a, i \in Address : register_issuer(a, i) \/ remove_issuer(a, i)
    BY <2>4, <1>3, <1>0 DEF register_issuer, remove_issuer
  <2>5. CASE \E i, s \in Address, c \in ClaimType, e \in Expiration :
                create_attestation(i, s, c, e)
    BY <2>5, <1>1, <1>3, <1>0
  <2>6. CASE \E i \in Address, id \in AttId : revoke_attestation(i, id)
    BY <2>6, <1>2, <1>3, <1>4, <1>0
  <2>7. QED
    BY <2>1, <2>2, <2>3, <2>4, <2>5, <2>6 DEF Next

(* A stored attestation is never deleted, its fields other than revoked   *)
(* never change, and its observable status only moves forward from Valid  *)
(* to Expired to Revoked: no later call makes a revoked attestation valid. *)
THEOREM HistoryForward == Spec => AttestationHistory
<1>1. TypeInv /\ [Next]_vars => [HistoryStep]_vars
  BY HistoryStepHolds
<1>2. QED
  BY <1>1, TypeInvariant, PTL DEF Spec, AttestationHistory, HistoryStep

-----------------------------------------------------------------------------
(* Event log consistency.                                                  *)

(* What EventLogConsistent asks of one event, against a given store. *)
EventMatches(st, e) ==
    /\ st[e.id] # NotStored
    /\ e.kind = "created" =>
          /\ st[e.id].subject = e.topic
          /\ st[e.id].issuer = e.issuer
          /\ st[e.id].timestamp = e.timestamp
    /\ e.kind = "revoked" =>
          /\ st[e.id].revoked
          /\ st[e.id].issuer = e.topic

(* At most one revoked event per attestation in a log. *)
RevokedOnce(log) ==
    \A k, j \in 1 .. Len(log) :
        log[k].kind = "revoked" /\ log[j].kind = "revoked" /\ log[j].id = log[k].id
            => j = k

LEMMA EventLogSplit ==
    EventLogConsistent <=>
        /\ \A k \in 1 .. Len(events) : EventMatches(attestations, events[k])
        /\ RevokedOnce(events)
BY DEF EventLogConsistent, EventMatches, RevokedOnce, has_attestation

(* A step keeps every stored record stored, with the fields an event       *)
(* quotes unchanged and a revoked record still revoked.                    *)
RecordKept(id) ==
    /\ attestations'[id] # NotStored
    /\ attestations'[id].subject = attestations[id].subject
    /\ attestations'[id].issuer = attestations[id].issuer
    /\ attestations'[id].timestamp = attestations[id].timestamp
    /\ attestations'[id].claim_type = attestations[id].claim_type
    /\ attestations[id].revoked => attestations'[id].revoked

LEMMA RecordsKept ==
  ASSUME TypeOK, StoreKeyed, [Next]_vars, NEW x \in AttId, has_attestation(x)
  PROVE  RecordKept(x)
<1>0. attestations[x] \in Attestation /\ attestations[x] # NotStored
  BY DEF has_attestation, TypeOK
<1>1. CASE attestations'[x] = attestations[x]
  BY <1>0, <1>1 DEF RecordKept
<1>2. CASE attestations'[x] = [attestations[x] EXCEPT !.revoked = TRUE]
  BY <1>0, <1>2, StoreAssumption DEF RecordKept, Attestation
<1>3. ASSUME NEW i \in Address, NEW s \in Address, NEW c \in ClaimType,
             NEW e \in Expiration, create_attestation(i, s, c, e)
      PROVE  attestations'[x] = attestations[x]
  <2> DEFINE id == generate_id(i, s, c, now)
  <2>1. id \in AttId /\ attestations[id] = NotStored
    BY <1>3 DEF generate_id, AttId, TypeOK, create_attestation, has_attestation
  <2>2. QED
    BY <1>0, <1>3, <2>1 DEF create_attestation, set_attestation, TypeOK
<1>4. ASSUME NEW i \in Address, NEW id \in AttId, revoke_attestation(i, id)
      PROVE  \/ attestations'[x] = attestations[x]
             \/ attestations'[x] = [attestations[x] EXCEPT !.revoked = TRUE]
  <2> DEFINE rec == [attestations[id] EXCEPT !.revoked = TRUE]
  <2>1. rec.id = id
    BY <1>4 DEF revoke_attestation, has_attestation, TypeOK, StoreKeyed,
                Attestation
  <2>2. attestations' = [attestations EXCEPT ![id] = rec]
    BY <1>4, <2>1 DEF revoke_attestation, set_attestation
  <2>3. QED
    BY <2>2 DEF TypeOK
<1>5. QED
  BY <1>1, <1>2, <1>3, <1>4 DEF Next, vars, initialize, register_issuer,
                                remove_issuer, Tick

(* An old event still matches the store after a step. *)
LEMMA OldEventMatches ==
  ASSUME TypeOK, StoreKeyed, [Next]_vars, NEW e \in Event,
         EventMatches(attestations, e)
  PROVE  EventMatches(attestations', e)
<1>1. has_attestation(e.id) /\ e.id \in AttId
  BY DEF EventMatches, has_attestation, Event
<1>2. RecordKept(e.id)
  BY <1>1, RecordsKept
<1>3. QED
  BY <1>2 DEF EventMatches, RecordKept

LEMMA NextEventLog ==
    TypeInv /\ EventLogConsistent /\ [Next]_vars => EventLogConsistent'
<1> SUFFICES ASSUME TypeOK, StoreKeyed, [Next]_vars,
                    \A k \in 1 .. Len(events) : EventMatches(attestations, events[k]),
                    RevokedOnce(events)
             PROVE  /\ \A k \in 1 .. Len(events') :
                          EventMatches(attestations', events'[k])
                    /\ RevokedOnce(events')
  BY EventLogSplit DEF TypeInv, EventLogConsistent, EventMatches, RevokedOnce,
                      has_attestation
<1>0. \A k \in 1 .. Len(events) : EventMatches(attestations', events[k])
  BY OldEventMatches DEF TypeOK
<1>1. CASE events' = events
  BY <1>0, <1>1
<1>2. ASSUME NEW i \in Address, NEW s \in Address, NEW c \in ClaimType,
             NEW e \in Expiration, create_attestation(i, s, c, e)
      PROVE  /\ \A k \in 1 .. Len(events') :
                   EventMatches(attestations', events'[k])
             /\ RevokedOnce(events')
  <2> DEFINE id == generate_id(i, s, c, now)
             a  == [id |-> id, issuer |-> i, subject |-> s, claim_type |-> c,
                    timestamp |-> now, expiration |-> e, revoked |-> FALSE]
             ev == [kind |-> "created", topic |-> s, id |-> id, issuer |-> i,
                    claim_type |-> c, timestamp |-> now]
  <2>1. id \in AttId /\ a \in Attestation /\ ev \in Event
    BY DEF generate_id, AttId, TypeOK, Attestation, Event
  <2>2. events' = Append(events, ev) /\ attestations' = [attestations EXCEPT ![id] = a]
    BY <1>2 DEF create_attestation, attestation_created, set_attestation
  <2>3. /\ Len(events') = Len(events) + 1
        /\ \A k \in 1 .. Len(events) : events'[k] = events[k]
        /\ events'[Len(events) + 1] = ev
    BY <2>1, <2>2, AppendProperties DEF TypeOK
  <2>4. EventMatches(attestations', ev)
    BY <2>1, <2>2, StoreAssumption DEF EventMatches, TypeOK
  <2>5. \A k \in 1 .. Len(events') : EventMatches(attestations', events'[k])
    BY <1>0, <2>3, <2>4
  <2>6. RevokedOnce(events')
    BY <2>3 DEF RevokedOnce
  <2>7. QED
    BY <2>5, <2>6
<1>3. ASSUME NEW i \in Address, NEW id \in AttId, revoke_attestation(i, id)
      PROVE  /\ \A k \in 1 .. Len(events') :
                   EventMatches(attestations', events'[k])
             /\ RevokedOnce(events')
  <2> DEFINE rec == [attestations[id] EXCEPT !.revoked = TRUE]
             ev  == [kind |-> "revoked", topic |-> i, id |-> id]
  <2>1. attestations[id] \in Attestation /\ rec.id = id /\ ev \in Event
    BY <1>3 DEF revoke_attestation, has_attestation, TypeOK, StoreKeyed,
                Attestation, Event
  <2>2. /\ events' = Append(events, ev)
        /\ attestations' = [attestations EXCEPT ![id] = rec]
        /\ attestations[id].issuer = i /\ ~attestations[id].revoked
    BY <1>3, <2>1 DEF revoke_attestation, attestation_revoked, set_attestation
  <2>3. /\ Len(events') = Len(events) + 1
        /\ \A k \in 1 .. Len(events) : events'[k] = events[k]
        /\ events'[Len(events) + 1] = ev
    BY <2>1, <2>2, AppendProperties DEF TypeOK
  <2>4. EventMatches(attestations', ev)
    BY <2>1, <2>2, StoreAssumption DEF EventMatches, TypeOK, Attestation
  <2>5. \A k \in 1 .. Len(events) : ~(events[k].kind = "revoked" /\ events[k].id = id)
    BY <2>2 DEF EventMatches
  <2>6. \A k \in 1 .. Len(events') : EventMatches(attestations', events'[k])
    BY <1>0, <2>3, <2>4
  <2>7. RevokedOnce(events')
    BY <2>3, <2>5 DEF RevokedOnce
  <2>8. QED
    BY <2>6, <2>7
<1>4. QED
  BY <1>1, <1>2, <1>3 DEF Next, vars, initialize, register_issuer,
                          remove_issuer, Tick

(* The event log always agrees with the store: a created event names a   *)
(* stored record with the quoted subject, issuer and time, a revoked event *)
(* names a revoked record whose original issuer revoked it, and no        *)
(* attestation has two revoked events.                                     *)
THEOREM EventLogCorrect == Spec => []EventLogConsistent
<1>1. Init => EventLogConsistent
  BY DEF Init, EventLogConsistent
<1>2. TypeInv /\ EventLogConsistent /\ [Next]_vars
        => (TypeInv /\ EventLogConsistent)'
  BY NextTypeOK, NextStoreKeyed, NextEventLog DEF TypeInv
<1>3. QED
  BY InitTypeInv, <1>1, <1>2, PTL DEF Spec

================================================================================
