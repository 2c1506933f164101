--------------------------- MODULE PaginationProofs ---------------------------
(***************************************************************************)
(* Proofs about the paginated listing of Pagination.tla, for every modulus *)
(* of the unsigned arithmetic (2^32 in the code) and every index length.   *)
(***************************************************************************)
EXTENDS Pagination, TLAPS

USE PaginationAssumption

-----------------------------------------------------------------------------
(* What one read returns.                                                  *)

(* The end the loop of get_subject_attestations runs to, for a sum that   *)
(* did not trap: start + limit when it fits, and below start when it      *)
(* wrapped, so that a wrapped sum yields nothing.                          *)
LEMMA SumBounds ==
  ASSUME NEW start \in U32, NEW limit \in U32,
         NEW sum \in checked_or_wrapping_add(start, limit), sum # Trap
  PROVE  /\ sum \in Nat
         /\ start + limit < Modulus => sum = start + limit
         /\ start + limit >= Modulus => sum < start
<1>1. CASE start + limit < Modulus
  BY <1>1 DEF checked_or_wrapping_add, U32
<1>2. CASE start + limit >= Modulus
  <2>1. sum = (start + limit) % Modulus
    BY <1>2 DEF checked_or_wrapping_add
  <2>2. (start + limit) % Modulus = start + limit - Modulus
    BY <1>2 DEF U32
  <2>3. QED
    BY <1>2, <2>1, <2>2 DEF U32
<1>3. QED
  BY <1>1, <1>2 DEF U32

(* collect(all_ids, start, end) lists the entries start + 1 .. end of     *)
(* all_ids, each at its offset from start.                                 *)
LEMMA CollectFacts ==
  ASSUME NEW all \in Seq(IdVal), NEW start \in Nat, NEW end \in Nat,
         end <= Len(all)
  PROVE  /\ collect(all, start, end) \in Seq(IdVal)
         /\ Len(collect(all, start, end)) = IF start < end THEN end - start ELSE 0
         /\ \A k \in 1 .. Len(collect(all, start, end)) :
               /\ start + k <= Len(all)
               /\ collect(all, start, end)[k] = all[start + k]
         /\ collect(all, start, end) = SubSeq(all, start + 1, end)
<1> DEFINE n == IF start < end THEN end - start ELSE 0
<1>1. n \in Nat /\ \A k \in 1 .. n : start + k \in 1 .. Len(all)
  OBVIOUS
<1>2. collect(all, start, end) \in [1 .. n -> IdVal]
  BY <1>1 DEF collect
<1>3. collect(all, start, end) \in Seq(IdVal)
  BY <1>1, <1>2
<1>4. Len(collect(all, start, end)) = n
  BY <1>1, <1>2 DEF collect
<1>5. collect(all, start, end) = SubSeq(all, start + 1, end)
  BY <1>1 DEF collect
<1>6. QED
  BY <1>1, <1>3, <1>4, <1>5 DEF collect

(* Whatever the build, a page a read returns is a list of index entries   *)
(* from start on, in order, at most limit long, and it is the window of    *)
(* the specification when start + limit fits in a u32.                     *)
LEMMA PageFacts ==
  ASSUME NEW all \in Seq(IdVal), NEW start \in U32, NEW limit \in U32,
         NEW p \in get_page(all, start, limit), p # Trap
  PROVE  /\ p \in Seq(IdVal)
         /\ Len(p) <= limit
         /\ \A k \in 1 .. Len(p) : start + k <= Len(all) /\ p[k] = all[start + k]
         /\ start + limit < Modulus => p = Window(all, start, limit)
<1>1. PICK sum \in checked_or_wrapping_add(start, limit) :
             p = IF sum = Trap THEN Trap
                 ELSE collect(all, start, Min2(sum, Len(all)))
  BY DEF get_page
<1>2. sum # Trap
  BY <1>1
<1>3. p = collect(all, start, Min2(sum, Len(all)))
  BY <1>1, <1>2
<1> DEFINE end == Min2(sum, Len(all))
<1>4. sum \in Nat /\ end \in Nat /\ end <= Len(all) /\ end <= sum
  BY <1>2, SumBounds DEF Min2
<1>5. start \in Nat /\ limit \in Nat
  BY DEF U32
<1>6. (IF start < end THEN end - start ELSE 0) <= limit
  BY <1>2, <1>4, <1>5, SumBounds
<1>7. start + limit < Modulus => end = Min2(start + limit, Len(all))
  BY <1>2, SumBounds
<1> DEFINE c == collect(all, start, end)
<1>8. /\ c \in Seq(IdVal)
      /\ Len(c) = IF start < end THEN end - start ELSE 0
      /\ \A k \in 1 .. Len(c) : start + k <= Len(all) /\ c[k] = all[start + k]
      /\ c = SubSeq(all, start + 1, end)
  BY <1>4, <1>5, CollectFacts
<1>9. start + limit < Modulus => p = Window(all, start, limit)
  BY <1>3, <1>7, <1>8 DEF Window
<1>10. QED
  BY <1>3, <1>6, <1>8, <1>9

-----------------------------------------------------------------------------
(* The behaviour.                                                          *)

LEMMA TypeInit == Init => TypeOK
BY DEF Init, TypeOK, U32

LEMMA TypeNext == TypeOK /\ [Next]_vars => TypeOK'
<1> SUFFICES ASSUME TypeOK, [Next]_vars PROVE TypeOK'
  OBVIOUS
<1>1. ASSUME NEW id \in IdVal, add_attestation(id) PROVE TypeOK'
  BY <1>1 DEF add_attestation, TypeOK
<1>2. ASSUME NEW start \in U32, NEW limit \in U32, get_attestations(start, limit)
      PROVE  TypeOK'
  <2>1. page' \in Seq(IdVal) \cup {Trap}
    BY <1>2, PageFacts DEF get_attestations, TypeOK
  <2>2. QED
    BY <1>2, <2>1 DEF get_attestations, TypeOK
<1>3. CASE UNCHANGED vars
  BY <1>3 DEF vars, TypeOK
<1>4. QED
  BY <1>1, <1>2, <1>3 DEF Next

(* The state of the listing keeps its type: the index is a list of at     *)
(* most MaxLen ids, the arguments are u32 values and a page is a list of   *)
(* ids or the trap of a failed call.                                        *)
THEOREM TypeCorrect == Spec => []TypeOK
BY TypeInit, TypeNext, PTL DEF Spec

(* One step, read between two typed states, satisfies PageSound. *)
LEMMA PageStep ==
  ASSUME TypeOK, TypeOK',
         get_attestations(request'.start, request'.limit)
  PROVE  LET start == request'.start
             limit == request'.limit
         IN  page' # Trap =>
                /\ Len(page') <= limit
                /\ \A k \in 1 .. Len(page') :
                      start + k <= Len(index) /\ page'[k] = index[start + k]
                /\ start + limit < Modulus => page' = Window(index, start, limit)
BY PageFacts DEF get_attestations, TypeOK

(* get_subject_attestations and get_issuer_attestations, under either     *)
(* build, return only index entries from start on, in index order, at most *)
(* limit of them, and exactly the window [start, min(start + limit,        *)
(* total)) whenever start + limit does not overflow.                       *)
THEOREM PagesSound == Spec => PageSound
<1>1. TypeOK /\ TypeOK' =>
        [get_attestations(request'.start, request'.limit) =>
            LET start == request'.start
                limit == request'.limit
            IN  page' # Trap =>
                   /\ Len(page') <= limit
                   /\ \A k \in 1 .. Len(page') :
                         start + k <= Len(index) /\ page'[k] = index[start + k]
                   /\ start + limit < Modulus => page' = Window(index, start, limit)]_vars
  BY PageStep
<1>2. QED
  BY <1>1, TypeCorrect, PTL DEF PageSound
=============================================================================
