------------------------------ MODULE Pagination ------------------------------
(***************************************************************************)
(* get_subject_attestations and get_issuer_attestations (src/src/lib.rs):  *)
(* a page [start, min(start + limit, total)) of an append-only index list, *)
(* with start and limit unsigned integers modulo Modulus (u32: 2^32).     *)
(* start + limit is computed in that width: a build with overflow checks  *)
(* traps (the call fails), a build without them wraps.  The index grows by *)
(* add_subject_attestation / add_issuer_attestation (src/src/storage.rs).  *)
(***************************************************************************)
EXTENDS Naturals, Sequences

CONSTANTS
    Modulus,     \* the number of u32 values, 2^32, scaled down
    IdVal,       \* attestation ids that may be listed
    MaxLen,      \* bound on the index length
    Trap         \* the outcome of a call that panics

ASSUME PaginationAssumption ==
    /\ Modulus \in Nat \ {0}
    /\ MaxLen \in Nat
    /\ Trap \notin Seq(IdVal)

VARIABLES
    index,       \* the stored list under one index key
    request,     \* the [start, limit] of the last read
    page         \* what the last read returned (Trap if it panicked)

vars == <<index, request, page>>

U32 == 0 .. (Modulus - 1)

(* start + limit in u32 arithmetic: the values the build                  *)
(* can produce (Trap when an overflow check fires).                        *)
checked_or_wrapping_add(a, b) ==
    IF a + b < Modulus THEN {a + b} ELSE {Trap, (a + b) % Modulus}

(* Mutant: the loop runs over start..=end. *)
collect_inclusive(all_ids, start, end) ==
    LET last == IF end < Len(all_ids) THEN end + 1 ELSE end
    IN  [k \in 1 .. (IF start < last THEN last - start ELSE 0) |-> all_ids[start + k]]

(* for i in start..end { if let Some(id) = all_ids.get(i) { push } } *)
collect(all_ids, start, end) ==
    [k \in 1 .. (IF start < end THEN end - start ELSE 0) |-> all_ids[start + k]]

Min2(a, b) == IF a < b THEN a ELSE b

(* The outcomes of one paginated read of all_ids. *)
get_page(all_ids, start, limit) ==
    LET total == Len(all_ids)
    IN  {IF sum = Trap THEN Trap ELSE collect(all_ids, start, Min2(sum, total)) :
            sum \in checked_or_wrapping_add(start, limit)}

add_attestation(id) ==
    /\ Len(index) < MaxLen
    /\ index' = Append(index, id)
    /\ UNCHANGED <<request, page>>

(* One paginated read, by get_subject_attestations or get_issuer_attestations. *)
get_attestations(start, limit) ==
    /\ request' = [start |-> start, limit |-> limit]
    /\ page' \in get_page(index, start, limit)
    /\ UNCHANGED index

Init ==
    /\ index = <<>>
    /\ request = [start |-> 0, limit |-> 0]
    /\ page = <<>>

Next ==
    \/ \E id \in IdVal : add_attestation(id)
    \/ \E start, limit \in U32 : get_attestations(start, limit)

Spec == Init /\ [][Next]_vars

-----------------------------------------------------------------------------

TypeOK ==
    /\ index \in Seq(IdVal)
    /\ Len(index) <= MaxLen
    /\ request \in [start : U32, limit : U32]
    /\ page \in Seq(IdVal) \cup {Trap}

(* Spec section 4.3: the page is the entries [start, min(start+limit,     *)
(* total)), empty when start is past the end, with start + limit          *)
(* saturating instead of overflowing.                                      *)
Window(all_ids, start, limit) ==
    SubSeq(all_ids, start + 1, Min2(start + limit, Len(all_ids)))

(* Whatever the build, a page that a read returns lists index entries    *)
(* from position start on, in index order, at most limit of them, and it  *)
(* is the exact window whenever start + limit does not overflow.          *)
PageSound ==
    [][get_attestations(request'.start, request'.limit) =>
          LET start == request'.start
              limit == request'.limit
          IN  page' # Trap =>
                 /\ Len(page') <= limit
                 /\ \A k \in 1 .. Len(page') :
                       start + k <= Len(index) /\ page'[k] = index[start + k]
                 /\ start + limit < Modulus => page' = Window(index, start, limit)]_vars

(* Spec section 4.3 taken literally: every read returns the window, and   *)
(* an overflowing start + limit saturates rather than failing.            *)
PageSaturates ==
    [][get_attestations(request'.start, request'.limit) =>
          page' = Window(index, request'.start, request'.limit)]_vars
=============================================================================
