# TrustLink: TLA+ verification project

TLA+ models of the TrustLink attestation registry, a Soroban smart contract in
`src/src/`. TLC checks the models on small instances. TLAPS proves the main
safety properties for every value of the constants.

## 1. Inventory

### The system's parts

The contract is a single Soroban contract (`lib.rs`, `TrustLinkContract`). It
writes through a storage helper (`storage.rs`), checks roles in
`validation.rs` and publishes events from `events.rs`. The attestation record
type, its id derivation (`generate_id`) and its status function (`get_status`)
live in `types.rs`. That file is not in the source tree, so those three are
modelled from the spec (marked `spec_modelled` in PROJECT.json).

| Component | Source | State it keeps | Operations |
|---|---|---|---|
| Identity & Role Store | storage.rs 21–53, validation.rs | `Admin` (instance storage), `Issuer(a)` keys (persistent) | `initialize`, `register_issuer`, `remove_issuer`, `is_issuer`, `get_admin` |
| Attestation Store | storage.rs 55–71, types.rs (absent) | `Attestation(id)` → record `{id, issuer, subject, claim_type, timestamp, expiration, revoked}` | `create_attestation` (store part), `revoke_attestation`, `get_attestation` |
| Subject/Issuer Index | storage.rs 73–106, lib.rs 165–207 | `SubjectAttestations(s)`, `IssuerAttestations(i)`: one `Vec<String>` each | append on create; paginated reads |
| Lifecycle & Authorization Engine | lib.rs | none of its own; reads the ledger timestamp | guards of every entry point; `has_valid_claim`, `get_attestation_status` |
| Events | events.rs | published event stream | `created(subject; id, issuer, claim, ts)`, `revoked(issuer; id)` |
| Storage lifetime | storage.rs `extend_ttl` calls (27, 46, 63, 88, 105) | live-until ledger of the instance and of every persistent entry | set on creation, extended on each write by the code; archival and restore by the host |

How the parts interact:

- Each public entry point is one host transaction. The host runs it to
  completion and commits all of its writes, or it rolls all of them back when
  the call returns an `Err` or panics.
- There is no concurrency inside a call. Different callers interleave only at
  call granularity.
- Several calls in one ledger see the same `env.ledger().timestamp()`. This is
  why the same-tick duplicate guard matters.
- `create_attestation` writes the record first. It then rewrites both index
  `Vec`s and finally publishes an event.
- `revoke_attestation` loads the record, checks it and writes it back.
- `has_valid_claim` reads the subject's index. It then reads each listed
  record.

### What is hard here

The hard behaviours are sequences of calls by different actors:

- **Same-tick re-creation.** An issuer creates an attestation, revokes it and
  creates it again in the same ledger. Only the id collision stops the second
  create from overwriting the revoked record.
- **Removal and revocation.** The admin removes an issuer between that issuer's
  create and revoke.
- **The validity query.** It scans a list that can hold revoked, expired and
  valid records of the same type, in any order.
- **Overflow in pagination.** The pagination arithmetic runs in `u32`.
- **Storage lifetime.** Entries written at different times expire at different
  times. A call that touches an archived entry fails as a whole. The admin
  (instance) entry is extended only at `initialize`, an `Issuer` key only at
  registration.

PROJECT.json `hazards` lists each hazard at its line.

### Properties that make each part correct

- **Role store.** Admin-gated calls succeed only for the stored admin.
  Creation requires current issuer membership. Revocation requires
  authorship, and membership plays no part in it (`AuthorCanRevoke`,
  `EventLogConsistent`; the abstract registry has no callers, so
  `RegistrySpec` does not see who revokes).
- **Attestation store.**
  - Records are never deleted.
  - All fields except `revoked` are immutable.
  - `revoked` goes from false to true once.
  - Status only moves forward: Valid → Expired → Revoked.
  - One record exists per (issuer, subject, claim, tick).
- **Indexes.** Every listed id is stored, under the right subject or issuer.
  Every stored id is listed under both, exactly once. Pages are contiguous,
  ordered windows of the list.
- **Engine.** `has_valid_claim(s, c)` holds iff some record of type `c` about
  `s` is unrevoked and unexpired now.
- **Events.** The events agree with the store. A revoked event names the
  record's author, at most once per attestation.

## 2. Modules

| Module | Models | Role |
|---|---|---|
| `TrustLink.tla` | lib.rs, storage.rs, validation.rs, events.rs | The contract. Variables: `admin`, `issuers`, `attestations` (a function from every possible id to a record or `NotStored`), `subjectIdx`, `issuerIdx`, `events`, `now`. One action per state-changing entry point; `Tick` advances the ledger timestamp. |
| `AttestationRegistry.tla` | the spec's promise | Abstract registry: a set of id-less records, an admin, an issuer set and a clock. |
| `TrustLinkRefinement.tla` | — | Refinement mapping: the registry is the stored records stripped of their ids, and the clock is `now`. States `RegistrySpec` and `QueryMatchesRegistry`. |
| `Pagination.tla` | lib.rs 165–207, storage.rs 83–89 | The paginated listing over one index list, with `start`, `limit` modulo `Modulus` (2^32 for `u32`). |
| `TrustLinkTTL.tla` | storage.rs `extend_ttl` calls, lib.rs footprints | `TrustLink` over expiring storage. Adds `liveUntil`, a live-until ledger per `StorageKey`. Each entry point also needs its footprint live and sets the TTLs of the entries it writes; `restore(k)` (any account) and `TTLTick` are the host. |
| `MCTrustLink.tla` | — | TLC instances: 3 addresses and 1 claim type, or 2 of each; symmetry over both sets. |
| `MCTrustLinkTTL.tla` | — | TLC instance of `TrustLinkTTL`: 2 addresses, 1 claim type. |
| `MCPagination.tla` | — | TLC instance: 3-bit arguments, an index of up to 4 ids drawn from 5. |
| `TrustLinkProofs.tla` | — | TLAPS proofs about `TrustLink`. |
| `TrustLinkRefinementProofs.tla` | — | TLAPS proofs of the refinement and of `QueryMatchesRegistry`. |
| `TrustLinkTTLProofs.tla` | — | TLAPS proofs about `TrustLinkTTL`. |
| `PaginationProofs.tla` | — | TLAPS proofs about `Pagination`. |

### How the code maps to `TrustLink`

- **Error paths are guards.** A failed call is rolled back by the host, so it
  is a stuttering step. Each `return Err(..)` and each `?` is a conjunct of
  its action, in the code's order:
  - `create_attestation`: `require_issuer`, then `~has_attestation(id)`.
  - `revoke_attestation`: `has_attestation` (NotFound), then the author check
    (Unauthorized), then `~revoked` (AlreadyRevoked).
- **Trailing writes are part of the action.** The index appends and the event
  of `create_attestation` happen in the same step as the store write, because
  the host makes the call atomic.
- **Authentication.** `require_auth` is abstracted: a call runs as the address
  it passes. An unauthenticated call is rolled back.
- **Ids.** `generate_id` is the tuple (issuer, subject, claim, timestamp). It
  is injective and deterministic, as the spec requires.
- **Events.** Only their data matters, not their XDR encoding.
- **Storage lifetime is separate.** In `TrustLink` every written entry stays
  readable. `TrustLinkTTL` adds the TTLs without changing any action of
  `TrustLink`: each of its actions is the contract action conjoined with a
  footprint guard and the TTL writes.

### How the code maps to `TrustLinkTTL`

- One ledger is one tick of `now`. `Lifetime` is `INSTANCE_LIFETIME` and
  `MinTTL` the network's minimum TTL of a new persistent entry, both in ticks.
- `Archived(k)`: the entry exists and its live-until ledger is behind `now`.
  A call whose footprint holds an archived entry is rolled back: `Live(..)` is
  a guard.
- `set` on a missing key gives it `now + MinTTL - 1` (`new_ttl`); on a present
  key it keeps the TTL. `extend_ttl(L, L)` raises a TTL below `now + L` to
  `now + L` (`extend_ttl`).
- The footprints follow the code's reads and writes:
  - `initialize` touches the instance only and extends it (storage.rs 27);
  - `register_issuer` writes and extends `Issuer(i)` (storage.rs 46);
    `remove_issuer` removes it without any extension;
  - `create_attestation` writes the record and both indexes, extending each
    (storage.rs 63, 88, 105);
  - `revoke_attestation` rewrites and extends the record;
  - `has_valid_claim` reads the instance, the subject index and the records
    in index order up to the first Valid one (`query_footprint`).
- `restore(k)` is `RestoreFootprint`: any account may restore an archived
  entry, for the minimum TTL.

## 3. Runs

| Run | Config | Properties | Shows |
|---|---|---|---|
| `trustlink_state` | `MCTrustLink.cfg` | `TypeOK`, `IndexConsistent`, `EventLogConsistent`, `AuthorCanRevoke` | Indexes and event log agree with the store through every interleaving; the author of an unrevoked record can always revoke it, even after removal from the issuers. |
| `trustlink_history` | `MCTrustLinkHistory.cfg` | `AttestationHistory` | No call deletes or alters a stored record or moves its status backwards. |
| `trustlink_refinement` | `MCTrustLinkRefinement.cfg` | `RegistrySpec`, `QueryMatchesRegistry` | The contract implements the abstract registry. `has_valid_claim` answers the abstract question. |
| `claim_types` | `MCTrustLinkClaims.cfg` | `QueryMatchesRegistry` | With two claim types, `has_valid_claim` answers for the requested type only. |
| `trustlink_ttl` | `MCTrustLinkTTL.cfg` | `TTLCoversCreation` | A record and the two index entries listing it stay live for `Lifetime` ledgers after its creation, under any later appends and restores. |
| `ttl_query_blocked` (violation) | `MCTrustLinkTTLQuery.cfg` | `QueryNotBlockedBySkippedRecord` | An archived older record fails `has_valid_claim` though a later record is Valid. |
| `ttl_admin_slot` (violation) | `MCTrustLinkTTLAdmin.cfg` | `AdminSlotKeptByUse` | A successful call after `initialize` leaves the admin slot with less than `Lifetime` ledgers to live. |
| `pagination` | `MCPagination.cfg` | `PageSound` | A returned page is an ordered window of the index. It is exact when `start + limit` fits. |
| `pagination_overflow` (violation) | `MCPaginationOverflow.cfg` | `PageSaturates` | The spec's saturating window fails when `start + limit` overflows. |

### Bounds, and why they are enough

The TrustLink runs use 3 addresses, 1 claim type, timestamps 0..1
(`MaxTime = 1`) and at most 3 successful mutations (`MaxEvents = 3`). All
expirations in `{None, 0, 1}` are tried, which gives:

- an attestation that is expired at birth;
- one that expires at the tick;
- one that never expires.

Three addresses let the admin, an issuer and a third party (subject or second
issuer) be distinct. Three mutations cover the interesting sequences:

- create, revoke, re-create in the same tick;
- create by an issuer who is then removed, then a revoke by that issuer;
- revoked-then-valid records of one type for one subject.

Claim types are symmetric in every guard, so a second type adds states but no
new control path, except the type filter of `has_valid_claim`. The
`claim_types` run checks that filter with 2 addresses (issuer and subject may
still coincide or differ) and 2 claim types: 119,818 distinct states, 12 s.
The main instance has 346,802 distinct states and runs in about one minute.

The TTL runs use 2 addresses, 1 claim type, ledgers 0..2 (`MaxTime = 2`), at
most 2 successful mutations and `Lifetime = MinTTL = 1`. Three ledgers are
the least in which an entry written at ledger 0 can be archived while one
written at ledger 1 is live, which is what both findings need. Restores are
not counted as mutations, so every archive/restore interleaving is explored.
The pass run has 598,884 distinct states and takes about 80 s; with
`MaxEvents = 3` the state space passes 15 million.

`Pagination` scales `u32` down to 3 bits (`Modulus = 8`; the code's is
2^32). The overflow behaves the same at any width, and `PagesSound` proves
`PageSound` for every modulus. An index of up to 4 entries covers every case:

- a window inside the list;
- a window reaching past the end;
- a start past the end;
- a zero limit;
- an overflow where `start < total`.

### Fairness

No run checks liveness. Every step of the contract is a call that some
external party may or may not make, and the code schedules nothing itself.
No fairness assumption is justified, so no `WF`/`SF` is assumed.

### Findings

`pagination_overflow` finds a divergence from spec §4.3. The call
`get_subject_attestations(s, 1, u32::MAX)` should return every entry after
the first. What it does depends on the build:

- **With overflow checks:** it panics. TLC shows this on the index `<<x1>>`
  with `(start, limit) = (7, 1)` at width 3, where the spec asks for the
  empty page.
- **Without overflow checks:** `end` wraps below `start`, so the page is
  empty.

`get_issuer_attestations` (lib.rs:198) has the same bug.

`ttl_admin_slot` finds a divergence from spec §1 (c), which describes an
admin-only slot of unbounded lifetime. The Admin key lives in instance
storage, and only `set_admin` (storage.rs:27), called once by `initialize`,
extends the instance. Storage can only keep a slot alive by extending it
while the contract is used, so the property `AdminSlotKeptByUse` asks that
every successful call leave the instance live for `Lifetime` more ledgers.
A contract that extended the instance in each entry point would satisfy it.
TLC's trace: `initialize` at ledger 0 (instance live to ledger 1), then
`register_issuer` at ledger 1 leaves it live only to ledger 1. However busy
the contract is, the admin slot lapses `Lifetime` ledgers after
`initialize`, and from then on every call fails until some account restores
the instance.

`ttl_query_blocked` finds a divergence from spec §4 (hasValidClaim), which
says a record the query cannot read is skipped and must not fail the request.
TLC's trace: records r1 (ledger 0) and r2 (ledger 1) of one type about one
subject. At ledger 2, r1 is archived and r2 is live and Valid. The query reads
r1 first (lib.rs:133), and the read of an archived entry fails the whole call.

## 4. What is proved (TLAPS)

The theorems hold for all `Address`, `ClaimType`, `MaxTime` and `MaxEvents`,
and for all `Lifetime` and `MinTTL`. The assumptions are
`ConstantsAssumption`, `StoreAssumption` (`NotStored` is not a record) and
`TTLAssumption` (`Lifetime \in Nat`, `MinTTL \in Nat \ {0}`).

`TrustLinkProofs.tla`:

- **`TypeCorrect`**: `Spec => []TypeOK`.
  - `TypeOK` is not inductive on its own: `revoke_attestation` writes the
    loaded record back under `record.id`.
  - The strengthening is `StoreKeyed`: every stored record sits under its own
    id.
  - `TypeInv == TypeOK /\ StoreKeyed` is proved inductive, one step per
    action.
- **`IndexesConsistent`**: `Spec => []IndexConsistent`. The inductive
  invariant is `TypeInv /\ IndexConsistent`. Two lemmas carry the argument:
  - `CreateKeepsIndex`: appending an id that is not yet stored to the key its
    record files under keeps the index sound, complete and duplicate-free.
    This relies on soundness: a fresh id is listed nowhere.
  - `RevokeKeepsIndex`: rewriting a record with the same subject and issuer
    keeps the index sound and complete.

  Both lemmas are stated over values, so each is used for the subject index
  and for the issuer index.
- **`HistoryForward`**: `Spec => AttestationHistory`, an action property.
  - It follows from `TypeInv`.
  - It uses the lemma `StatusMonotoneInTime`: a record's status rank does not
    decrease as time advances.
  - A step either leaves the record alone, or revokes it; only revocation
    changes it.
- **`EventLogCorrect`**: `Spec => []EventLogConsistent`. `RecordsKept` says
  each step keeps every stored record's identity fields and never un-revokes
  it, so an old event still matches the store (`OldEventMatches`); the new
  event of a step matches the record it writes (`NextEventLog`).

`TrustLinkRefinementProofs.tla`:

- **`QueryCorrect`**: `Spec => []QueryMatchesRegistry`. It follows from
  `IndexConsistent` (`QueryFromIndex`): the subject index lists exactly the
  subject's records, and `get_status` is Valid exactly when the abstract
  record is valid (`StatusValid`).
- **`ImplementsRegistry`**: `Spec => RegistrySpec`. The mapping strips the
  ids, so a step could merge two records or lose one. The invariant
  `IdsDerived` rules that out: every stored id is `generate_id` of its
  record's fields. With it the mapping is injective on stored records
  (`AbsInjective`), a create adds a record whose key is new (`Issue`), and a
  revoke replaces exactly one abstract record (`Revoke`). `RInv == TypeInv /\
  IdsDerived` is proved inductive (`RInvariant`); `RegistryStep` maps each
  action to its registry action, and `Tick` to `AdvanceClock`.

`TrustLinkTTLProofs.tla`:

- The lemma `TTLRefinesContract` (`TTLSpec => Spec`) holds by the way
  `TrustLinkTTL` is built: each of its actions conjoins a `TrustLink` action,
  and `restore` changes only TTLs. It says nothing about the code on its own;
  it is the bridge that carries the `TrustLink` theorems over.
  **`TTLIndexesConsistent`** is `IndexesConsistent` carried over this way.
- **`TTLCoverage`**: `TTLSpec => []TTLCoversCreation`, with
  **`TTLTypeCorrect`** for `TTLTypeOK`. The inductive invariant is
  `TTLInv == TTLTypeOK /\ StoreKeyed /\ TimestampsPast /\ TTLCoversCreation`.
  `TimestampsPast` (no record is stamped after `now`) is the strengthening:
  a create stamps its record at `now` and extends its three keys to at least
  `now + Lifetime`. Every other step leaves a stored record's fields alone
  and never lowers the TTL of a key it covers (`KeepsCoverage`): a write
  either keeps the TTL or extends it, and a restore moves an archived key
  from below `now` to `now + MinTTL - 1 >= now`. A revoke keeps the
  timestamp, so the bound stays the same.

`TrustLinkTTLProofs.tla` also composes the refinements:
**`TTLImplementsRegistry`** (`TTLSpec => RegistrySpec`) and
**`TTLQueryCorrect`** (`TTLSpec => []QueryMatchesRegistry`) follow from
`TTLRefinesContract` with `ImplementsRegistry` and `QueryCorrect`.

`PaginationProofs.tla`, for every `Modulus` (`u32` has 2^32 values; the
constant replaces the earlier `2^Width`, because the provers cannot show
`2^Width > 0` without an induction they cannot instantiate) and every
`MaxLen`:

- **`PagesSound`**: `Spec => PageSound`. The argument is about one read:
  - `SumBounds`: a sum that does not trap is `start + limit` when it fits,
    and below `start` when it wrapped (`(a + b) % M = a + b - M`).
  - `CollectFacts`: the loop `collect(all, start, end)` is
    `SubSeq(all, start + 1, end)`, of length `end - start` (or 0).
  - `PageFacts`: so a returned page is at most `limit` long, lists the
    entries from `start` on, and is the window when the sum fits. A wrapped
    sum yields the empty page.

  The step lemma `PageStep` needs only that both states are typed, which
  **`TypeCorrect`** (`Spec => []TypeOK`) gives.

Only TLC checks the rest:

- the three violations (`PageSaturates` and the two TTL findings): they are
  counterexamples, not theorems;
- `AuthorCanRevoke`, which is stated with `ENABLED`, outside the prover's
  reach.

Liveness is out of the prover's reach, and here there is none to state.

## 5. Not modelled, and why

- **Host resource limits** (entry size, CPU budget) on the growing index
  `Vec`s (storage.rs:85). The limits are network settings, not code, and the
  model bounds index length only through `MaxEvents`.
- **Who calls `initialize` first** (lib.rs:24). Any address may initialize, as
  in the code. Neither the code nor the spec names an intended deployer, so
  there is nothing to state about the front-run.
- **`require_auth` signature checking.** Host primitive.
- **The lending client of `tests/integration_test.rs`.** It is test code.
  `QueryMatchesRegistry` characterises the only call it makes.
- **TTLs and the paginated reads.** The `get_*_attestations` calls read one
  index entry; `TTLCoversCreation` already bounds how long it stays live.

## 6. Plan for later sittings

1. **Bounded index capacity.** Add a capacity constant to the index.
   `create_attestation` fails at capacity; check what a full subject index
   blocks.
2. **Issuer lapse.** State, under `TrustLinkTTL`, how long a registered
   issuer stays able to create: its `Issuer` key is extended only at
   registration.
3. **Abstract key uniqueness.** `AttestationRegistry` promises one record
   per (issuer, subject, claim, tick); state it as an invariant of the
   abstract registry and carry it to the contract through
   `ImplementsRegistry`.
