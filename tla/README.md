# TLA+ models of ct-mapreduce

This directory holds TLA+ models of the certificate-ingestion core of
`jcjones/ct-mapreduce`, the TLC configurations that check them, and this
description. `PROJECT.json` lists every component, run, mutant, source mapping,
finding and hazard in machine-readable form.

The repository under `src/` is a collection of several historical revisions of
the same package (files are concatenations of versions). The models follow the
most recent revision of each function. Where two revisions differ in a way that
matters, a CONSTANT selects between them and the README says which lines each
value stands for.

## 1. Inventory

### Components

| Component | Source | State it keeps | Operations that change state |
|---|---|---|---|
| Remote cache (Redis adapter) | `src/unnamed/part_006` 143-254 (`RedisCache`) | sorted sets and keys in Redis, per-key TTL | `SortedInsert` (ZADD), `ExpireAt`, `Queue`/`Pop` |
| Remote cache (mock) | `src/unnamed/part_006` 1-142 (`MockRemoteCache`) | `Data: key -> sorted []string`, `Expirations` | `SetInsert`, `SetRemove`, `CleanupExpiry`, `ExpireAt` |
| Known-certificates set | not under `src/` (only an old test file `storage/knowncertificates_test.go`); spec §4.3 | Redis key `serials::<expDate>::<issuer>` | `WasUnknown` (one ZADD), `SetExpiryFlag` (EXPIREAT) |
| Issuer metadata (cache-backed) | `src/unnamed/part_005` (`IssuerMetadata`) | Redis sets `issuer::<id>`, `crl::<id>` | `Accumulate` = `Exists`, then `addCRL` per DP, then `addIssuerDN` |
| Issuer metadata (file-backed, legacy) | `src/storage/issuermetadata.go` | in-memory sorted CRL slice, JSON file | `Accumulate`, `addCRL`, `Load`, `Save` |
| Certificate database façade | `src/unnamed/part_002` 213-364 (latest), 1-212 and `part_003` 1-179 (earlier) | per-issuer metadata map (`metaMutex`), or a gcache ARC of per-shard `CacheEntry` | `Store`, `GetIssuerMetadata`, `SaveLogState`, `GetLogState` |
| Firestore storage backend | `src/storage/firestorebackend.go` | documents `ct/<expDate>`, `ct/<expDate>/issuer/<issuer>`, `.../certs/<serial>`, `logs/<id>` | `StoreCertificatePEM` (Create), `AllocateExpDateAndIssuer` (two Sets), `StoreLogState`, streaming reads |
| Mock storage backend | `src/storage/mockbackend.go` 1-131 | maps of issuers per date, serials per shard, blobs | same interface, in memory |
| Serial-stream pager | `src/storage/firestorebackend.go` 311-378 | offset, output channel | `processSerialDocumentQuery`, `StreamSerialsForExpirationDateAndIssuer` |
| Disk database (legacy) | `src/unnamed/part_001` | gcache of open PEM writers, known/meta files | `Store` with a two-try loop, `ReconstructIssuerMetadata` |
| reprocess-known-certs tool | `src/cmd/reprocess-known-certs/reprocess-known-certs.go` 1-198 | work channel, WaitGroup, quit/done channels | queue filling, `metadataWorker`, signal shutdown |
| Storage statistics tool | `src/unnamed/part_000` 1-126 | none (read-only listing) | — |
| Engine setup / telemetry | `src/unnamed/part_000` 127-229 | none | configuration only |
| Identifiers (`Serial`, `Issuer`, `SPKI`, `CertificateLog`) | `src/storage/types.go` 30-283 | immutable values; `Issuer.id` cached lazily | `Issuer.ID()` memoises |
| CT log follower (ct-fetch) | not under `src/`; spec §4.7 | checkpoint `MaxEntry`, windows, reorder buffer | resume, plan windows, fetch, ingest, checkpoint |

### How they interact

The CT log follower (spec only) hands each parsed certificate to
`CertDatabase.Store`, called concurrently by several ingest goroutines. `Store`
makes a sequence of separate remote calls, each its own network round trip:

1. `WasUnknown`: ZADD of the serial into the shard's Redis set. This is the
   deduplication point.
2. only if new: `IssuerMetadata.Accumulate`: `Exists(issuer key)` (the
   "seen before" flag), a ZADD for every http(s) CRL distribution point, a
   ZADD of the issuer DN;
3. only if not seen before: `AllocateExpDateAndIssuer` (two Firestore Sets),
   then `SetExpiryFlag` (EXPIREAT, error ignored);
4. `StoreCertificatePEM` (Firestore Create; AlreadyExists counts a collision);
5. `markDirty` (a no-op in the Firestore backend).

Any error returns from `Store` with the earlier calls already applied. Downstream
readers enumerate shards only through the allocation documents
(`ListExpirationDates`, `ListIssuersForExpirationDate`) and read the serials of
a shard through the offset pager.

### What is hard

* Interleaving: several goroutines run `Store` at once on the same shard. The
  `Exists` check and the ZADD of the issuer DN are separate calls. A second
  Store can see "seen before" and write its PEM before the first has allocated
  the shard.
* Partial failure and crashes: Redis and Firestore outlive the process. A
  `Store` that fails after step 1 leaves the serial marked known. A re-delivery
  of the entry then skips everything. A `Store` that fails after step 2 leaves
  the issuer key present, so no later `Store` allocates the shard or sets its
  TTL.
* Retry of a call whose effect already happened: the Redis client is built with
  `MaxRetries: 10` (`part_006:160-166`). If the reply to the deduplication ZADD
  is lost, the client retries it, the retry answers "not added", and `Store`
  returns success without storing anything.
* Paging over a changing collection: the serial stream pages with
  `Offset(offset)` and advances the offset by the number of serials delivered.
  A document it skips (bad ID) is not counted, and an insert during the stream
  shifts the window.
* Shutdown: `reprocess-known-certs` sends on an unbuffered `quitChan` that only
  workers still running receive.

### Properties that make each component correct

* Store pipeline: a PEM is stored only for a known serial (spec I1). No two
  Stores write the same PEM. Every stored PEM's issuer DN and http(s) CRLs are
  in the shard's metadata. Once nothing is in flight, every shard with a PEM is
  allocated and every non-empty serial set has a TTL (I4). A serial known
  without a PEM exists only because some Store errored after inserting it
  (the trade-off §4.5 accepts).
* Sorted-set helpers (`SetInsert`, `SetRemove`, `addCRL`): each keeps the slice
  sorted and duplicate-free and matches set insertion and removal.
* Metadata: http(s) CRL DPs are accumulated whatever their position among
  ldap/unknown DPs.
* Serial stream: for a collection that does not change, every serial is
  delivered exactly once. The stream closes while the client context is live.
  After its deadline the retry loop never ends; this is not checked.
* Log follower (spec): the checkpoint never passes an entry that has not been
  stored, and it advances monotonically.
* reprocess tool: a signal always leads to exit.

## 2. Plan

Modules, in the order they are built:

1. `CertDatabase.tla`: the Store pipeline over the remote cache and Firestore,
   with N concurrent ingest workers, per-call failures, a process crash, and
   lost-reply retries of the dedup ZADD. `MCCertDatabase.tla` and the runs
   `certdb_*`. **(built in sitting 1)**
2. `SortedSet.tla`: the binary-search insert and remove of
   `MockRemoteCache` and the legacy `addCRL` as operators over sequences,
   checked against set semantics over all small inputs. The `SetRemove` no-op
   is a violation run. **(the legacy `addCRL` part is built, inside
   `LegacyIssuerMetadata.tla`; the `MockRemoteCache` part is not, because
   `part_006` is not one of the counted sources and its sorted-set code is the
   same algorithm)**
3. `SerialStream.tla`: offset paging with deadline retries, skipped bad IDs and
   concurrent inserts. **(built in sitting 1. No liveness is claimed: after the
   client context's deadline, the retry loop spins forever)**
4. `DedupStore.tla`: an abstract atomic "store once" specification, with
   `CertDatabase` shown to refine it (`INSTANCE ... WITH`) in the failure-free
   configuration. **(not built. The refinement that is built is one level
   down: `StorageBackend.tla` is the abstract contract of the storage
   interface, and `MockBackend.tla` and `FirestoreBackend.tla` are checked
   to implement it. See "Backends" below)**
5. `LogFollower.tla` (spec-modelled, since ct-fetch is not under `src/`):
   windows, out-of-order completion, the reorder buffer and the checkpoint,
   composed with an abstract `Store`. **(not built. Its code is not under
   `src/`, so every definition would come from the spec. Its one behaviour
   that reaches the Store pipeline, the redelivery of an entry whose `Store`
   failed, is the `Abandon` step of `CertDatabase.tla`)**
6. `ReprocessShutdown.tla`: the work queue, workers, and signal handling of
   `reprocess-known-certs`. **(built in sitting 2)**
7. `ShardCache.tla`: the gcache ARC of `CacheEntry` (`part_002` 1-212) with
   eviction `Close` racing a `Store` that still holds the entry. **(built)**

## 3. Modules built so far

### CertDatabase (`CertDatabase.tla`, `MCCertDatabase.tla`)

State:

* Redis, the remote cache: `known[shard]` is the serials set. `issuerDNs[k]`
  and `crls[k]` are the metadata sets for metadata key `k`. `expiry` is the set
  of shards whose serials key has a TTL.
* Firestore: `expDateDocs` and `issuerDocs` are the allocation documents.
  `pem[<<shard, serial>>]` is the certificate stored in the PEM document, or
  `NoDoc`. `collisions` is the `StoreCertificatePEM/collision` metric.
* Workers: `pending` holds the entries the follower still has to deliver. For
  each worker, `pc` is the step its `Store` call has reached, `cur` is the entry
  it is storing, `crlIdx` is its position in the CRL loop, and `seen` is the
  `seenBefore` flag.
* Failure budgets: `failures`, `crashes` and `lostReplies`.
* History: `aborted` is the set of documents whose serial was inserted by a
  `Store` that later errored.

Each action is one remote call of `Store` (`part_002:303-355`), named after the
function it models. `Fail(w)` is an error returned by the current call. The
follower does not advance its checkpoint past a failed entry, so the entry
returns to `pending`. `Crash` aborts every in-flight Store at once. Redis and
Firestore keep their state across it.

`MetadataPerIssuer` selects how metadata is looked up. FALSE is the per-shard
`IssuerMetadata` of `part_003:25-31` / `part_005:28-30`
(`issuer::<expDate>::<issuer>`). TRUE is the latest `GetIssuerMetadata(issuer)`
(`part_002:247-264,329`), which keys the metadata object by issuer alone.

No single revision pairs the per-shard key with the latest `Store`.
`part_003`'s `Store` (138-155) has no `SetExpiryFlag` and no allocation, and
the latest `Store` looks metadata up by issuer. So FALSE is a hypothetical
revision: the latest `Store` with the key that spec §4.4 asks for. The
`certdb_safety` properties check the dedup ZADD, the PEM write, the metadata
of stored PEMs and the loss accounting. They do not depend on the key. No
property claims that the shard bookkeeping is correct under FALSE without
faults. Under the latest code (TRUE), `certdb_meta_per_issuer` breaks that
bookkeeping with no fault at all.

Runs: see the table in `PROJECT.json` ("runs"). The bounds are 2 workers and 4
entries. The entries are a certificate and its precertificate (same serial,
one with an ldap DP before an http DP), a second serial in the same shard, and
a certificate of the same issuer in another expiry date. These bounds are
enough for every interleaving of two Stores on one shard and for the
cross-shard case. At most one failure, one crash or one lost reply.

Fairness: none is needed, because the properties are safety properties.

### SerialStream (`SerialStream.tla`)

State: `docs` is the set of document IDs in the shard's `certs` collection,
ordered as Firestore orders them (by name). `offset` is the producer loop's
offset. `page`, `idx` and `count` are the running query's snapshot, the
iterator's position in it, and `processSerialDocumentQuery`'s count. `phase` is
`query` (about to issue a query), `iter` or `closed`. `out` is every serial sent
on the channel. `hardError` records a close on a non-deadline error.

Actions: `StartQuery` is `q.Documents` on `query.Offset(offset)`. Each query
reads one consistent snapshot, `Window(offset)`. `Send` and `SkipInvalid` are
one `iter.Next` that returns a document with a decodable ID, or with an
undecodable one (`continue` before `count += 1`). `PageDone` is
`iterator.Done`, followed by `offset += count` and the `count == 0` return.
`DeadlineExceeded` and `OtherError` are the two error paths after
`offset += count`. `Insert(d)` is a `StoreCertificatePEM` Create by another
process while the stream runs.

Fairness: none, because the properties are safety properties. No liveness
property is claimed for the stream. The one way the loop fails to end is
this. `db.ctx` is the client's context. The reprocess tool gives it a
15-minute deadline (`reprocess-known-certs.go:90`). Once that deadline passes,
every query fails with DeadlineExceeded, and the `continue` at line 363 spins
forever without closing the channel. A property that the stream closes would
hold only if the model bounded those retries, and no fairness the code has
justifies such a bound. Checking the spin would need a violation run, and
every run slot is taken.

Bounds: 5 document IDs, page size 2 (so a shard spans several pages and a
retry can land mid-page), up to 3 deadline retries, one hard error, 2 inserts.

| Run | Expect | What it shows |
|---|---|---|
| `stream_run` | pass | the starting shard is any subset of 5 IDs (one undecodable), with a Create during the stream: no serial present at the start is skipped (`StreamComplete`). Over a shard that does not change and holds only decodable IDs, nothing is sent twice across deadline retries (`NoDuplicateDelivery`) |

`NoDuplicateDelivery` is conditional because duplicates do happen when the
shard changes during the stream. A Create whose ID sorts before the offset
moves every later document one place on, so the next page starts at a serial
already sent and sends it again. Spec E6 asks for each serial exactly once,
but only over a shard that does not change. The mutant `DeadlineSameOffset`
shows that the condition still leaves the retry logic checked.

A page made only of undecodable IDs would send nothing, so count would be 0 and
the stream would close early, leaving the later serials unsent. No run checks
this: `StoreCertificatePEM` writes only decodable IDs, so it needs documents
from another writer.

### CertDatabase runs

| Run | Expect | What it shows |
|---|---|---|
| `certdb_safety` | pass | with a failure, a crash and a lost reply: PEMs only for known serials, no PEM collision, metadata covers every stored PEM. When no reply was lost, a known serial without a PEM is explained by a failed or in-flight Store (`LossExplainedWithoutLostReplies`). |
| `certdb_lost_reply` | violation | a retried dedup ZADD makes Store drop a certificate with no error |
| `certdb_shard_fault` | violation | `ShardBookkeepingComplete` (I4) with one failure: either a Store failing after the issuer DN ZADD leaves the shard unallocated for good, or the ignored `SetExpiryFlag` error leaves a serials key with no TTL |
| `certdb_meta_per_issuer` | violation | issuer-keyed metadata means a second expiry date of a known issuer is never allocated |

### ReprocessShutdown (`ReprocessShutdown.tla`, `MCReprocessShutdown.tla`)

The `reprocess-known-certs` tool (`src/cmd/reprocess-known-certs/reprocess-known-certs.go`).

State: `mainPc` is where `main` is:
* `list`: before `ListExpirationDates`;
* `fill`: the two nested loops that list issuers and fill the queue;
* `select`: the final select;
* `quit`: blocked on `quitChan <- struct{}{}`;
* `exited`.

The other state:
* `expDates` is the list `ListExpirationDates` returned. `dix` counts the
  dates whose issuers have been listed. `issuers` is the current date's list.
  `listed` is a history of every tuple the listings returned. `listErrors`
  counts `iter.Next` errors.
* `filled` and `queue` are the inner loop's position and the buffered `workUnitsChan`. `closed` records its `close`.
* `wpc` and `item` are each worker's position (`range`, `select`, `work`, `done`) and its tuple.
* `wg` is the WaitGroup. `npc` is the notifier goroutine.
* `sigBuf` is the one-slot `sigChan`. `signals` counts deliveries.
* `processed` holds the tuples whose `ReconstructIssuerMetadata` succeeded. `exitHow` records why the process ended.
* `selected` is the regex filter (`shouldProcess`). It is chosen once in `Init` from every subset of the shards in storage.

Actions:
* `main`'s steps:
  * `ListDates` and `ListIssuers`. Each list comes from the Firestore
    backend, which `engine.GetConfiguredStorage` builds. Its goroutine
    returns at the first `iter.Next` error, so the list is any prefix of the
    documents (`FirestoreListing`). A short prefix costs one of
    `MaxListErrors`. The error result is always nil, so the `Fatalf` after
    each list never runs.
  * `Fill`: a non-blocking send, or Fatalf on overflow.
  * `StartWorkers`: close, `Add`, `go`.
  * `MainSelect`.
* Each worker's steps: `WorkerRange`, `WorkerSelect`, `Reconstruct` and `ReconstructFails` (Fatalf).
* `NotifierWait` and `Signal`.

Any Fatalf, or `main` returning, ends every goroutine. The Firestore build's
`ReconstructIssuerMetadata` always returns "Disabled", and the tool then
Fatalfs at the first tuple. The model keeps both outcomes, so the
disk-database build is covered too.

Fairness: weak fairness for `main`, for each worker and for the notifier. The Go
scheduler runs every runnable goroutine. Signals and failures are not fair.

Runs:
* `reprocess_run` (pass) uses 2 dates with 3 shards between them, 2
  workers, a 2-slot channel (so overflow happens for some filters), one
  listing error and up to 2 signals. It checks:
  * `TypeOK`;
  * `CompletedMeansAllProcessed`: "Completed." implies every accepted tuple
    that was listed has been reconstructed;
  * `CompletedCoversStoreWithoutListErrors`: when no listing was cut short,
    "Completed." implies every accepted shard in storage was reconstructed.
    The nested date and issuer loops must reach every listed date.
    `CompletedMeansAllProcessed` is stated over the listed tuples, so it would
    not notice an outer loop that stops one date early;
  * `Terminates`: the tool exits unless a signal intervenes.

  The run does not check deadlock separately, because a stuck state without a
  signal already violates `Terminates`.
* `reprocess_signal` (violation) checks `SignalLeadsToExit`. A signal taken
  after the workers drained the channel leaves `main` blocked on `quitChan`
  forever. Workers that find the channel empty leave their `range` loop
  without reaching the select.
* `reprocess_partial_listing` (violation) checks `CompletedCoversStore`:
  "Completed." implies every accepted shard in storage was reconstructed.
  Spec §7 says a deadline on a backend stream is retried. TLC finds this
  behaviour:
  1. `ListExpirationDates` meets an `iter.Next` error at its first document.
     The tool's 15-minute context, which is also the Firestore client's
     context, makes this likely for a long run.
  2. The list comes back empty with a nil error.
  3. The tool starts its workers, they find nothing, and it logs
     "Completed.". No shard was reconstructed.

### LegacyIssuerMetadata (`LegacyIssuerMetadata.tla`, `MCLegacyIssuerMetadata.tla`)

The file-backed `IssuerMetadata` of `src/storage/issuermetadata.go`. Nothing
under `src/` calls this version, so the model checks its API under every order
of calls. Every method holds `im.mutex` for its whole body, so each method is
one atomic step.

State:
* `crls` is `im.metadata.Crls`.
* `file` is the JSON file: a list of URLs, `Absent` or `Corrupt`.
* `opened` records that `NewIssuerMetadata` and `Load` have run.
* `wanted` is a history variable: every http(s) URL of a certificate passed to
  `Accumulate`.

URLs are naturals, and their order stands for `strings.Compare`.

Actions:
* `Load`: the list stays empty when any of these happens:
  * `os.Open` fails, whether the file is missing or exists (permissions, too
    many open files). The error is returned.
  * A read error or a JSON error occurs. It is only logged.

  Otherwise the list is the file's.
* `Accumulate(c)`: the DP loop is the recursive `AccumulateDps`, which includes
  the `return` at the first ldap/ldaps DP.
* `Save`: one of three outcomes:
  * `OpenFile` fails, and the file is untouched.
  * The file is rewritten with the list.
  * The file is left `Corrupt`: O_TRUNC has emptied it, and then `Encode`
    fails (the error is only logged) or the process crashes.

`addCRL` is the operator `AddCRL`. Its `sort.Search` is `Search`, a recursive
bisection.

Bounds: 4 URLs. The starting file is any sorted list of at most 3 URLs, a
missing file or a corrupt one. There are four certificates: spec E3's, one with
only unparsable and file DPs, one with https before ldaps, and one with DPs out
of order and a repeat.

Runs:
* `legacymeta_run` (pass) checks three properties:
  * `CrlsSortedUnique`: the list stays strictly sorted.
  * `AddCRLIsSetInsert`: on every reachable list, `addCRL` is set insertion.
  * `TypeOK`.
* `legacymeta_e3` (violation) checks `AccumulateCoversHttp`. Spec E3's
  certificate loses `https://c/crl` because the loop returns at the ldap DP
  before it. The cache-backed `Accumulate` of `part_005` uses `continue`.

### ShardCache (`ShardCache.tla`, `MCShardCache.tla`)

This is the gcache revision of the database façade (`part_002` 1-212).
`FilesystemDatabase` keeps an ARC cache of `CacheEntry` objects, one per shard.

The model follows the code step by step:
* `FetchMiss` runs the loader. `NewCacheEntry` reads the shard's saved
  metadata. On a full cache, gcache evicts one entry, and `EvictedFunc`
  `Close`s it, which saves its metadata.
* `FetchHit` is a hit.
* `WasUnknown` is the known-set ZADD.
* `AccumulateAndStore` is the region of `Store` under `ce.mutex`: it
  accumulates the CRL and writes the PEM.
* `Cleanup` is `Purge`. It closes every cached entry.

Entries are objects (`1..MaxLoads`), so a `Store` that fetched an entry
still holds it after the entry is evicted.

`shardcache_evict` (violation) checks `MetadataPersisted`: after shutdown,
the saved metadata of every shard covers the CRL of every PEM written there.
The bounds are two workers, three certificates over two shards, and a cache
of size 1. Under them, TLC finds this sequence:
1. Store A fetches shard X's entry.
2. Store B's miss on shard Y evicts the entry and saves it.
3. Store A accumulates into the evicted object, and that update is never
   saved.

A reloaded entry for X reads the stale saved metadata. Spec §3 says metadata
only grows and handles are released on eviction. The code does not pin an
entry while a `Store` uses it.

### Backends (`StorageBackend.tla`, `MockBackend.tla`, `FirestoreBackend.tla`, `Backends.tla`, `MCBackends.tla`)

`StorageBackend.tla` is the abstract specification of the `StorageBackend`
interface (`types.go` 83-100), with the contract of spec §4.2. Its state is
what the interface's reads can observe:
* date markers;
* `(date, issuer)` markers;
* PEM documents;
* log checkpoints;
* `call`, which holds the last call and whether it returned an error.

The contract for writes:
* Each write is idempotent.
* A failed call may leave any prefix of its writes behind, because a deadline
  can expire after the commit.
* `AllocateExpDateAndIssuer` writes the date marker before the issuer marker.

Because the abstract state includes `call`, an implementation step that
handles a call must be the matching abstract step. A lost write therefore
cannot pass as stuttering.

`MockBackend.tla` models `mockbackend.go`:
* `AllocateExpDateAndIssuer` finds the issuer's place with `sort.Search`.
  This is the recursive bisection `InsertionPoint`. If the issuer is not
  there, it inserts it.
* `StoreCertificatePEM` sets the PEM key and appends the serial to the
  shard's slice.
* `StoreLogState` and `StoreKnownCertificateList` overwrite their keys.

The mapping reads the abstract markers off the slices:
* `dates` are the keys whose slice is not empty;
* `allocated` are the slices' elements.

`FirestoreBackend.tla` models `firestorebackend.go`. Documents are sets, and
each `Set` or `Create` may fail, committed or not, up to `MaxErrors` times:
* `AllocateExpDateAndIssuer` is two `Set`s. It returns at the first error.
* `StoreCertificatePEM` is a `Create`. `AlreadyExists` counts a collision and
  returns nil.
* `StoreLogState` is a `Set`.
* `StoreKnownCertificateList` panics, so it is not a Firestore action.

`Backends.tla` drives both implementations with the same client calls, up to
`MaxCalls`.

`backends_run` (pass) uses two dates, two issuers, two serials, one log with
two checkpoint values, and `MaxCalls = 4`. That is enough to allocate both
issuers of a date in either order, store a PEM twice, put two serials in one
shard's slice, overwrite a checkpoint with another value, and fail a call.
About 294,000 states are checked in roughly 30 seconds. A fifth call takes 4
minutes and adds no new kind of step. It checks:
* `MockRefinesBackend` and `FirestoreRefinesBackend`: each implementation
  satisfies `StorageBackend!Spec` under its mapping. This covers
  half-committed `AllocateExpDateAndIssuer` calls and repeated `Create`s.
* `MockListingsConsistent`: a date's issuers are listed once each, in ID
  order. A shard's listed serials are exactly those whose PEM loads.

Two differences between the backends are not properties:
* Firestore's `ListExpirationDates` ignores `aNotBefore` (the query is
  `type == ExpDate` only). Spec §4.2 says it lists dates at or after
  `notBefore`. The mock filters by date.
* The mock's `StoreCertificatePEM` is not idempotent. Storing a serial again
  appends it to the shard's list a second time. Spec §4.2 requires an
  idempotent create, which Firestore's `Create` provides.

## 4. Not modelled

* Identifier encodings (base64, SHA-256, `getSpki`): these are pure
  conversions. The models use model values that are equal exactly when the
  encodings are. Document paths and the mock's map keys are modelled as tuples
  of these values. That abstraction relies on two facts about `types.go`:
  * `Serial.ID`, `SPKI.ID` and `Issuer.ID` use `base64.URLEncoding`, whose
    alphabet has no `/`. So `filepath.Join` in `firestorebackend.go` 73 and
    158 cannot split or merge path segments.
  * An issuer built from a certificate has a 44-character ID (the padded
    encoding of a SHA-256 digest), and the listings hand back those IDs.
    Only tests build issuers from other strings. Also, `kExpirationFormat` fixes the date at 10 characters. So the
    concatenated keys of `mockbackend.go` 48-53 never collide.
* `MockRemoteCache` (`part_006` 1-142), a test double that nothing under
  `src/` constructs. Reading it shows two departures from the Redis semantics
  of spec §4.1. Neither is checked, because every run slot is taken by a
  question about production code:
  * `SetInsert` does not call `CleanupExpiry`. An insert into a key whose TTL
    has passed goes into the old slice. The next read then deletes the key,
    new entry included. In Redis the expired key is gone, and the insert
    creates a new key with no TTL.
  * `SetRemove` (line 74) appends the slice to its own prefix, which changes
    nothing. It still reports the removal as done.
* Key TTL expiry in time: `expiry` records only that a TTL was set.
* Telemetry, configuration, progress bars, and the statistics tool
  (`part_000` 1-126): these are read-only or I/O.
* Durability of the legacy metadata file. The model includes both ways it
  loses URLs:
  * an open error on a good file, after which the next `Save` truncates it;
  * a failed `Encode` or a crash after the O_TRUNC. `Save` then returns nil,
    and the next `Load` keeps an empty list.

  No property is checked on it. A property that the file keeps its URLs is
  violated by one `Save`, so it needs a violation run, and every run slot is
  taken by a finding on code that has callers. This version of the type has
  none under `src/`.
* The legacy disk database (`part_001`). Its two-try `Store` loop and
  per-shard files belong to a revision that nothing else in `src/` uses.
* The gcache façade's `SaveLogState`/`GetLogState` and `markDirty`. These
  are pass-through calls to the backend, or no-ops.
* Partial listings in `Backends.tla`. There the reads are queries that run
  to `iterator.Done`. The short listing is modelled where a caller consumes
  it, in `ReprocessShutdown.tla`.
* The mock's stream channel is filled and never closed (`mockbackend.go`
  126-130). A consumer that ranges over it blocks after the last serial. No
  caller under `src/` uses the mock stream.
