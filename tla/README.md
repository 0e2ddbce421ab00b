# A TLA+ model of s3-registry

s3-registry keeps release artifacts of command-line tools in an S3 bucket. For
every tool the bucket holds the artifact objects,
`<tool>/<version>/<os>-<arch>/<file>`, and one index document,
`<tool>/index.json`, that maps a version and an os-arch to an object and its
SHA-256. CI jobs and operators change the bucket with one-shot commands
(`s3reg publish`, `rm`, `reindex`); `s3reg serve` reads it for HTTP clients.

There is no lock and no database. Everything that keeps the registry right is
the order of the S3 calls of each command and one conditional write, so that is
what this project models first.

Paths below are relative to `src/`.

## 1. Inventory

| Component | State | Operations | Right when |
| --- | --- | --- | --- |
| publish (`cmd/s3reg/publish.go`) | staged files; attempt; ETag and document read | stage, upload each, update the index | what it reports as published is in the index with the right digest; no other command's change is lost |
| rm (`cmd/s3reg/rm.go`) | keys to delete; attempt; ETag and document | scan, update the index, delete each | its entries are gone, nothing else is, and no entry is left without object |
| reindex (`cmd/s3reg/reindex.go`) | listing, publish times, rebuilt document; attempt; ETag | list, read times, hash each, write the index | every object is indexed; publish times survive; a concurrent change survives |
| store (`internal/store/store.go`) | none; S3 has it | GetIndex, PutIndex (conditional), PutArtifact, DeleteObject, ListObjects, GetObject, PresignGet, ListTools, HeadBucket | a write goes through only against the version it was computed from; all pages of a listing are read |
| index document (`internal/index`) | list of versions, each with a publish time and a map of artifacts | Upsert, Remove, SetCreated, SortVersions, ResolveVersion | one entry a version, in order, nothing lost in a merge |
| semver (`internal/semver`) | none | SortAscending, Resolve | a range resolves to the highest version that it accepts |
| dist staging (`internal/store/dist.go`, `publishDist`) | none | InferOSArch, ParseChecksums | an archive goes to the right os-arch or is skipped; a wrong checksum stops it |
| index cache (`internal/server/cache.go`) | entry and fetch time per tool; flights | Get: hit, join a flight, lead one | bounded staleness; one fetch at a time; an error is only of the flight it came from, which a leader's disconnect fails for all who joined |
| HTTP operations (`internal/server/operations.go`, `server.go`) | the cache | list, resolve, artifact; token check | answers agree with some recent index; documented status codes |
| health (`internal/health`) | draining flag; cached status and its time; flight | Live, Ready, Status, SetDraining | not ready while draining or in grace; a status is at most its TTL old |
| serve (`cmd/s3reg/serve.go`) | the listener | signal, drain, shutdown within 25 s | requests in flight end |
| verify, ls | none | read the index, hash or print | verify reports every mismatch, and every object that it could not read |
| main, buildinfo, itest, packaging | none | flags, environment, version, test container | - |

Interaction. Commands share nothing but the bucket. Each calls S3 through
`Store`; between two calls any other command may make any of its own. publish
writes objects *before* the index, rm changes the index *before* the objects,
and reindex reads objects and writes the index: the three orders together are
where the hard behaviours come from. The server reads `index.json` through a
cache and signs URLs for objects it never looks at.

The hard behaviours are listed one by one in `PROJECT.json` under `hazards`,
each at its line: lost updates and retries of the conditional write, an answer
lost after the write took effect, a command dying between two calls, deletions
computed from an index that has changed, a rebuild written over a newer index,
the bound of five attempts, merging of hand-edited files, and, on the server's
side, the cancellation of a coalesced request, staleness, and drain.

## 2. Modules

| Module | Models | Used by |
| --- | --- | --- |
| `Catalogue` | the index document as a map, and what Upsert, Remove and a rebuild do to it | all but `Health` and `IndexCache` |
| `IndexDoc` | the document as the code has it: a list that is merged and sorted | `MCIndexDoc`, `IndexDocProofs` |
| `AtomicIndex` | abstract: every command changes the index in one indivisible step | `Registry` (INSTANCE) |
| `Staging` | how publish gets from files to artifacts: os-arch, checksums, dry run, uploads | `MCStaging`, `StagingProofs` |
| `Registry` | publish, rm and reindex, S3 call by S3 call, with faults | `Serving`, `MCRegistry`, `RegistryProofs` |
| `IndexCache` | the server's cache: goroutines of requests, TTL, coalesced fetches | `Serving` (INSTANCE), `MCIndexCache`, `CacheProofs` |
| `Serving` | `Registry` and `IndexCache` composed: the HTTP operations and `verify` while commands run | `MCServing` |
| `Health` | the health endpoints, and how `serve` starts, drains and stops | `MCHealth`, `HealthProofs` |
| `MCRegistry`, `MCIndexDoc`, `MCStaging`, `MCIndexCache`, `MCServing`, `MCHealth` | small instances for TLC | the runs |
| `RegistryProofs` | theorems about `Registry`: the conditional write, the refinement, what a command that reported success may count on | `ObjectProofs` |
| `ObjectProofs` | types, and the index against the objects | `ReindexProofs`, `ServingProofs` |
| `ReindexProofs` | what a reindex puts back, and publish times | - |
| `IndexDocProofs` | the list implements `Catalogue`; sorting and resolution | - |
| `StagingProofs`, `CacheProofs`, `HealthProofs` | theorems about `Staging`, `IndexCache` and `Health` | `ServingProofs` (`CacheProofs`, INSTANCE) |
| `ServingProofs` | `Serving` implements `Registry` and `IndexCache`; what requests and verify are told | - |

A definition called *Variant* in a comment is a plausible wrong version of the
definition after it. The specifications do not use it: replacing the definition
by it shows that a property would notice (`mutants` in `PROJECT.json`).

### Registry and the code

| Action | Code | Next |
| --- | --- | --- |
| `Upload` | one iteration of publish.go:174-185 (`PutArtifact`) | `Upload`, or `Get` when all are up |
| `Scan` | rm.go:41-62 | `Get`; fails if there is no index or nothing to remove |
| `List` | one page of reindex.go:39 (store.go:229-247) | `List`, or `Current` after the last page |
| `Current` | reindex.go:46-57 | `Hash`, or `Get` for an empty listing |
| `Hash` | one iteration of reindex.go:61-75, in the order of the keys, with its share of 76-83 | `Hash`, then `Get`; fails if the object has gone |
| `Get` | publish.go:200-208, reindex.go:89-94 | `PutAck` or `PutConflict` |
| `PutAck` | `PutIndex` returns nil | ends; rm goes on to `Delete` |
| `PutConflict` | `PutIndex` returns `ErrPreconditionFailed` | `Get`, or "contended" after `MaxAttempts` |
| `Delete` | one iteration of rm.go:72-77 | `Delete`, or ends |
| `Abort` | every `return err`, and the death of the process, at any call | "failed" |
| `AnswerLost` | a call takes effect and its answer is lost; the SDK sends it again | the same call |

One call to S3 is one step, because S3 makes it atomic; what a command computes
between two calls touches only its own variables and is part of the step before
or after it.

Abstractions:

- One tool. Commands of different tools have no key in common.
- Digests stand for bytes, sizes follow from them. An artifact's key has its
  version and os-arch in it, as publish.go:83 and :139 make it.
- `clock` counts writes to the bucket and stands for time: it gives a document
  its `updated` and `created`, an object its `LastModified`, and a fresh ETag.
  The clocks of different machines are taken to agree.
- An ETag may repeat only while the document does not change: S3 derives it
  from the bytes. The specification allows both a new and the same ETag then.
- A command's staged artifacts are an input; `Staging` models where they come
  from, and its `TypeOK` states what `RegistryAssumption` asks of them: at least
  one, and all of one version. A publish that is a dry run never gets here.
- `MaxLosses` bounds how many answers are lost in a behaviour. A call that
  S3 carries out long after the client has given up is not modelled, nor is S3's
  409 to a conditional write that races a deletion of the index (no command
  deletes the index); any other S3 error is an `Abort`.
- `KeyOrder` is the order in which S3 lists keys. A page may end anywhere, and
  the bucket changes between pages; the continuation token is "after the last key".
- Deletions are made in Go's map order, that is, in any order.
- Which workload meets which bucket is `Scenarios`; the theorems hold for all of
  them that `RegistryAssumption` allows.

### IndexDoc and the code

`Upsert`, `RemoveEntry`, `SetCreated`, `SortVersions`, `Merge`, `findVersion`,
`SortAscending`, `Resolve` and `ResolveVersion` are the functions of
`internal/index` and `internal/semver` of those names. `SortAscending` and what is built
on it return the *set* of results that `sort.Sort`, which is not stable, may
give for versions of equal precedence. `Rank` abstracts the precedence that the
Masterminds library computes (0: does not parse) and a constraint is the set of
versions it accepts. An action is one call of a command; a publish of several
artifacts is one `Publish` and a `PublishMore` for each further artifact, since
the code sorts after each.

`Catalogue` is the abstraction of this list that `Registry` computes with.
`PublishIsUpsertAll` and `RemoveIsRemove` are what justifies using it: on every
list that the code itself produces from an empty one (`Tidy`) the two agree. A hand-edited
list may hold anything but an artifact whose key is of another version or
os-arch than the place it stands in (`IsList`); on one with two entries of a version, or with
an entry that has no artifacts but a publish time, they differ: Upsert keeps that time, where
the catalogue sees no version.

### Staging and the code

| Action | Code | Next |
| --- | --- | --- |
| `PublishSingle` | publish.go:74-91 | `UploadNext`, or told for a dry run; fails if the file is gone |
| `ReadChecksums` | publish.go:93-113, dist.go:94-128 | `StageNext`; fails if checksums.txt or the directory cannot be read, or on a line that does not parse |
| `StageNext` | one iteration of publish.go:114-146 | `StageNext`; skips what is no archive or has no os-arch; fails on the first archive that is refused |
| `AllStaged` | publish.go:147-155, 158-173 | `UploadNext`, or told for a dry run; fails if nothing is staged |
| `UploadNext` | one iteration of publish.go:174-185 | `UploadNext`, or the index update |
| `UploadFails` | publish.go:179-183 | - |
| `Change` | a build rewrites or deletes a file | - |

`InferOSArch`, `firstToken`, `boundedIndex` and `ParseChecksums` are the functions
of dist.go. A file name is the sequence of words that its delimiters part, in lower
case, and a token such as `x86_64` is two words (names part it with `_`; the code
would not take `x86-64` for it); so "bounded by a delimiter or the edges" is "begins
and ends with whole words". `InferOSArch` is the set of what Go's random map order
may make of a name. `stale` remembers which files changed after they were hashed,
for the properties only. A file that cannot be read is one that is gone; names of
directories, which publish.go:115 passes over, are left out. Flags that are missing or exclude each other are errors
before any of this and are left out.

### IndexCache and the code

`indexCache.Get` (cache.go:45-70) is cut where goroutines can interleave:

| Action | Code | Next |
| --- | --- | --- |
| `Look` | the entry is read under the read lock, 46-48 | `Check` |
| `Check` | its age is judged without the lock, 49-51 | served, or missed |
| `Join`, `Lead` | `sf.Do` with and without a flight under way, 53 | waiting, or `Fetch` |
| `Fetch` | `store.GetIndex` returns the document, or `ErrNotFound` | `Store`, or `Land` |
| `FetchFails` | it returns any other error, 54-57 | `Land` |
| `Store` | the entry is replaced under the lock, 61-63 | `Land` |
| `Land` | the flight ends, its result goes to all aboard, 64-69 | served, or failed |
| `Write` | a command writes the index | - |
| `Tick` | time passes | - |

Documents are numbered in the order in which they were written: "older" is a
smaller number. `written` is when; the cache does not see it. A client that
disconnects matters only if its request leads a flight that is still fetching,
because that request's context is the one `GetIndex` gets; it is one of the ways in
which `FetchFails` happens. A request that waits is not woken by its own
context, as `sf.Do` does not look at it. Sorting of the fetched document (60)
is `SortVersions` of `IndexDoc`. Within a request there is no lock that is
held over a step, so locks do not appear.

`MaxFlight` is an assumption, not a constant of the code: the time from the
start of a flight to its end, for which the code sets no limit of its own. The
staleness bounds are stated in terms of it because the code dates an entry by the end of
the fetch, and a request that joins a flight late gets what was read at its start.

### Serving and the code

`Serving` EXTENDS `Registry` and instantiates `IndexCache`. `Mutating` is a step of a
command, and if it writes the index, `Write` of the cache: number n of the cache is
`docs[n]`, the n-th document that was the index. A request goes through the cache's
own actions (`Asking`) and is then answered:

| Action | Code |
| --- | --- |
| `Refuse` | authMiddleware (server.go:93-109): 401, before the handler; in it, a missing os or arch (operations.go:143-145): 422, before the cache |
| `Unavailable` | the cache's error through `mapStoreErr` (operations.go:167-172): 404 or 500 |
| `Operate` | `listVersions`, `resolveVersion`, `getArtifact` (operations.go:84-165) on the document that was served |
| `VerifyReads` | verify.go:26-37, the index is read, once; fails without one, or without an answer |
| `VerifyNext` | one iteration of verify.go:38-65: an object is read and hashed, or cannot be read |

Abstractions: a range is the set of versions it accepts. `PresignGet` makes no call
to S3 and looks at no object; it may fail. Whether a request carries the
right token, or none is configured, is `admitted`. verify reports an object that it
cannot read like one that is wrong (verify.go:43-46), and so does `VerifyNext`: any read
may fail, be the object missing or S3 out of reach, and `unread` remembers, for `VerifyTells` and
its proof only, which reads failed for another reason than that the object was not there. Entries of
versions of equal precedence, and those that do not parse, are hashed in any order. verify's filter
by version is left out, as are `ListTools`, `GET /tools` and `s3reg ls`, which read once
and print.

### Health and the code

| Action | Code |
| --- | --- |
| `Arrive` | a handler is called and takes the time (health.go:94, 177) |
| `Live` | 70-76 |
| `Unready`, `Ready` | the drain flag and the grace, 97-112; then the context with its deadline, 114 |
| `Probe` | a dependency's probe returns, 122 and 225, and how its error is classed, 233-241 |
| `Disconnect` | the client leaves and the context of the probes that run for it is cancelled |
| `ReadyAnswers` | 130-142 |
| `Hit`, `Miss` | the cached status and its age, under the lock, 179-188 |
| `Join`, `Lead`, `Store`, `Land` | `sf.Do`, the function it runs, and its result to all, 190-201 |
| `Signal`, `Close`, `Exit`, `GiveUp` | serve.go:71-76: SIGTERM and the drain flag; `Shutdown` closes the listener, waits for requests, or for its limit |
| `ListenFails` | serve.go:63-70 |
| `Change`, `Tick` | a dependency goes up, down or hangs; time passes |

Dependencies are a set, as the handler has them; the server passes one, its
bucket (server.go:51-56). The required ones are probed one after the other by
readiness and at once by status; as the order of the results is all that could
tell these apart, both are "one of those that are left". The context's error
is `Expired`: a deadline that passes after the client has left, or the other way
round, does not change it. What a handler does by itself takes no time, so the
clock only runs while probes do; a probe returns when its context ends, which the
S3 client sees to. `past` remembers the states of the dependencies, for the properties
only. Requests arrive until `Shutdown` begins: net/http may still serve, for some seconds, a
connection that it accepted before and that had sent nothing, and this is left out, so
`GracefulShutdown` says nothing of such a late request. `ListenFails` stands for an address that cannot be bound, before any request.

## 3. Runs

| Run | Instance | Shows |
| --- | --- | --- |
| `commands` | four mixes of three commands, each with its bucket; two versions, os-arches, files and digests; aborts anywhere, one lost answer, 2 attempts; 1.29 million states | `NoLostUpdate`, `EntryHasObject`, `DigestMatches`, `AckedPublishIndexed`, `AckedRmGone`, `ReindexAdopts`, `CreatedStable`, and that `Registry` implements `AtomicIndex` |
| `reliable` | four mixes of three commands, no faults, 3 attempts | `NeverContended`, `Termination`, `PublishSucceeds` |
| `index_doc` | up to 3 operations on an empty, a tidy, an unsorted and a doubled list, and one with an entry that has no artifacts, of up to 4 versions; 8 600 states | the six properties of `IndexDoc` |
| `staging` | 14 command lines over up to four files, 2 changes of files; 6 500 states | the five properties of `Staging` |
| `index_cache` | three requests, two writes, TTL and flights of up to 1 tick, 2 ticks; 620 000 states | the seven properties of `IndexCache` |
| `serving` | two requests or verify beside one or two commands; TTL and flights of up to 1 tick, 3 ticks, aborts anywhere, and any read of verify may fail; 1.98 million states | `SignedObjectExists`, `PublishedIsFound`, `VerifyTells` |
| `health` | two requests of any kind, a bucket that changes once; grace, TTL and status deadline of 1 tick, a ready deadline and a limit of 2 | the six properties of `Health` |
| `rm_republish`, `reindex_publish`, `ready_drain`, `tool_name`, `no_match` | two invocations with 5 attempts and no faults; two health requests; one archive; two requests | the disagreements of section 5 |

Bounds. Two attempts in `commands` make both exits of the loop happen: a retry that
succeeds, and contention. Three invocations are the fewest with which a command
loses to one and then to another. In `reliable` three attempts are exactly as many
as invocations, the case where one attempt less would fail. One lost answer is
enough for a command to be applied twice. Two artifacts of one slot in one publish,
two files of one slot in a reindexed bucket, and listings of every split into pages
are in the workloads. Every mix of commands starts from a bucket that holds
something to lose: an entry that gets replaced, a version without publish time,
orphaned objects, a missing index.

In `staging` the directory holds an archive named by each spelling of an os and an
arch that could go wrong: an alias that contains another (`macos`, `mac`), a tool whose name
begins like an alias (`winget`), an arch of two words, a source archive, and
checksums.txt itself; the checksums cover every file, some, one twice in either order, none,
and a line that does not parse. In `index_cache` three requests allow one
to come after another was answered while a third leads; two ticks let an entry
expire and be fetched again; it starts with and without an index. In `serving` two
requests are a leader and one who joins or finds the entry, three writes replace a
document twice, and three ticks let it age beyond the TTL and a fetch and be asked for again.
The commands are a withdrawal, a publish over an existing key, the first publish of a tool,
and the pairs that share a bucket or a slot, an rm that races a publish of its slot
among them; one bucket holds two versions of equal precedence, so that a range
resolves to either. In `health` two
requests are a leader and one who joins or finds the status cached, and requests and
the signal come in the first two ticks, by when a status can be as old as it gets
and be asked for again; the clock runs on until all that came has ended.
The ready deadline is as long as the limit, so that requests do get cut off, and that
of status is shorter (the defaults are 0.5 s, 1 s and 25 s).

Fairness. `FairReliableSpec` assumes weak fairness of each invocation's next
call: a one-shot command never waits for another, so a process that is alive
makes its next call whatever the others do. Termination does not assume that a
write goes through: 412 ends in "contended". `PublishSucceeds` is checked
without faults (`ReliableNext`), as S3 answering every call is its premise.
`IndexCache` assumes weak fairness of each request: its goroutine runs, and
the AWS SDK ends every call, with an answer or an error. `Health` assumes weak
fairness of each handler, of `Shutdown` and of time. `Staging` assumes weak fairness
of the command's next step: it waits for nobody.

`NeverContended` answers a question that the code leaves open: every lost
attempt is due to another invocation's write, and each writes at most once when
no answers are lost, so five attempts suffice for five concurrent invocations
on one tool, and no fewer than five attempts would.

Some properties have exceptions, and each names a behaviour of the code: entries
and objects may part where an rm overlaps a publish of the same slot, or a reindex; where
two publishes, or a publish and a reindex, are at one key; or where a publish dies between
its upload and the index. A reindex drops what was published while it ran; a file may
change between its hashing and its upload; a status may be about a client that left. The
properties allow these and nothing else. Where the documentation says otherwise a run that
expects a violation shows it (section 5). The list of a hand-edited index may hold two
entries of a version: `NothingLost` says what Upsert and Remove, which stop at the first,
leave of them.

## 4. Proofs

`RegistryProofs` proves, for any number of invocations, workloads, versions,
attempts and lost answers that satisfy `CatalogueAssumption` and
`RegistryAssumption`, first that every variable is of its type (`Typed`). That is not
inductive: `Upload` reads the next staged artifact, which exists only because of the stage
the command is in. `TypeInv` adds `Staging`, which ties each stage to its command, to
the artifacts left, and to the attempts left. Then:

- `NoUpdateLost`: `Spec => []NoLostUpdate`, by way of `CasCorrect`. That an ETag
  which still matches names the document which was read is not visible in one
  state; `CasInv` adds that no ETag, of the index or in a command's hand, is
  later than the clock (`EtagsPast`), so that a write that gives the index a new
  ETag gives it one that no command holds. When the ETag stays the same, so does
  the document.
- `Refinement`: `Spec => AtomicSpec`, every step is a step of `AtomicIndex` or a
  stutter, under the mapping of `Outcome`. A write applies its command to the
  document it replaces, which is `NoLostUpdate`; an answer that is lost applies
  the command and leaves it pending. For reindex it is needed that what has been
  rebuilt so far is well formed, which `RefinementInv` adds (`Rebuilt`).
- `PublishStaysIndexed`: `AckedPublishIndexed`. It is inductive next to `RefinementInv`:
  a write goes through only with the change of the document it replaces, so it
  leaves alone every slot it is not about (`EntryStep`).
- `RmStaysGone`: `AckedRmGone`. Success comes after the deletions, long after the write,
  so `RmGone` says the same of an rm that still deletes.
- `EnoughAttempts`: `ReliableSpec => []NeverContended`, for a finite `Procs`. `Uncontended`
  counts: an invocation has lost no more attempts than there are invocations that have
  written, and fewer if its ETag is stale already. As it has not written itself, it has
  attempts left. That S3 answers every call is `ReliableSpec`; with lost answers it is false.

`ObjectProofs` relates the index to the objects:

- `EntriesHaveObjects`: `EntryHasObject`. `PresenceInv` follows an object from its upload to
  the index and out of it again: what is uploaded (`UploadsKept`) or rebuilt from a
  listing (`RebuiltKept`) is there unless an rm is about its slot; the index is not read
  before all is uploaded (`UploadsFirst`); rm deletes only after its entries are gone
  (`RmGone`) and only what is of its slots (`DoomedNamed`).
- `TypeCorrect`: `Spec => []TypeOK`. Next to `Typed`, `TypeOK` says that no ETag is from the future
  (`EtagsPast`), that index and rebuilds have every artifact in the slot of its key
  (`IndexWellFormed`, `Rebuilt`), and that rm collects nothing but keys of its slots, which
  needs that an index it scans is well formed.
- `EntriesDescribeObjects`: `DigestMatches`. `DigestInv` adds the same for digests, where it
  matters that a publish may stage one key twice: only the last upload of a key
  describes its object (`LatestUpload`), and it is the artifact that lands.

`ReindexProofs`, on top of both:

- `ReindexAdoptsAll`: `ReindexAdopts`. `AdoptionInv` says where a reindex has an object that
  was there before: not listed yet, listed, in the rebuilt document, in the index. A
  page that is read while keys come and go leaves out none that was there all along.
- `PublishTimesStay`: `CreatedStable`, an action property. `DatesInv` says where a publish
  time comes from: of a version that only reindexes touch, every object is from before
  the commands (`UntouchedOld`, `ListedOld`), so two reindexes that run side by side
  agree on it (`StampsAgree`).

`IndexDocProofs` proves the six properties of `IndexDoc`, for any versions and their
precedence, any list in the file, any staged artifacts and constraints: `DocumentTypeCorrect`,
`ListStaysCanonical`, `PublishUpsertsAll`, `RmRemoves`, `NoneLost` and `ResolutionIsHighest`.
`IndexDocInv` is short: next to the properties it has the shape of the documents and
the operation, and that a publish's Upserts each leave a tidy list to the next (`StaysTidy`).
The work is in the lemmas about the operators:

- What `Merge` makes of the entries of a version does not depend on where they stand
  (`MergedArt`, `MergedTime`, `Moved`), and is the entry itself where there is one (`MergedOnce`).
  It is what makes sorting invisible: `Sorted`, `SortedSame`.
- `Putted`, `Dropped`, `Cleared` and `Stamped` say what an operation does to one entry, and
  `UpsertCatalogue` and `RemoveCatalogue` what that is in the catalogue. That a run of
  Upserts is one `UpsertAll` needs no induction over the run: `UpsertMore` adds one, and
  the invariant is the induction.
- `OrderExists`: every finite set can be sorted. The induction theorems being out of reach, it
  goes by the least size of a counterexample (`Least`, from well-foundedness). With the
  accepted version put first among its equals, `CanBeLast` gives an order in which
  `Resolve` answers just that one.

The attempt to prove `PublishIsUpsertAll` and `RemoveIsRemove` for every sorted list failed: of a
hand-edited entry without artifacts the two models disagree. `Tidy` excludes it and
`MCIndexDoc` now has such a list.

`StagingProofs` proves of `Staging`, for any directory, checksums, file names and number of
changes: `StagingTypeCorrect` (`TypeOK`, which is what `Registry` assumes of a publish),
`OnlyListedIsUploaded` (`UploadsAreListed`) and `IndexDescribesUploads`
(`IndexedAsUploaded`). `StagingInv` ties each stage to how far its variables are (`Phases`),
every staged artifact to the file, the digest and the line it came from (`StagedOnce`,
`StagedAll`, `StagedAsRead`, `SumsAsListed`), and every object to its artifact
(`UploadedAsStaged`). Without `Phases` nothing says that uploads begin only after the
last file was looked at. `PublishNamesRightly` (`PublishedAsNamed`) and `NamesAreUnambiguous` (no
name is told two ways, whatever order Go takes its tables in) rest on `NamingAssumption`: in the
tables of dist.go no two tokens begin with one word and no arch with a word of an os, and
`Named` is what goreleaser's style says. TLC evaluates it on the tables of the code. It
is `FirstIsIt` and `InfersNamed` that use it; without it an os token might be found in an arch.

`ServingProofs` proves of the composition:

- `CommandsAsAlone` and `CacheAsAlone`: `ServingSpec` implies `Registry`'s `Spec` and,
  with its own program counters, `IndexCache`'s. What the modules above prove of the two
  therefore holds here, and is used below (`Base`).
- `ServingTypeCorrect`: `ServingTypeOK`; `DocsKept` numbers the documents as the cache does.
- `WhatIsPublishedIsFound`: `PublishedIsFound`, from `FreshWithin` and `FailsByItsFlight`, and
  because a document that lacked something then is kept in `docs` with its date.
- `SignedUrlsWork`: `SignedObjectExists`. If the document that is served is not the index any
  more, some later one dropped the entry, at a time that `FreshWithin` bounds, or the entry
  is still in the index, where `DigestInv` speaks of it.
- `VerifyIsRight`: `VerifyTells`. verify is no reader of a state but of many; `Audited` says of
  every entry of the index *now* that it is still to be hashed, was found wrong, is right, or is
  about a command that runs since verify began, and that what is or will be
  found wrong is the doing of such a command, or of a read that failed.

Three of these properties were wrong as first stated, though every run passed, and are
stated differently since. `SignedObjectExists` allowed too little: a removal that overlaps
a reindex or a publish, and two publishes of one key, also leave an entry whose object is
gone or other. `Lacks` took a range to resolve to one version, and with versions of equal
precedence the code may take either (sort.Sort is not stable). `VerifyTells` took every
mismatch for a command's doing, which the model bore out only because no read of verify
could fail in it. `MCServing` has since a race of an rm with a publish, and two such versions.

`CacheProofs` proves, for any number of requests and any TTL:

- `CacheTypeCorrect`: `Spec => []TypeOK`, and `OneFlightAtATime`:
  `Spec => []OneFlight`, from `ShapeInv`: the flight's leader, and nobody else, is
  between `sf.Do` and its result, and nobody has an answer it was not given.
- `ReadsAreMonotonic` and `CacheAdvances`: neither readers nor the cache go back
  to an older document, from `OrderInv`: whatever was served is no newer than the
  entry, the entry no newer than what the flight has fetched, that no newer
  than the bucket's. It is inductive only because flights do not overlap.
- `FreshnessBound` and `FailuresAreFair`: `FreshWithin` and `FailsByItsFlight`,
  from `DateInv`, which dates what each step holds: a flight's document was the
  index when the flight started, an entry's at most `MaxFlight` before the entry's
  own date, and whoever is aboard asked at most `MaxFlight` after the start.

`HealthProofs` proves, for any number of requests and dependencies and any grace,
deadlines, TTL and limit:

- `HealthTypeCorrect`: `Spec => []TypeOK`; `TypeInv` adds that who is about to hand out the
  cached status has stored one.
- `ShutdownIsGraceful`: `GracefulShutdown`, from `Timing`, which dates what is in
  flight: who has just asked asked now, who probes has time left, who waits
  waits for one who probes, and once the process drains nobody in flight came after the
  signal. Whoever is left at the limit has therefore been probing that long.
- `ReadinessHolds`, `StatusIsFresh` and `StatusIsTrue`: `ReadyHolds`, `StatusFresh` and
  `StatusTells`, from `Evidence`, which says what backs each piece of data: a
  result of a probe that is back by a state the dependency was in since
  (`FoundSo`), a cached status by probes that ended before their deadline (`Truthful`,
  `CacheTells`), and a readiness probe by what was looked at before it (`Admitted`).

Each proof has one step per action, or one per group of actions that leave alone what it is
about. All proofs are complete; nothing is assumed
but the named assumptions on the constants and, for `EnoughAttempts`, that
`Procs` is finite, which an invocation that counts others needs.

Model-checked only:

- Liveness: `Termination`, `PublishSucceeds`, `Ends`, `EveryRequestEnds`, `Stops`. It rests on
  fairness and ENABLED, out of the prover's reach.

## 5. Where code and documentation disagree

| Run | The code | The documentation |
| --- | --- | --- |
| `rm_republish` | rm deletes, after its index write, keys collected before it (rm.go:40-59, 72-77): an object published meanwhile goes, its entry stays | "orphaned objects are safer than an index pointing at deleted keys" (rm.go:64-65) |
| `reindex_publish` | reindex retries with a new ETag and the old document (reindex.go:88-95) | "a losing writer reloads and retries" (README.md:50-51) |
| `ready_drain` | Ready reads the drain flag once, before its probes, and answers 200 after SIGTERM (health.go:97, 138) | "`503` during startup grace and after `SIGTERM` (drain)" (README.md:175) |
| `tool_name` | a tool called `git-win` has a bounded "win" in its name, and the earliest token wins (dist.go:62): its Linux archive is published for Windows | "so short aliases like "mac" or "win" cannot match inside a tool name or version" (dist.go:55-57) |
| `no_match` | getArtifact answers 404 to every error of ResolveVersion (operations.go:153) | "`422` when no version satisfies a range" (README.md:164-165) |

## 6. Not modelled, and the plan

Not modelled: `ListTools` with what shows it (`GET /tools`, `s3reg ls`), which has
nothing to go wrong with one tool; flags, environment, version strings and images, which
have no state; JSON, huma's and chi's routing, and the Masterminds library beyond the order
and the sets that it computes; the MinIO container of the tests. S3, the build that
writes a dist directory, and time are modelled from how the code uses them.

Done: all modules of section 2 and the theorems of section 4; every safety property that a
run checks is a theorem. What is left:

1. `PublishIsUpsertAll` and `RemoveIsRemove` on lists that are not `Tidy`: what the
   catalogue would have to know of them.
2. Leaves of the longer proofs that cite more than they need.

## 7. Running

    tlc -workers 2 -config MCCommands.cfg MCRegistry
    tlc -workers 2 -config MCServing.cfg MCServing
    for m in Registry Object Reindex IndexDoc Staging Cache Serving Health
    do tlapm ${m}Proofs.tla; done

No run disables the deadlock check: `Done` is the stuttering of a system in
which every command has ended.
