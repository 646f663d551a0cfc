# A specification of caddy-sidekick

caddy-sidekick is an HTTP cache that runs inside Caddy, in front of WordPress. This
directory holds TLA+ modules that model its concurrent and stateful parts, TLC
configurations that check them on small instances, and proofs, checked by TLAPS, of nearly
all their safety properties, and of the refinement, for every instance.

`PROJECT.json` maps every definition to the lines it models, and lists the runs, the
hazards, the findings and the theorems. Paths below are relative to `src/`.

## 1. The system

A request goes through `ServeHTTP`, which classifies it, looks it up in `Storage`, and on a
miss lets the origin write its answer through a `ResponseWriter`, whose `Close` stores it.

    visitor -> (shared cache) -> ServeHTTP -- purge path --> handlePurgeRequest
                                    |  classifyQuery, bypassReasonFor, buildCacheKeyFor
                                    |-- bypass ----> origin through bypassResponseWriter
                                    |-- hit -------> Storage.Get / GetReader
                                    |-- miss ------> acquireFill, awaitFill | origin through
                                                     ResponseWriter -> Close -> SetWithKey

| Component | State | Operations | What is hard | What makes it correct |
|---|---|---|---|---|
| Handler and collapsing (`sidekick.go`) | `SyncHandler`: `cacheMu`, the map `inFlight` of records (`once`, `done`, `closeOnce`) | `ServeHTTP`, `acquireFill`, `releaseFill`, `awaitFill`, `serveRangeFill` | requests that share a record and leave it in any order; the timer; a purge during a fetch | nobody waits for a fill that has ended; one full fetch at a time; nothing older than a purge is served |
| Purge (`sidekick.go`) | none | list, delete, flush | what is not indexed, what is being fetched | what was there is gone from both tiers |
| Classification and key (`sidekick.go`, `querykey.go`, `phpquery.go`) | configuration | `classifyQuery`, `bypassReasonFor`, `computeKeyDims`, `buildCacheKeyFor` | the rules' order; what neither the key nor a rule covers | no visitor gets a page rendered for another request |
| Downstream headers (`sidekick.go`, `response_writer.go`) | none | `applyDownstreamCacheHeaders`, `bypassResponseWriter` | a shared cache that keeps and selects by them, later | nothing personal is shared; nothing outlives its TTL |
| Capture (`response_writer.go`) | buffer, temporary file, `needCache`, `captureOnly`, `fillAbandoned` | `WriteHeader`, `Write`, `Close`, release and replay | limits met half-way; failures of the client, the origin, the file | the client gets the body whole; what is stored is the body |
| Storage (`storage.go`) | two tiers, key mutexes, `fileMu`, background purges | `Get`, `GetReader`, `SetWithKey`, `Purge`, `Flush` | four kinds of locks that exclude different pairs | tiers, index and files agree |
| Disk cache (`storage_disk.go`, `metadata.go`) | index, `diskUsage`, `diskItemCount`, two files an entry | `Put`, `Delete`, eviction, `LoadIndex` | check-then-act deletes; the load running beside requests; crashes between files | counters are the index's; limits hold |
| Memory cache (`storage_memory.go`) | list, map, cost | `Get`, `Put`, `Delete`, `LoadOrCompute` | accounting through replacement; the lock upgrade | cost is the sum; the oldest go first |
| Conditional and range answers (`sidekick.go`) | none; the client keeps a copy | `tryServeStreamed`, the HIT branch, `shouldReturn304`, `http.ServeContent` | two implementations of one thing; edits between a client's requests | a 304 is about the copy held; a resumed download is one body |
| Compression (`compression.go`, `storage_disk.go`) | none | `compressData`, `CompressForClient` | three places choose an encoding, one label names it | the client can read what it gets |
| Configuration (`sidekick.go`, `listadjust.go`) | the module's fields | `UnmarshalCaddyfile`, JSON, `Provision`, list adjustments | absent, `0`, `false` and empty are one thing in JSON | what is written is what runs, either way it is written |
| Reloads (`sidekick.go`, `storage.go`, `metrics.go`) | one `Storage` a configuration, one directory, one collector | `Provision`, `Cleanup`, `LoadIndex` | two instances at work, one of them refused perhaps | a purge holds across reloads; each index follows the directory |
| Metrics (`metrics.go`, `metrics_handler.go`, `admin.go`) | counters, `currentStorage` | record, refresh | reloads | figures of the current storage |
| mu-plugins (`sidekick.go`, `wp-content/`) | files in WordPress | copy, remove | told apart by a checksum only | the file follows the option |

`storage_redis.go` is a comment about a future backend; `integration-test/` holds tests.

## 2. The modules

A definition named `Wrong...` is a plausible bug in the definition after it. No
specification uses one; it shows that a property can tell the difference.

### Sidekick.tla: the request handler

One action per critical section of `cacheMu` and `inFlightMu`, and one for each stretch
between them. `pc[r]` is where a request is in `ServeHTTP`: `lookup` (the two cache reads),
`acquire` (`acquireFill`), `await` (`awaitFill`'s select), `pass` (to the origin without
the cache), `fetch`, `body` and `stream` (the upstream handler, before the headers, with a
capture, without one), `close` and `store` (`Close` before and inside `once`), `release`
and `wake` (`releaseFill` before and after it closes `done`). A record is named by the
request that created it, a stored response by the request that fetched it. `origin[k]` is
the version of the page the origin renders; the ghosts `floor`, `since` and `overtaken`
remember which version a purge ended, for which visitors, and which responses were then
already rendered. `cache[k]` is the set of copies of `k` that `Storage` may come up with: the
two tiers may hold one each, a store replaces any of them, and any may be lost at any time
(`Vanish`), which is what Cache.tla, and so Storage, promises.

`once` is a three-valued variable, so that a request that calls `once.Do` while another is
inside blocks, as in Go. The mutexes themselves need no variable: every section is a step.

### Storage.tla: the two tiers, the index and the files

A stored response is the number of the write that stored it. `files[k]` is the pair of
writes found in `metadata.json` and in `data`, either possibly `Torn`. A store (`op`) runs
under `cacheMu`, which excludes readers and other writers, and takes one step per file,
per eviction and per index update; `deleting[d]` is a goroutine between the peek and the
removal of `DiskCache.Delete`; `pending` holds the keys `purgeAsync` has yet to remove;
`load` is `LoadIndex` with its walk, its reads and its inserts as separate steps; `streams`
are the data files open for a client. Expiry lets any prefix of the writes grow old.
Faults are a failed write, a failed flush and a crash; `Restart` keeps the files and starts
`LoadIndex` again beside the requests.

The ghosts `flaw[k]` (`gone`: indexed without files; `cut`: a store stopped between its two
files; `unseen`: files a purge did not find) and `drift` (the counters missed a change of
the index) name every way the code itself admits disagreement, so that each invariant says
*exactly* when it may fail.

The LRU order is left open (any entry may be the oldest), because the order is
MemoryCache.tla's subject and a superset of the behaviours is checked. In the same
way a store in the memory tier may evict any of the other entries. The limits are
independent of one another: with `cache_disk_item_max_size -1`, or a disk smaller than
one item may be, a store evicts all there is and puts its entry in nevertheless
(`NewWrite`, `TooLarge`, `Kept`).

### Cache.tla: what the storage promises

The abstract specification of the storage, without tiers, files, index or locks: per key,
the copies that reads may find (`seen`) and those on disk that neither reads nor purges
find (`hidden`); a store that is one step or has a beginning and an end; a purge that ends
everything in sight; failures, a crash, and a load that brings hidden copies into sight.
Its point is what it does not allow: a copy that comes back in any other way than a load, a
copy with the metadata of one store and the body of another unless a store failed or died,
a purge that leaves something a read could have found. `CacheOfStorage` in Storage.tla is
the mapping: what is in memory or indexed with both files is seen, files without index are
hidden. `ImplementsCache` is the refinement, checked by the run `storage` and proved.

### Reload.tla: successive storages over one directory

Caddy provisions a configuration before it puts it to use, and lets the one before finish
its requests: two `Storage`s at a time, each with its own memory tier, index and locks
(`mem`, `idx`, `store`, `walk`), share the files (`files`), the directory of temporary
files (`temp`) and the metrics collector (`gauge`). A slot of `Instances` whose storage
nobody needs is used for the next. Steps are coarser than in Storage.tla, sizes and limits
are left out (any entry may be evicted) and so are failures other than a crash. `Put` is
the LRU's own insertion, of a store and of `LoadIndex`: it may drop any entries from the
index to make room and leaves their files where they are. `os.RemoveAll` takes the files
and then the directory, under no lock the other instance knows: a store of that instance
whose data file comes after both finds no directory (`StoreDataFails`), and one whose data
file comes in between leaves a body without metadata (`StoreDataCrossed`); a crash leaves a
removal half done (`Halved`). A configuration may be refused after it was provisioned;
`Cleanup` then does nothing. The ghosts `behind`, `clashed` and `missed` name what one
instance cannot know of the other, `dropped` what its LRU dropped.

### Serving.tla: from an entry to an answer

One URL, its entry, and clients that keep what they got and ask again: to revalidate it
(`If-None-Match`, `If-Modified-Since`, `If-Match`, `If-Unmodified-Since`) or to resume a
broken download (`Range` with `If-Range`). `Streamed` is `tryServeStreamed`, `Buffered` the
HIT branch with `shouldReturn304` and the choice of an encoding, `Fill` and `Follow` the
miss with a range. A body is a version of the page and the encoding its bytes are in, its
ETag a value of both. Each read of the store is a step; an edit, another visitor's fill, an
expiry or a purge may come between any two.

### Config.tla: from what is written to what runs

`Unmarshal` is `UnmarshalCaddyfile`, `ToJSON` the JSON it becomes, where `omitempty` drops
`0`, `false` and empty lists; `Provisions` and `Provision` are the environment, the checks
and the defaults, in the code's order; `Resolves` and `Resolved` the list adjustments;
`ManageMuPlugins` the plugin files left behind. A value is `zero` or `empty`, `unlimited`
(-1), `some` (given in the file), `other` (given in the environment), `bad`, `raw` (with
blanks around it, or in capitals) or `beyond` (a percentage out of range). What is tidied
and checked depends on where it comes from, and so it is done where the code does it: in
`Parses` and `Unmarshal` for a Caddyfile (`TrimSpace`, `normalizeResponseCode`,
`parsePercent`, a negative `range_fill_collapse_wait`), in `Text`, `Usable` and `ListBefore`
for a variable, and nowhere for JSON, whose `"2XX"` or `" +x"` runs as it stands. A list's
entries keep their spelling (`" x"`, `" +x"`, `"xXX"`) until `Tidy`. All the options are
there. A load is one step; the plugin files, the release and an
administrator's edits are the state that loads leave to one another. The two plugin files
are one here: the code treats each by itself and alike.

### ResponseWriter.tla: one response on its way

The upstream handler writes the body in chunks; a byte is its position in the body, so
that loss, repetition and disorder are visible. One action per outcome of `WriteHeader`,
`Write`, the release of a fill, the answer from the capture, and `Close`, with the client,
the origin and the temporary file failing at any point.

### MemoryCache.tla: the LRU

`ll` is the list, most recent first, `cost[k]` the cost of an entry, `currentCost` the
running total kept as the code keeps it, by adding and subtracting, and what eviction goes
by. Every method is a step, except `LoadOrCompute`, which is three. What a set of keys costs
is counted in units, pairs of a key and a number.

### CachePolicy.tla: who may be sent whose page

A request is a record of what the policy can tell apart: the kind of its path, whether its
query carries a keyed, ignored, unknown, private or array parameter, its headers, cookies
and credentials. The definitions follow `classifyQuery`, `bypassReasonFor`, `computeKeyDims`,
`buildCacheKeyFor`, `applyDownstreamCacheHeaders` and `bypassResponseWriter` rule by rule.
The origin (`Rendered`) and a shared cache that obeys `Cache-Control`, `Age` and `Vary`
(`Keeps`, `Selects`) are the environment. A request is one step: what happens inside one
is Sidekick.tla's subject. Left out: a negative `CacheTTL`, the host (always in the key),
and encodings (always in `Vary`).

The precondition on the site is the documented one: its pages depend on no cookie or
header that is neither configured nor WordPress's own, and static paths on no cookie.

## 3. The runs

| Run | Instance | Shows |
|---|---|---|
| `sidekick_safety` | 3 requests, plain or range, 1 key, 1 edit | collapsing and purges, see below |
| `sidekick_live` | 2 requests of every kind, 2 keys, no edits | `FollowerNeverBlocks`, `AllAnswered` |
| `storage` | 2 keys, 2 readers, 1 stream, 2 stores of 3 sizes, 1 crash, a count limit, a size limit, or a disk smaller than an item | two tiers, index, counters and files |
| `capture` | bodies of 0 to 4 bytes in chunks of 1 or 2, limits 0, -1 and in between, every fault | the client's bytes and the stored bytes |
| `memory_cache` | 4 keys, costs 1, 2 and 5, five pairs of limits, 2 goroutines | accounting and order of eviction |
| `policy` | every pair of about 20 requests for each of 6 kinds of paths, 4 configurations | cache key, bypass and headers together |
| `serving` | 7 sites that differ in validators, encodings, cache key and `range_fill`; 3 requests, 1 edit | conditional, partial and compressed answers |
| `config` | each option by itself, each size with its percentage, as a Caddyfile and as JSON, tidy or not, against the environment; lists of up to 3 entries; the plugin over 2 loads | what is written is what runs, and what the form changes |
| `reload` | 2 instances at a time, 1 key, 3 configurations and 2 stores, 2 and 3, or 3 and 1 beside a capture | two storages over one directory |
| `purge_overtaken`, `stream_rewritten`, `stored_stump` | the smallest instance that shows it | a documented statement the code does not keep |

**The handler.** `OnlyOwnRelease`: a late release never removes the record of a newer fill.
`NoOrphanWait`: a follower always waits for a record somebody has yet to release. `OneFullFetch` and `EarlyWakeOnlyBySharer`: range requests read an object
one at a time, and `done` closes only after the store, unless a plain request shared the
record and left first. That exception is real (`sidekick.go:144` says `done` is closed when
the result has been stored): an ordinary miss joins the record without being its leader,
and its deferred `releaseFill` closes it. `StaleOnlyIfOvertaken`: only a response rendered
before a purge and stored after it can be older than the purge.

**Storage.** `CountersMatchIndex` and `IndexMatchesFiles` hold up to the named flaws: counters
drift when two deletes of one entry overlap or a store overlaps `LoadIndex`; a store that
failed or died half-way, or the LRU under the index, may leave files no index entry leads
to. `StoreMakesRoom`: a store never ends above the limits the counters know of, unless its
own entry is larger than the whole size limit: that one goes in too, and is then the only
one on disk.
`ImplementsCache` is the refinement: every step of Storage.tla is one of Cache.tla's or none
at all, with both tiers, the index, its load, failures and a crash. It says in particular
that what is read is one response, unless its store failed or died half-way (both files are
rewritten in place, `README.md:563`: "exactly one representation"), and that a purged copy
comes back only if a load brings in files the purge could not see. It is also what justifies
the set of copies in Sidekick.tla.

**Capture.** `ClientWhole`, `BufferBounded`, `StoredWhole`, `StoredAllowed`. What the client
has is the beginning of the body, and on a plain miss all that was written so far, whatever
becomes of the capture. At the end it is the whole body, with two exceptions, both of a
temporary file that fails, and both real. `Write` tells the upstream handler of the failure,
which may stop there: that is so of a plain miss as well, where the client has the chunk
already and `Write` returns the error of `switchToStreaming` all the same
(`response_writer.go:453-458`), and of a range fill, whose held-back body is then never
released (against `README.md:588`). Or the fill is complete and its file cannot be read
back, or lacks what could not be written, when the answer is made from it. Only in a fill that was given up, and only if
the handler writes on after the error, is there a gap in what the client has.

**Policy.** `OwnPage`: the key and the reasons to bypass together cover all that a page
depends on. `PersonalNotShared`: no page rendered for a login, a commenter or credentials
is kept by a shared cache, except on a path of `nocache_regex` or the home page under
`nocache_home`, where the policy rules come before the private cookies, although
`README.md:764` says such requests "always bypass as private". `OriginPrivateKept`,
`WithinTTL`. `SharedOwnPage`: whoever a shared cache selects a copy for is sent the page of
that very request: its path, its parameters, its language and nothing made for a cookie. The
exception contradicts a comment, `sidekick.go:2628` ("Vary must be consistent across HIT,
MISS and BYPASS for the same URL, or a shared cache can store one variant and serve it for
another"): `computeKeyDims` names a keyed header in `Vary` only if the request has it, so a
copy made for a visitor without `Accept-Language` goes to everyone, in the default language.

**Serving.** `TierInvisible`: the streamed and the buffered path give one answer to one
request, except where only the first knows `If-Match`, `If-Unmodified-Since`, or
`If-None-Match: *` for an entry without an ETag. `NotModifiedIsSame`: a 304 is about the
version the client holds, unless it sent only a date and two edits share the second, or the
client holds a later version than the entry, which a date cannot tell.
`ResumeJoinsOne`: a resumed download is one body, unless the HIT branch had compressed it:
that goes out with the stored bytes' ETag (`sidekick.go:1465`), the ETag a range of those
bytes answers to; or it was resumed by date; or a partial answer became the entry, which is
then sent to whoever asks, whatever the `If-Range`. `ClientCanRead`: with `Accept-Encoding` in the key, a body is labelled
with its encoding and accepted by the client, `q=0` aside, which the code reads as an
acceptance; without it in the key, one client's encoded entry goes to another and loses its
label (`sidekick.go:1445`). `PartialOnlyUnfilled`: `README.md:568` calls it "a
hard invariant" that a partial response is never stored. It holds while `range_fill` is on
or the configured codes do not cover 206; else an answer of several ranges, which has no
`Content-Range` of its own, is stored and served as the whole.

**Configuration.** `RunsAsWritten` (values, lists and the memory tier): what the file says
runs. `SameEitherWay`: the same options are accepted, and run, alike as a Caddyfile and as
JSON, apart from what `FormMatters` and the property list. `RefusedForCause`: exactly the
wrong configurations are refused. `PluginFollows`: the plugin files follow the option. The
exceptions they spell out are the code's, and an operator should know them. JSON is neither
tidied nor checked as a Caddyfile is: a status class such as `"2XX"`, or an entry or an
adjustment with a blank before it, is taken to the letter and matches nothing
(`response_writer.go:593-601`); a blank `nocache` entry is the same either way; percentages
out of range, a negative `range_fill_collapse_wait`, an empty `purge_path` and a malformed
`metrics` path are refused from a Caddyfile and accepted from JSON, a `bypass_cache_control`
in capitals the other way round. `0`, documented
as "disabled" (`README.md:53-61`, `README.md:789`), is an absent value and becomes the
default; `-1`, "unlimited", turns the memory tier off (`MemoryTierUsed`);
`cache_memory_max_percent` is refused even alone, because the default size is filled in
before the two are compared, and `SIDEKICK_CACHE_DISK_MAX_PERCENT` likewise unless the
Caddyfile has it too; an empty list of a `cache_key_*` option comes back as the default,
that of the other lists does not;
`wp_mu_plugin_enabled false`, the documented way to disable the plugin
(`README.md:453-458`), is taken back when the directory is the default; the environment
overrides the file for the plugin, and a `nocache_home false`, and nothing else; and a
plugin file of an older release is taken for an administrator's and stays when the plugin is
disabled.

**Reloads.** `ServedWhole` and `PurgedNotServed`, across instances and restarts: an entry
is one store's, and what was purged is gone, except that no lock is common to two instances
storing one key at once, or storing and removing it, and that a purge does not reach the
memory of the other instance or files the purging one has not indexed. A body without
metadata is left by nothing but such a crossing of a store with a removal, or a removal that
a crash cut short. `IndexInStep`: the index follows the directory, except where the other
instance wrote after the walk, and where the LRU dropped an entry on its own: at a restart
over more directories than the limits, or at a store, the files of what it drops stay, and
this instance cannot find them to evict or purge them by path. `LeftoversEvictable`: the
temporary files of a crashed process can be evicted by every later one, only because
`LoadIndex` takes their directory for an entry, and unless the LRU drops that entry again,
as it may when the index is full. `GaugesCurrent`: the gauges show the storage that
serves, but a refused configuration leaves them at a storage nobody serves from.

**The violations** are in `PROJECT.json` under `findings`: a purge does not reach a fetch in
flight; a store rewrites the file a stream is sending; and the stump of a response is stored
as the whole. Other statements the code keeps only in part are exceptions of the properties
above, each spelled out in the property.

### Bounds, and why they are enough

* Sidekick: a record has a leader, a sharer and a third who finds it gone or waits; three
  requests play every part, for records are per key and meet nothing of another key's but
  the purge of everything, which the two keys of `sidekick_live` have. One edit makes an
  old and a new version, all that `<` can tell apart. The theorems have no such bounds.
* Storage: two keys, since eviction relates an entry to the one being stored; two readers,
  since the double delete needs two; sizes 1 to 3 against a limit of 4, so that one entry
  fits, two fit, or one is refused, and, in the third configuration, sizes up to 3 without
  an item limit against a limit of 3, which the largest exceeds with its metadata. Two
  stores suffice for a replacement and for an eviction.
* ResponseWriter: bodies of up to four bytes in chunks of one or two cross a limit of three
  and a threshold of one or two, at and within a chunk; a limit of 0 caches
  nothing and -1 everything, a threshold of 0 or less never leaves memory.
* MemoryCache: four keys against limits of one to three entries, and a cost that exceeds
  the whole limit.
* CachePolicy: a property relates an entry or a copy to one visitor, so crowds of two
  (`Crowds`) and a shared cache with room for one copy suffice. TTL is 1 and the clock
  reaches 2, the first moment an entry is expired.
* Serving: one client revalidates or resumes against what the other visitors' requests and
  one edit left, so a copy is of the current version or of the one before; a second client
  would only be another such visitor. Three requests are a download, its resumption and one
  that finds what both left.
* Config: options are independent but for the pairs the families take together (a size and
  its percentage, `range_fill_max_size` and the disk item size it falls back to, the
  plugin's option and its directory). Every class of value of an option is loaded, each
  spelling of an entry alone and before or after another. Three adjustments suffice for one that is taken back
  and given again. A second load suffices to meet what the first left, an upgrade or an
  edit between them.
* Reload: locks, memory and indexes are per instance and files per key, so two instances
  and one key, beside the temporary directory, make every pair of steps meet. Three
  configurations let a slot be used again; three stores let both instances store and one
  replace.

### Fairness

`Fairness` is weak fairness of each request's own steps inside the handler, the timer of
`awaitFill` included: goroutines are scheduled and the timer fires. It says nothing of the
origin, the client or the operator. `FollowerNeverBlocks` needs no more: a follower leaves
`awaitFill` even if the origin never answers. `AllAnswered` has the premise
`OriginAnswers`, weak fairness of the origin, because the code sets no timeout of its own
on a fetch. The other modules state safety only; there a step that is never taken is a
process that stopped.

`CHECK_DEADLOCK FALSE` is set where the system stops at its bounds: where one response ends
(`ResponseWriter`), when the loads of a configuration are spent (`Config`), and when the
budget of a history of reloads is (`Reload`). In the other runs TLC checks that each
reachable state has a next one.

## 4. The proofs

Every safety property that a passing run checks is proved for all values of the constants.
Each module below proves its component's specification,
from that component's named assumption on the constants (`SidekickAssumption`,
`StorageAssumption`, ...) and nothing else, unless it says so. The assumptions only give
types to the constants: no bound on keys, requests, versions, stores, restarts or reloads,
and no relation between one limit and another. The one that says more is `Listed` in `ConfigAssumption`: a list in a Caddyfile has at least
an entry, perhaps a blank one, because it is a value split at its commas
(`sidekick.go:271`, `sidekick.go:283`); an empty list of `nocache` that came otherwise would
be dropped by the JSON.

| Theorem | Property |
|---|---|
| **SidekickProofs** `TypeCorrect` | `TypeOK` |
| `RecordsCorrect` | `RecordInv`, the inductive invariant about records |
| `RegistryIsOpen`, `FollowersNotOrphaned`, `FullFetchesCollapse`, `EarlyWakes`, `ReleasesOwnRecord` | `RegisteredIsOpen`, `NoOrphanWait`, `OneFullFetch`, `EarlyWakeOnlyBySharer`, `OnlyOwnRelease` |
| `PurgeCorrect` | `StaleOnlyIfOvertaken` |
| **StorageProofs** `StorageTyped`, `IndexAndFiles` | `TypeOK`, `IndexMatchesFiles` |
| `CountersExact`, `RoomMade` (for finitely many keys) | `CountersMatchIndex`, `StoreMakesRoom` |
| `CacheRefined` | `ImplementsCache`, the refinement |
| **MemoryCacheProofs** `MemoryTyped`, `CostExact`, `LimitsHold`, `OldestEvicted` | `TypeOK`, `CostIsSum`, `LimitsKept`, `EvictsOldest` |
| **ResponseWriterProofs** `WriterTyped`, `ClientGetsBody`, `BufferStaysSmall`, `WholeBodyStored`, `OnlyAllowedStored` | `TypeOK`, `ClientWhole`, `BufferBounded`, `StoredWhole`, `StoredAllowed` |
| **CachePolicyProofs** `OwnPageHeld`, `PersonalPagesKept`, `OriginPrivateHeld`, `OneTTL`, `OwnPageShared` | `OwnPage`, `PersonalNotShared`, `OriginPrivateKept`, `WithinTTL`, `SharedOwnPage` |
| **ServingProofs** `TiersAlike`, `RevalidationHonest`, `ResumesJoin`, `ClientsRead`, `PartsUnfilled` | `TierInvisible`, `NotModifiedIsSame`, `ResumeJoinsOne`, `ClientCanRead`, `PartialOnlyUnfilled` |
| **ReloadProofs** `GaugesFollow`, `WholeAcrossReloads`, `PurgesLast`, `IndexKeepsUp`, `LeftoversIndexed` | `GaugesCurrent`, `ServedWhole`, `PurgedNotServed`, `IndexInStep`, `LeftoversEvictable` |
| **ConfigProofs** `RefusalsCaused`, `PluginKept`, `EitherWay` | `RefusedForCause`, `PluginFollows`, `SameEitherWay` |
| `WrittenRuns`, of `SettingsSurvive`, `ListsKept` and `TierUsed` | `RunsAsWritten`, of `SettingsKept`, `ListsAsWritten` and `MemoryTierUsed` |

Few of these are inductive alone. What makes them so, module by module:

**Sidekick.** `RecordInv`: a record is named by its leader, who holds it from `acquireFill`
to the end (`FillOK`); a registered record is open and its leader still filling
(`RegisteredOK`); whoever is about to close `done` has dropped the record from the registry
(`ReleaseOK`); and a leader's record stays registered until it or a plain sharer drops it
(`LeaderOK`). `FreshInv` follows a response from its rendering, through `Carrying`, into
the cache and to the client, and says at each stage that a version older than the purge is
a response in `overtaken`.

**Storage.** `StorageInv`: who may be inside `DiskCache.Delete` while a store is under way
(`DeleteInv`: the evictor, or nobody for the key being stored); what the files of that key
hold at each of the store's steps (`OpInv`); that only a running load has work (`LoadInv`);
and which entries the index may lack, the load under way included (`IndexInv`). The
refinement then goes step by step: each action is shown to leave every copy where it was or
to move it as an action of Cache.tla does, an eviction, a failure or a deletion being a
`Lose` of the copies that fade (`CopiesFade`, `LoseSteps`), so that every step of Next maps
to a step or a stutter. The counters need `CountInv`: without drift they tally with the
index, and while a load runs it is the load's own sums that tally with what it has put
there. `StoreMakesRoom` needs `RoomInv` on top: entries have the sizes of their
directories, a store has seen no less than is in use, and when it stops evicting its own
entry fits beside what it has seen, or is alone. Both are about sums over the index. `SumFunctionOnSet`
is defined by recursion; what is used of it is proved by minimal counterexample: among the
subsets of a finite set for which a claim fails there is a smallest (`Minimal`), and one
step of the recursion contradicts it.

**MemoryCache.** `MemoryInv`: the list has each key once, `currentCost` is the sum, the
limits hold. Eviction goes by `currentCost`, so the limits need the sum, and the sum needs
the list. Costs are cardinalities of sets of units, so the theorems on finite sets do.

**ResponseWriter.** What is captured or sent is a prefix of the body, as long as it has to
be at that place of the request: `CaptureOK`, `BufferOK`, `FillOK`, `ClientOK`, `EndOK`.

**CachePolicy.** An entry is the page of some request with its key (`EntryOK`), a shared
copy was handed out with headers right for its page (`CopyOK`); that they are right is a
fact about `classifyQuery`, `bypassReasonFor` and the rest, shown for any two requests.

**Serving.** Every answer is `Right`, path by path, a fact about the pure part; the steps
add that what a client keeps and what an entry is are as the origin made them.

**Reload.** One part each: the gauges (`GaugesOK`), what an instance knows of the directory
while it walks it and after, and what its LRU dropped (`StepOK`; `PutIndex` says what an
insertion leaves), the directory of temporary files (`TempOK`), what a store or a removal
under way or cut short may do to the files of its key (`FilesOK`, `CutShort`), and what a
purge left behind (`PurgeOK`).

**Config.** A load is a function of the configuration; that nothing set is lost and that a
refusal has its cause are facts about `Module` and `Provision`, one option at a time. The
invariant carries them from the load to the states after it. Lists may be of any length:
`Without` and `Adjusted` are functions over the positions of a list, and what they do is
proved position by position (`CountUp`, which rests on a set of numbers having a least
one). The code applies adjustments from left to right; `StandsFor` says instead that the
last word on a name decides. `AdjustedStands` shows that they agree, whether or not blanks
are taken out first. That the other form fares the same, `OtherAccepted`, compares the
causes of a refusal one by one, and needs that a tidy list comes to Provision as it is
(`TidyBefore`).

Some proofs failed at first because the model or a property was wrong, and corrected it. A
later walk of Reload.tla used to keep what the instance had missed before; now it resets
`behind` for what it reads. `NotModifiedIsSame` and `ResumeJoinsOne` of Serving.tla lacked
the exceptions of a client with a later version and of a stored partial answer: TLC's sites
did not have them, two of the seven now do. Overlapping cases of two `CASE` expressions
were put in the code's order.

Only model-checked:

* liveness, `FollowerNeverBlocks` and `AllAnswered`: temporal reasoning from fairness needs
  ENABLED, which this prover does not have.

## 5. Not modelled, and why

* PHP's reading of query names (`phpquery.go`) and the matching of paths and patterns:
  functions of characters, which their tests tabulate; the models take their outcome as an
  input.
* The codecs, and `compressData`'s thresholds: which entries are compressed is a choice.
* The counters of `metrics.go`, which are added to in one place each and decide nothing, the
  text the endpoints print, the PHP of the plugins, `storage_redis.go` and the integration tests.
* Within the models: in Storage.tla `os.RemoveAll` is one step, though it unlinks two files,
  since there a single instance and its locks stand around it; Reload.tla has what comes in
  between, but for a store whose data file the removal takes and whose metadata, made after
  the listing, it leaves: nothing is served from that. A range is
  represented by what it is taken out of; the matching of paths in a purge is a choice of
  keys; the stored headers that are neither validators nor an encoding are left out. A
  list in a Caddyfile is one argument split at its commas: after a first argument that is
  empty, the `cache_key_*` options ignore the others. Trailing blanks, and a text that is
  all blanks, are not told apart from blanks before it. A
  resumed request that overlaps a reload is two of Reload's steps and one of Serving's, never
  both at once.

## 6. Plan

Done, in this order: Sidekick and its proofs, Storage, ResponseWriter, MemoryCache,
CachePolicy, Cache and the refinement, Serving, Config, Reload; then the proofs of
CachePolicy, ResponseWriter, Reload, Storage with its refinement and its counters, Serving,
Config with its lists, MemoryCache. Next:

1. An abstract specification of what collapsing promises, one fill at a time and every
   follower served or released, with Sidekick.tla shown to implement it.
2. A property for the deletion in `storage.go:339`, which may come after a later store: it
   costs a cached copy, never a wrong answer, so it has to be stated over the work done.
