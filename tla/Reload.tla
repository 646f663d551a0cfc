------------------------------- MODULE Reload --------------------------------
(***************************************************************************)
(* Reloads of Caddy's configuration: every one provisions a new Storage over *)
(* the same cache directory, while the ones before it finish their requests. *)
(* Each has its memory tier, its index and its locks, which keep its own     *)
(* requests apart and nobody else's; the files, the directory of the         *)
(* temporary files and the metrics collector are shared.                     *)
(*                                                                         *)
(* What one Storage does by itself is Storage.tla's subject. Here its steps  *)
(* are coarser, sizes and limits are left out (anything may be evicted, or   *)
(* dropped from the index), and so are failures other than a crash.          *)
(*                                                                         *)
(* A definition whose name starts with Wrong is the one that follows it     *)
(* with a plausible bug in it; see Sidekick.tla.                            *)
(***************************************************************************)
EXTENDS Naturals, FiniteSets

CONSTANTS
  Keys,          \* the cache keys
  Temp,          \* the entry LoadIndex makes of the directory of temporary files
  Captures,      \* responses being captured in a temporary file at a time
  Instances,     \* the storages there are at a time; one nobody needs is used anew
  Budgets,       \* bounds to choose from: how many configurations are provisioned,
                 \*   responses stored, and responses captured in a file
  None

Names == Keys \cup {Temp}       \* of the directories in the cache directory
NoStore == 0

ASSUME ReloadAssumption ==
  /\ Temp \notin Keys /\ None \notin Names \cup Instances
  /\ Budgets \subseteq [loads : Nat, stores : Nat, captures : Nat]

VARIABLES
  stage,      \* stage[g]: what has become of instance g
  idx,        \* idx[g]: the names in its index
  mem,        \* mem[g][k]: the store in its memory tier, or NoStore
  walk,       \* walk[g]: its LoadIndex
  store,      \* store[g]: the store under way on disk, under its cacheMu
  files,      \* files[k]: the stores in metadata.json and in data
  temp,       \* the directory of temporary files: its files, and those of the dead
  capture,    \* capture[c]: the instance that captures c, or None
  collector,  \* whether there is a metrics collector
  gauge,      \* the instance its gauges look at (currentStorage), or None
  lastStore,  \* the number of stores so far
  budget,     \* what is left of the one chosen
  purged,     \* ghost: purged[k]: the last store before k's last purge
  missed,     \* ghost: missed[k]: where that purge could not see a copy
  clashed,    \* ghost: the keys two instances stored at once, or one stored while another
              \*   removed them, or whose store or removal a crash cut short
  behind,     \* ghost: behind[g]: the names that changed behind the back of g's index
  dropped     \* ghost: dropped[g]: the names its LRU dropped on its own

disk == <<files, temp>>
metrics == <<collector, gauge>>
ghosts == <<purged, missed, clashed, behind, dropped>>
counts == <<budget, lastStore>>
vars == <<stage, idx, mem, walk, store, disk, capture, metrics, counts, ghosts>>

NoFiles == [md |-> NoStore, data |-> NoStore]
NoTemp == [dir |-> FALSE, files |-> {}, left |-> FALSE]
Idle == [pc |-> "idle", key |-> None, n |-> NoStore]
NotWalking == [phase |-> "off", todo |-> {}, held |-> {}]
NothingInMemory == [k \in Keys |-> NoStore]

Init ==
  /\ stage = [g \in Instances |-> "none"]
  /\ idx = [g \in Instances |-> {}]
  /\ mem = [g \in Instances |-> NothingInMemory]
  /\ walk = [g \in Instances |-> NotWalking]
  /\ store = [g \in Instances |-> Idle]
  /\ files = [k \in Keys |-> NoFiles]
  /\ temp = NoTemp
  /\ capture = [c \in Captures |-> None]
  /\ collector = FALSE /\ gauge = None
  /\ budget \in Budgets /\ lastStore = 0
  /\ purged = [k \in Keys |-> 0]
  /\ missed = [k \in Keys |-> {}]
  /\ clashed = {}
  /\ behind = [g \in Instances |-> {}]
  /\ dropped = [g \in Instances |-> {}]

-----------------------------------------------------------------------------
Spend(what) == budget[what] > 0 /\ budget' = [budget EXCEPT ![what] = @ - 1]

HasDir(n) == IF n = Temp THEN temp.dir ELSE files[n] # NoFiles

\* Those with requests: the one that takes them, and older ones that finish theirs.
Serving == {g \in Instances : stage[g] = "serving"}
Active == {g \in Instances : stage[g] \in {"serving", "draining"}}

\* The handler's cacheMu of g is free.
Free(g) == g \in Active /\ store[g].pc = "idle"

\* Who has written the metadata of k and is about to write its body.
Inside(k) == {g \in Instances : store[g].key = k /\ store[g].pc = "data"}

\* Whose index has n, or is about to, or will not look for it any more.
Relies(n) ==
  {g \in Instances : walk[g].phase # "start" \/ n \in idx[g] \/ store[g].key = n}

WrongRemoved(S) ==
  /\ files' = [k \in Keys |-> IF k \in S THEN [files[k] EXCEPT !.md = NoStore] ELSE files[k]]
  /\ temp' = IF Temp \in S THEN NoTemp ELSE temp

\* os.RemoveAll of the directories S: their files go, and then they do. What another
\* instance does in between is up to StoreDataCrossed, what a crash leaves up to Crash.
\* An open file stays with whoever has it open.
Removed(S) ==
  /\ files' = [k \in Keys |-> IF k \in S THEN NoFiles ELSE files[k]]
  /\ temp' = IF Temp \in S THEN NoTemp ELSE temp

\* Directory n changes by the hand of g, whose own index keeps in step if own holds.
Behind(g, n, own) ==
  behind' = [h \in Instances |-> IF h = g /\ own THEN behind[h] \ {n}
                                 ELSE IF h \in {g} \cup Relies(n) THEN behind[h] \cup {n}
                                 ELSE behind[h]]

\* MemoryCache.put of n into the index of g. The LRU makes room in its own way: any
\* entries may be dropped, their files stay. One that is replaced goes last.
Put(g, n) ==
  \E gone \in {S \in SUBSET idx[g] : n \in S => S = idx[g]} :
    /\ idx' = [idx EXCEPT ![g] = (@ \cup {n}) \ gone]
    /\ dropped' = [dropped EXCEPT ![g] = (@ \ {n}) \cup gone]

\* DiskCache.Delete of n by g: out of its index, off the disk.
Delete(g, n) ==
  /\ idx' = [idx EXCEPT ![g] = @ \ {n}]
  /\ Removed({n})
  /\ Behind(g, n, n # store[g].key /\ n \notin walk[g].held)

-----------------------------------------------------------------------------
(* The life of an instance.                                                *)

\* Nobody asks those in S any more: what they know is of no consequence.
Forgotten(S) ==
  /\ idx' = [g \in Instances |-> IF g \in S THEN {} ELSE idx[g]]
  /\ mem' = [g \in Instances |-> IF g \in S THEN NothingInMemory ELSE mem[g]]
  /\ walk' = [g \in Instances |-> IF g \in S THEN NotWalking ELSE walk[g]]
  /\ behind' = [g \in Instances |-> IF g \in S THEN {} ELSE behind[g]]
  /\ dropped' = [g \in Instances |-> IF g \in S THEN {} ELSE dropped[g]]
  /\ missed' = [k \in Keys |-> missed[k] \ S]

WrongStartMetricsUpdater(g) == gauge' = IF gauge = None THEN g ELSE gauge

\* The gauges turn to the new storage at once, not when it is put to use. The one
\* goroutine that refreshes them goes on.
StartMetricsUpdater(g) == gauge' = g

\* Caddy provisions one configuration at a time: a storage, whose LoadIndex runs from
\* here on, and perhaps the metrics, which stay once there are any.
Provision(g) ==
  /\ stage[g] \in {"none", "rejected"} /\ \A h \in Instances : stage[h] # "provisioned"
  /\ Spend("loads")
  /\ stage' = [stage EXCEPT ![g] = "provisioned"]
  /\ walk' = [walk EXCEPT ![g].phase = "start"]
  /\ \E path \in BOOLEAN : collector' = (collector \/ path)
  /\ IF collector' THEN StartMetricsUpdater(g) ELSE UNCHANGED gauge
  /\ behind' = [behind EXCEPT ![g] = {}]
  /\ UNCHANGED <<idx, mem, store, disk, capture, lastStore, purged, missed, clashed, dropped>>

\* The configuration is put to use, and the one before it finishes its requests.
Start(g) ==
  /\ stage[g] = "provisioned"
  /\ stage' = [h \in Instances |-> CASE h = g -> "serving"
                                     [] stage[h] = "serving" -> "draining"
                                     [] OTHER -> stage[h]]
  /\ UNCHANGED <<idx, mem, walk, store, disk, capture, metrics, counts, ghosts>>

\* Another part of the configuration cannot be provisioned or started. Cleanup does
\* nothing: the metrics "should survive config reloads".
Reject(g) ==
  /\ stage[g] = "provisioned"
  /\ stage' = [stage EXCEPT ![g] = "rejected"]
  /\ Forgotten({g})
  /\ UNCHANGED <<store, disk, capture, metrics, counts, purged, clashed>>

\* The last request of an older instance is done.
Finish(g) ==
  /\ stage[g] = "draining" /\ Free(g) /\ \A c \in Captures : capture[c] # g
  /\ stage' = [stage EXCEPT ![g] = "none"]
  /\ Forgotten({g})
  /\ UNCHANGED <<store, disk, capture, metrics, counts, purged, clashed>>

\* What the removal of k leaves when it is cut short: either file may go first.
Halved(k) == {files[k], [files[k] EXCEPT !.md = NoStore], [files[k] EXCEPT !.data = NoStore]}

\* The process ends, in the middle of whatever it does.
Crash ==
  /\ Active # {}
  /\ stage' = [g \in Instances |-> "none"]
  /\ Forgotten(Instances)
  /\ store' = [g \in Instances |-> Idle]
  /\ capture' = [c \in Captures |-> None]
  /\ temp' = [temp EXCEPT !.files = {}, !.left = @ \/ temp.files # {}]
  /\ collector' = FALSE /\ gauge' = None
  /\ files' \in {f \in [Keys -> UNION {Halved(k) : k \in Keys}] :
                   \A k \in Keys : f[k] \in Halved(k)}
  /\ clashed' = clashed \cup {k \in Keys : Inside(k) # {} \/ files'[k] # files[k]}
  /\ UNCHANGED <<counts, purged>>

-----------------------------------------------------------------------------
(* LoadIndex, as soon as g is provisioned.                                  *)

WrongLoadStart(g) ==
  /\ walk[g].phase = "start"
  /\ walk' = [walk EXCEPT ![g] = [phase |-> "run", todo |-> {k \in Keys : HasDir(k)}, held |-> {}]]
  /\ UNCHANGED <<stage, idx, mem, store, disk, capture, metrics, counts, ghosts>>

\* The walk takes every directory there is for an entry, that of the temporary files
\* as well.
LoadStart(g) ==
  /\ walk[g].phase = "start"
  /\ walk' = [walk EXCEPT ![g] = [phase |-> "run", todo |-> {n \in Names : HasDir(n)}, held |-> {}]]
  /\ UNCHANGED <<stage, idx, mem, store, disk, capture, metrics, counts, ghosts>>

\* A worker measures directory n, if it is still there.
LoadEntry(g, n) ==
  /\ n \in walk[g].todo
  /\ walk' = [walk EXCEPT ![g].todo = @ \ {n}, ![g].held = IF HasDir(n) THEN @ \cup {n} ELSE @]
  /\ UNCHANGED <<stage, idx, mem, store, disk, capture, metrics, counts, ghosts>>

\* The collector puts it into the index, which may be full.
LoadPut(g, n) ==
  /\ n \in walk[g].held
  /\ Put(g, n)
  /\ walk' = [walk EXCEPT ![g].held = @ \ {n}]
  /\ UNCHANGED <<stage, mem, store, disk, capture, metrics, counts, purged, missed, clashed,
                 behind>>

LoadFinish(g) ==
  /\ walk[g].phase = "run" /\ walk[g].todo \cup walk[g].held = {}
  /\ walk' = [walk EXCEPT ![g] = NotWalking]
  /\ UNCHANGED <<stage, idx, mem, store, disk, capture, metrics, counts, ghosts>>

-----------------------------------------------------------------------------
(* Stores.                                                                 *)

NextStore == Spend("stores") /\ lastStore' = lastStore + 1

StoreInMemory(g, k) ==
  /\ Free(g) /\ NextStore
  /\ mem' = [mem EXCEPT ![g][k] = lastStore']
  /\ UNCHANGED <<stage, idx, walk, store, disk, capture, metrics, ghosts>>

WrongMeta(k, n) == IF files[k].md = NoStore THEN n ELSE files[k].md

\* metadata.json is written anew.
Meta(k, n) == n

\* The directory is made if it is not there.
StoreMeta(g, k) ==
  /\ Free(g) /\ NextStore
  /\ files' = [files EXCEPT ![k].md = Meta(k, lastStore')]
  /\ clashed' = IF Inside(k) = {} THEN clashed ELSE clashed \cup {k}
  /\ Behind(g, k, TRUE)
  /\ store' = [store EXCEPT ![g] = [pc |-> "data", key |-> k, n |-> lastStore']]
  /\ UNCHANGED <<stage, idx, mem, walk, temp, capture, metrics, purged, missed, dropped>>

\* The data file is made, or written anew.
StoreData(g) ==
  /\ store[g].pc = "data" /\ HasDir(store[g].key)
  /\ LET k == store[g].key IN
       /\ files' = [files EXCEPT ![k].data = store[g].n]
       /\ clashed' = IF Inside(k) = {g} /\ files[k].md = store[g].n
                       THEN clashed \ {k} ELSE clashed
  /\ store' = [store EXCEPT ![g].pc = "put"]
  /\ UNCHANGED <<stage, idx, mem, walk, temp, capture, metrics, counts, purged, missed, behind,
                 dropped>>

\* It needs its directory, which another instance has removed meanwhile.
StoreDataFails(g) ==
  /\ store[g].pc = "data" /\ ~HasDir(store[g].key)
  /\ store' = [store EXCEPT ![g] = Idle]
  /\ UNCHANGED <<stage, idx, mem, walk, disk, capture, metrics, counts, ghosts>>

\* Or has removed the files of, and not yet the directory itself: that stays now, with
\* a body that has no metadata.
StoreDataCrossed(g) ==
  /\ store[g].pc = "data" /\ ~HasDir(store[g].key)
  /\ LET k == store[g].key IN
       /\ files' = [files EXCEPT ![k].data = store[g].n]
       /\ clashed' = clashed \cup {k}
       /\ Behind(g, k, TRUE)
  /\ store' = [store EXCEPT ![g].pc = "put"]
  /\ UNCHANGED <<stage, idx, mem, walk, temp, capture, metrics, counts, purged, missed, dropped>>

\* The limits of g may cost any entry of its index its place.
Evict(g, n) ==
  /\ store[g].pc = "put" /\ n \in idx[g]
  /\ Delete(g, n)
  /\ UNCHANGED <<stage, mem, walk, store, capture, metrics, counts, purged, missed, clashed,
                 dropped>>

StorePut(g) ==
  /\ store[g].pc = "put"
  /\ Put(g, store[g].key)
  /\ store' = [store EXCEPT ![g] = Idle]
  /\ UNCHANGED <<stage, mem, walk, disk, capture, metrics, counts, purged, missed, clashed,
                 behind>>

-----------------------------------------------------------------------------
(* Removals.                                                               *)

\* A reader found the entry expired: purgeAsync, under the key mutex.
PurgeAsync(g, k) ==
  /\ g \in Active /\ store[g].key # k
  /\ mem[g][k] # NoStore \/ k \in idx[g]
  /\ mem' = [mem EXCEPT ![g][k] = NoStore]
  /\ IF k \in idx[g] THEN Delete(g, k) ELSE UNCHANGED <<idx, disk, behind>>
  /\ UNCHANGED <<stage, walk, store, capture, metrics, counts, purged, missed, clashed, dropped>>

\* The purge endpoint of g finds k in either tier.
Listed(g, k) == mem[g][k] # NoStore \/ (k \in idx[g] /\ HasDir(k))

WrongPurge(g, k) ==
  /\ Free(g)
  /\ purged' = [purged EXCEPT ![k] = lastStore]
  /\ missed' = [missed EXCEPT ![k] = {h \in Instances \ {g} : mem[h][k] # NoStore}]
  /\ mem' = [mem EXCEPT ![g][k] = NoStore]
  /\ idx' = [idx EXCEPT ![g] = @ \ {k}]
  /\ UNCHANGED <<stage, walk, store, disk, capture, metrics, counts, clashed, behind, dropped>>

\* It does not reach the memory of another instance, nor files it has not indexed.
Purge(g, k) ==
  /\ Free(g)
  /\ LET seen == Listed(g, k) /\ k \in idx[g] IN
       /\ missed' = [missed EXCEPT ![k] =
                       {h \in Instances \ {g} : mem[h][k] # NoStore}
                       \cup (IF HasDir(k) /\ ~seen THEN {None} ELSE {})]
       /\ IF seen THEN Delete(g, k) ELSE UNCHANGED <<idx, disk, behind>>
  /\ purged' = [purged EXCEPT ![k] = lastStore]
  /\ mem' = [mem EXCEPT ![g][k] = NoStore]
  /\ UNCHANGED <<stage, walk, store, capture, metrics, counts, clashed, dropped>>

WrongFlush(g) ==
  /\ Free(g)
  /\ Removed(idx[g])
  /\ idx' = [idx EXCEPT ![g] = {}]
  /\ mem' = [mem EXCEPT ![g] = NothingInMemory]
  /\ walk' = [walk EXCEPT ![g] = IF @.phase = "start" THEN @ ELSE NotWalking]
  /\ behind' = [h \in Instances |-> IF h = g THEN {} ELSE behind[h] \cup idx[g]]
  /\ purged' = [k \in Keys |-> lastStore]
  /\ missed' = [k \in Keys |-> {h \in Instances \ {g} : mem[h][k] # NoStore}]
  /\ dropped' = [dropped EXCEPT ![g] = {}]
  /\ UNCHANGED <<stage, store, capture, metrics, counts, clashed>>

\* A purge without paths empties the whole directory, for every instance. A LoadIndex
\* under way goes on with the index it began with.
Flush(g) ==
  /\ Free(g)
  /\ Removed(Names)
  /\ idx' = [idx EXCEPT ![g] = {}]
  /\ mem' = [mem EXCEPT ![g] = NothingInMemory]
  /\ walk' = [walk EXCEPT ![g] = IF @.phase = "start" THEN @ ELSE NotWalking]
  /\ behind' = [h \in Instances |->
                  IF h = g THEN {} ELSE behind[h] \cup {n \in Names : h \in Relies(n)}]
  /\ purged' = [k \in Keys |-> lastStore]
  /\ missed' = [k \in Keys |-> {h \in Instances \ {g} : mem[h][k] # NoStore}]
  /\ dropped' = [dropped EXCEPT ![g] = {}]
  /\ UNCHANGED <<stage, store, capture, metrics, counts, clashed>>

-----------------------------------------------------------------------------
(* Captures in temporary files, under no lock.                              *)

\* switchToStreaming makes the directory and a file in it.
BeginCapture(g, c) ==
  /\ g \in Active /\ capture[c] = None /\ Spend("captures")
  /\ capture' = [capture EXCEPT ![c] = g]
  /\ temp' = [temp EXCEPT !.dir = TRUE, !.files = @ \cup {c}]
  /\ behind' = [h \in Instances |->
                  IF ~temp.dir /\ h \in Relies(Temp) THEN behind[h] \cup {Temp} ELSE behind[h]]
  /\ UNCHANGED <<stage, idx, mem, walk, store, files, metrics, lastStore, purged, missed,
                 clashed, dropped>>

\* Close removes the file, if it still has its name, and leaves the directory.
EndCapture(c) ==
  /\ capture[c] # None
  /\ capture' = [capture EXCEPT ![c] = None]
  /\ temp' = [temp EXCEPT !.files = @ \ {c}]
  /\ UNCHANGED <<stage, idx, mem, walk, store, files, metrics, counts, ghosts>>

-----------------------------------------------------------------------------
Next ==
  \/ \E g \in Instances :
       \/ Provision(g) \/ Start(g) \/ Reject(g) \/ Finish(g)
       \/ LoadStart(g) \/ LoadFinish(g)
       \/ StoreData(g) \/ StoreDataFails(g) \/ StoreDataCrossed(g) \/ StorePut(g)
       \/ Flush(g)
  \/ \E g \in Instances, n \in Names : LoadEntry(g, n) \/ LoadPut(g, n) \/ Evict(g, n)
  \/ \E g \in Instances, k \in Keys :
       \/ StoreInMemory(g, k) \/ StoreMeta(g, k)
       \/ PurgeAsync(g, k) \/ Purge(g, k)
  \/ \E g \in Instances, c \in Captures : BeginCapture(g, c)
  \/ \E c \in Captures : EndCapture(c)
  \/ Crash

Spec == Init /\ [][Next]_vars

-----------------------------------------------------------------------------
(* Properties.                                                             *)

\* The gauges show the storage that serves (metrics.go:534-549 tells how they once
\* showed a stale one), but for the time the next one takes to start, and for good
\* when that is rejected: nothing turns them back.
GaugesCurrent ==
  collector =>
    \A g \in Serving : gauge = g \/ stage[gauge] \in {"provisioned", "rejected"}

\* What a request to g gets for k, when no lock of g keeps it out.
Served(g, k) ==
  IF mem[g][k] # NoStore THEN [md |-> mem[g][k], data |-> mem[g][k]]
  ELSE IF k \in idx[g] /\ files[k].md # NoStore /\ files[k].data # NoStore THEN files[k]
  ELSE NoFiles

\* An entry is served with the metadata it was stored with, also across reloads,
\* unless another instance is storing it just now or two did at once: no lock is
\* common to them. And a body without metadata, which no purge by path would find, is
\* left by nothing but a removal that another's store crossed, or that a crash cut
\* short: until the next store of the key or the eviction of the directory.
ServedWhole ==
  /\ \A g \in Active, k \in Keys :
       Free(g) => \/ Served(g, k).md = Served(g, k).data
                  \/ Inside(k) # {} \/ k \in clashed
  /\ \A k \in Keys : files[k].md = NoStore => files[k].data = NoStore \/ k \in clashed

\* What was purged is not served any more, by any instance, not after another reload
\* or a crash either. Out of a purge's reach are the memory of another instance, as
\* long as that serves, and files the purging instance had not indexed.
PurgedNotServed ==
  \A g \in Active, k \in Keys :
    Free(g) => \/ Served(g, k) = NoFiles
               \/ Served(g, k).md > purged[k] /\ Served(g, k).data > purged[k]
               \/ mem[g][k] # NoStore /\ g \in missed[k]
               \/ mem[g][k] = NoStore /\ (None \in missed[k] \/ k \in clashed)

\* The index of an instance and the directory name the same entries, whatever was
\* there when it began and whoever else is at work, except where another instance
\* wrote or removed an entry after the walk, or its own removal crossed its own
\* store or walk. And a directory is missing from the index where the LRU dropped it,
\* as it does when a walk finds more directories than the limits allow: nothing but
\* another store of the key brings that back to this instance's index.
IndexInStep ==
  \A g \in Active :
    walk[g].phase = "off" =>
      \A n \in Names \ (behind[g] \cup {store[g].key}) :
        /\ n \in idx[g] => HasDir(n)
        /\ HasDir(n) => n \in idx[g] \/ n \in dropped[g]

\* Temporary files of a process that crashed take room until an eviction or a purge of
\* everything. Every later instance can evict them, because LoadIndex takes their
\* directory for an entry (response_writer.go:534): one without metadata, that is
\* never read nor purged by path. But where its index is full, the LRU may drop that
\* very entry, and then only a purge of everything or a later instance removes them.
LeftoversEvictable ==
  temp.left => \A g \in Active : walk[g].phase = "off" => Temp \in idx[g] \/ Temp \in dropped[g]
=============================================================================
