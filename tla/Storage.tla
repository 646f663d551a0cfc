------------------------------ MODULE Storage -------------------------------
(***************************************************************************)
(* The two-tier store behind the handler: Storage (memory tier, key mutexes, *)
(* purgeAsync, Flush) over DiskCache (index, usage counters, eviction,      *)
(* LoadIndex) over the files of the cache directory.                       *)
(*                                                                         *)
(* A stored response is the number of the WRITE that stored it, so a later  *)
(* number is a later store. Of the LRU order only what it leaves open is    *)
(* kept: which entry is the oldest is MemoryCache.tla's subject, here any   *)
(* may be.                                                                 *)
(*                                                                         *)
(* Locks. The handler reads under cacheMu.RLock and stores, purges and      *)
(* flushes under cacheMu.Lock, so one writer excludes all readers. Only     *)
(* that lock keeps two readers, or a reader and a store of another key,     *)
(* apart: the key mutex is shared by readers of the key. purgeAsync takes   *)
(* the key mutex alone, and LoadIndex no lock at all. DiskCache.Delete      *)
(* peeks, then removes and accounts, and two of those may overlap.          *)
(*                                                                         *)
(* A definition whose name starts with Wrong is the one that follows it     *)
(* with a plausible bug in it; see Sidekick.tla.                            *)
(***************************************************************************)
EXTENDS Integers, FiniteSets, Functions

CONSTANTS
  Keys,         \* the cache keys
  Readers,      \* requests reading the store at a time
  Streams,      \* streamed responses open at a time
  Sizes,        \* the sizes of a response body; its metadata takes 1 more
  Configs,      \* the configurations to consider; see StorageAssumption
  Faults,       \* what may fail: "write", "flush", "crash"
  MaxWrites,    \* bound: the number of stores
  MaxRestarts,  \* bound: the number of crashes
  Evictor,      \* the eviction loop of a store, as a deleter of entries
  None

Writes  == 1..MaxWrites
Nothing == 0               \* no write: an empty slot
Torn    == MaxWrites + 1   \* a file cut short

(***************************************************************************)
(* A configuration: whether entries expire, the size up to which a body goes *)
(* to the memory tier (0 if that is off), the largest item on disk, and the *)
(* limits of the disk tier (0 for none, in all three). Nothing says that one *)
(* item fits the disk.                                                     *)
(***************************************************************************)
ASSUME StorageAssumption ==
  /\ MaxWrites \in Nat /\ MaxRestarts \in Nat
  /\ Sizes \subseteq Nat
  /\ Configs \subseteq [ttl : BOOLEAN, memItem : Nat, maxItem : Nat,
                       maxSize : Nat, maxCount : Nat]
  /\ Faults \subseteq {"write", "flush", "crash"}
  /\ Evictor \notin Readers \cup Keys /\ Readers \cap Keys = {}
  /\ None \notin Keys

\* Who may be inside DiskCache.Delete: a reader that found an expired entry, the
\* purgeAsync goroutine of a key (named by the key), a store making room.
Deleters == Readers \cup Keys \cup {Evictor}

VARIABLES
  config,          \* the configuration, one of Configs
  mem,             \* mem[k]: the write in the memory tier, or Nothing
  idx,             \* idx[k]: the size in DiskCache's index, 0 if not indexed
  files,           \* files[k]: the writes in metadata.json and in data
  usage, count,    \* DiskCache.diskUsage and diskItemCount
  op,              \* the store under way, under cacheMu.Lock
  deleting,        \* deleting[d]: the entry d peeked at and is about to remove
  pending,         \* the keys with a purgeAsync goroutine yet to run
  load,            \* LoadIndex
  streams,         \* the open data files being sent to clients
  lastWrite,       \* the number of stores so far
  sizeOf,          \* the body size of each
  expired,         \* writes up to this one have outlived the TTL
  restarts,
  purged,          \* ghost: purged[k]: the last write before k's last purge
  drift,           \* ghost: the counters have missed a change of the index
  flaw             \* ghost: flaw[k]: what went wrong with k's files

counters == <<usage, count>>
history == <<config, lastWrite, sizeOf, expired, restarts>>
vars == <<mem, idx, files, counters, op, deleting, pending, load, streams,
          history, purged, drift, flaw>>

-----------------------------------------------------------------------------
NoFiles == [md |-> Nothing, data |-> Nothing]
NoStream == [key |-> None, attached |-> FALSE, sent |-> {}]
Idle == [pc |-> "idle", key |-> None, seen |-> 0, full |-> FALSE, victims |-> {}]
NotLoading == [phase |-> "off", todo |-> {}, held |-> [k \in Keys |-> 0],
               size |-> 0, count |-> 0]
StartLoading == [NotLoading EXCEPT !.phase = "start"]

HasDir(k)   == files[k] # NoFiles
Indexed     == {k \in Keys : idx[k] # 0}
Expired(w)  == config.ttl /\ w <= expired
Readable(k) == files[k].md \in Writes   \* metadata.json parses

\* What the directory of k takes. A file cut short is as good as empty.
DirSize(k) == 1 + (IF files[k].data \in Writes THEN sizeOf[files[k].data] ELSE 0)

Removes(d, k) == deleting[d] # None /\ deleting[d].key = k

\* A writer has cacheMu: no reader is inside, nor another writer.
WriterMayEnter == op.pc = "idle" /\ \A r \in Readers : deleting[r] = None

\* The key mutex of k is not held for writing by purgeAsync.
KeyFree(k) == deleting[k] = None

\* os.RemoveAll of the directory of k.
Removed(k) == [files EXCEPT ![k] = NoFiles]

\* An open stream keeps the inode of a removed file, out of reach of any store.
Detached(S) ==
  [x \in Streams |-> IF streams[x].key \in S
                       THEN [streams[x] EXCEPT !.attached = FALSE]
                       ELSE streams[x]]

Init ==
  /\ config \in Configs
  /\ mem = [k \in Keys |-> Nothing]
  /\ idx = [k \in Keys |-> 0]
  /\ files = [k \in Keys |-> NoFiles]
  /\ usage = 0 /\ count = 0
  /\ op = Idle
  /\ deleting = [d \in Deleters |-> None]
  /\ pending = {}
  /\ load = StartLoading
  /\ streams = [x \in Streams |-> NoStream]
  /\ lastWrite = 0
  /\ sizeOf = [w \in Writes |-> 0]
  /\ expired = 0
  /\ restarts = 0
  /\ purged = [k \in Keys |-> 0]
  /\ drift = FALSE
  /\ flaw = [k \in Keys |-> {}]

-----------------------------------------------------------------------------
(* DiskCache.Delete: Peek, then the rest. *)

\* Delete finds k in the index and remembers its size.
Peek(d, k) == deleting' = [deleting EXCEPT ![d] = [key |-> k, size |-> idx[k]]]

\* The rest of Delete: out of the index, off the counters, off the disk. The
\* counters go down by what was peeked, whether or not the entry is still there.
DeleteRest(d) ==
  /\ deleting[d] # None
  /\ LET k == deleting[d].key IN
       /\ idx' = [idx EXCEPT ![k] = 0]
       /\ usage' = usage - deleting[d].size
       /\ count' = count - 1
       /\ files' = Removed(k)
       /\ streams' = Detached({k})
       /\ drift' = (drift \/ idx[k] # deleting[d].size \/ load.phase = "run")
       /\ flaw' = [flaw EXCEPT ![k] = IF op.key = k THEN {"gone"} ELSE {}]
       /\ op' = IF d = Evictor THEN [op EXCEPT !.seen = usage'] ELSE op
  /\ deleting' = [deleting EXCEPT ![d] = None]
  /\ UNCHANGED <<mem, pending, load, history, purged>>

-----------------------------------------------------------------------------
(* Reads, under cacheMu.RLock and the key mutex. A hit changes nothing here,  *)
(* but for a data file left open; see Served.                                *)

MayRead(k) == op.pc = "idle" /\ KeyFree(k)

\* Get or GetReader finds an expired entry in the memory tier: purgeAsync.
ReadExpiredInMemory(k) ==
  /\ MayRead(k)
  /\ mem[k] # Nothing /\ Expired(mem[k])
  /\ pending' = pending \cup {k}
  /\ UNCHANGED <<mem, idx, files, counters, op, deleting, load, streams,
                 history, purged, drift, flaw>>

\* GetReader finds an expired entry on disk and deletes it; so does Get, which
\* calls purgeAsync as well.
ReadExpiredOnDisk(r, k) ==
  /\ MayRead(k)
  /\ deleting[r] = None
  /\ mem[k] = Nothing /\ idx[k] # 0
  /\ Readable(k) /\ Expired(files[k].md)
  /\ Peek(r, k)
  /\ pending' \in {pending, pending \cup {k}}
  /\ UNCHANGED <<mem, idx, files, counters, op, load, streams, history,
                 purged, drift, flaw>>

\* GetReader hands out the open data file; the locks are released while it is
\* being sent.
OpenStream(x, k) ==
  /\ MayRead(k)
  /\ streams[x].key = None
  /\ mem[k] = Nothing /\ idx[k] # 0
  /\ Readable(k) /\ ~Expired(files[k].md) /\ files[k].data # Nothing
  /\ streams' = [streams EXCEPT ![x] =
                   [key |-> k, attached |-> TRUE, sent |-> {files[k].data}]]
  /\ UNCHANGED <<mem, idx, files, counters, op, deleting, pending, load,
                 history, purged, drift, flaw>>

CloseStream(x) ==
  /\ streams[x].key # None
  /\ streams' = [streams EXCEPT ![x] = NoStream]
  /\ UNCHANGED <<mem, idx, files, counters, op, deleting, pending, load,
                 history, purged, drift, flaw>>

WrongPurgeAsyncUnchecked(k) ==
  /\ k \in pending /\ KeyFree(k)
  /\ op.key # k /\ ~\E r \in Readers : Removes(r, k)
  /\ pending' = pending \ {k}
  /\ mem' = [mem EXCEPT ![k] = Nothing]
  /\ Peek(k, k)
  /\ UNCHANGED <<idx, files, counters, op, load, streams, history, purged, drift, flaw>>

\* The purgeAsync goroutine of k gets the key mutex: Storage.Purge.
PurgeAsync(k) ==
  /\ k \in pending /\ KeyFree(k)
  /\ op.key # k /\ ~\E r \in Readers : Removes(r, k)
  /\ pending' = pending \ {k}
  /\ mem' = [mem EXCEPT ![k] = Nothing]
  /\ IF idx[k] # 0 THEN Peek(k, k) ELSE UNCHANGED deleting
  /\ UNCHANGED <<idx, files, counters, op, load, streams, history, purged,
                 drift, flaw>>

-----------------------------------------------------------------------------
(* SetWithKey, under cacheMu.Lock and the key mutex.                         *)

MayStore(k) == WriterMayEnter /\ KeyFree(k)

NewWrite(s) ==
  /\ lastWrite < MaxWrites
  /\ config.maxItem # 0 => s =< config.maxItem
  /\ lastWrite' = lastWrite + 1
  /\ sizeOf' = [sizeOf EXCEPT ![lastWrite + 1] = s]
  /\ UNCHANGED <<config, expired, restarts>>

ForMemory(s) == config.memItem > 0 /\ s =< config.memItem

\* A small body goes to the memory tier, which may evict others for it. Whatever
\* the disk tier has of k stays there.
StoreInMemory(k, s) ==
  /\ MayStore(k) /\ ForMemory(s) /\ NewWrite(s)
  /\ \E gone \in SUBSET (Keys \ {k}) :
       mem' = [j \in Keys |-> IF j = k THEN lastWrite'
                              ELSE IF j \in gone THEN Nothing ELSE mem[j]]
  /\ UNCHANGED <<idx, files, counters, op, deleting, pending, load, streams,
                 purged, drift, flaw>>

\* A large one goes to disk. Whatever the memory tier has of k stays there.
StoreOnDisk(k, s) ==
  /\ MayStore(k) /\ ~ForMemory(s) /\ NewWrite(s)
  /\ op' = [Idle EXCEPT !.pc = "meta", !.key = k]
  /\ UNCHANGED <<mem, idx, files, counters, deleting, pending, load, streams,
                 purged, drift, flaw>>

\* The data file of k is rewritten in place, so a stream attached to it reads on
\* in what write w left there.
Rewritten(k, w) ==
  [x \in Streams |-> IF streams[x].key = k /\ streams[x].attached
                       THEN [streams[x] EXCEPT !.sent = @ \cup {w}]
                       ELSE streams[x]]

StoreMeta ==
  /\ op.pc = "meta"
  /\ files' = [files EXCEPT ![op.key].md = lastWrite]
  /\ op' = [op EXCEPT !.pc = "data"]
  /\ UNCHANGED <<mem, idx, counters, deleting, pending, load, streams, history,
                 purged, drift, flaw>>

StoreData ==
  /\ op.pc = "data"
  /\ files' = [files EXCEPT ![op.key].data = lastWrite]
  /\ streams' = Rewritten(op.key, lastWrite)
  /\ op' = [op EXCEPT !.pc = "put"]
  /\ flaw' = [flaw EXCEPT ![op.key] = {}]
  /\ UNCHANGED <<mem, idx, counters, deleting, pending, load, history, purged, drift>>

\* The files a store may leave behind when it stops where it is.
Interrupted ==
  {files} \cup
  CASE op.pc = "meta" -> {[files EXCEPT ![op.key].md = Torn]}
    [] op.pc = "data" -> {[files EXCEPT ![op.key].data = Torn]}
    [] OTHER -> {}

Cut(k) == IF op.key = k /\ files'[k].md # files'[k].data THEN {"cut"} ELSE {}

\* Writing either file fails. What was written stays, and so does the index.
StoreFails ==
  /\ op.pc \in {"meta", "data"} /\ "write" \in Faults
  /\ files' \in Interrupted
  /\ streams' = IF files'[op.key].data = Torn THEN Rewritten(op.key, Torn) ELSE streams
  /\ op' = Idle
  /\ flaw' = [k \in Keys |-> flaw[k] \cup Cut(k)]
  /\ UNCHANGED <<mem, idx, counters, deleting, pending, load, history, purged, drift>>

TooLarge(k) == config.maxItem # 0 /\ DirSize(k) > config.maxItem

\* DiskCache.Put refuses an item that is too large together with its metadata, and
\* SetWithKey removes the files; an older entry of k stays in the index.
StoreRefused ==
  /\ op.pc = "put" /\ TooLarge(op.key)
  /\ files' = Removed(op.key)
  /\ streams' = Detached({op.key})
  /\ flaw' = [flaw EXCEPT ![op.key] = IF idx[op.key] # 0 THEN {"gone"} ELSE {}]
  /\ drift' = (drift \/ load.phase = "run")
  /\ op' = Idle
  /\ UNCHANGED <<mem, idx, counters, deleting, pending, load, history, purged>>

\* checkAndEvict reads both counters.
StorePut ==
  /\ op.pc = "put" /\ ~TooLarge(op.key)
  /\ op' = [op EXCEPT !.pc = "space", !.seen = usage,
              !.full = config.maxCount # 0 /\ count >= config.maxCount]
  /\ UNCHANGED <<mem, idx, files, counters, deleting, pending, load, streams, history,
                 purged, drift, flaw>>

NewSize == 1 + sizeOf[lastWrite]
WrongNeedsSpace == config.maxSize # 0 /\ op.seen > config.maxSize /\ Indexed # {}

NeedsSpace == config.maxSize # 0 /\ op.seen + NewSize > config.maxSize /\ Indexed # {}

\* The oldest entry goes, the one being replaced if that is it.
EvictForSpace(v) ==
  /\ op.pc = "space" /\ deleting[Evictor] = None
  /\ NeedsSpace /\ v \in Indexed
  /\ Peek(Evictor, v)
  /\ UNCHANGED <<mem, idx, files, counters, op, pending, load, streams, history,
                 purged, drift, flaw>>

\* evictForCount picks its victims, the oldest, all at once.
PickForCount ==
  /\ op.pc = "space" /\ deleting[Evictor] = None /\ ~NeedsSpace
  /\ LET n == IF op.full THEN count - config.maxCount + 1 ELSE 0 IN
     \E S \in SUBSET Indexed :
       /\ IF n =< 0 THEN S = {} ELSE Cardinality(S) = n \/ (Cardinality(S) < n /\ S = Indexed)
       /\ op' = [op EXCEPT !.pc = "count", !.victims = S]
  /\ UNCHANGED <<mem, idx, files, counters, deleting, pending, load, streams, history,
                 purged, drift, flaw>>

EvictForCount(v) ==
  /\ op.pc = "count" /\ deleting[Evictor] = None
  /\ v \in op.victims
  /\ op' = [op EXCEPT !.victims = @ \ {v}]
  /\ IF idx[v] # 0 THEN Peek(Evictor, v) ELSE UNCHANGED deleting
  /\ UNCHANGED <<mem, idx, files, counters, pending, load, streams, history, purged,
                 drift, flaw>>

\* A new entry needs room in the LRU's count, one that is replaced does not.
CountFits(k, S) == idx[k] # 0 \/ config.maxCount = 0 \/ Cardinality(S) < config.maxCount

SizeFits(k, s, S) ==
  \/ config.maxSize = 0
  \/ SumFunctionOnSet(IF idx[k] = 0 THEN idx ELSE [idx EXCEPT ![k] = s], S)
       =< config.maxSize

\* What MemoryCache.put may keep of the index when k comes in with size s: it drops
\* the oldest entries until the rest fit, the files and counters of those untouched.
\* An entry that is replaced is the newest, and goes last: alone, and dearer than the
\* limit.
Kept(k, s) ==
  LET fits(S) == CountFits(k, S) /\ SizeFits(k, s, S)
  IN {S \in SUBSET Indexed :
        /\ k \in Indexed \ S => S = {} /\ ~fits({k})
        /\ fits(S)
        /\ S = Indexed \/ \E v \in Indexed \ S : ~fits(S \cup {v})}

\* The index after MemoryCache.put, when the entries S stay. A new entry always
\* goes in, whatever its size.
Put(k, s, S) ==
  [j \in Keys |-> IF j = k /\ (idx[k] = 0 \/ k \in S) THEN s
                  ELSE IF j \in S THEN idx[j] ELSE 0]

\* The counters take the new entry in, and the one it replaces out.
WrongCountAsNew(k, s) == usage' = usage + s /\ count' = count + 1

CountEntry(k, s) ==
  /\ usage' = usage + s - idx[k]
  /\ count' = IF idx[k] = 0 THEN count + 1 ELSE count

StoreInsert ==
  /\ op.pc = "count" /\ op.victims = {} /\ deleting[Evictor] = None
  /\ \E S \in Kept(op.key, NewSize) :
       /\ idx' = Put(op.key, NewSize, S)
       /\ drift' = (drift \/ S # Indexed \/ load.phase = "run")
  /\ CountEntry(op.key, NewSize)
  /\ op' = Idle
  /\ UNCHANGED <<mem, files, deleting, pending, load, streams, history, purged, flaw>>

-----------------------------------------------------------------------------
(* The purge endpoint, under cacheMu.Lock.                                   *)

\* Storage.List names k, and its metadata can be read to compare the path.
Listed(k) == mem[k] # Nothing \/ (idx[k] # 0 /\ Readable(k))

WrongPurgeFirstTier(k) ==
  /\ MayStore(k)
  /\ purged' = [purged EXCEPT ![k] = lastWrite]
  /\ mem' = [mem EXCEPT ![k] = Nothing]
  /\ IF mem[k] = Nothing /\ idx[k] # 0
       THEN /\ idx' = [idx EXCEPT ![k] = 0] /\ files' = Removed(k)
            /\ usage' = usage - idx[k] /\ count' = count - 1
       ELSE UNCHANGED <<idx, counters, files>>
  /\ UNCHANGED <<op, deleting, pending, load, streams, history, drift, flaw>>

\* A purge of k's path removes k from both tiers if it is listed at all.
PurgeKey(k) ==
  /\ MayStore(k)
  /\ purged' = [purged EXCEPT ![k] = lastWrite]
  /\ IF Listed(k) /\ idx[k] # 0
       THEN /\ idx' = [idx EXCEPT ![k] = 0]
            /\ usage' = usage - idx[k] /\ count' = count - 1
            /\ files' = Removed(k)
            /\ streams' = Detached({k})
            /\ flaw' = [flaw EXCEPT ![k] = {}]
            /\ drift' = (drift \/ load.phase = "run")
       ELSE /\ flaw' = [flaw EXCEPT ![k] = IF HasDir(k) THEN @ \cup {"unseen"} ELSE @]
            /\ UNCHANGED <<idx, counters, files, streams, drift>>
  /\ mem' = [mem EXCEPT ![k] = Nothing]
  /\ UNCHANGED <<op, deleting, pending, load, history>>

WrongFlushKeepsIndex ==
  /\ WriterMayEnter
  /\ files' = [k \in Keys |-> NoFiles]
  /\ streams' = Detached(Keys)
  /\ flaw' = [k \in Keys |-> {}]
  /\ mem' = [k \in Keys |-> Nothing]
  /\ purged' = [k \in Keys |-> lastWrite]
  /\ UNCHANGED <<idx, counters, op, deleting, pending, load, history, drift>>

\* A purge without paths: new, empty caches over an emptied directory. The error
\* of a failed removal is shadowed, so the caches are replaced all the same. A
\* LoadIndex or a Delete under way goes on with the cache it began with.
Flush ==
  /\ WriterMayEnter
  /\ \E left \in IF "flush" \in Faults THEN SUBSET Keys ELSE {{}} :
       /\ files' = [k \in Keys |-> IF k \in left THEN files[k] ELSE NoFiles]
       /\ streams' = Detached(Keys \ left)
  /\ flaw' = [k \in Keys |-> IF files'[k] = NoFiles THEN {} ELSE flaw[k] \cup {"unseen"}]
  /\ mem' = [k \in Keys |-> Nothing]
  /\ idx' = [k \in Keys |-> 0]
  /\ usage' = 0 /\ count' = 0 /\ drift' = FALSE
  /\ deleting' = [d \in Deleters |-> None]
  /\ load' = IF load.phase = "start" THEN load ELSE NotLoading
  /\ purged' = [k \in Keys |-> lastWrite]
  /\ UNCHANGED <<op, pending, history>>

Expire ==
  /\ config.ttl /\ expired < lastWrite
  /\ expired' = expired + 1
  /\ UNCHANGED <<mem, idx, files, counters, op, deleting, pending, load, streams,
                 config, lastWrite, sizeOf, restarts, purged, drift, flaw>>

-----------------------------------------------------------------------------
(* Restart: NewStorage over the files the last run left, and LoadIndex.      *)

Restart ==
  /\ "crash" \in Faults /\ restarts < MaxRestarts
  /\ restarts' = restarts + 1
  /\ files' \in Interrupted
  /\ flaw' = [k \in Keys |-> (flaw[k] \cup Cut(k)) \ {"gone"}]
  /\ mem' = [k \in Keys |-> Nothing]
  /\ idx' = [k \in Keys |-> 0]
  /\ usage' = 0 /\ count' = 0 /\ drift' = FALSE
  /\ op' = Idle
  /\ deleting' = [d \in Deleters |-> None]
  /\ pending' = {}
  /\ load' = StartLoading
  /\ streams' = [x \in Streams |-> NoStream]
  /\ UNCHANGED <<config, lastWrite, sizeOf, expired, purged>>

\* The walk lists the directories there are.
LoadStart ==
  /\ load.phase = "start"
  /\ load' = [load EXCEPT !.phase = "run", !.todo = {k \in Keys : HasDir(k)}]
  /\ drift' = (drift \/ \E k \in Indexed : ~HasDir(k))
  /\ UNCHANGED <<mem, idx, files, counters, op, deleting, pending, streams, history,
                 purged, flaw>>

\* A worker measures the directory of k, if it is still there.
LoadEntry(k) ==
  /\ k \in load.todo
  /\ load' = [load EXCEPT !.todo = @ \ {k},
                          !.held[k] = IF HasDir(k) THEN DirSize(k) ELSE 0]
  /\ UNCHANGED <<mem, idx, files, counters, op, deleting, pending, streams, history,
                 purged, drift, flaw>>

\* The collector puts it into the index; the counters have to wait.
LoadPut(k) ==
  /\ load.held[k] # 0
  /\ \E S \in Kept(k, load.held[k]) :
       /\ idx' = Put(k, load.held[k], S)
       /\ drift' = (drift \/ S # Indexed)
  /\ load' = [load EXCEPT !.held[k] = 0, !.size = @ + load.held[k], !.count = @ + 1]
  /\ flaw' = [flaw EXCEPT ![k] = IF HasDir(k) THEN @ ELSE {"gone"}]
  /\ UNCHANGED <<mem, files, counters, op, deleting, pending, streams, history, purged>>

\* The counters are set, not added to; a store may be evicting by the old ones.
LoadFinish ==
  /\ load.phase = "run" /\ load.todo = {} /\ \A k \in Keys : load.held[k] = 0
  /\ usage' = load.size /\ count' = load.count
  /\ drift' = (drift \/ op.pc \in {"space", "count"})
  /\ load' = NotLoading
  /\ UNCHANGED <<mem, idx, files, op, deleting, pending, streams, history, purged,
                 flaw>>

-----------------------------------------------------------------------------
Next ==
  \/ \E k \in Keys :
       \/ ReadExpiredInMemory(k)
       \/ PurgeAsync(k)
       \/ PurgeKey(k)
       \/ EvictForSpace(k)
       \/ EvictForCount(k)
       \/ LoadEntry(k)
       \/ LoadPut(k)
  \/ \E k \in Keys, r \in Readers : ReadExpiredOnDisk(r, k)
  \/ \E k \in Keys, x \in Streams : OpenStream(x, k)
  \/ \E k \in Keys, s \in Sizes : StoreInMemory(k, s) \/ StoreOnDisk(k, s)
  \/ \E x \in Streams : CloseStream(x)
  \/ \E d \in Deleters : DeleteRest(d)
  \/ StoreMeta \/ StoreData \/ StoreFails \/ StoreRefused
  \/ StorePut \/ PickForCount \/ StoreInsert
  \/ Flush \/ Expire \/ Restart
  \/ LoadStart \/ LoadFinish

Spec == Init /\ [][Next]_vars

-----------------------------------------------------------------------------
(* Properties *)

FileState == [md : Writes \cup {Nothing, Torn}, data : Writes \cup {Nothing, Torn}]

\* Every variable has its type; what a purge or eviction in flight peeked at was
\* indexed.
TypeOK ==
  /\ config \in Configs
  /\ mem \in [Keys -> Writes \cup {Nothing}]
  /\ idx \in [Keys -> Nat]
  /\ files \in [Keys -> FileState]
  /\ usage \in Int /\ count \in Int
  /\ op \in [pc : {"idle", "meta", "data", "put", "space", "count"},
             key : Keys \cup {None}, seen : Int, full : BOOLEAN,
             victims : SUBSET Keys]
  /\ \A d \in Deleters :
       deleting[d] = None \/ deleting[d] \in [key : Keys, size : Nat \ {0}]
  /\ pending \subseteq Keys
  /\ load \in [phase : {"off", "start", "run"}, todo : SUBSET Keys,
               held : [Keys -> Nat], size : Nat, count : Nat]
  /\ streams \in [Streams -> [key : Keys \cup {None}, attached : BOOLEAN,
                              sent : SUBSET (Writes \cup {Torn})]]
  /\ lastWrite \in 0..MaxWrites /\ expired \in 0..lastWrite
  /\ sizeOf \in [Writes -> Nat]
  /\ restarts \in 0..MaxRestarts
  /\ purged \in [Keys -> 0..lastWrite]
  /\ drift \in BOOLEAN
  /\ flaw \in [Keys -> SUBSET {"gone", "cut", "unseen"}]

\* The counters are the sizes and the number of the entries in the index
\* (storage_disk.go:33-34), through stores, replacements, evictions, purges and
\* the load, unless two Deletes of one entry overlapped, LoadIndex overwrote a
\* change made while it ran, or the LRU dropped an entry on its own.
CountersMatchIndex ==
  drift \/ load.phase = "run" \/
    (usage = SumFunction(idx) /\ count = Cardinality(Indexed))

\* A store that ends leaves no more on the disk than the limit, its own files and
\* those of every other key counted, unless drift or a failed store or purge is
\* behind it. LoadIndex may leave more, until the next store. An entry larger than
\* the whole limit goes in all the same, when everything else has been evicted for
\* it: then it is the only one there is.
StoreMakesRoom ==
  [][ op.pc = "count" /\ op'.pc = "idle" =>
        \/ config.maxSize = 0 \/ drift' \/ load'.phase # "off"
        \/ \E k \in Keys : flaw'[k] # {}
        \/ SumFunctionOnSet([k \in Keys |-> DirSize(k)'],
                            {k \in Keys : files'[k] # NoFiles}) =< config.maxSize
        \/ NewSize > config.maxSize /\ {k \in Keys : files'[k] # NoFiles} = {op.key} ]_vars

\* The index (DiskCache.lru) and the directory name the same entries. A directory
\* without an index entry is not evicted, purged or read until the next start: it
\* takes a failed store, an unfinished load or the LRU's silent drop to leave one. An
\* index entry without a directory is counted, and every read of it fails: only a
\* store that removed its own files, or a load that came after a removal, leaves one.
IndexMatchesFiles ==
  \A k \in Keys :
    /\ HasDir(k) => \/ idx[k] # 0 \/ op.key = k \/ drift \/ load.phase # "off"
                    \/ flaw[k] \cap {"cut", "unseen"} # {}
    /\ idx[k] # 0 => HasDir(k) \/ "gone" \in flaw[k]

\* storage.go:293: "a response already in flight completes correctly even if the
\* entry is evicted mid-stream". A store rewrites the very file a stream reads.
StreamOneWrite == \A x \in Streams : Cardinality(streams[x].sent) =< 1

\* The copy of k on disk, if it can be read; while it is being rewritten, none.
OnDisk(k) ==
  IF (op.key = k /\ op.pc # "meta") \/ ~Readable(k) \/ files[k].data = Nothing
    THEN {} ELSE {files[k]}

InMemory(k) ==
  IF mem[k] = Nothing THEN {} ELSE {[md |-> mem[k], data |-> mem[k]]}

CacheOfStorage == INSTANCE Cache WITH
  seen <- [k \in Keys |-> InMemory(k) \cup (IF idx[k] # 0 THEN OnDisk(k) ELSE {})],
  hidden <- [k \in Keys |-> IF idx[k] = 0 THEN OnDisk(k) ELSE {}],
  open <- op.key,
  last <- lastWrite,
  loading <- load.phase # "off"

\* The two tiers, the index and the files, with their steps and their failures, are
\* one cache to the handler: Cache.tla says what it promises. In particular a copy
\* that is lost from sight (dropped by the LRU, left by a failed flush, orphaned by
\* a crash) comes back in no other way than a load.
ImplementsCache == CacheOfStorage!Spec
=============================================================================
