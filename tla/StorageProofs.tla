---------------------------- MODULE StorageProofs ----------------------------
(***************************************************************************)
(* Theorems about Storage.tla: its types, that index and directory name the *)
(* same entries, that it implements Cache.tla, for every set of keys,       *)
(* readers and streams, every configuration and every pattern of failures;  *)
(* and, for a finite set of keys, that the usage counters are those of the  *)
(* index and that a store leaves no more on the disk than the limit.        *)
(*                                                                         *)
(* The first rest on an inductive invariant in four parts: DeleteInv, who   *)
(* may be inside DiskCache.Delete while a store is under way; OpInv, what   *)
(* the files of the key being stored hold at each of its steps; LoadInv,    *)
(* that only a running load has work to do; and IndexInv, which entries the *)
(* index may lack, the load under way included. The counters add CountInv,  *)
(* what the counters and the ones a load is making tally with, and the      *)
(* store adds RoomInv, what it knows of the room left when it has evicted.  *)
(***************************************************************************)
EXTENDS Storage, FiniteSetTheorems, WellFoundedInduction, TLAPS

-----------------------------------------------------------------------------
(* The invariant.                                                          *)

Deletion == [key : Keys, size : Nat \ {0}]
OpType == [pc : {"idle", "meta", "data", "put", "space", "count"},
           key : Keys \cup {None}, seen : Int, full : BOOLEAN, victims : SUBSET Keys]
LoadType == [phase : {"off", "start", "run"}, todo : SUBSET Keys,
             held : [Keys -> Nat], size : Nat, count : Nat]
StreamType == [key : Keys \cup {None}, attached : BOOLEAN, sent : SUBSET (Writes \cup {Torn})]

\* TypeOK, with the types of deleting and of the numbers of the writes in full.
Typed ==
  /\ TypeOK
  /\ deleting \in [Deleters -> Deletion \cup {None}]
  /\ \A k \in Keys : /\ files[k].md \in 0..lastWrite \cup {Torn}
                     /\ files[k].data \in 0..lastWrite \cup {Torn}

\* Whoever is inside Delete holds a lock that keeps it apart from the store of the
\* same key, but for that store's own evictions.
DeleteInv ==
  /\ \A r \in Readers : deleting[r] # None => op.pc = "idle"
  /\ \A k \in Keys : deleting[k] # None => deleting[k].key = k /\ op.key # k
  /\ deleting[Evictor] # None => op.pc \in {"space", "count"}

\* The files of the key being stored: the metadata first, then the body; the new entry
\* itself may be evicted before it is inserted.
OpInv ==
  /\ op.pc = "idle" <=> op.key = None
  /\ op.pc # "idle" => lastWrite > 0
  /\ op.pc \in {"meta", "data"} => files[op.key].data # lastWrite
  /\ op.pc = "data" => files[op.key].md = lastWrite
  /\ op.pc \in {"put", "space", "count"} =>
       \/ files[op.key].md = lastWrite /\ files[op.key].data = lastWrite
       \/ files[op.key] = NoFiles /\ "gone" \in flaw[op.key]

\* Nothing is left to load but by a load that runs.
LoadInv == load.phase # "run" => load.todo = {} /\ \A k \in Keys : load.held[k] = 0

\* Why a directory may not be in the index.
Excused(k) ==
  \/ op.key = k /\ op.pc # "meta"
  \/ drift
  \/ load.phase = "start" \/ k \in load.todo \/ load.held[k] # 0
  \/ flaw[k] \cap {"cut", "unseen"} # {}

IndexInv ==
  \A k \in Keys :
    /\ HasDir(k) => idx[k] # 0 \/ Excused(k)
    /\ idx[k] # 0 => HasDir(k) \/ "gone" \in flaw[k]

StorageInv == Typed /\ DeleteInv /\ OpInv /\ LoadInv /\ IndexInv

-----------------------------------------------------------------------------
(* Types.                                                                  *)

\* What the types say of the parts that the steps change.
LEMMA TypeFacts ==
  Typed =>
    /\ idx \in [Keys -> Nat]
    /\ files \in [Keys -> FileState]
    /\ op \in OpType
    /\ load \in LoadType
    /\ streams \in [Streams -> StreamType]
    /\ deleting \in [Deleters -> Deletion \cup {None}]
    /\ lastWrite \in 0..MaxWrites
    /\ sizeOf \in [Writes -> Nat]
BY DEF Typed, TypeOK, OpType, LoadType, StreamType

\* A directory takes some room.
LEMMA DirSizePositive ==
  ASSUME Typed, StorageAssumption, NEW k \in Keys
  PROVE  DirSize(k) \in Nat \ {0}
<1>1. files[k].data \in Writes => sizeOf[files[k].data] \in Nat
  BY TypeFacts
<1>2. QED
  BY <1>1 DEF DirSize

\* The size of the new entry.
LEMMA NewSizePositive ==
  ASSUME Typed, StorageAssumption, OpInv, op.pc # "idle"
  PROVE  NewSize \in Nat \ {0}
<1>1. lastWrite \in Writes
  BY TypeFacts, StorageAssumption DEF OpInv, Writes
<1>2. sizeOf[lastWrite] \in Nat
  BY <1>1, TypeFacts
<1>3. QED
  BY <1>2 DEF NewSize

\* The index after MemoryCache.put of k with size s, the entries S staying: an entry that
\* was replaced may be the last to go.
LEMMA PutIndex ==
  ASSUME NEW k \in Keys, NEW s, NEW S \in SUBSET Indexed
  PROVE  \E v \in {s, 0} :
           /\ Put(k, s, S) = [j \in Keys |-> IF j = k THEN v
                                             ELSE IF j \in S THEN idx[j] ELSE 0]
           /\ v = s \/ S # Indexed
<1>1. CASE idx[k] = 0 \/ k \in S
  BY <1>1 DEF Put
<1>2. CASE idx[k] # 0 /\ k \notin S
  <2>1. S # Indexed
    BY <1>2 DEF Indexed
  <2>2. QED
    BY <1>2, <2>1 DEF Put
<1>3. QED
  BY <1>1, <1>2

\* The index after a store put its entry into it, and the LRU made room.
LEMMA InsertedIndex ==
  ASSUME StoreInsert, op.key \in Keys
  PROVE  \E S \in SUBSET Indexed, v \in {NewSize, 0} :
           /\ idx' = [j \in Keys |-> IF j = op.key THEN v
                                     ELSE IF j \in S THEN idx[j] ELSE 0]
           /\ drift \/ S # Indexed => drift'
           /\ v = NewSize \/ S # Indexed
<1>1. PICK S \in SUBSET Indexed : /\ idx' = Put(op.key, NewSize, S)
                                  /\ drift \/ S # Indexed => drift'
  BY DEF StoreInsert, Kept
<1>2. PICK v \in {NewSize, 0} :
        /\ Put(op.key, NewSize, S) = [j \in Keys |-> IF j = op.key THEN v
                                                    ELSE IF j \in S THEN idx[j] ELSE 0]
        /\ v = NewSize \/ S # Indexed
  BY PutIndex
<1>3. QED
  BY <1>1, <1>2

\* The index after the load put k into it.
LEMMA LoadedIndex ==
  ASSUME NEW k \in Keys, LoadPut(k)
  PROVE  \E S \in SUBSET Indexed, v \in {load.held[k], 0} :
           /\ idx' = [j \in Keys |-> IF j = k THEN v
                                     ELSE IF j \in S THEN idx[j] ELSE 0]
           /\ drift' = (drift \/ S # Indexed)
           /\ v = load.held[k] \/ S # Indexed
<1>1. PICK S \in SUBSET Indexed : /\ idx' = Put(k, load.held[k], S)
                                  /\ drift' = (drift \/ S # Indexed)
  BY DEF LoadPut, Kept
<1>2. PICK v \in {load.held[k], 0} :
        /\ Put(k, load.held[k], S) = [j \in Keys |-> IF j = k THEN v
                                                     ELSE IF j \in S THEN idx[j] ELSE 0]
        /\ v = load.held[k] \/ S # Indexed
  BY PutIndex
<1>3. QED
  BY <1>1, <1>2

\* A stream that loses its file keeps what it has sent, and its type.
LEMMA DetachedTyped ==
  ASSUME streams \in [Streams -> StreamType], NEW S
  PROVE  Detached(S) \in [Streams -> StreamType]
<1>1. ASSUME NEW x \in Streams
      PROVE  [streams[x] EXCEPT !.attached = FALSE] \in StreamType
  BY DEF StreamType
<1>2. QED
  BY <1>1 DEF Detached

\* One that has its file rewritten is still a stream.
LEMMA RewrittenTyped ==
  ASSUME streams \in [Streams -> StreamType], lastWrite \in Writes
  PROVE  /\ Rewritten(op.key, lastWrite) \in [Streams -> StreamType]
         /\ Rewritten(op.key, Torn) \in [Streams -> StreamType]
<1>1. ASSUME NEW x \in Streams, NEW w \in Writes \cup {Torn}
      PROVE  [streams[x] EXCEPT !.sent = @ \cup {w}] \in StreamType
  BY DEF StreamType
<1>2. QED
  BY <1>1 DEF Rewritten

\* A store that stops where it is leaves files that have their type.
LEMMA InterruptedTyped ==
  ASSUME Typed, StorageAssumption, NEW f \in Interrupted, op.key \in Keys \/ op.pc = "idle"
  PROVE  /\ f \in [Keys -> FileState]
         /\ \A k \in Keys : /\ f[k].md \in 0..lastWrite \cup {Torn}
                            /\ f[k].data \in 0..lastWrite \cup {Torn}
         /\ \A k \in Keys : k # op.key => f[k] = files[k]
         /\ op.pc \notin {"meta", "data"} => f = files
         /\ op.pc = "meta" /\ f # files => f[op.key] = [files[op.key] EXCEPT !.md = Torn]
         /\ op.pc = "data" /\ f # files => f[op.key] = [files[op.key] EXCEPT !.data = Torn]
<1>1. CASE f = files
  BY <1>1 DEF Typed, TypeOK
<1>2. CASE f # files
  <2>1. op.pc \in {"meta", "data"}
    BY <1>2 DEF Interrupted
  <2>2. op.key \in Keys
    BY <2>1
  <2>3. ASSUME op.pc = "meta"
        PROVE  /\ f = [files EXCEPT ![op.key] = [files[op.key] EXCEPT !.md = Torn]]
               /\ [files[op.key] EXCEPT !.md = Torn] \in FileState
    <3>1. f = [files EXCEPT ![op.key].md = Torn]
      BY <2>3, <1>2 DEF Interrupted
    <3>2. files[op.key] \in FileState
      BY <2>2 DEF Typed, TypeOK
    <3>3. [files[op.key] EXCEPT !.md = Torn] \in FileState
      BY <3>2 DEF FileState
    <3>4. QED
      BY <3>1, <3>3
  <2>4. ASSUME op.pc = "data"
        PROVE  /\ f = [files EXCEPT ![op.key] = [files[op.key] EXCEPT !.data = Torn]]
               /\ [files[op.key] EXCEPT !.data = Torn] \in FileState
    <3>1. f = [files EXCEPT ![op.key].data = Torn]
      BY <2>4, <1>2 DEF Interrupted
    <3>2. files[op.key] \in FileState
      BY <2>2 DEF Typed, TypeOK
    <3>3. [files[op.key] EXCEPT !.data = Torn] \in FileState
      BY <3>2 DEF FileState
    <3>4. QED
      BY <3>1, <3>3
  <2>5. CASE op.pc = "meta"
    BY <2>2, <2>3, <2>5, TypeFacts DEF Typed, FileState
  <2>6. CASE op.pc = "data"
    BY <2>2, <2>4, <2>6, TypeFacts DEF Typed, FileState
  <2>7. QED
    BY <2>1, <2>5, <2>6
<1>3. QED
  BY <1>1, <1>2

\* Every step keeps the types.
LEMMA TypeStep ==
  ASSUME Typed, OpInv, StorageAssumption, [Next]_vars
  PROVE  Typed'
<1> USE DEF Typed, TypeOK, history, counters
<1>1. ASSUME NEW d \in Deleters, NEW k \in Keys, Peek(d, k), idx[k] # 0,
             UNCHANGED <<mem, idx, files, counters, streams, history, purged, drift, flaw>>,
             pending' \subseteq Keys, op' \in OpType, load' = load
      PROVE  Typed'
  <2>1. [key |-> k, size |-> idx[k]] \in Deletion
    BY <1>1 DEF Deletion
  <2>2. deleting' \in [Deleters -> Deletion \cup {None}]
    BY <1>1, <2>1 DEF Peek
  <2>3. QED
    BY <1>1, <2>2 DEF OpType, Deletion
<1>2. ASSUME NEW k \in Keys, ReadExpiredInMemory(k)
      PROVE  Typed'
  BY <1>2 DEF ReadExpiredInMemory
<1>3. ASSUME NEW k \in Keys, PurgeAsync(k)
      PROVE  Typed'
  <2>1. CASE idx[k] # 0
    <3>1. mem' \in [Keys -> Writes \cup {Nothing}]
      BY <1>3 DEF PurgeAsync
    <3>2. deleting' \in [Deleters -> Deletion \cup {None}]
      <4>1. [key |-> k, size |-> idx[k]] \in Deletion
        BY <2>1 DEF Deletion
      <4>2. QED
        BY <1>3, <2>1, <4>1 DEF PurgeAsync, Peek, Deleters
    <3>3. QED
      BY <1>3, <3>1, <3>2 DEF PurgeAsync, Deletion
  <2>2. CASE idx[k] = 0
    BY <1>3, <2>2 DEF PurgeAsync
  <2>3. QED
    BY <2>1, <2>2
<1>4. ASSUME NEW k \in Keys, PurgeKey(k)
      PROVE  Typed'
  <2>1. purged' \in [Keys -> 0..lastWrite] /\ mem' \in [Keys -> Writes \cup {Nothing}]
    BY <1>4 DEF PurgeKey
  <2>2. NoFiles \in FileState
    BY DEF NoFiles, FileState
  <2>3. CASE Listed(k) /\ idx[k] # 0
    <3>1. files' \in [Keys -> FileState]
      BY <1>4, <2>2, <2>3 DEF PurgeKey, Removed
    <3>2. \A j \in Keys : /\ files'[j].md \in 0..lastWrite \cup {Torn}
                          /\ files'[j].data \in 0..lastWrite \cup {Torn}
      BY <1>4, <2>3 DEF PurgeKey, Removed, NoFiles, Nothing
    <3>3. streams' \in [Streams -> StreamType]
      BY <1>4, <2>3, DetachedTyped, TypeFacts DEF PurgeKey
    <3>4. flaw' \in [Keys -> SUBSET {"gone", "cut", "unseen"}] /\ drift' \in BOOLEAN
      BY <1>4, <2>3 DEF PurgeKey
    <3>5. idx' \in [Keys -> Nat] /\ usage' \in Int /\ count' \in Int
      BY <1>4, <2>3 DEF PurgeKey
    <3>6. QED
      BY <1>4, <2>1, <3>1, <3>2, <3>3, <3>4, <3>5 DEF PurgeKey, StreamType
  <2>4. CASE ~(Listed(k) /\ idx[k] # 0)
    BY <1>4, <2>1, <2>4 DEF PurgeKey
  <2>5. QED
    BY <2>3, <2>4
<1>5. ASSUME NEW k \in Keys, EvictForSpace(k)
      PROVE  Typed'
  BY <1>1, <1>5, TypeFacts DEF EvictForSpace, Indexed, Deleters
<1>6. ASSUME NEW k \in Keys, EvictForCount(k)
      PROVE  Typed'
  <2>1. op' \in OpType
    BY <1>6, TypeFacts DEF EvictForCount, OpType
  <2>2. CASE idx[k] # 0
    BY <1>1, <1>6, <2>1, <2>2, TypeFacts DEF EvictForCount, Deleters
  <2>3. CASE idx[k] = 0
    BY <1>6, <2>1, <2>3 DEF EvictForCount, OpType
  <2>4. QED
    BY <2>2, <2>3
<1>7. ASSUME NEW k \in Keys, LoadEntry(k)
      PROVE  Typed'
  <2>1. load' \in LoadType
    BY <1>7, TypeFacts, DirSizePositive DEF LoadEntry, LoadType
  <2>2. QED
    BY <1>7, <2>1 DEF LoadEntry, LoadType
<1>8. ASSUME NEW k \in Keys, LoadPut(k)
      PROVE  Typed'
  <2>1. load' \in LoadType
    <3>1. load.held[k] \in Nat /\ load.size + load.held[k] \in Nat /\ load.count + 1 \in Nat
      BY <1>8, TypeFacts DEF LoadType
    <3>2. [load.held EXCEPT ![k] = 0] \in [Keys -> Nat]
      BY TypeFacts DEF LoadType
    <3>3. load' = [phase |-> load.phase, todo |-> load.todo,
                   held |-> [load.held EXCEPT ![k] = 0],
                   size |-> load.size + load.held[k], count |-> load.count + 1]
      BY <1>8, TypeFacts DEF LoadPut, LoadType
    <3>4. QED
      BY <3>1, <3>2, <3>3, TypeFacts DEF LoadType
  <2>2. PICK S \in SUBSET Indexed, v \in {load.held[k], 0} :
          /\ idx' = [j \in Keys |-> IF j = k THEN v ELSE IF j \in S THEN idx[j] ELSE 0]
          /\ drift' = (drift \/ S # Indexed)
          /\ v = load.held[k] \/ S # Indexed
    BY <1>8, LoadedIndex
  <2>3. idx' \in [Keys -> Nat]
    BY <2>2, TypeFacts DEF LoadType
  <2>4. flaw' \in [Keys -> SUBSET {"gone", "cut", "unseen"}] /\ drift' \in BOOLEAN
    BY <1>8 DEF LoadPut
  <2>5. QED
    BY <1>8, <2>1, <2>3, <2>4 DEF LoadPut, LoadType
<1>9. ASSUME NEW k \in Keys, NEW r \in Readers, ReadExpiredOnDisk(r, k)
      PROVE  Typed'
  BY <1>1, <1>9, TypeFacts DEF ReadExpiredOnDisk, Deleters
<1>10. ASSUME NEW k \in Keys, NEW x \in Streams, OpenStream(x, k)
       PROVE  Typed'
  <2>1. [key |-> k, attached |-> TRUE, sent |-> {files[k].data}] \in StreamType
    BY <1>10 DEF OpenStream, StreamType, FileState
  <2>2. streams' \in [Streams -> StreamType]
    BY <1>10, <2>1, TypeFacts DEF OpenStream
  <2>3. QED
    BY <1>10, <2>2 DEF OpenStream, StreamType
<1>11. ASSUME NEW s \in Sizes, NewWrite(s)
       PROVE  /\ lastWrite' \in 0..MaxWrites /\ lastWrite' = lastWrite + 1
              /\ lastWrite' \in Writes
              /\ sizeOf' \in [Writes -> Nat]
              /\ expired' \in 0..lastWrite' /\ restarts' \in 0..MaxRestarts
              /\ config' \in Configs
              /\ 0..lastWrite \subseteq 0..lastWrite'
  <2>1. /\ lastWrite' \in 0..MaxWrites /\ lastWrite' = lastWrite + 1
        /\ lastWrite' \in Writes
        /\ expired' \in 0..lastWrite' /\ restarts' \in 0..MaxRestarts
        /\ 0..lastWrite \subseteq 0..lastWrite'
    BY <1>11, StorageAssumption DEF NewWrite, Writes
  <2>2. s \in Nat
    BY StorageAssumption
  <2>3. sizeOf' \in [Writes -> Nat]
    BY <1>11, <2>2 DEF NewWrite
  <2>4. QED
    BY <1>11, <2>1, <2>3 DEF NewWrite
<1>12. ASSUME NEW k \in Keys, NEW s \in Sizes, StoreInMemory(k, s)
       PROVE  Typed'
  <2>1. NewWrite(s)
    BY <1>12 DEF StoreInMemory
  <2>2. mem' \in [Keys -> Writes \cup {Nothing}]
    BY <1>12, <2>1, <1>11 DEF StoreInMemory
  <2>3. purged' \in [Keys -> 0..lastWrite']
    BY <1>12, <2>1, <1>11 DEF StoreInMemory
  <2>4. QED
    BY <1>12, <2>1, <2>2, <2>3, <1>11 DEF StoreInMemory
<1>13. ASSUME NEW k \in Keys, NEW s \in Sizes, StoreOnDisk(k, s)
       PROVE  Typed'
  <2>1. NewWrite(s)
    BY <1>13 DEF StoreOnDisk
  <2>2. op' \in OpType
    <3>1. op' = [pc |-> "meta", key |-> k, seen |-> 0, full |-> FALSE, victims |-> {}]
      BY <1>13 DEF StoreOnDisk, Idle
    <3>2. QED
      BY <3>1 DEF OpType
  <2>3. purged' \in [Keys -> 0..lastWrite']
    BY <1>13, <2>1, <1>11 DEF StoreOnDisk
  <2>4. QED
    BY <1>13, <2>1, <2>2, <2>3, <1>11 DEF StoreOnDisk, OpType
<1>14. ASSUME NEW x \in Streams, CloseStream(x)
       PROVE  Typed'
  <2>1. NoStream \in StreamType
    BY DEF NoStream, StreamType
  <2>2. streams' \in [Streams -> StreamType]
    BY <1>14, <2>1, TypeFacts DEF CloseStream
  <2>3. QED
    BY <1>14, <2>2 DEF CloseStream, StreamType
<1>15. ASSUME NEW d \in Deleters, DeleteRest(d)
       PROVE  Typed'
  <2>1. PICK k \in Keys : k = deleting[d].key /\ deleting[d].size \in Nat
    BY <1>15 DEF DeleteRest, Deletion
  <2>2. NoFiles \in FileState
    BY DEF NoFiles, FileState
  <2>3. files' = [files EXCEPT ![k] = NoFiles]
    BY <1>15, <2>1 DEF DeleteRest, Removed
  <2>4. \A j \in Keys : /\ files'[j].md \in 0..lastWrite \cup {Torn}
                        /\ files'[j].data \in 0..lastWrite \cup {Torn}
    BY <2>3 DEF NoFiles, Nothing
  <2>5. streams' = Detached({k})
    BY <1>15, <2>1 DEF DeleteRest
  <2>6. streams' \in [Streams -> StreamType]
    BY <2>5, DetachedTyped, TypeFacts
  <2>7. flaw' \in [Keys -> SUBSET {"gone", "cut", "unseen"}] /\ drift' \in BOOLEAN
    BY <1>15, <2>1 DEF DeleteRest
  <2>8. idx' \in [Keys -> Nat] /\ usage' \in Int /\ count' \in Int
    BY <1>15, <2>1 DEF DeleteRest
  <2>9. op' \in OpType
    BY <1>15, <2>8, TypeFacts DEF DeleteRest, OpType
  <2>10. deleting' \in [Deleters -> Deletion \cup {None}]
    BY <1>15 DEF DeleteRest
  <2>11. files' \in [Keys -> FileState]
    BY <2>2, <2>3
  <2>12. QED
    BY <1>15, <2>4, <2>6, <2>7, <2>8, <2>9, <2>10, <2>11
       DEF DeleteRest, StreamType, OpType, Deletion
<1>16. ASSUME op.pc # "idle"
       PROVE  /\ op.key \in Keys
              /\ lastWrite \in Writes /\ lastWrite \in 0..lastWrite
              /\ Torn \notin Writes
  BY <1>16, StorageAssumption DEF OpInv, Writes, Torn
<1>17. CASE StoreMeta
  <2>1. op' \in OpType
    BY <1>17, TypeFacts DEF StoreMeta, OpType
  <2>2. /\ files' = [files EXCEPT ![op.key] = [files[op.key] EXCEPT !.md = lastWrite]]
        /\ [files[op.key] EXCEPT !.md = lastWrite] \in FileState
    BY <1>16, <1>17, TypeFacts DEF StoreMeta, FileState
  <2>3. \A j \in Keys : /\ files'[j].md \in 0..lastWrite \cup {Torn}
                        /\ files'[j].data \in 0..lastWrite \cup {Torn}
    BY <1>16, <1>17, <2>2, TypeFacts DEF StoreMeta, FileState
  <2>4. files' \in [Keys -> FileState]
    BY <2>2
  <2>5. QED
    BY <1>17, <2>1, <2>3, <2>4 DEF StoreMeta, OpType
<1>18. CASE StoreData
  <2>1. op' \in OpType
    BY <1>18, TypeFacts DEF StoreData, OpType
  <2>2. /\ files' = [files EXCEPT ![op.key] = [files[op.key] EXCEPT !.data = lastWrite]]
        /\ [files[op.key] EXCEPT !.data = lastWrite] \in FileState
    BY <1>16, <1>18, TypeFacts DEF StoreData, FileState
  <2>3. \A j \in Keys : /\ files'[j].md \in 0..lastWrite \cup {Torn}
                        /\ files'[j].data \in 0..lastWrite \cup {Torn}
    BY <1>16, <1>18, <2>2, TypeFacts DEF StoreData, FileState
  <2>4. files' \in [Keys -> FileState]
    BY <2>2
  <2>6. streams' \in [Streams -> StreamType]
    BY <1>16, <1>18, RewrittenTyped, TypeFacts DEF StoreData
  <2>7. flaw' \in [Keys -> SUBSET {"gone", "cut", "unseen"}]
    BY <1>18 DEF StoreData
  <2>8. QED
    BY <1>18, <2>1, <2>3, <2>4, <2>6, <2>7 DEF StoreData, OpType, StreamType
<1>19. \A k \in Keys : Cut(k) \subseteq {"gone", "cut", "unseen"}
  BY DEF Cut
<1>20. CASE StoreFails
  <2>1. op' \in OpType
    BY <1>20 DEF StoreFails, OpType, Idle
  <2>2. /\ files' \in [Keys -> FileState]
        /\ \A k \in Keys : /\ files'[k].md \in 0..lastWrite \cup {Torn}
                           /\ files'[k].data \in 0..lastWrite \cup {Torn}
    BY <1>16, <1>20, InterruptedTyped DEF StoreFails
  <2>3. streams' \in [Streams -> StreamType]
    BY <1>16, <1>20, RewrittenTyped, TypeFacts DEF StoreFails
  <2>4. flaw' \in [Keys -> SUBSET {"gone", "cut", "unseen"}]
    BY <1>20, <1>19 DEF StoreFails
  <2>5. QED
    BY <1>20, <2>1, <2>2, <2>3, <2>4 DEF StoreFails, OpType, StreamType
<1>21. CASE StoreRefused
  <2>1. op' \in OpType
    BY <1>21 DEF StoreRefused, OpType, Idle
  <2>2. PICK k \in Keys : k = op.key
    BY <1>16, <1>21 DEF StoreRefused
  <2>3. NoFiles \in FileState
    BY DEF NoFiles, FileState
  <2>4. files' = [files EXCEPT ![k] = NoFiles]
    BY <1>21, <2>2 DEF StoreRefused, Removed
  <2>5. \A j \in Keys : /\ files'[j].md \in 0..lastWrite \cup {Torn}
                        /\ files'[j].data \in 0..lastWrite \cup {Torn}
    BY <2>4 DEF NoFiles, Nothing
  <2>6. streams' = Detached({k})
    BY <1>21, <2>2 DEF StoreRefused
  <2>7. streams' \in [Streams -> StreamType]
    BY <2>6, DetachedTyped, TypeFacts
  <2>8. flaw' \in [Keys -> SUBSET {"gone", "cut", "unseen"}] /\ drift' \in BOOLEAN
    BY <1>21 DEF StoreRefused
  <2>9. files' \in [Keys -> FileState]
    BY <2>3, <2>4
  <2>10. QED
    BY <1>21, <2>1, <2>5, <2>7, <2>8, <2>9 DEF StoreRefused, OpType, StreamType
<1>22. CASE StorePut
  <2>1. op' \in OpType
    BY <1>22, TypeFacts DEF StorePut, OpType
  <2>2. QED
    BY <1>22, <2>1 DEF StorePut, OpType
<1>23. CASE PickForCount
  <2>1. op' \in OpType
    <3>1. PICK S \in SUBSET Keys : op' = [op EXCEPT !.pc = "count", !.victims = S]
      BY <1>23 DEF PickForCount, Indexed
    <3>2. QED
      BY <3>1, TypeFacts DEF OpType
  <2>2. QED
    BY <1>23, <2>1 DEF PickForCount, OpType
<1>24. CASE StoreInsert
  <2>1. op' \in OpType
    BY <1>24 DEF StoreInsert, OpType, Idle
  <2>2. PICK S \in SUBSET Indexed, v \in {NewSize, 0} :
          /\ idx' = [j \in Keys |-> IF j = op.key THEN v ELSE IF j \in S THEN idx[j] ELSE 0]
          /\ drift \/ S # Indexed => drift'
          /\ v = NewSize \/ S # Indexed
    <3>1. op.key \in Keys
      BY <1>24, TypeFacts DEF StoreInsert, OpInv, OpType
    <3>2. QED
      BY <1>24, <3>1, InsertedIndex
  <2>3. idx' \in [Keys -> Nat]
    BY <2>2, <1>24, NewSizePositive DEF StoreInsert
  <2>4. usage' \in Int /\ count' \in Int
    BY <1>16, <1>24, NewSizePositive DEF StoreInsert, CountEntry
  <2>5. drift' \in BOOLEAN
    BY <1>24 DEF StoreInsert
  <2>6. QED
    BY <1>24, <2>1, <2>3, <2>4, <2>5 DEF StoreInsert, OpType
<1>25. CASE Flush
  <2>1. PICK left : /\ files' = [k \in Keys |-> IF k \in left THEN files[k] ELSE NoFiles]
                    /\ streams' = Detached(Keys \ left)
    BY <1>25 DEF Flush
  <2>2. NoFiles \in FileState
    BY DEF NoFiles, FileState
  <2>3. files' \in [Keys -> FileState]
    BY <2>1, <2>2
  <2>4. \A j \in Keys : /\ files'[j].md \in 0..lastWrite \cup {Torn}
                        /\ files'[j].data \in 0..lastWrite \cup {Torn}
    BY <2>1 DEF NoFiles, Nothing
  <2>5. streams' \in [Streams -> StreamType]
    <3>1. PICK D : streams' = Detached(D)
      BY <2>1
    <3>2. QED
      BY <3>1, DetachedTyped, TypeFacts
  <2>6. load' \in LoadType
    BY <1>25, TypeFacts DEF Flush, NotLoading, LoadType
  <2>7. flaw' \in [Keys -> SUBSET {"gone", "cut", "unseen"}]
    BY <1>25 DEF Flush
  <2>8. deleting' \in [Deleters -> Deletion \cup {None}] /\ purged' \in [Keys -> 0..lastWrite]
    BY <1>25 DEF Flush
  <2>9. mem' \in [Keys -> Writes \cup {Nothing}] /\ idx' \in [Keys -> Nat]
    BY <1>25 DEF Flush
  <2>10. UNCHANGED <<op, pending, config, lastWrite, sizeOf, expired, restarts>>
    BY <1>25 DEF Flush
  <2>11. drift' \in BOOLEAN
    BY <1>25, Zenon DEF Flush
  <2>12. usage' \in Int /\ count' \in Int
    BY <1>25 DEF Flush
  <2>13. QED
    BY <2>3, <2>4, <2>5, <2>6, <2>7, <2>8, <2>9, <2>10, <2>11, <2>12 DEF LoadType, StreamType, Deletion
<1>26. CASE Expire
  <2>1. expired' \in 0..lastWrite
    BY <1>26 DEF Expire
  <2>2. QED
    BY <1>26, <2>1 DEF Expire
<1>27. CASE Restart
  <2>1. op' \in OpType
    BY <1>27 DEF Restart, OpType, Idle
  <2>2. /\ files' \in [Keys -> FileState]
        /\ \A k \in Keys : /\ files'[k].md \in 0..lastWrite \cup {Torn}
                           /\ files'[k].data \in 0..lastWrite \cup {Torn}
    BY <1>16, <1>27, InterruptedTyped DEF Restart
  <2>3. NoStream \in StreamType
    BY DEF NoStream, StreamType
  <2>4. streams' \in [Streams -> StreamType]
    BY <1>27, <2>3 DEF Restart
  <2>5. flaw' \in [Keys -> SUBSET {"gone", "cut", "unseen"}]
    BY <1>27, <1>19 DEF Restart
  <2>6. load' \in LoadType
    BY <1>27 DEF Restart, StartLoading, NotLoading, LoadType
  <2>7. restarts' \in 0..MaxRestarts
    BY <1>27, StorageAssumption DEF Restart
  <2>8. deleting' \in [Deleters -> Deletion \cup {None}]
    BY <1>27 DEF Restart
  <2>9. mem' \in [Keys -> Writes \cup {Nothing}] /\ idx' \in [Keys -> Nat]
    BY <1>27 DEF Restart
  <2>10. UNCHANGED <<config, lastWrite, sizeOf, expired, purged>>
    BY <1>27 DEF Restart
  <2>11. drift' \in BOOLEAN
    BY <1>27, Zenon DEF Restart
  <2>12. usage' \in Int /\ count' \in Int /\ pending' \subseteq Keys
    BY <1>27 DEF Restart
  <2>13. QED
    BY <2>1, <2>2, <2>4, <2>5, <2>6, <2>7, <2>8, <2>9, <2>10, <2>11, <2>12
       DEF OpType, StreamType, LoadType, Deletion
<1>28. CASE LoadStart
  <2>1. load' \in LoadType
    BY <1>28, TypeFacts DEF LoadStart, LoadType
  <2>2. drift' \in BOOLEAN
    BY <1>28 DEF LoadStart
  <2>3. QED
    BY <1>28, <2>1, <2>2 DEF LoadStart, LoadType
<1>29. CASE LoadFinish
  <2>1. load' \in LoadType
    BY <1>29, TypeFacts DEF LoadFinish, NotLoading, LoadType
  <2>2. drift' \in BOOLEAN /\ usage' \in Int /\ count' \in Int
    BY <1>29 DEF LoadFinish
  <2>3. QED
    BY <1>29, <2>1, <2>2 DEF LoadFinish, LoadType
<1>30. CASE UNCHANGED vars
  BY <1>30 DEF vars
<1>31. QED
  BY <1>2, <1>3, <1>4, <1>5, <1>6, <1>7, <1>8, <1>9, <1>10, <1>12, <1>13, <1>14, <1>15,
     <1>17, <1>18, <1>20, <1>21, <1>22, <1>23, <1>24, <1>25, <1>26, <1>27, <1>28, <1>29,
     <1>30 DEF Next

-----------------------------------------------------------------------------
(* Who deletes, and what a store has written.                              *)

\* A store has a key, and its number, as long as it is under way.
LEMMA Storing ==
  ASSUME Typed, OpInv, StorageAssumption, op.pc # "idle"
  PROVE  /\ op.key \in Keys /\ op.key # None
         /\ lastWrite \in Writes /\ lastWrite # Torn /\ lastWrite # Nothing
<1>1. op.key \in Keys \cup {None} /\ lastWrite \in 0..MaxWrites
  BY TypeFacts DEF OpType
<1>2. QED
  BY <1>1, StorageAssumption DEF OpInv, Writes, Torn, Nothing

\* No step lets a Delete meet a store of the same key.
LEMMA DeleteStep ==
  ASSUME Typed, OpInv, DeleteInv, StorageAssumption, [Next]_vars
  PROVE  DeleteInv'
<1>1. Evictor \notin Readers /\ Evictor \notin Keys /\ Readers \cap Keys = {} /\ None \notin Keys
  BY StorageAssumption
<1>2. op \in OpType /\ deleting \in [Deleters -> Deletion \cup {None}]
  BY TypeFacts
<1>3. ASSUME NEW k \in Keys, NEW r \in Readers, ReadExpiredOnDisk(r, k)
      PROVE  DeleteInv'
  BY <1>1, <1>2, <1>3 DEF ReadExpiredOnDisk, MayRead, Peek, DeleteInv, Deleters
<1>4. ASSUME NEW k \in Keys, PurgeAsync(k)
      PROVE  DeleteInv'
  <2>1. CASE idx[k] # 0
    BY <1>1, <1>2, <1>4, <2>1 DEF PurgeAsync, Peek, DeleteInv, Deleters
  <2>2. CASE idx[k] = 0
    BY <1>4, <2>2 DEF PurgeAsync, DeleteInv
  <2>3. QED
    BY <2>1, <2>2
<1>5. ASSUME NEW k \in Keys, EvictForSpace(k)
      PROVE  DeleteInv'
  BY <1>1, <1>2, <1>5 DEF EvictForSpace, Peek, DeleteInv, Deleters
<1>6. ASSUME NEW k \in Keys, EvictForCount(k)
      PROVE  DeleteInv'
  <2>1. op'.pc = op.pc /\ op'.key = op.key /\ op.pc = "count"
    BY <1>2, <1>6 DEF EvictForCount, OpType
  <2>2. CASE idx[k] # 0
    BY <1>1, <1>2, <1>6, <2>1, <2>2 DEF EvictForCount, Peek, DeleteInv, Deleters
  <2>3. CASE idx[k] = 0
    BY <1>6, <2>1, <2>3 DEF EvictForCount, DeleteInv
  <2>4. QED
    BY <2>2, <2>3
<1>7. ASSUME NEW d \in Deleters, DeleteRest(d)
      PROVE  DeleteInv'
  <2>1. op'.pc = op.pc /\ op'.key = op.key
    BY <1>2, <1>7 DEF DeleteRest, OpType
  <2>2. \A e \in Deleters : deleting'[e] \in {deleting[e], None}
    BY <1>2, <1>7 DEF DeleteRest
  <2>3. QED
    BY <2>1, <2>2 DEF DeleteInv, Deleters
<1>8. ASSUME NEW k \in Keys, NEW s \in Sizes, StoreOnDisk(k, s)
      PROVE  DeleteInv'
  <2>1. op'.pc = "meta" /\ op'.key = k
    BY <1>8 DEF StoreOnDisk, Idle
  <2>2. QED
    BY <1>8, <2>1 DEF StoreOnDisk, MayStore, WriterMayEnter, KeyFree, DeleteInv
<1>9. ASSUME StoreMeta \/ StoreData \/ StorePut \/ PickForCount
      PROVE  DeleteInv'
  <2>1. /\ op'.key = op.key /\ op.pc # "idle" /\ deleting' = deleting
        /\ op.pc \in {"meta", "data", "put"} \/ deleting[Evictor] = None
    BY <1>2, <1>9 DEF StoreMeta, StoreData, StorePut, PickForCount, OpType
  <2>2. QED
    BY <2>1 DEF DeleteInv
<1>10. ASSUME StoreFails \/ StoreRefused \/ StoreInsert
       PROVE  DeleteInv'
  <2>1. op'.key = None /\ op.pc # "idle" /\ deleting' = deleting /\ op'.pc = "idle"
    BY <1>10 DEF StoreFails, StoreRefused, StoreInsert, Idle
  <2>2. deleting[Evictor] = None
    BY <1>10 DEF StoreFails, StoreRefused, StoreInsert, DeleteInv
  <2>3. QED
    BY <1>1, <2>1, <2>2 DEF DeleteInv
<1>11. ASSUME Flush \/ Restart
       PROVE  DeleteInv'
  BY <1>11 DEF Flush, Restart, DeleteInv, Deleters
<1>12. CASE UNCHANGED <<op, deleting>>
  BY <1>12 DEF DeleteInv
<1>13. \/ \E k \in Keys : PurgeAsync(k) \/ EvictForSpace(k) \/ EvictForCount(k)
       \/ \E k \in Keys, r \in Readers : ReadExpiredOnDisk(r, k)
       \/ \E k \in Keys, s \in Sizes : StoreOnDisk(k, s)
       \/ \E d \in Deleters : DeleteRest(d)
       \/ StoreMeta \/ StoreData \/ StoreFails \/ StoreRefused
       \/ StorePut \/ PickForCount \/ StoreInsert
       \/ Flush \/ Restart
       \/ UNCHANGED <<op, deleting>>
  BY DEF Next, vars, ReadExpiredInMemory, PurgeKey, LoadEntry, LoadPut, OpenStream,
         StoreInMemory, CloseStream, Expire, LoadStart, LoadFinish
<1>14. QED
  BY <1>3, <1>4, <1>5, <1>6, <1>7, <1>8, <1>9, <1>10, <1>11, <1>12, <1>13

\* No step disturbs what a store has written, but its own next one.
LEMMA OpStep ==
  ASSUME Typed, OpInv, DeleteInv, StorageAssumption, [Next]_vars
  PROVE  OpInv'
<1>1. None \notin Keys
  BY StorageAssumption
<1>2. op \in OpType /\ files \in [Keys -> FileState] /\ lastWrite \in 0..MaxWrites
      /\ deleting \in [Deleters -> Deletion \cup {None}]
  BY TypeFacts
<1>3. flaw \in [Keys -> SUBSET {"gone", "cut", "unseen"}]
  BY DEF Typed, TypeOK
<1>4. ASSUME NEW d \in Deleters, DeleteRest(d)
      PROVE  OpInv'
  <2>1. op'.pc = op.pc /\ op'.key = op.key
    BY <1>2, <1>4 DEF DeleteRest, OpType
  <2>2. PICK k \in Keys : k = deleting[d].key
    BY <1>2, <1>4 DEF DeleteRest, Deletion
  <2>3. lastWrite' = lastWrite
    BY <1>4 DEF DeleteRest, history
  <2>4. CASE op.key = k
    <3>1. d = Evictor /\ op.pc \in {"space", "count"}
      BY <1>1, <1>4, <2>2, <2>4, StorageAssumption DEF DeleteRest, DeleteInv, Deleters, OpInv
    <3>2. files'[k] = NoFiles /\ "gone" \in flaw'[k]
      BY <1>2, <1>3, <1>4, <2>2, <2>4 DEF DeleteRest, Removed
    <3>3. QED
      BY <2>1, <2>3, <2>4, <3>1, <3>2 DEF OpInv
  <2>5. CASE op.key # k
    <3>1. op.key \in Keys => files'[op.key] = files[op.key] /\ flaw'[op.key] = flaw[op.key]
      BY <1>2, <1>3, <1>4, <2>2, <2>5 DEF DeleteRest, Removed
    <3>2. QED
      BY <2>1, <2>3, <3>1, Storing DEF OpInv
  <2>6. QED
    BY <2>4, <2>5
<1>5. ASSUME NEW k \in Keys, LoadPut(k)
      PROVE  OpInv'
  <2>1. UNCHANGED <<op, lastWrite, files>>
    BY <1>5 DEF LoadPut, history
  <2>2. op.key \in Keys =>
          flaw'[op.key] = flaw[op.key] \/ (files[op.key] = NoFiles /\ "gone" \in flaw'[op.key])
    BY <1>3, <1>5 DEF LoadPut, HasDir
  <2>3. QED
    BY <2>1, <2>2, Storing DEF OpInv
<1>6. ASSUME NEW k \in Keys, NEW s \in Sizes, StoreOnDisk(k, s)
      PROVE  OpInv'
  <2>1. op'.pc = "meta" /\ op'.key = k
    BY <1>6 DEF StoreOnDisk, Idle
  <2>2. files[k].data # lastWrite + 1 /\ lastWrite + 1 > 0
    BY <1>2, <1>6, StorageAssumption DEF StoreOnDisk, NewWrite, Typed, Torn
  <2>3. lastWrite' = lastWrite + 1 /\ files' = files
    BY <1>6 DEF StoreOnDisk, NewWrite
  <2>4. QED
    BY <1>1, <2>1, <2>2, <2>3 DEF OpInv
<1>7. CASE StoreMeta
  <2>1. op'.pc = "data" /\ op'.key = op.key /\ lastWrite' = lastWrite
    BY <1>2, <1>7 DEF StoreMeta, OpType, history
  <2>2. op.key \in Keys /\ op.key # None
    BY <1>7, Storing DEF StoreMeta
  <2>3. files'[op.key].md = lastWrite /\ files'[op.key].data = files[op.key].data
    BY <1>2, <1>7, <2>2 DEF StoreMeta, FileState
  <2>4. QED
    BY <1>7, <2>1, <2>2, <2>3 DEF OpInv, StoreMeta
<1>8. CASE StoreData
  <2>1. op'.pc = "put" /\ op'.key = op.key /\ lastWrite' = lastWrite
    BY <1>2, <1>8 DEF StoreData, OpType, history
  <2>2. op.key \in Keys /\ op.key # None
    BY <1>8, Storing DEF StoreData
  <2>3. files'[op.key].data = lastWrite /\ files'[op.key].md = files[op.key].md
    BY <1>2, <1>8, <2>2 DEF StoreData, FileState
  <2>4. QED
    BY <1>8, <2>1, <2>2, <2>3 DEF OpInv, StoreData
<1>9. ASSUME StorePut \/ PickForCount
      PROVE  OpInv'
  <2>1. op'.pc \in {"space", "count"} /\ op'.key = op.key /\ op.pc \in {"put", "space"}
    BY <1>2, <1>9 DEF StorePut, PickForCount, OpType
  <2>2. UNCHANGED <<files, flaw, lastWrite>>
    BY <1>9 DEF StorePut, PickForCount, history
  <2>3. QED
    BY <2>1, <2>2 DEF OpInv
<1>10. ASSUME NEW k \in Keys, EvictForCount(k)
       PROVE  OpInv'
  <2>1. op'.pc = op.pc /\ op'.key = op.key
    BY <1>2, <1>10 DEF EvictForCount, OpType
  <2>2. UNCHANGED <<files, flaw, lastWrite>>
    BY <1>10 DEF EvictForCount, history
  <2>3. QED
    BY <2>1, <2>2 DEF OpInv
<1>11. ASSUME \/ StoreFails \/ StoreRefused \/ StoreInsert \/ Flush \/ Restart
              \/ \E k \in Keys : PurgeKey(k)
              \/ \E k \in Keys, s \in Sizes : StoreInMemory(k, s)
       PROVE  OpInv'
  <2>1. op'.pc = "idle" /\ op'.key = None
    <3>1. CASE StoreFails \/ StoreRefused \/ StoreInsert \/ Restart
      BY <3>1 DEF StoreFails, StoreRefused, StoreInsert, Restart, Idle
    <3>2. CASE Flush
      BY <3>2 DEF Flush, WriterMayEnter, OpInv
    <3>3. ASSUME NEW k \in Keys, PurgeKey(k)
          PROVE  op'.pc = "idle" /\ op'.key = None
      BY <3>3 DEF PurgeKey, MayStore, WriterMayEnter, OpInv
    <3>4. ASSUME NEW k \in Keys, NEW s \in Sizes, StoreInMemory(k, s)
          PROVE  op'.pc = "idle" /\ op'.key = None
      BY <3>4 DEF StoreInMemory, MayStore, WriterMayEnter, OpInv
    <3>5. QED
      BY <1>11, <3>1, <3>2, <3>3, <3>4
  <2>2. QED
    BY <2>1 DEF OpInv
<1>12. CASE UNCHANGED <<op, files, flaw, lastWrite>>
  BY <1>12 DEF OpInv
<1>13. \/ \E d \in Deleters : DeleteRest(d)
       \/ \E k \in Keys : LoadPut(k) \/ EvictForCount(k)
       \/ \E k \in Keys, s \in Sizes : StoreOnDisk(k, s)
       \/ StoreMeta \/ StoreData \/ StorePut \/ PickForCount
       \/ StoreFails \/ StoreRefused \/ StoreInsert \/ Flush \/ Restart
       \/ \E k \in Keys : PurgeKey(k)
       \/ \E k \in Keys, s \in Sizes : StoreInMemory(k, s)
       \/ UNCHANGED <<op, files, flaw, lastWrite>>
  BY DEF Next, vars, history, ReadExpiredInMemory, PurgeAsync, EvictForSpace, LoadEntry,
         ReadExpiredOnDisk, OpenStream, CloseStream, Expire, LoadStart, LoadFinish
<1>14. QED
  BY <1>4, <1>5, <1>6, <1>7, <1>8, <1>9, <1>10, <1>11, <1>12, <1>13

\* Only a load under way has directories to visit and entries to put.
LEMMA LoadStep ==
  ASSUME Typed, LoadInv, [Next]_vars
  PROVE  LoadInv'
<1>1. load \in LoadType
  BY TypeFacts
<1>2. ASSUME NEW k \in Keys, LoadEntry(k) \/ LoadPut(k)
      PROVE  LoadInv'
  <2>1. load.phase = "run" /\ load'.phase = load.phase
    BY <1>1, <1>2 DEF LoadEntry, LoadPut, LoadInv, LoadType
  <2>2. QED
    BY <2>1 DEF LoadInv
<1>3. CASE LoadStart
  BY <1>1, <1>3 DEF LoadStart, LoadInv, LoadType
<1>4. ASSUME LoadFinish \/ Flush \/ Restart
      PROVE  LoadInv'
  <2>1. load' \in {load, NotLoading, StartLoading}
    BY <1>4 DEF LoadFinish, Flush, Restart
  <2>2. QED
    BY <2>1 DEF LoadInv, NotLoading, StartLoading
<1>5. CASE load' = load
  BY <1>5 DEF LoadInv
<1>6. (\E k \in Keys : LoadEntry(k) \/ LoadPut(k)) \/ LoadStart \/ LoadFinish \/ Flush
      \/ Restart \/ load' = load
  BY DEF Next, vars, ReadExpiredInMemory, PurgeAsync, PurgeKey, EvictForSpace, EvictForCount,
         ReadExpiredOnDisk, OpenStream, CloseStream, StoreInMemory, StoreOnDisk, DeleteRest,
         StoreMeta, StoreData, StoreFails, StoreRefused, StorePut, PickForCount, StoreInsert,
         Expire
<1>7. QED
  BY <1>2, <1>3, <1>4, <1>5, <1>6

-----------------------------------------------------------------------------
(* Index and directory.                                                    *)

\* What IndexInv says of one key.
KeyOK(k) ==
  /\ HasDir(k) => idx[k] # 0 \/ Excused(k)
  /\ idx[k] # 0 => HasDir(k) \/ "gone" \in flaw[k]

\* A key keeps in step if its files stay and nothing that excuses it is taken back.
LEMMA KeyKept ==
  ASSUME NEW k \in Keys, KeyOK(k),
         files'[k] = files[k],
         idx'[k] = idx[k] \/ (idx'[k] = 0 /\ drift'),
         Excused(k) => Excused(k)' \/ idx'[k] # 0,
         "gone" \in flaw[k] => "gone" \in flaw'[k] \/ idx'[k] = 0
  PROVE  KeyOK(k)'
BY DEF KeyOK, HasDir, Excused

\* A key whose directory is removed keeps in step if its index entry goes as well, or
\* is known to be a failed store's.
LEMMA KeyRemoved ==
  ASSUME NEW k \in Keys, files'[k] = NoFiles, idx'[k] = 0 \/ "gone" \in flaw'[k]
  PROVE  KeyOK(k)'
BY DEF KeyOK, HasDir

\* Every step keeps index and directory in step.
LEMMA IndexStep ==
  ASSUME Typed, OpInv, DeleteInv, LoadInv, IndexInv, StorageAssumption, [Next]_vars
  PROVE  IndexInv'
<1> SUFFICES ASSUME NEW j \in Keys
             PROVE  KeyOK(j)'
  BY DEF IndexInv, KeyOK
<1>1. KeyOK(j)
  BY DEF IndexInv, KeyOK
<1>2. /\ op \in OpType /\ files \in [Keys -> FileState] /\ idx \in [Keys -> Nat]
      /\ load \in LoadType /\ deleting \in [Deleters -> Deletion \cup {None}]
      /\ None \notin Keys
  BY TypeFacts, StorageAssumption
<1>3. flaw \in [Keys -> SUBSET {"gone", "cut", "unseen"}]
  BY DEF Typed, TypeOK
<1>4. ASSUME NEW d \in Deleters, DeleteRest(d)
      PROVE  KeyOK(j)'
  <2>1. PICK k \in Keys : k = deleting[d].key
    BY <1>2, <1>4 DEF DeleteRest, Deletion
  <2>2. CASE j = k
    <3>1. files'[j] = NoFiles /\ idx'[j] = 0
      BY <1>2, <1>4, <2>1, <2>2 DEF DeleteRest, Removed
    <3>2. QED
      BY <3>1, KeyRemoved
  <2>3. CASE j # k
    <3>1. files'[j] = files[j] /\ idx'[j] = idx[j] /\ flaw'[j] = flaw[j]
      BY <1>2, <1>3, <1>4, <2>1, <2>3 DEF DeleteRest, Removed
    <3>2. op'.pc = op.pc /\ op'.key = op.key /\ load' = load /\ (drift => drift')
      BY <1>2, <1>4 DEF DeleteRest, OpType
    <3>3. QED
      BY <1>1, <3>1, <3>2, KeyKept DEF Excused
  <2>4. QED
    BY <2>2, <2>3
<1>5. ASSUME NEW k \in Keys, PurgeKey(k)
      PROVE  KeyOK(j)'
  <2>1. UNCHANGED <<op, load>>
    BY <1>5 DEF PurgeKey
  <2>2. CASE Listed(k) /\ idx[k] # 0
    <3>1. CASE j = k
      <4>1. files'[j] = NoFiles /\ idx'[j] = 0
        BY <1>2, <1>5, <2>2, <3>1 DEF PurgeKey, Removed
      <4>2. QED
        BY <4>1, KeyRemoved
    <3>2. CASE j # k
      <4>1. files'[j] = files[j] /\ idx'[j] = idx[j] /\ flaw'[j] = flaw[j] /\ (drift => drift')
        BY <1>2, <1>3, <1>5, <2>2, <3>2 DEF PurgeKey, Removed
      <4>2. QED
        BY <1>1, <2>1, <4>1, KeyKept DEF Excused
    <3>3. QED
      BY <3>1, <3>2
  <2>3. CASE ~(Listed(k) /\ idx[k] # 0)
    <3>1. UNCHANGED <<files, idx, drift>> /\ flaw[j] \subseteq flaw'[j]
      BY <1>3, <1>5, <2>3 DEF PurgeKey
    <3>2. QED
      BY <1>1, <2>1, <3>1, KeyKept DEF Excused
  <2>4. QED
    BY <2>2, <2>3
<1>6. ASSUME NEW k \in Keys, LoadEntry(k)
      PROVE  KeyOK(j)'
  <2>1. UNCHANGED <<files, idx, flaw, op, drift>>
    BY <1>6 DEF LoadEntry
  <2>2. CASE j = k /\ HasDir(j)
    <3>1. load'.held[j] # 0
      BY <1>2, <1>6, <2>2, DirSizePositive DEF LoadEntry, LoadType
    <3>2. QED
      BY <1>1, <2>1, <3>1 DEF KeyOK, Excused, HasDir
  <2>3. CASE j # k
    <3>1. /\ j \in load.todo <=> j \in load'.todo
          /\ load'.held[j] = load.held[j] /\ load'.phase = load.phase
      BY <1>2, <1>6, <2>3 DEF LoadEntry, LoadType
    <3>2. QED
      BY <1>1, <2>1, <3>1, KeyKept DEF Excused
  <2>4. CASE ~HasDir(j)
    BY <1>1, <2>1, <2>4 DEF KeyOK, HasDir
  <2>5. QED
    BY <2>2, <2>3, <2>4
<1>7. ASSUME NEW k \in Keys, LoadPut(k)
      PROVE  KeyOK(j)'
  <2>1. UNCHANGED <<files, op>>
    BY <1>7 DEF LoadPut
  <2>2. PICK S \in SUBSET Indexed, v \in {load.held[k], 0} :
          /\ idx' = [i \in Keys |-> IF i = k THEN v ELSE IF i \in S THEN idx[i] ELSE 0]
          /\ drift' = (drift \/ S # Indexed)
          /\ v = load.held[k] \/ S # Indexed
    BY <1>7, LoadedIndex
  <2>3. CASE j = k
    <3>1. idx'[j] # 0 \/ drift'
      BY <1>7, <2>2, <2>3 DEF LoadPut
    <3>2. HasDir(j) \/ "gone" \in flaw'[j]
      BY <1>3, <1>7, <2>3 DEF LoadPut
    <3>3. QED
      BY <2>1, <3>1, <3>2 DEF KeyOK, HasDir, Excused
  <2>4. CASE j # k
    <3>1. idx'[j] = idx[j] \/ (idx'[j] = 0 /\ drift')
      BY <2>2, <2>4 DEF Indexed
    <3>2. /\ j \in load.todo <=> j \in load'.todo
          /\ load'.held[j] = load.held[j] /\ load'.phase = load.phase
      BY <1>2, <1>7, <2>4 DEF LoadPut, LoadType
    <3>3. flaw'[j] = flaw[j]
      BY <1>3, <1>7, <2>4 DEF LoadPut
    <3>4. QED
      BY <1>1, <2>1, <2>2, <3>1, <3>2, <3>3, KeyKept DEF Excused
  <2>5. QED
    BY <2>3, <2>4
<1>8. ASSUME NEW k \in Keys, NEW s \in Sizes, StoreInMemory(k, s) \/ StoreOnDisk(k, s)
      PROVE  KeyOK(j)'
  <2>1. UNCHANGED <<files, idx, flaw, load, drift>>
    BY <1>8 DEF StoreInMemory, StoreOnDisk
  <2>2. op.key = None
    BY <1>8 DEF StoreInMemory, StoreOnDisk, MayStore, WriterMayEnter, OpInv
  <2>3. QED
    BY <1>1, <1>2, <2>1, <2>2, KeyKept DEF Excused
<1>9. CASE StoreMeta
  <2>1. op'.pc = "data" /\ op'.key = op.key
    BY <1>2, <1>9 DEF StoreMeta, OpType
  <2>2. UNCHANGED <<idx, flaw, load, drift>>
    BY <1>9 DEF StoreMeta
  <2>3. op.key \in Keys /\ lastWrite # Nothing
    BY <1>9, Storing DEF StoreMeta
  <2>4. CASE j = op.key
    <3>1. files'[j].md = lastWrite
      BY <1>2, <1>9, <2>3, <2>4 DEF StoreMeta, FileState
    <3>2. HasDir(j)'
      BY <2>3, <3>1 DEF HasDir, NoFiles
    <3>3. QED
      BY <2>1, <2>4, <3>2 DEF KeyOK, Excused
  <2>5. CASE j # op.key
    <3>1. files'[j] = files[j]
      BY <1>2, <1>9, <2>5 DEF StoreMeta
    <3>2. QED
      BY <1>1, <2>1, <2>2, <2>5, <3>1, KeyKept DEF Excused
  <2>6. QED
    BY <2>4, <2>5
<1>10. CASE StoreData
  <2>1. op'.pc = "put" /\ op'.key = op.key
    BY <1>2, <1>10 DEF StoreData, OpType
  <2>2. UNCHANGED <<idx, load, drift>>
    BY <1>10 DEF StoreData
  <2>3. op.key \in Keys /\ lastWrite # Nothing
    BY <1>10, Storing DEF StoreData
  <2>4. CASE j = op.key
    <3>1. files'[j].data = lastWrite
      BY <1>2, <1>10, <2>3, <2>4 DEF StoreData, FileState
    <3>2. HasDir(j)'
      BY <2>3, <3>1 DEF HasDir, NoFiles
    <3>3. QED
      BY <2>1, <2>4, <3>2 DEF KeyOK, Excused
  <2>5. CASE j # op.key
    <3>1. files'[j] = files[j] /\ flaw'[j] = flaw[j]
      BY <1>2, <1>3, <1>10, <2>5 DEF StoreData
    <3>2. QED
      BY <1>1, <2>1, <2>2, <2>5, <3>1, KeyKept DEF Excused
  <2>6. QED
    BY <2>4, <2>5
<1>11. CASE StoreFails
  <2>1. UNCHANGED <<idx, load, drift>> /\ files' \in Interrupted
    BY <1>11 DEF StoreFails
  <2>2. op.key \in Keys /\ lastWrite # Nothing /\ lastWrite # Torn
    BY <1>11, Storing DEF StoreFails
  <2>3. flaw'[j] = flaw[j] \cup Cut(j)
    BY <1>11 DEF StoreFails
  <2>4. CASE j # op.key
    <3>1. files'[j] = files[j]
      BY <2>1, <2>2, <2>4, InterruptedTyped
    <3>2. QED
      BY <1>1, <2>1, <2>3, <2>4, <3>1, KeyKept DEF Excused
  <2>5. CASE j = op.key /\ op.pc = "data"
    <3>1. files[j].md = lastWrite /\ files[j].data # lastWrite
      BY <2>5 DEF OpInv
    <3>2. files'[j] = files[j] \/ files'[j] = [files[j] EXCEPT !.data = Torn]
      BY <2>1, <2>2, <2>5, InterruptedTyped
    <3>3. files'[j].md = lastWrite /\ files'[j].data # lastWrite
      BY <1>2, <2>2, <3>1, <3>2 DEF FileState
    <3>4. "cut" \in flaw'[j]
      BY <2>3, <2>5, <3>3 DEF Cut
    <3>5. HasDir(j)'
      BY <2>2, <3>3 DEF HasDir, NoFiles
    <3>6. QED
      BY <3>4, <3>5 DEF KeyOK, Excused
  <2>6. CASE j = op.key /\ op.pc = "meta"
    <3>1. CASE files' = files
      BY <1>1, <2>1, <2>3, <2>6, <3>1, KeyKept DEF Excused
    <3>2. CASE files' # files
      <4>1. files'[j] = [files[j] EXCEPT !.md = Torn]
        BY <2>1, <2>2, <2>6, <3>2, InterruptedTyped
      <4>2. files'[j].md = Torn /\ files'[j].data = files[j].data
        BY <1>2, <4>1 DEF FileState
      <4>3. Torn # Nothing
        BY StorageAssumption DEF Torn, Nothing
      <4>4. HasDir(j)'
        BY <4>2, <4>3 DEF HasDir, NoFiles
      <4>5. CASE files[j].data # Torn
        <5>1. "cut" \in flaw'[j]
          BY <2>3, <2>6, <4>2, <4>5 DEF Cut
        <5>2. QED
          BY <4>4, <5>1 DEF KeyOK, Excused
      <4>6. CASE files[j].data = Torn
        <5>1. HasDir(j)
          BY <4>3, <4>6 DEF HasDir, NoFiles
        <5>2. QED
          BY <1>1, <2>1, <2>3, <2>6, <4>4, <5>1 DEF KeyOK, Excused
      <4>7. QED
        BY <4>5, <4>6
    <3>3. QED
      BY <3>1, <3>2
  <2>7. QED
    BY <1>11, <2>4, <2>5, <2>6 DEF StoreFails
<1>12. CASE StoreRefused
  <2>1. UNCHANGED <<idx, load>> /\ (drift => drift')
    BY <1>12 DEF StoreRefused
  <2>2. op.key \in Keys
    BY <1>12, Storing DEF StoreRefused
  <2>3. CASE j = op.key
    <3>1. files'[j] = NoFiles /\ (idx'[j] = 0 \/ "gone" \in flaw'[j])
      BY <1>2, <1>3, <1>12, <2>3 DEF StoreRefused, Removed
    <3>2. QED
      BY <3>1, KeyRemoved
  <2>4. CASE j # op.key
    <3>1. files'[j] = files[j] /\ flaw'[j] = flaw[j]
      BY <1>2, <1>3, <1>12, <2>4 DEF StoreRefused, Removed
    <3>2. QED
      BY <1>1, <2>1, <2>4, <3>1, KeyKept DEF Excused
  <2>5. QED
    BY <2>3, <2>4
<1>13. ASSUME StorePut \/ PickForCount \/ \E k \in Keys : EvictForCount(k)
       PROVE  KeyOK(j)'
  <2>1. op'.key = op.key /\ op'.pc # "meta"
    BY <1>2, <1>13 DEF StorePut, PickForCount, EvictForCount, OpType
  <2>2. UNCHANGED <<files, idx, load, drift, flaw>>
    BY <1>13 DEF StorePut, PickForCount, EvictForCount
  <2>3. QED
    BY <1>1, <2>1, <2>2, KeyKept DEF Excused
<1>14. CASE StoreInsert
  <2>1. UNCHANGED <<files, load, flaw>>
    BY <1>14 DEF StoreInsert
  <2>2. op.key \in Keys /\ lastWrite # Nothing /\ NewSize # 0
    BY <1>14, Storing, NewSizePositive DEF StoreInsert
  <2>3. PICK S \in SUBSET Indexed, v \in {NewSize, 0} :
          /\ idx' = [i \in Keys |-> IF i = op.key THEN v ELSE IF i \in S THEN idx[i] ELSE 0]
          /\ drift \/ S # Indexed => drift'
          /\ v = NewSize \/ S # Indexed
    BY <1>14, <2>2, InsertedIndex
  <2>4. CASE j = op.key
    <3>1. idx'[j] # 0 \/ drift'
      BY <2>2, <2>3, <2>4
    <3>2. HasDir(j) \/ "gone" \in flaw[j]
      BY <1>14, <2>2, <2>4 DEF StoreInsert, OpInv, HasDir, NoFiles
    <3>3. QED
      BY <2>1, <3>1, <3>2 DEF KeyOK, HasDir, Excused
  <2>5. CASE j # op.key
    <3>1. idx'[j] = idx[j] \/ (idx'[j] = 0 /\ drift')
      BY <2>3, <2>5 DEF Indexed
    <3>2. QED
      BY <1>1, <2>1, <2>3, <2>5, <3>1, KeyKept DEF Excused
  <2>6. QED
    BY <2>4, <2>5
<1>15. CASE Flush
  <2>1. idx'[j] = 0
    BY <1>15 DEF Flush
  <2>2. files'[j] = NoFiles \/ "unseen" \in flaw'[j]
    BY <1>15 DEF Flush
  <2>3. QED
    BY <2>1, <2>2, KeyRemoved DEF KeyOK, Excused
<1>16. CASE Restart
  <2>1. idx'[j] = 0 /\ load'.phase = "start"
    BY <1>16 DEF Restart, StartLoading, NotLoading
  <2>2. QED
    BY <2>1 DEF KeyOK, Excused
<1>17. CASE LoadStart
  <2>1. UNCHANGED <<files, idx, op, flaw>> /\ (drift => drift')
    BY <1>17 DEF LoadStart
  <2>2. HasDir(j) => j \in load'.todo
    BY <1>2, <1>17 DEF LoadStart, LoadType
  <2>3. QED
    BY <1>1, <2>1, <2>2 DEF KeyOK, Excused, HasDir
<1>18. CASE LoadFinish
  <2>1. UNCHANGED <<files, idx, op, flaw>> /\ (drift => drift')
    BY <1>18 DEF LoadFinish
  <2>2. load.phase = "run" /\ load.todo = {} /\ load.held[j] = 0
    BY <1>18 DEF LoadFinish
  <2>3. QED
    BY <1>1, <2>1, <2>2, KeyKept DEF Excused
<1>19. CASE UNCHANGED <<files, idx, op, drift, load, flaw>>
  BY <1>1, <1>19, KeyKept DEF Excused
<1>20. \/ \E d \in Deleters : DeleteRest(d)
       \/ \E k \in Keys : PurgeKey(k) \/ LoadEntry(k) \/ LoadPut(k)
       \/ \E k \in Keys, s \in Sizes : StoreInMemory(k, s) \/ StoreOnDisk(k, s)
       \/ StoreMeta \/ StoreData \/ StoreFails \/ StoreRefused
       \/ StorePut \/ PickForCount \/ (\E k \in Keys : EvictForCount(k)) \/ StoreInsert
       \/ Flush \/ Restart \/ LoadStart \/ LoadFinish
       \/ UNCHANGED <<files, idx, op, drift, load, flaw>>
  BY DEF Next, vars, ReadExpiredInMemory, PurgeAsync, EvictForSpace, ReadExpiredOnDisk,
         OpenStream, CloseStream, Expire
<1>21. QED
  BY <1>4, <1>5, <1>6, <1>7, <1>8, <1>9, <1>10, <1>11, <1>12, <1>13, <1>14, <1>15, <1>16,
     <1>17, <1>18, <1>19, <1>20

-----------------------------------------------------------------------------
(* The theorems.                                                           *)

\* The store's tiers, files and index are as the parts of the invariant have them.
THEOREM StorageInvariant == Spec => []StorageInv
<1>1. Init => StorageInv
  <2> SUFFICES ASSUME Init PROVE StorageInv
    OBVIOUS
  <2>1. NoStream \in StreamType /\ NoFiles \in FileState /\ Idle \in OpType
        /\ StartLoading \in LoadType
    BY DEF NoStream, StreamType, NoFiles, FileState, Idle, OpType, StartLoading, NotLoading,
           LoadType
  <2>2. drift \in BOOLEAN
    BY Zenon DEF Init
  <2>3. /\ deleting \in [Deleters -> Deletion \cup {None}]
        /\ \A d \in Deleters : deleting[d] = None
        /\ \A k \in Keys : files[k] = NoFiles /\ idx[k] = 0
    BY DEF Init
  <2>4. lastWrite = 0 /\ 0 \in 0..MaxWrites /\ 0 \in 0..MaxRestarts /\ 0 \in 0..0
    BY StorageAssumption DEF Init
  <2>5. TypeOK
    BY <2>1, <2>2, <2>3, <2>4 DEF Init, TypeOK, StreamType, OpType, LoadType
  <2>6. Typed
    BY <2>3, <2>4, <2>5 DEF Typed, NoFiles, Nothing
  <2>7. DeleteInv /\ OpInv
    BY <2>3 DEF Init, DeleteInv, OpInv, Idle, Deleters
  <2>8. LoadInv
    BY DEF Init, LoadInv, StartLoading, NotLoading
  <2>9. IndexInv
    BY <2>3 DEF IndexInv, HasDir
  <2>10. QED
    BY <2>6, <2>7, <2>8, <2>9 DEF StorageInv
<1>2. StorageInv /\ [Next]_vars => StorageInv'
  BY TypeStep, DeleteStep, OpStep, LoadStep, IndexStep, StorageAssumption DEF StorageInv
<1>3. QED
  BY <1>1, <1>2, PTL DEF Spec

\* Every variable of the store has its type.
THEOREM StorageTyped == Spec => []TypeOK
<1>1. StorageInv => TypeOK
  BY DEF StorageInv, Typed
<1>2. QED
  BY <1>1, StorageInvariant, PTL

\* Index and directory name the same entries, through stores, evictions, purges, loads,
\* failures and crashes, but for what a failed store or purge, the load under way or the
\* LRU's silent drop explains.
THEOREM IndexAndFiles == Spec => []IndexMatchesFiles
<1>1. StorageInv => IndexMatchesFiles
  <2> SUFFICES ASSUME StorageInv, NEW k \in Keys
               PROVE  /\ HasDir(k) => \/ idx[k] # 0 \/ op.key = k \/ drift \/ load.phase # "off"
                                      \/ flaw[k] \cap {"cut", "unseen"} # {}
                      /\ idx[k] # 0 => HasDir(k) \/ "gone" \in flaw[k]
    BY DEF IndexMatchesFiles
  <2>1. load.phase = "off" => k \notin load.todo /\ load.held[k] = 0
    BY DEF StorageInv, LoadInv
  <2>2. QED
    BY <2>1 DEF StorageInv, IndexInv, Excused
<1>2. QED
  BY <1>1, StorageInvariant, PTL

-----------------------------------------------------------------------------
(* The store implements Cache.tla.                                         *)

\* The copies of k in sight of reads, and those on disk out of sight, as CacheOfStorage
\* has them.
Seen(k) == InMemory(k) \cup (IF idx[k] # 0 THEN OnDisk(k) ELSE {})
Hidden(k) == IF idx[k] = 0 THEN OnDisk(k) ELSE {}

\* Copies only go away, from sight or altogether.
Fading(k) == Seen(k)' \subseteq Seen(k) /\ Hidden(k)' \subseteq Hidden(k) \cup Seen(k)

\* A key whose files stay, or are out of reach of reads, only loses copies.
LEMMA CopiesFade ==
  ASSUME NEW k \in Keys, mem'[k] \in {mem[k], Nothing}, idx'[k] \in {idx[k], 0},
         \/ files'[k] = files[k] /\ (op.key = k /\ op.pc # "meta" => op'.key = k /\ op'.pc # "meta")
         \/ op'.key = k /\ op'.pc # "meta"
         \/ files'[k].md \notin Writes
  PROVE  Fading(k)
BY DEF Fading, Seen, Hidden, InMemory, OnDisk, Readable

\* Steps that only lose copies are Cache's Lose.
LEMMA MapLose ==
  ASSUME UNCHANGED <<lastWrite, purged>>, op'.key = op.key,
         load'.phase # "off" <=> load.phase # "off",
         \A k \in Keys : Fading(k)
  PROVE  CacheOfStorage!Lose
BY DEF CacheOfStorage!Lose, CacheOfStorage!Fades, Fading, Seen, Hidden

\* Deletes, reads, the load's own walk and a store up to its last step are Lose.
LEMMA LoseSteps ==
  ASSUME Typed, OpInv, StorageAssumption,
         \/ \E d \in Deleters : DeleteRest(d)
         \/ \E k \in Keys : \/ ReadExpiredInMemory(k) \/ PurgeAsync(k) \/ EvictForSpace(k)
                            \/ EvictForCount(k) \/ LoadEntry(k)
         \/ \E k \in Keys, r \in Readers : ReadExpiredOnDisk(r, k)
         \/ \E k \in Keys, x \in Streams : OpenStream(x, k)
         \/ \E x \in Streams : CloseStream(x)
         \/ StoreMeta \/ StoreData \/ StorePut \/ PickForCount \/ Expire \/ LoadStart
         \/ UNCHANGED vars
  PROVE  CacheOfStorage!Lose
<1>1. /\ op \in OpType /\ files \in [Keys -> FileState] /\ idx \in [Keys -> Nat]
      /\ load \in LoadType /\ deleting \in [Deleters -> Deletion \cup {None}]
      /\ mem \in [Keys -> Writes \cup {Nothing}] /\ Nothing \notin Writes
  <2>1. Nothing \notin Writes
    BY StorageAssumption DEF Writes, Nothing
  <2>2. mem \in [Keys -> Writes \cup {Nothing}]
    BY DEF Typed, TypeOK
  <2>3. QED
    BY <2>1, <2>2, TypeFacts
<1>2. ASSUME UNCHANGED <<mem, idx, files, op, lastWrite, purged>>,
             load'.phase # "off" <=> load.phase # "off"
      PROVE  CacheOfStorage!Lose
  <2>1. \A k \in Keys : Fading(k)
    BY <1>2, CopiesFade
  <2>2. QED
    BY <1>2, <2>1, MapLose
<1>3. ASSUME NEW d \in Deleters, DeleteRest(d)
      PROVE  CacheOfStorage!Lose
  <2>1. op'.pc = op.pc /\ op'.key = op.key
    BY <1>1, <1>3 DEF DeleteRest, OpType
  <2>2. PICK k \in Keys : k = deleting[d].key
    BY <1>1, <1>3 DEF DeleteRest, Deletion
  <2>3. UNCHANGED <<mem, load, lastWrite, purged>>
    BY <1>3 DEF DeleteRest, history
  <2>4. \A j \in Keys : /\ idx'[j] \in {idx[j], 0}
                        /\ files'[j] = files[j] \/ files'[j].md = Nothing
    BY <1>1, <1>3, <2>2 DEF DeleteRest, Removed, NoFiles
  <2>5. \A j \in Keys : Fading(j)
    BY <1>1, <2>1, <2>3, <2>4, CopiesFade
  <2>6. QED
    BY <2>1, <2>3, <2>5, MapLose
<1>4. ASSUME NEW k \in Keys, PurgeAsync(k)
      PROVE  CacheOfStorage!Lose
  <2>1. UNCHANGED <<idx, files, op, load, lastWrite, purged>>
    BY <1>4 DEF PurgeAsync, history
  <2>2. \A j \in Keys : mem'[j] \in {mem[j], Nothing}
    BY <1>1, <1>4 DEF PurgeAsync
  <2>3. \A j \in Keys : Fading(j)
    BY <2>1, <2>2, CopiesFade
  <2>4. QED
    BY <2>1, <2>3, MapLose
<1>5. ASSUME StoreMeta \/ StoreData
      PROVE  CacheOfStorage!Lose
  <2>1. op'.key = op.key /\ op'.pc # "meta"
    BY <1>1, <1>5 DEF StoreMeta, StoreData, OpType
  <2>2. UNCHANGED <<mem, idx, load, lastWrite, purged>>
    BY <1>5 DEF StoreMeta, StoreData, history
  <2>3. \A j \in Keys : j # op.key => files'[j] = files[j]
    BY <1>1, <1>5 DEF StoreMeta, StoreData
  <2>4. \A j \in Keys : Fading(j)
    BY <2>1, <2>2, <2>3, CopiesFade
  <2>5. QED
    BY <2>1, <2>2, <2>4, MapLose
<1>6. ASSUME StorePut \/ PickForCount \/ \E k \in Keys : EvictForCount(k)
      PROVE  CacheOfStorage!Lose
  <2>1. op'.key = op.key /\ op'.pc # "meta"
    BY <1>1, <1>6 DEF StorePut, PickForCount, EvictForCount, OpType
  <2>2. UNCHANGED <<mem, idx, files, load, lastWrite, purged>>
    BY <1>6 DEF StorePut, PickForCount, EvictForCount, history
  <2>3. \A j \in Keys : Fading(j)
    BY <2>1, <2>2, CopiesFade
  <2>4. QED
    BY <2>1, <2>2, <2>3, MapLose
<1>7. ASSUME LoadStart \/ \E k \in Keys : LoadEntry(k)
      PROVE  CacheOfStorage!Lose
  <2>1. UNCHANGED <<mem, idx, files, op, lastWrite, purged>>
    BY <1>7 DEF LoadStart, LoadEntry, history
  <2>2. load'.phase # "off" <=> load.phase # "off"
    BY <1>1, <1>7 DEF LoadStart, LoadEntry, LoadType
  <2>3. QED
    BY <1>2, <2>1, <2>2
<1>8. ASSUME \/ \E k \in Keys : ReadExpiredInMemory(k) \/ EvictForSpace(k)
             \/ \E k \in Keys, r \in Readers : ReadExpiredOnDisk(r, k)
             \/ \E k \in Keys, x \in Streams : OpenStream(x, k)
             \/ \E x \in Streams : CloseStream(x)
             \/ Expire \/ UNCHANGED vars
      PROVE  CacheOfStorage!Lose
  <2>1. UNCHANGED <<mem, idx, files, op, load, lastWrite, purged>>
    BY <1>8 DEF ReadExpiredInMemory, EvictForSpace, ReadExpiredOnDisk, OpenStream, CloseStream,
                Expire, vars, history
  <2>2. QED
    BY <1>2, <2>1
<1>9. QED
  BY <1>3, <1>4, <1>5, <1>6, <1>7, <1>8

\* A store in memory, or the beginning of one on disk.
LEMMA StoreSteps ==
  ASSUME Typed, OpInv, StorageAssumption, NEW k \in Keys, NEW s \in Sizes
  PROVE  /\ StoreInMemory(k, s) => CacheOfStorage!Store(k)
         /\ StoreOnDisk(k, s) => CacheOfStorage!Begin(k)
<1>1. mem \in [Keys -> Writes \cup {Nothing}] /\ None \notin Keys
  BY StorageAssumption DEF Typed, TypeOK
<1>2. ASSUME StoreInMemory(k, s)
      PROVE  CacheOfStorage!Store(k)
  <2>1. UNCHANGED <<idx, files, op, load, purged>> /\ lastWrite' = lastWrite + 1 /\ op.key = None
    BY <1>2 DEF StoreInMemory, NewWrite, MayStore, WriterMayEnter, OpInv
  <2>2. \A j \in Keys : mem'[j] = (IF j = k THEN lastWrite' ELSE mem'[j])
                        /\ (j # k => mem'[j] \in {mem[j], Nothing})
    BY <1>2 DEF StoreInMemory
  <2>3. \A j \in Keys : OnDisk(j)' = OnDisk(j)
    BY <2>1 DEF OnDisk, Readable
  <2>4. \A j \in Keys : j # k => Fading(j)
    BY <2>1, <2>2, CopiesFade
  <2>5. /\ Seen(k)' \subseteq Seen(k) \cup {[md |-> lastWrite', data |-> lastWrite']}
        /\ Hidden(k)' \subseteq Hidden(k) \cup Seen(k)
    BY <2>1, <2>2, <2>3 DEF Seen, Hidden, InMemory
  <2>6. QED
    BY <2>1, <2>4, <2>5
       DEF CacheOfStorage!Store, CacheOfStorage!Fades, CacheOfStorage!Whole, Fading, Seen, Hidden
<1>3. ASSUME StoreOnDisk(k, s)
      PROVE  CacheOfStorage!Begin(k)
  <2>1. /\ UNCHANGED <<mem, idx, files, load, purged>> /\ lastWrite' = lastWrite + 1
        /\ op.key = None /\ op'.key = k /\ op'.pc = "meta"
    BY <1>3 DEF StoreOnDisk, NewWrite, MayStore, WriterMayEnter, OpInv, Idle
  <2>2. \A j \in Keys : OnDisk(j)' = OnDisk(j)
    BY <1>1, <2>1 DEF OnDisk, Readable
  <2>3. \A j \in Keys : Seen(j)' = Seen(j) /\ Hidden(j)' = Hidden(j)
    BY <2>1, <2>2 DEF Seen, Hidden, InMemory
  <2>4. QED
    BY <2>1, <2>3 DEF CacheOfStorage!Begin, Seen, Hidden
<1>4. QED
  BY <1>2, <1>3

\* A store that stops where it is leaves the copy there was, or one with its metadata.
LEMMA StoppedCopies ==
  ASSUME Typed, OpInv, StorageAssumption, files' \in Interrupted, op'.key = None,
         NEW j \in Keys, NEW c \in OnDisk(j)'
  PROVE  c \in OnDisk(j) \/ (j = op.key /\ c.md = lastWrite)
<1>1. None \notin Keys /\ Torn \notin Writes /\ Nothing \notin Writes
  BY StorageAssumption DEF Torn, Writes, Nothing
<1>2. op \in OpType /\ files \in [Keys -> FileState]
  BY TypeFacts
<1>3. c = files'[j] /\ files'[j].md \in Writes /\ files'[j].data # Nothing
  BY DEF OnDisk, Readable
<1>4. op.key \in Keys \/ op.pc = "idle"
  BY Storing
<1>5. CASE files'[j] = files[j] /\ (j # op.key \/ op.pc = "meta")
  BY <1>3, <1>5 DEF OnDisk, Readable
<1>6. CASE j # op.key
  BY <1>4, <1>5, <1>6, InterruptedTyped
<1>7. CASE j = op.key /\ op.pc = "meta"
  <2>1. files'[j] = files[j] \/ files'[j].md = Torn
    BY <1>2, <1>4, <1>7, InterruptedTyped DEF FileState
  <2>2. QED
    BY <1>1, <1>3, <1>5, <1>7, <2>1
<1>8. CASE j = op.key /\ op.pc = "data"
  <2>1. files'[j].md = files[j].md
    BY <1>2, <1>4, <1>8, InterruptedTyped DEF FileState
  <2>2. QED
    BY <1>3, <1>8, <2>1 DEF OpInv
<1>9. CASE j = op.key /\ op.pc \in {"put", "space", "count"}
  <2>1. files' = files
    BY <1>4, <1>9, InterruptedTyped
  <2>2. QED
    BY <1>1, <1>3, <1>9, <2>1 DEF OpInv, NoFiles
<1>10. j = op.key => op.pc # "idle"
  BY <1>1 DEF OpInv
<1>11. QED
  BY <1>2, <1>6, <1>7, <1>8, <1>9, <1>10 DEF OpType

\* The copies of k are those of before and the one just stored.
Gaining(k) ==
  /\ Seen(k)' \subseteq Seen(k) \cup {[md |-> lastWrite, data |-> lastWrite]}
  /\ Hidden(k)' \subseteq Hidden(k) \cup Seen(k) \cup {[md |-> lastWrite, data |-> lastWrite]}

\* What a store that failed may leave of k has its metadata.
Leaving(k) ==
  /\ \A c \in Seen(k)' \ Seen(k) : c.md = lastWrite
  /\ \A c \in Hidden(k)' \ (Hidden(k) \cup Seen(k)) : c.md = lastWrite

\* The end of a store is Cache's End.
LEMMA MapEnd ==
  ASSUME op.key \in Keys, op.key # None, op'.key = None, UNCHANGED <<load, lastWrite, purged>>,
         \A j \in Keys : IF j = op.key THEN Gaining(j) ELSE Fading(j)
  PROVE  CacheOfStorage!End
<1>1. Gaining(op.key) /\ \A j \in Keys \ {op.key} : Fading(j)
  OBVIOUS
<1>2. QED
  BY <1>1 DEF CacheOfStorage!End, CacheOfStorage!Fades, CacheOfStorage!Whole, Fading, Gaining,
              Seen, Hidden

\* A failed store is Cache's Fail.
LEMMA MapFail ==
  ASSUME op.key \in Keys, op.key # None, op'.key = None, UNCHANGED <<load, lastWrite, purged>>,
         \A j \in Keys : IF j = op.key THEN Leaving(j) ELSE Fading(j)
  PROVE  CacheOfStorage!Fail
BY DEF CacheOfStorage!Fail, CacheOfStorage!Fades, Fading, Leaving, Seen, Hidden

\* The end of a store on disk, whether it succeeds, is refused or fails.
LEMMA EndSteps ==
  ASSUME Typed, OpInv, StorageAssumption
  PROVE  /\ StoreRefused \/ StoreInsert => CacheOfStorage!End
         /\ StoreFails => CacheOfStorage!Fail
<1>1. /\ files \in [Keys -> FileState] /\ idx \in [Keys -> Nat]
      /\ None \notin Keys /\ Nothing \notin Writes
  BY TypeFacts, StorageAssumption DEF Writes, Nothing
<1>2. ASSUME StoreRefused PROVE CacheOfStorage!End
  <2>1. PICK k \in Keys : k = op.key
    BY <1>2, Storing DEF StoreRefused
  <2>2. UNCHANGED <<mem, idx, load, lastWrite, purged>> /\ op'.key = None
    BY <1>2 DEF StoreRefused, history, Idle
  <2>3. \A j \in Keys : IF j = k THEN files'[j].md = Nothing ELSE files'[j] = files[j]
    BY <1>1, <1>2, <2>1 DEF StoreRefused, Removed, NoFiles
  <2>4. \A j \in Keys : Fading(j)
    BY <1>1, <2>1, <2>2, <2>3, CopiesFade
  <2>5. \A j \in Keys : Gaining(j)
    BY <2>4 DEF Fading, Gaining
  <2>6. QED
    BY <1>1, <2>1, <2>2, <2>4, <2>5, MapEnd
<1>3. ASSUME StoreInsert PROVE CacheOfStorage!End
  <2>1. PICK k \in Keys : k = op.key
    BY <1>3, Storing DEF StoreInsert
  <2>2. UNCHANGED <<mem, files, load, lastWrite, purged>> /\ op'.key = None /\ op.pc = "count"
    BY <1>3 DEF StoreInsert, history, Idle
  <2>3. PICK S \in SUBSET Indexed, v \in {NewSize, 0} :
          idx' = [i \in Keys |-> IF i = op.key THEN v ELSE IF i \in S THEN idx[i] ELSE 0]
    BY <1>3, <2>1, InsertedIndex
  <2>4. \A j \in Keys : j # k => Fading(j)
    <3>1. \A j \in Keys : j # k => idx'[j] \in {idx[j], 0}
      BY <2>1, <2>3
    <3>2. QED
      BY <2>1, <2>2, <3>1, CopiesFade
  <2>5. OnDisk(k)' \subseteq {[md |-> lastWrite, data |-> lastWrite]}
    <3>1. OnDisk(k)' \subseteq IF files[k].md \in Writes THEN {files[k]} ELSE {}
      BY <1>1, <2>1, <2>2 DEF OnDisk, Readable
    <3>2. files[k] = [md |-> files[k].md, data |-> files[k].data]
      BY <1>1 DEF FileState
    <3>3. (files[k].md = lastWrite /\ files[k].data = lastWrite) \/ files[k].md \notin Writes
      BY <1>1, <2>1, <2>2 DEF OpInv, NoFiles
    <3>4. QED
      BY <3>1, <3>2, <3>3
  <2>7. /\ Seen(k)' \subseteq Seen(k) \cup {[md |-> lastWrite, data |-> lastWrite]}
        /\ Hidden(k)' \subseteq {[md |-> lastWrite, data |-> lastWrite]}
    BY <2>2, <2>5 DEF Seen, Hidden, InMemory
  <2>8. Gaining(k)
    BY <2>7 DEF Gaining
  <2>9. QED
    BY <1>1, <2>1, <2>2, <2>4, <2>8, MapEnd
<1>4. ASSUME StoreFails PROVE CacheOfStorage!Fail
  <2>1. PICK k \in Keys : k = op.key
    BY <1>4, Storing DEF StoreFails
  <2>2. UNCHANGED <<mem, idx, load, lastWrite, purged>> /\ files' \in Interrupted /\ op'.key = None
    BY <1>4 DEF StoreFails, history, Idle
  <2>3. \A j \in Keys : \A c \in OnDisk(j)' : c \in OnDisk(j) \/ (j = k /\ c.md = lastWrite)
    BY <2>1, <2>2, StoppedCopies
  <2>4. \A j \in Keys : j # k => Fading(j)
    BY <2>2, <2>3 DEF Fading, Seen, Hidden, InMemory
  <2>5. /\ \A c \in Seen(k)' \ Seen(k) : c.md = lastWrite
        /\ \A c \in Hidden(k)' \ (Hidden(k) \cup Seen(k)) : c.md = lastWrite
    BY <2>1, <2>2, <2>3 DEF Seen, Hidden, InMemory
  <2>6. Leaving(k)
    BY <2>5 DEF Leaving
  <2>7. QED
    BY <1>1, <2>1, <2>2, <2>4, <2>6, MapFail
<1>5. QED
  BY <1>2, <1>3, <1>4

\* A purge of one key, or of everything.
LEMMA PurgeSteps ==
  ASSUME Typed, OpInv, StorageAssumption
  PROVE  /\ \A k \in Keys : PurgeKey(k) => CacheOfStorage!Purge(k)
         /\ Flush => CacheOfStorage!PurgeAll
<1>1. /\ files \in [Keys -> FileState] /\ idx \in [Keys -> Nat] /\ load \in LoadType
      /\ None \notin Keys /\ Nothing \notin Writes
      /\ mem \in [Keys -> Writes \cup {Nothing}] /\ flaw \in [Keys -> SUBSET {"gone", "cut", "unseen"}]
  <2>1. Nothing \notin Writes
    BY StorageAssumption DEF Writes, Nothing
  <2>2. QED
    BY <2>1, TypeFacts, StorageAssumption DEF Typed, TypeOK
<1>2. ASSUME NEW k \in Keys, PurgeKey(k)
      PROVE  CacheOfStorage!Purge(k)
  <2>1. /\ UNCHANGED <<op, load, lastWrite>> /\ purged' = [purged EXCEPT ![k] = lastWrite]
        /\ op.key = None
    BY <1>2 DEF PurgeKey, history, MayStore, WriterMayEnter, OpInv
  <2>2. \A j \in Keys : mem'[j] = IF j = k THEN Nothing ELSE mem[j]
    BY <1>1, <1>2 DEF PurgeKey
  <2>3. \A j \in Keys : j # k => idx'[j] = idx[j] /\ files'[j] = files[j]
    <3>1. CASE Listed(k) /\ idx[k] # 0
      BY <1>1, <1>2, <3>1 DEF PurgeKey, Removed
    <3>2. CASE ~(Listed(k) /\ idx[k] # 0)
      BY <1>2, <3>2 DEF PurgeKey
    <3>3. QED
      BY <3>1, <3>2
  <2>4. \A j \in Keys : j # k => Seen(j)' = Seen(j) /\ Hidden(j)' = Hidden(j)
    BY <1>1, <2>1, <2>2, <2>3 DEF Seen, Hidden, InMemory, OnDisk, Readable
  <2>5. Seen(k)' = {} /\ Hidden(k)' = Hidden(k)
    <3>1. mem'[k] = Nothing
      BY <2>2
    <3>2. CASE Listed(k) /\ idx[k] # 0
      <4>1. idx'[k] = 0 /\ files'[k].md \notin Writes
        BY <1>1, <1>2, <3>2 DEF PurgeKey, Removed, NoFiles
      <4>2. QED
        BY <3>1, <3>2, <4>1 DEF Seen, Hidden, InMemory, OnDisk, Readable
    <3>3. CASE ~Listed(k) /\ idx[k] # 0
      <4>1. UNCHANGED <<idx, files>> /\ ~Readable(k)
        BY <1>2, <3>3 DEF PurgeKey, Listed
      <4>2. QED
        BY <3>1, <3>3, <4>1 DEF Seen, Hidden, InMemory, OnDisk, Readable
    <3>4. CASE idx[k] = 0
      <4>1. UNCHANGED <<idx, files>>
        BY <1>2, <3>4 DEF PurgeKey
      <4>2. QED
        BY <2>1, <3>1, <3>4, <4>1 DEF Seen, Hidden, InMemory, OnDisk, Readable
    <3>5. QED
      BY <3>2, <3>3, <3>4
  <2>6. QED
    BY <2>1, <2>4, <2>5 DEF CacheOfStorage!Purge, Seen, Hidden
<1>3. ASSUME Flush
      PROVE  CacheOfStorage!PurgeAll
  <2>1. /\ UNCHANGED <<op, lastWrite>> /\ purged' = [k \in Keys |-> lastWrite]
        /\ op.key = None
    BY <1>3 DEF Flush, history, WriterMayEnter, OpInv
  <2>2. load'.phase # "off" => load.phase # "off"
    BY <1>3 DEF Flush, NotLoading
  <2>3. load'.phase = load.phase \/ load'.phase = "off"
    BY <1>3 DEF Flush, NotLoading
  <2>4. \A j \in Keys : /\ mem'[j] = Nothing /\ idx'[j] = 0
                        /\ files'[j] = files[j] \/ files'[j].md \notin Writes
    BY <1>1, <1>3 DEF Flush, NoFiles
  <2>5. \A j \in Keys : Fading(j)
    BY <1>1, <2>1, <2>4, CopiesFade
  <2>6. \A j \in Keys : Seen(j)' = {} /\ Hidden(j)' \subseteq Hidden(j) \cup Seen(j)
    BY <2>4, <2>5 DEF Fading, Seen, InMemory
  <2>7. QED
    BY <2>1, <2>3, <2>6 DEF CacheOfStorage!PurgeAll, Seen, Hidden
<1>4. QED
  BY <1>2, <1>3

\* A crash, and the load that follows.
LEMMA LoadSteps ==
  ASSUME Typed, OpInv, LoadInv, StorageAssumption
  PROVE  /\ Restart => CacheOfStorage!Crash
         /\ \A k \in Keys : LoadPut(k) => CacheOfStorage!Surface(k)
         /\ LoadFinish => CacheOfStorage!Loaded
<1>1. /\ files \in [Keys -> FileState] /\ idx \in [Keys -> Nat] /\ load \in LoadType
  BY TypeFacts
<1>2. ASSUME Restart
      PROVE  CacheOfStorage!Crash
  <2>1. /\ UNCHANGED <<lastWrite, purged>> /\ op'.key = None /\ load'.phase = "start"
        /\ files' \in Interrupted
    BY <1>2 DEF Restart, Idle, StartLoading, NotLoading
  <2>2. \A j \in Keys : mem'[j] = Nothing /\ idx'[j] = 0
    BY <1>2 DEF Restart
  <2>3. \A j \in Keys : \A c \in OnDisk(j)' : c \in OnDisk(j) \/ (j = op.key /\ c.md = lastWrite)
    BY <2>1, StoppedCopies
  <2>4. \A j \in Keys : Seen(j)' = {}
    BY <2>2 DEF Seen, InMemory
  <2>5. \A j \in Keys : \A c \in Hidden(j)' \ (Hidden(j) \cup Seen(j)) : j = op.key /\ c.md = lastWrite
    BY <2>2, <2>3 DEF Seen, Hidden
  <2>6. QED
    BY <2>1, <2>4, <2>5 DEF CacheOfStorage!Crash, Seen, Hidden
<1>3. ASSUME NEW k \in Keys, LoadPut(k)
      PROVE  CacheOfStorage!Surface(k)
  <2>1. UNCHANGED <<mem, files, op, lastWrite, purged>>
    BY <1>3 DEF LoadPut, history
  <2>2. load.phase = "run" /\ load'.phase = "run"
    BY <1>1, <1>3 DEF LoadPut, LoadInv, LoadType
  <2>3. PICK S \in SUBSET Indexed, v \in {load.held[k], 0} :
          idx' = [i \in Keys |-> IF i = k THEN v ELSE IF i \in S THEN idx[i] ELSE 0]
    BY <1>3, LoadedIndex
  <2>4. \A j \in Keys : j # k => Fading(j)
    <3>1. \A j \in Keys : j # k => idx'[j] \in {idx[j], 0}
      BY <2>3
    <3>2. QED
      BY <2>1, <3>1, CopiesFade
  <2>6. OnDisk(k)' = OnDisk(k)
    BY <2>1 DEF OnDisk, Readable
  <2>7. /\ Seen(k)' \subseteq Seen(k) \cup Hidden(k)
        /\ Hidden(k)' \subseteq Seen(k) \cup Hidden(k)
    BY <2>1, <2>6 DEF Seen, Hidden, InMemory
  <2>8. QED
    BY <2>1, <2>2, <2>4, <2>7
       DEF CacheOfStorage!Surface, CacheOfStorage!Fades, Fading, Seen, Hidden
<1>4. ASSUME LoadFinish
      PROVE  CacheOfStorage!Loaded
  <2>1. UNCHANGED <<mem, idx, files, op, lastWrite, purged>>
    BY <1>4 DEF LoadFinish, history
  <2>2. load.phase = "run" /\ load'.phase = "off"
    BY <1>4 DEF LoadFinish, NotLoading
  <2>3. \A j \in Keys : Seen(j)' = Seen(j) /\ Hidden(j)' = Hidden(j)
    BY <2>1 DEF Seen, Hidden, InMemory, OnDisk, Readable
  <2>4. QED
    BY <2>1, <2>2, <2>3 DEF CacheOfStorage!Loaded, Seen, Hidden
<1>5. QED
  BY <1>2, <1>3, <1>4

\* Every step of the store is a step of Cache.
LEMMA CacheStep ==
  ASSUME StorageInv, StorageAssumption, [Next]_vars
  PROVE  CacheOfStorage!Next
<1>1. Typed /\ OpInv /\ LoadInv
  BY DEF StorageInv
<1>2. CASE \/ \E d \in Deleters : DeleteRest(d)
           \/ \E k \in Keys : \/ ReadExpiredInMemory(k) \/ PurgeAsync(k) \/ EvictForSpace(k)
                              \/ EvictForCount(k) \/ LoadEntry(k)
           \/ \E k \in Keys, r \in Readers : ReadExpiredOnDisk(r, k)
           \/ \E k \in Keys, x \in Streams : OpenStream(x, k)
           \/ \E x \in Streams : CloseStream(x)
           \/ StoreMeta \/ StoreData \/ StorePut \/ PickForCount \/ Expire \/ LoadStart
           \/ UNCHANGED vars
  BY <1>1, <1>2, LoseSteps DEF CacheOfStorage!Next
<1>3. ASSUME NEW k \in Keys, NEW s \in Sizes, StoreInMemory(k, s) \/ StoreOnDisk(k, s)
      PROVE  CacheOfStorage!Next
  BY <1>1, <1>3, StoreSteps DEF CacheOfStorage!Next
<1>4. CASE StoreRefused \/ StoreInsert \/ StoreFails
  BY <1>1, <1>4, EndSteps DEF CacheOfStorage!Next
<1>5. CASE Flush \/ \E k \in Keys : PurgeKey(k)
  BY <1>1, <1>5, PurgeSteps DEF CacheOfStorage!Next
<1>6. CASE Restart \/ LoadFinish \/ \E k \in Keys : LoadPut(k)
  BY <1>1, <1>6, LoadSteps DEF CacheOfStorage!Next
<1>7. QED
  BY <1>2, <1>3, <1>4, <1>5, <1>6 DEF Next

\* What Storage does, with its tiers, index, files and locks, its failures and crashes,
\* is what Cache.tla promises: no torn copies but from a failed store, no copy that
\* outlives a purge that could see it, and none that comes back but by a load.
THEOREM CacheRefined == Spec => ImplementsCache
<1>1. Init => CacheOfStorage!Init
  <2> SUFFICES ASSUME Init PROVE CacheOfStorage!Init
    OBVIOUS
  <2>1. Nothing \notin Writes
    BY StorageAssumption DEF Writes, Nothing
  <2>2. \A k \in Keys : Seen(k) = {} /\ Hidden(k) = {}
    BY <2>1 DEF Init, Seen, Hidden, InMemory, OnDisk, Readable, NoFiles
  <2>3. /\ op.key = None /\ lastWrite = 0 /\ purged = [k \in Keys |-> 0]
        /\ load.phase # "off"
    BY DEF Init, Idle, StartLoading, NotLoading
  <2>4. QED
    BY <2>2, <2>3 DEF CacheOfStorage!Init, Seen, Hidden
<1>2. StorageInv /\ [Next]_vars => CacheOfStorage!Next
  BY CacheStep, StorageAssumption
<1>3. QED
  BY <1>1, <1>2, StorageInvariant, PTL
     DEF Spec, ImplementsCache, CacheOfStorage!Spec

-----------------------------------------------------------------------------
(* Sums over finite sets. SumFunctionOnSet is a recursive definition; what it *)
(* says holds by induction over the subsets of a finite set, each time in the *)
(* form of Minimal: a claim that fails somewhere has a smallest failure.      *)

\* A nonempty family of subsets of a finite set has a minimal member.
LEMMA Minimal ==
  ASSUME NEW U, IsFiniteSet(U), NEW F \in SUBSET SUBSET U, F # {}
  PROVE  \E s \in F : \A t \in F : t \subseteq s => t = s
<1>1. IsWellFoundedOn(StrictSubsetOrdering(U), SUBSET U)
  BY FS_StrictSubsetOrderingWellFounded, FS_FiniteSubsetsOfFinite
<1>2. PICK s \in F : \A t \in F : ~(<<t, s>> \in StrictSubsetOrdering(U))
  BY <1>1, WFMin
<1>3. QED
  BY <1>2 DEF StrictSubsetOrdering

\* The element of s that SumFunctionOnSet adds last, and the others.
Chosen(s) == CHOOSE x \in s : TRUE
Others(s) == s \ {Chosen(s)}

\* g[s] is the sum of f over s, for each subset s of S.
Totals(f, S, g) ==
  g = [s \in SUBSET S |-> IF s = {} THEN 0 ELSE f[Chosen(s)] + g[Others(s)]]

\* Two sums of f agree on the sets that both have.
LEMMA TotalsAgree ==
  ASSUME NEW f, NEW A, NEW B, NEW g, NEW h, IsFiniteSet(A),
         Totals(f, A, g), Totals(f, B, h)
  PROVE  \A s \in SUBSET (A \cap B) : g[s] = h[s]
<1> DEFINE F == {s \in SUBSET (A \cap B) : g[s] # h[s]}
<1>1. SUFFICES ASSUME F # {} PROVE FALSE
  OBVIOUS
<1>2. PICK s \in F : \A t \in F : t \subseteq s => t = s
  <2>1. IsFiniteSet(A \cap B)
    BY FS_Subset
  <2> HIDE DEF F
  <2>2. F \in SUBSET SUBSET (A \cap B)
    BY DEF F
  <2>3. QED
    BY <1>1, <2>1, <2>2, Minimal
<1>3. s \subseteq A /\ s \subseteq B /\ g[s] # h[s]
  OBVIOUS
<1>4. s # {}
  BY <1>3 DEF Totals
<1>5. Others(s) \subseteq s /\ Others(s) # s
  BY <1>4 DEF Others, Chosen
<1>6. g[Others(s)] = h[Others(s)]
  BY <1>2, <1>5
<1>7. QED
  BY <1>3, <1>4, <1>6 DEF Totals

\* Every finite set has the sums of its subsets.
LEMMA TotalsExist ==
  ASSUME NEW f, NEW S, IsFiniteSet(S)
  PROVE  \E g : Totals(f, S, g)
<1> DEFINE F == {s \in SUBSET S : ~\E g : Totals(f, s, g)}
<1>1. SUFFICES ASSUME F # {} PROVE FALSE
  OBVIOUS
<1>2. PICK s \in F : \A t \in F : t \subseteq s => t = s
  <2> HIDE DEF F
  <2>1. F \in SUBSET SUBSET S
    BY DEF F
  <2>2. QED
    BY <1>1, <2>1, Minimal
<1> DEFINE Table(t) == CHOOSE g : Totals(f, t, g)
           g == [t \in SUBSET s |->
                   IF t = {} THEN 0 ELSE f[Chosen(t)] + Table(Others(t))[Others(t)]]
<1>3. \A t \in SUBSET s : t # s => Totals(f, t, Table(t))
  BY <1>2
<1>4. \A t \in SUBSET s : t # {} => Others(t) \in SUBSET t /\ Others(t) # t
  BY DEF Others, Chosen
<1>5. ASSUME NEW t \in SUBSET s, t # {}
      PROVE  g[Others(t)] = Table(Others(t))[Others(t)]
  <2> DEFINE u == Others(t)
             h == Table(u)
  <2>1. u \in SUBSET s /\ u # s
    BY <1>4, <1>5
  <2>2. Totals(f, u, h)
    BY <1>3, <2>1
  <2>3. CASE u = {}
    BY <2>1, <2>2, <2>3 DEF Totals
  <2>4. CASE u # {}
    <3>1. Others(u) \in SUBSET u /\ Others(u) # s /\ Others(u) \in SUBSET s
      BY <1>4, <2>1, <2>4
    <3>2. Totals(f, Others(u), Table(Others(u)))
      BY <1>3, <3>1
    <3>3. IsFiniteSet(u)
      BY <2>1, FS_Subset
    <3> HIDE DEF u, h
    <3>4. h[Others(u)] = Table(Others(u))[Others(u)]
      BY <2>2, <3>1, <3>2, <3>3, TotalsAgree
    <3>5. h[u] = f[Chosen(u)] + h[Others(u)]
      BY <2>2, <2>4 DEF Totals
    <3>6. g[u] = f[Chosen(u)] + Table(Others(u))[Others(u)]
      BY <2>1, <2>4
    <3>7. QED
      BY <3>4, <3>5, <3>6 DEF u, h
  <2>5. QED
    BY <2>3, <2>4
<1>6. Totals(f, s, g)
  <2>1. \A t \in SUBSET s :
          g[t] = IF t = {} THEN 0 ELSE f[Chosen(t)] + g[Others(t)]
    <3> TAKE t \in SUBSET s
    <3>1. g[t] = IF t = {} THEN 0 ELSE f[Chosen(t)] + Table(Others(t))[Others(t)]
      OBVIOUS
    <3>2. t # {} => g[Others(t)] = Table(Others(t))[Others(t)]
      BY <1>5
    <3> HIDE DEF g, Table
    <3>3. QED
      BY <3>1, <3>2
  <2> HIDE DEF g
  <2>2. g = [t \in SUBSET s |-> g[t]]
    BY DEF g
  <2>3. QED
    BY <2>1, <2>2 DEF Totals
<1>7. QED
  BY <1>6, <1>2

\* SumFunctionOnSet is one of them.
LEMMA SumTotal ==
  ASSUME NEW f, NEW S, IsFiniteSet(S)
  PROVE  \E g : Totals(f, S, g) /\ SumFunctionOnSet(f, S) = g[S]
<1> DEFINE Rec(g) == [s \in SUBSET S |->
                         IF s = {} THEN 0 ELSE f[Chosen(s)] + g[Others(s)]]
           iter == CHOOSE g : g = Rec(g)
<1>1. iter = Rec(iter)
  <2>1. PICK g : Totals(f, S, g)
    BY TotalsExist
  <2>2. g = Rec(g)
    BY <2>1 DEF Totals
  <2> HIDE DEF Rec
  <2>3. QED
    BY <2>2
<1>2. SumFunctionOnSet(f, S) = iter[S]
  BY DEF SumFunctionOnSet, FoldFunctionOnSet, MapThenFoldSet, Chosen, Others
<1>3. QED
  BY <1>1, <1>2 DEF Totals

\* The recursion that defines it.
LEMMA SumStep ==
  ASSUME NEW f, NEW S, IsFiniteSet(S)
  PROVE  SumFunctionOnSet(f, S) =
           IF S = {} THEN 0 ELSE f[Chosen(S)] + SumFunctionOnSet(f, Others(S))
<1>1. PICK g : Totals(f, S, g) /\ SumFunctionOnSet(f, S) = g[S]
  BY SumTotal
<1>2. Others(S) \subseteq S /\ IsFiniteSet(Others(S))
  BY FS_Subset DEF Others
<1>3. PICK h : Totals(f, Others(S), h) /\ SumFunctionOnSet(f, Others(S)) = h[Others(S)]
  BY <1>2, SumTotal
<1>4. g[Others(S)] = h[Others(S)]
  BY <1>1, <1>2, <1>3, TotalsAgree
<1>5. g[S] = IF S = {} THEN 0 ELSE f[Chosen(S)] + g[Others(S)]
  BY <1>1 DEF Totals
<1>6. QED
  BY <1>1, <1>3, <1>4, <1>5

\* A sum of integers is an integer.
LEMMA SumInt ==
  ASSUME NEW D, IsFiniteSet(D), NEW f, \A x \in D : f[x] \in Int
  PROVE  \A S \in SUBSET D : SumFunctionOnSet(f, S) \in Int
<1> DEFINE F == {s \in SUBSET D : SumFunctionOnSet(f, s) \notin Int}
<1>1. SUFFICES ASSUME F # {} PROVE FALSE
  OBVIOUS
<1>2. PICK s \in F : \A t \in F : t \subseteq s => t = s
  <2> HIDE DEF F
  <2>1. F \in SUBSET SUBSET D
    BY DEF F
  <2>2. QED
    BY <1>1, <2>1, Minimal
<1>3. IsFiniteSet(s)
  BY FS_Subset
<1>4. s # {}
  BY <1>3, SumStep
<1>5. Chosen(s) \in s /\ Others(s) \subseteq s /\ Others(s) # s
  BY <1>4 DEF Chosen, Others
<1>6. SumFunctionOnSet(f, Others(s)) \in Int
  BY <1>2, <1>5
<1>7. SumFunctionOnSet(f, s) = f[Chosen(s)] + SumFunctionOnSet(f, Others(s))
  BY <1>3, <1>4, SumStep
<1>8. QED
  BY <1>5, <1>6, <1>7

\* Any element may be the last.
LEMMA SumTake ==
  ASSUME NEW D, IsFiniteSet(D), NEW f, \A x \in D : f[x] \in Int
  PROVE  \A S \in SUBSET D, x \in D :
           x \in S => SumFunctionOnSet(f, S) = f[x] + SumFunctionOnSet(f, S \ {x})
<1> DEFINE F == {s \in SUBSET D : \E x \in s : SumFunctionOnSet(f, s) # f[x] + SumFunctionOnSet(f, s \ {x})}
<1>1. SUFFICES ASSUME F # {} PROVE FALSE
  OBVIOUS
<1>2. PICK s \in F : \A t \in F : t \subseteq s => t = s
  <2> HIDE DEF F
  <2>1. F \in SUBSET SUBSET D
    BY DEF F
  <2>2. QED
    BY <1>1, <2>1, Minimal
<1>3. PICK x \in s : SumFunctionOnSet(f, s) # f[x] + SumFunctionOnSet(f, s \ {x})
  OBVIOUS
<1> DEFINE c == Chosen(s)
<1>4. /\ IsFiniteSet(s) /\ IsFiniteSet(s \ {x}) /\ s # {} /\ c \in s /\ s \subseteq D
      /\ Others(s) = s \ {c}
  BY FS_Subset DEF Chosen, Others
<1> HIDE DEF c
<1>5. SumFunctionOnSet(f, s) = f[c] + SumFunctionOnSet(f, s \ {c})
  BY <1>4, SumStep DEF c
<1>6. x # c
  BY <1>3, <1>5
<1>7. SumFunctionOnSet(f, s \ {c}) = f[x] + SumFunctionOnSet(f, s \ {c, x})
  <2>1. s \ {c} \notin F /\ x \in s \ {c} /\ (s \ {c}) \ {x} = s \ {c, x}
    BY <1>2, <1>3, <1>4, <1>6
  <2>2. QED
    BY <2>1, <1>4
<1>8. SumFunctionOnSet(f, s \ {x}) = f[c] + SumFunctionOnSet(f, s \ {c, x})
  <2>1. s \ {x} \notin F /\ c \in s \ {x} /\ (s \ {x}) \ {c} = s \ {c, x}
    BY <1>2, <1>3, <1>4, <1>6
  <2>2. QED
    BY <2>1, <1>4
<1>9. /\ f[x] \in Int /\ f[c] \in Int /\ SumFunctionOnSet(f, s \ {c, x}) \in Int
  BY <1>4, SumInt
<1>10. QED
  BY <1>3, <1>5, <1>7, <1>8, <1>9

\* A sum depends on the values over its set alone.
LEMMA SumSame ==
  ASSUME NEW S, IsFiniteSet(S), NEW f, NEW g, \A x \in S : f[x] = g[x]
  PROVE  SumFunctionOnSet(f, S) = SumFunctionOnSet(g, S)
<1> DEFINE F == {s \in SUBSET S : SumFunctionOnSet(f, s) # SumFunctionOnSet(g, s)}
<1>1. SUFFICES ASSUME F # {} PROVE FALSE
  OBVIOUS
<1>2. PICK s \in F : \A t \in F : t \subseteq s => t = s
  <2> HIDE DEF F
  <2>1. F \in SUBSET SUBSET S
    BY DEF F
  <2>2. QED
    BY <1>1, <2>1, Minimal
<1>3. IsFiniteSet(s) /\ s \subseteq S
  BY FS_Subset
<1>4. s # {}
  BY <1>3, SumStep
<1>5. Chosen(s) \in s /\ Others(s) \subseteq s /\ Others(s) # s
  BY <1>4 DEF Chosen, Others
<1>6. SumFunctionOnSet(f, Others(s)) = SumFunctionOnSet(g, Others(s))
  BY <1>2, <1>3, <1>5
<1>7. f[Chosen(s)] = g[Chosen(s)]
  BY <1>3, <1>5
<1> HIDE DEF F
<1>8. SumFunctionOnSet(f, s) = SumFunctionOnSet(g, s)
  BY <1>3, <1>4, <1>6, <1>7, SumStep
<1>9. QED
  BY <1>2, <1>8 DEF F

\* What is 0 adds nothing.
LEMMA SumSupport ==
  ASSUME NEW S, IsFiniteSet(S), NEW f, \A x \in S : f[x] \in Int
  PROVE  SumFunctionOnSet(f, {x \in S : f[x] # 0}) = SumFunctionOnSet(f, S)
<1> DEFINE D(s) == {x \in s : f[x] # 0}
           F == {s \in SUBSET S : SumFunctionOnSet(f, D(s)) # SumFunctionOnSet(f, s)}
<1>1. SUFFICES ASSUME F # {} PROVE FALSE
  OBVIOUS
<1>2. PICK s \in F : \A t \in F : t \subseteq s => t = s
  <2> HIDE DEF F
  <2>1. F \in SUBSET SUBSET S
    BY DEF F
  <2>2. QED
    BY <1>1, <2>1, Minimal
<1>3. PICK x \in s : TRUE
  OBVIOUS
<1> DEFINE r == s \ {x}
<1>4. SumFunctionOnSet(f, D(r)) = SumFunctionOnSet(f, r)
  BY <1>2, <1>3
<1>5. s \subseteq S /\ D(s) \subseteq S /\ r \subseteq S /\ f[x] \in Int
  OBVIOUS
<1>6. SumFunctionOnSet(f, s) = f[x] + SumFunctionOnSet(f, r)
  BY <1>5, SumTake
<1>7. SumFunctionOnSet(f, r) \in Int
  BY <1>5, SumInt
<1>8. CASE f[x] = 0
  <2>1. D(s) = D(r)
    BY <1>8
  <2>2. SumFunctionOnSet(f, D(s)) = SumFunctionOnSet(f, s)
    <3> HIDE DEF D, F, r
    <3>1. QED
      BY <1>4, <1>6, <1>7, <1>8, <2>1
  <2>3. QED
    BY <2>2
<1>9. CASE f[x] # 0
  <2>1. x \in D(s) /\ D(s) \ {x} = D(r)
    BY <1>9
  <2> HIDE DEF D, r
  <2>2. SumFunctionOnSet(f, D(s)) = f[x] + SumFunctionOnSet(f, D(r))
    BY <1>5, <2>1, SumTake
  <2>3. QED
    BY <1>4, <1>6, <2>2
<1>10. QED
  BY <1>8, <1>9

\* A value that changes changes the sum by as much.
LEMMA SumChange ==
  ASSUME NEW S, IsFiniteSet(S), NEW k \in S, NEW f, NEW g,
         \A x \in S : f[x] \in Int /\ g[x] \in Int,
         \A x \in S : x # k => g[x] = f[x]
  PROVE  /\ SumFunctionOnSet(f, S) \in Int
         /\ SumFunctionOnSet(g, S) = SumFunctionOnSet(f, S) + g[k] - f[k]
<1>1. /\ SumFunctionOnSet(f, S) = f[k] + SumFunctionOnSet(f, S \ {k})
      /\ SumFunctionOnSet(g, S) = g[k] + SumFunctionOnSet(g, S \ {k})
  BY SumTake
<1>2. SumFunctionOnSet(f, S \ {k}) = SumFunctionOnSet(g, S \ {k})
  BY FS_Subset, SumSame
<1>3. SumFunctionOnSet(f, S \ {k}) \in Int /\ SumFunctionOnSet(f, S) \in Int
  BY SumInt
<1>4. QED
  BY <1>1, <1>2, <1>3

-----------------------------------------------------------------------------
(* The counters.                                                           *)

\* n is the sum of f and m the number of its keys that are not 0.
Tally(f, n, m) == n = SumFunction(f) /\ m = Cardinality({k \in Keys : f[k] # 0})

\* What the running load has yet to put into the index.
ToLoad(k) == k \in load.todo \/ load.held[k] # 0

\* The index as far as the load has come.
Loaded == [k \in Keys |-> IF ToLoad(k) THEN 0 ELSE idx[k]]

\* Unless they have drifted, the counters, or else the ones the load is making, tally.
CountInv ==
  /\ load.phase # "run" => load.size = 0 /\ load.count = 0
  /\ \A k \in load.todo : load.held[k] = 0
  /\ \/ drift
     \/ load.phase # "run" /\ Tally(idx, usage, count)
     \/ /\ load.phase = "run" /\ Tally(Loaded, load.size, load.count)
        /\ \A k \in load.todo : idx[k] # 0 => HasDir(k)

\* Nothing in the index, nothing in the counters.
LEMMA TallyZero ==
  ASSUME IsFiniteSet(Keys), NEW f \in [Keys -> Nat], \A k \in Keys : f[k] = 0
  PROVE  Tally(f, 0, 0)
<1>1. {k \in Keys : f[k] # 0} = {} /\ DOMAIN f = Keys
  OBVIOUS
<1>2. SumFunctionOnSet(f, Keys) = SumFunctionOnSet(f, {})
  BY <1>1, SumSupport
<1>3. SumFunctionOnSet(f, {}) = 0
  BY FS_EmptySet, SumStep
<1>4. QED
  BY <1>1, <1>2, <1>3, FS_EmptySet DEF Tally, SumFunction

\* One entry that changes, or comes or goes, changes the counters by what it is.
LEMMA TallyChange ==
  ASSUME IsFiniteSet(Keys), NEW f \in [Keys -> Nat], NEW g \in [Keys -> Nat],
         NEW k \in Keys, \A j \in Keys : j # k => g[j] = f[j],
         NEW n \in Int, NEW m \in Int, Tally(f, n, m)
  PROVE  Tally(g, n + g[k] - f[k],
               IF f[k] = 0 THEN IF g[k] = 0 THEN m ELSE m + 1
               ELSE IF g[k] = 0 THEN m - 1 ELSE m)
<1> DEFINE A == {j \in Keys : f[j] # 0}
           B == {j \in Keys : g[j] # 0}
<1>1. SumFunction(g) = n + g[k] - f[k]
  BY SumChange DEF Tally, SumFunction
<1>2. IsFiniteSet(A) /\ IsFiniteSet(B) /\ Cardinality(A) \in Nat
  BY FS_Subset, FS_CardinalityType
<1>3. CASE (f[k] = 0) = (g[k] = 0)
  <2>1. A = B
    BY <1>3
  <2>2. QED
    BY <1>1, <1>3, <2>1 DEF Tally
<1>4. CASE f[k] = 0 /\ g[k] # 0
  <2>1. B = A \cup {k} /\ k \notin A
    BY <1>4
  <2>2. Cardinality(B) = Cardinality(A) + 1
    BY <1>2, <2>1, FS_AddElement
  <2>3. QED
    BY <1>1, <1>4, <2>2 DEF Tally
<1>5. CASE f[k] # 0 /\ g[k] = 0
  <2>1. B = A \ {k} /\ k \in A
    BY <1>5
  <2>2. Cardinality(B) = Cardinality(A) - 1
    BY <1>2, <2>1, FS_RemoveElement
  <2>3. QED
    BY <1>1, <1>5, <2>2 DEF Tally
<1>6. QED
  BY <1>3, <1>4, <1>5

\* A step that leaves index, counters, load and directories alone.
LEMMA CountKept ==
  ASSUME CountInv, UNCHANGED <<idx, usage, count, load, drift>>,
         \A k \in Keys : HasDir(k) => HasDir(k)', Typed
  PROVE  CountInv'
<1>1. Loaded' = Loaded /\ load.todo \subseteq Keys
  BY TypeFacts DEF Loaded, ToLoad, LoadType
<1>2. QED
  BY <1>1 DEF CountInv, Tally

\* Counters that drifted owe nothing.
LEMMA CountDrifted ==
  ASSUME CountInv, drift', load' = load
  PROVE  CountInv'
BY DEF CountInv

\* Every step keeps the counters right, or knows that they drifted.
LEMMA CountStep ==
  ASSUME IsFiniteSet(Keys), StorageInv, CountInv, StorageAssumption, [Next]_vars
  PROVE  CountInv'
<1>1. /\ Typed /\ OpInv /\ DeleteInv /\ LoadInv /\ IndexInv
      /\ idx \in [Keys -> Nat] /\ op \in OpType /\ load \in LoadType
      /\ files \in [Keys -> FileState]
      /\ deleting \in [Deleters -> Deletion \cup {None}]
      /\ usage \in Int /\ count \in Int /\ drift \in BOOLEAN
  BY TypeFacts DEF StorageInv, Typed, TypeOK
<1>2. idx' \in [Keys -> Nat] /\ load' \in LoadType
  <2>1. Typed'
    BY TypeStep DEF StorageInv
  <2>2. QED
    BY <2>1 DEF Typed, TypeOK, LoadType
<1>3. ASSUME NEW d \in Deleters, DeleteRest(d)
      PROVE  CountInv'
  <2>1. CASE drift'
    BY <1>3, <2>1, CountDrifted DEF DeleteRest
  <2>2. CASE ~drift'
    <3>1. PICK k \in Keys : /\ k = deleting[d].key /\ deleting[d].size # 0
                            /\ idx[k] = deleting[d].size /\ ~drift /\ load.phase # "run"
      BY <1>1, <1>3, <2>2 DEF DeleteRest, Deletion
    <3>2. /\ idx' = [idx EXCEPT ![k] = 0] /\ load' = load
          /\ usage' = usage - idx[k] /\ count' = count - 1
      BY <1>3, <3>1 DEF DeleteRest
    <3>3. Tally(idx', usage', count')
      <4>1. /\ Tally(idx, usage, count) /\ idx[k] # 0 /\ idx'[k] = 0
            /\ \A j \in Keys : j # k => idx'[j] = idx[j]
        BY <1>1, <3>1, <3>2 DEF CountInv
      <4>2. Tally(idx', usage + idx'[k] - idx[k], count - 1)
        BY <1>1, <1>2, <4>1, TallyChange
      <4>3. QED
        BY <1>1, <3>2, <4>1, <4>2
    <3>4. QED
      BY <3>1, <3>2, <3>3 DEF CountInv, Tally
  <2>3. QED
    BY <2>1, <2>2
<1>4. ASSUME NEW k \in Keys, PurgeKey(k)
      PROVE  CountInv'
  <2>1. load' = load
    BY <1>4 DEF PurgeKey
  <2>2. CASE Listed(k) /\ idx[k] # 0 /\ ~drift'
    <3>1. /\ idx' = [idx EXCEPT ![k] = 0] /\ ~drift /\ load.phase # "run"
          /\ usage' = usage - idx[k] /\ count' = count - 1
      BY <1>1, <1>4, <2>2 DEF PurgeKey
    <3>2. Tally(idx', usage', count')
      <4>1. /\ Tally(idx, usage, count) /\ idx[k] # 0 /\ idx'[k] = 0
            /\ \A j \in Keys : j # k => idx'[j] = idx[j]
        BY <1>1, <2>2, <3>1 DEF CountInv
      <4>2. Tally(idx', usage + idx'[k] - idx[k], count - 1)
        BY <1>1, <1>2, <4>1, TallyChange
      <4>3. QED
        BY <1>1, <3>1, <4>1, <4>2
    <3>3. QED
      BY <2>1, <3>1, <3>2 DEF CountInv, Tally
  <2>3. CASE ~(Listed(k) /\ idx[k] # 0)
    <3>1. UNCHANGED <<idx, usage, count, load, drift, files>>
      BY <1>4, <2>3 DEF PurgeKey, counters
    <3>2. QED
      BY <1>1, <3>1, CountKept DEF HasDir
  <2>4. QED
    BY <2>1, <2>2, <2>3, CountDrifted
<1>5. CASE StoreInsert
  <2>1. load' = load
    BY <1>5 DEF StoreInsert
  <2>2. CASE ~drift'
    <3>1. PICK k \in Keys : k = op.key
      BY <1>1, <1>5, Storing DEF StoreInsert
    <3>2. PICK S \in SUBSET Indexed, v \in {NewSize, 0} :
            /\ idx' = [j \in Keys |-> IF j = k THEN v ELSE IF j \in S THEN idx[j] ELSE 0]
            /\ drift \/ S # Indexed => drift'
            /\ v = NewSize \/ S # Indexed
      BY <1>5, <3>1, InsertedIndex
    <3>3. /\ ~drift /\ load.phase # "run" /\ S = Indexed
          /\ usage' = usage + NewSize - idx[k]
          /\ count' = IF idx[k] = 0 THEN count + 1 ELSE count
      BY <1>1, <1>5, <2>2, <3>1, <3>2 DEF StoreInsert, CountEntry
    <3>4. NewSize \in Nat \ {0}
      BY <1>1, <1>5, NewSizePositive DEF StoreInsert
    <3>5. \A j \in Keys : j # k => idx'[j] = idx[j]
      BY <1>1, <3>2, <3>3 DEF Indexed
    <3>6. idx'[k] = NewSize
      BY <3>2, <3>3
    <3>7. Tally(idx', usage', count')
      BY <1>1, <1>2, <3>3, <3>4, <3>5, <3>6, TallyChange DEF CountInv
    <3>8. QED
      BY <2>1, <2>2, <3>3, <3>7 DEF CountInv, Tally
  <2>3. QED
    BY <2>1, <2>2, CountDrifted
<1>6. ASSUME NEW k \in Keys, LoadEntry(k)
      PROVE  CountInv'
  <2>1. /\ UNCHANGED <<idx, usage, count, drift, files>>
        /\ k \in load.todo /\ load.held[k] = 0 /\ load.phase = "run"
    BY <1>1, <1>6 DEF LoadEntry, counters, CountInv, LoadInv
  <2>2. /\ load'.todo = load.todo \ {k} /\ load'.phase = "run"
        /\ load'.held = [load.held EXCEPT ![k] = IF HasDir(k) THEN DirSize(k) ELSE 0]
        /\ load'.size = load.size /\ load'.count = load.count
    BY <1>1, <1>6, <2>1 DEF LoadEntry, LoadType
  <2>3. \A j \in load'.todo : load'.held[j] = 0 /\ j \in load.todo
    BY <1>1, <2>2 DEF CountInv, LoadType
  <2>4. CASE ~drift
    <3>1. HasDir(k) => load'.held[k] # 0
      BY <1>1, <2>2, DirSizePositive DEF LoadType
    <3>2. ~HasDir(k) => idx[k] = 0
      BY <2>1, <2>4 DEF CountInv
    <3>3. \A j \in Keys : Loaded'[j] = Loaded[j]
      BY <1>1, <2>1, <2>2, <3>1, <3>2 DEF Loaded, ToLoad, LoadType
    <3>4. Loaded' = Loaded
      BY <3>3 DEF Loaded
    <3>5. \A j \in load'.todo : idx'[j] # 0 => HasDir(j)'
      BY <2>1, <2>3, <2>4 DEF CountInv, HasDir
    <3>6. Tally(Loaded', load'.size, load'.count)
      BY <2>1, <2>2, <2>4, <3>4 DEF CountInv
    <3>7. QED
      BY <2>1, <2>2, <2>3, <3>5, <3>6 DEF CountInv, Tally
  <2>5. CASE drift
    BY <2>1, <2>2, <2>3, <2>5 DEF CountInv
  <2>6. QED
    BY <2>4, <2>5
<1>7. ASSUME NEW k \in Keys, LoadPut(k)
      PROVE  CountInv'
  <2>1. /\ UNCHANGED <<usage, count, files>>
        /\ load.held[k] # 0 /\ load.held[k] \in Nat
        /\ k \notin load.todo /\ load.phase = "run"
    BY <1>1, <1>7 DEF LoadPut, counters, CountInv, LoadInv, LoadType
  <2>2. /\ load'.todo = load.todo /\ load'.phase = "run"
        /\ load'.held = [load.held EXCEPT ![k] = 0]
        /\ load'.size = load.size + load.held[k] /\ load'.count = load.count + 1
    BY <1>1, <1>7, <2>1 DEF LoadPut, LoadType
  <2>3. \A j \in load'.todo : load'.held[j] = 0
    BY <1>1, <2>2 DEF CountInv, LoadType
  <2>4. CASE ~drift'
    <3>1. PICK S \in SUBSET Indexed, v \in {load.held[k], 0} :
            /\ idx' = [j \in Keys |-> IF j = k THEN v ELSE IF j \in S THEN idx[j] ELSE 0]
            /\ drift' = (drift \/ S # Indexed)
            /\ v = load.held[k] \/ S # Indexed
      BY <1>7, LoadedIndex
    <3>2. \A j \in Keys : j # k => idx'[j] = idx[j]
      BY <1>1, <2>4, <3>1 DEF Indexed
    <3>3. idx'[k] = load.held[k]
      BY <2>4, <3>1
    <3>4. /\ Loaded \in [Keys -> Nat] /\ Loaded' \in [Keys -> Nat]
          /\ Loaded[k] = 0 /\ Loaded'[k] = load.held[k]
          /\ \A j \in Keys : j # k => Loaded'[j] = Loaded[j]
      BY <1>1, <1>2, <2>1, <2>2, <3>2, <3>3 DEF Loaded, ToLoad, LoadType
    <3>5. Tally(Loaded, load.size, load.count) /\ load.size \in Nat /\ load.count \in Nat
      BY <1>1, <2>1, <2>4, <3>1 DEF CountInv, LoadType
    <3>6. Tally(Loaded', load.size + load.held[k], load.count + 1)
      <4>1. PICK f \in [Keys -> Nat], g \in [Keys -> Nat] : f = Loaded /\ g = Loaded'
        BY <3>4
      <4>2. Tally(f, load.size, load.count) /\ f[k] = 0 /\ g[k] = load.held[k]
            /\ \A j \in Keys : j # k => g[j] = f[j]
        BY <3>4, <3>5, <4>1
      <4>3. Tally(g, load.size + g[k] - f[k], load.count + 1)
        BY <2>1, <3>5, <4>2, TallyChange
      <4>4. QED
        BY <2>1, <3>5, <4>1, <4>2, <4>3
    <3>7. \A j \in load'.todo : idx'[j] # 0 => HasDir(j)'
      BY <1>1, <2>1, <2>2, <2>4, <3>1, <3>2 DEF CountInv, HasDir, LoadType
    <3>8. QED
      BY <2>2, <2>3, <3>6, <3>7 DEF CountInv, Tally
  <2>5. CASE drift'
    BY <2>2, <2>3, <2>5 DEF CountInv
  <2>6. QED
    BY <2>4, <2>5
<1>8. CASE LoadStart
  <2>1. /\ UNCHANGED <<idx, usage, count, files>>
        /\ load'.phase = "run" /\ load'.todo = {k \in Keys : HasDir(k)}
        /\ load'.held = load.held /\ load'.size = load.size /\ load'.count = load.count
        /\ load.phase = "start"
    BY <1>1, <1>8 DEF LoadStart, counters, LoadType
  <2>2. /\ \A k \in Keys : load'.held[k] = 0
        /\ load'.size = 0 /\ load'.count = 0
    BY <1>1, <2>1 DEF LoadInv, CountInv
  <2>3. CASE ~drift'
    <3>1. \A k \in Keys : idx[k] # 0 => k \in load'.todo
      BY <1>8, <2>1, <2>3 DEF LoadStart, Indexed
    <3>2. Loaded' \in [Keys -> Nat] /\ \A k \in Keys : Loaded'[k] = 0
      BY <1>2, <2>1, <3>1 DEF Loaded, ToLoad
    <3>3. Tally(Loaded', 0, 0)
      <4>1. PICK f \in [Keys -> Nat] : f = Loaded'
        BY <3>2
      <4>2. QED
        BY <3>2, <4>1, TallyZero
    <3>4. \A k \in load'.todo : HasDir(k)'
      BY <2>1 DEF HasDir
    <3>5. QED
      BY <2>1, <2>2, <3>3, <3>4 DEF CountInv, Tally
  <2>4. CASE drift'
    BY <2>1, <2>2, <2>4 DEF CountInv
  <2>5. QED
    BY <2>3, <2>4
<1>9. CASE LoadFinish
  <2>1. /\ idx' = idx /\ usage' = load.size /\ count' = load.count /\ load' = NotLoading
        /\ load.phase = "run" /\ load.todo = {} /\ \A k \in Keys : load.held[k] = 0
        /\ drift => drift'
    BY <1>9 DEF LoadFinish
  <2>2. Loaded = idx
    BY <1>1, <2>1 DEF Loaded, ToLoad
  <2>3. QED
    BY <2>1, <2>2 DEF CountInv, NotLoading, Tally
<1>10. ASSUME Flush \/ Restart
       PROVE  CountInv'
  <2>1. /\ idx' = [k \in Keys |-> 0] /\ usage' = 0 /\ count' = 0
        /\ load' \in {NotLoading, StartLoading} \/ (load' = load /\ load.phase = "start")
    BY <1>10 DEF Flush, Restart
  <2>2. Tally(idx', 0, 0)
    BY <2>1, TallyZero
  <2>3. load'.phase # "run" /\ load'.size = 0 /\ load'.count = 0 /\ load'.todo = {}
    BY <1>1, <2>1 DEF NotLoading, StartLoading, CountInv, LoadInv
  <2>4. QED
    BY <2>1, <2>2, <2>3 DEF CountInv, Tally
<1>11. CASE StoreRefused
  <2>1. UNCHANGED <<idx, usage, count, load>> /\ drift' = (drift \/ load.phase = "run")
    BY <1>11 DEF StoreRefused, counters
  <2>2. QED
    BY <2>1 DEF CountInv, Tally
<1>12. ASSUME StoreMeta \/ StoreData \/ StoreFails
       PROVE  CountInv'
  <2>1. UNCHANGED <<idx, usage, count, load, drift>>
    BY <1>12 DEF StoreMeta, StoreData, StoreFails, counters
  <2>2. /\ op.pc # "idle" /\ op.key \in Keys
        /\ lastWrite \in Writes /\ lastWrite # Nothing /\ Torn # Nothing
    BY <1>1, <1>12, Storing, StorageAssumption DEF StoreMeta, StoreData, StoreFails, Torn, Nothing
  <2>3. \A k \in Keys : k # op.key => files'[k] = files[k]
    BY <1>1, <1>12, <2>2, InterruptedTyped DEF StoreMeta, StoreData, StoreFails
  <2>4. HasDir(op.key) => files'[op.key] # NoFiles
    <3>1. CASE StoreMeta
      BY <1>1, <2>2, <3>1 DEF StoreMeta, NoFiles, FileState
    <3>2. CASE StoreData
      BY <1>1, <2>2, <3>2 DEF StoreData, NoFiles, FileState
    <3>3. CASE StoreFails
      <4>1. \/ files' = files
            \/ files'[op.key] = [files[op.key] EXCEPT !.md = Torn]
            \/ files'[op.key] = [files[op.key] EXCEPT !.data = Torn]
        BY <1>1, <2>2, <3>3, InterruptedTyped DEF StoreFails
      <4>2. QED
        BY <1>1, <2>2, <4>1 DEF HasDir, NoFiles, FileState
    <3>4. QED
      BY <1>12, <3>1, <3>2, <3>3
  <2>5. \A k \in Keys : HasDir(k) => HasDir(k)'
    BY <2>3, <2>4 DEF HasDir
  <2>6. QED
    BY <1>1, <2>1, <2>5, CountKept
<1>13. CASE UNCHANGED <<idx, usage, count, load, drift, files>>
  BY <1>1, <1>13, CountKept DEF HasDir
<1>14. \/ \E d \in Deleters : DeleteRest(d)
       \/ \E k \in Keys : PurgeKey(k) \/ LoadEntry(k) \/ LoadPut(k)
       \/ StoreInsert \/ LoadStart \/ LoadFinish \/ Flush \/ Restart
       \/ StoreRefused \/ StoreMeta \/ StoreData \/ StoreFails
       \/ UNCHANGED <<idx, usage, count, load, drift, files>>
  BY DEF Next, vars, counters, ReadExpiredInMemory, PurgeAsync, EvictForSpace,
         EvictForCount, ReadExpiredOnDisk, OpenStream, StoreInMemory, StoreOnDisk,
         CloseStream, StorePut, PickForCount, Expire
<1>15. QED
  BY <1>3, <1>4, <1>5, <1>6, <1>7, <1>8, <1>9, <1>10, <1>11, <1>12, <1>13, <1>14

\* The counters start at zero, over an empty index.
LEMMA CountStart ==
  ASSUME IsFiniteSet(Keys), Init
  PROVE  CountInv
<1>1. Tally(idx, 0, 0)
  BY TallyZero DEF Init
<1>2. QED
  BY <1>1 DEF Init, CountInv, StartLoading, NotLoading

\* The usage counters of DiskCache are the sizes and the number of the entries in its
\* index, for any finite set of keys, through every step but those that drift.
THEOREM CountersExact ==
  ASSUME IsFiniteSet(Keys)
  PROVE  Spec => []CountersMatchIndex
<1>1. Init => CountInv
  BY CountStart
<1>2. StorageInv /\ CountInv /\ [Next]_vars => CountInv'
  BY CountStep, StorageAssumption
<1>3. CountInv => CountersMatchIndex
  BY DEF CountInv, CountersMatchIndex, Tally, Indexed
<1>4. QED
  BY <1>1, <1>2, <1>3, StorageInvariant, PTL DEF Spec

-----------------------------------------------------------------------------
(* A store that ends has made room.                                        *)

\* The size of k in the index, or about to be.
Measured(k) ==
  IF load.held[k] # 0 THEN load.held[k] ELSE IF k \in load.todo THEN 0 ELSE idx[k]

\* Sizes are those of the directories, but for the store under way and the failed.
SizeOK(k) ==
  \/ drift \/ load.phase = "start" \/ flaw[k] # {}
  \/ op.key = k /\ op.pc \notin {"meta", "data"}
  \/ Measured(k) \in {0, DirSize(k)}

\* What a store knows when it stops evicting: the entries still there are no more
\* than it has seen, and with the new one they fit.
RoomInv ==
  /\ \A k \in Keys : SizeOK(k)
  /\ op.pc = "put" => files[op.key].data = lastWrite
  /\ op.pc \in {"space", "count"} /\ load.phase = "off" => drift \/ usage =< op.seen
  /\ op.pc = "count" /\ load.phase = "off" /\ config.maxSize # 0 =>
       drift \/ op.seen + NewSize =< config.maxSize \/ Indexed = {}

\* A step that leaves k, its sizes and its store alone.
LEMMA SizeKept ==
  ASSUME NEW k \in Keys, SizeOK(k), load' = load, idx'[k] = idx[k],
         drift => drift', flaw[k] # {} => flaw'[k] # {}, DirSize(k)' = DirSize(k),
         op.key = k /\ op.pc \notin {"meta", "data"} =>
           op'.key = k /\ op'.pc \notin {"meta", "data"}
  PROVE  SizeOK(k)'
BY DEF SizeOK, Measured

\* A directory keeps its size while its body is the same.
LEMMA SameDirSize ==
  ASSUME NEW k \in Keys, files'[k].data = files[k].data, sizeOf' = sizeOf
  PROVE  DirSize(k)' = DirSize(k)
BY DEF DirSize

\* The index has the size of each directory, or 0, but for what SizeOK excuses.
LEMMA SizeStep ==
  ASSUME StorageInv, CountInv, RoomInv, StorageAssumption, [Next]_vars,
         NEW j \in Keys
  PROVE  SizeOK(j)'
<1>1. /\ Typed /\ OpInv /\ DeleteInv /\ LoadInv /\ IndexInv
      /\ idx \in [Keys -> Nat] /\ op \in OpType /\ load \in LoadType
      /\ files \in [Keys -> FileState] /\ sizeOf \in [Writes -> Nat]
      /\ deleting \in [Deleters -> Deletion \cup {None}]
      /\ flaw \in [Keys -> SUBSET {"gone", "cut", "unseen"}]
      /\ drift \in BOOLEAN /\ lastWrite \in 0..MaxWrites
  BY TypeFacts DEF StorageInv, Typed, TypeOK
<1>2. SizeOK(j)
  BY DEF RoomInv
<1>3. ASSUME NEW d \in Deleters, DeleteRest(d)
      PROVE  SizeOK(j)'
  <2>1. PICK k \in Keys : k = deleting[d].key
    BY <1>1, <1>3 DEF DeleteRest, Deletion
  <2>2. op'.pc = op.pc /\ op'.key = op.key /\ load' = load /\ (drift => drift')
    BY <1>1, <1>3 DEF DeleteRest, OpType
  <2>3. CASE j = k
    <3>1. idx'[j] = 0 /\ (load.phase = "run" => drift')
      BY <1>1, <1>3, <2>1, <2>3 DEF DeleteRest
    <3>2. QED
      BY <1>1, <2>2, <3>1 DEF SizeOK, Measured, LoadInv
  <2>4. CASE j # k
    <3>1. files'[j] = files[j] /\ idx'[j] = idx[j] /\ flaw'[j] = flaw[j] /\ sizeOf' = sizeOf
      BY <1>1, <1>3, <2>1, <2>4 DEF DeleteRest, Removed, history
    <3>2. QED
      BY <1>2, <2>2, <3>1, SameDirSize, SizeKept
  <2>5. QED
    BY <2>3, <2>4
<1>4. ASSUME NEW k \in Keys, PurgeKey(k)
      PROVE  SizeOK(j)'
  <2>1. UNCHANGED <<op, load, sizeOf>> /\ (drift => drift')
    BY <1>4 DEF PurgeKey, history
  <2>2. CASE j = k /\ Listed(k) /\ idx[k] # 0
    <3>1. idx'[j] = 0 /\ (load.phase = "run" => drift')
      BY <1>1, <1>4, <2>2 DEF PurgeKey
    <3>2. QED
      BY <1>1, <2>1, <3>1 DEF SizeOK, Measured, LoadInv
  <2>3. CASE ~(j = k /\ Listed(k) /\ idx[k] # 0)
    <3>1. files'[j] = files[j] /\ idx'[j] = idx[j] /\ flaw[j] \subseteq flaw'[j]
      BY <1>1, <1>4, <2>3 DEF PurgeKey, Removed
    <3>2. QED
      BY <1>2, <2>1, <3>1, SameDirSize, SizeKept
  <2>4. QED
    BY <2>2, <2>3
<1>5. CASE StoreInsert
  <2>1. UNCHANGED <<load, files, flaw, sizeOf, lastWrite>>
    BY <1>5 DEF StoreInsert, history
  <2>2. PICK k \in Keys : k = op.key /\ op.pc = "count" /\ lastWrite \in Writes
    BY <1>1, <1>5, Storing DEF StoreInsert
  <2>3. PICK S \in SUBSET Indexed, v \in {NewSize, 0} :
          /\ idx' = [i \in Keys |-> IF i = k THEN v ELSE IF i \in S THEN idx[i] ELSE 0]
          /\ drift \/ S # Indexed => drift'
          /\ v = NewSize \/ S # Indexed
    BY <1>5, <2>2, InsertedIndex
  <2>4. CASE drift' \/ load.phase # "off"
    <3>1. load.phase = "run" => drift'
      BY <1>5 DEF StoreInsert
    <3>2. QED
      BY <1>1, <2>1, <2>4, <3>1 DEF SizeOK, LoadType
  <2>5. CASE ~drift' /\ load.phase = "off" /\ j = k
    <3>1. \/ files[j].data = lastWrite
          \/ "gone" \in flaw[j]
      BY <1>1, <2>2, <2>5 DEF OpInv
    <3>2. files[j].data = lastWrite => idx'[j] = DirSize(j)'
      <4>1. idx'[j] = NewSize
        BY <2>3, <2>5
      <4>2. QED
        BY <2>1, <2>2, <4>1 DEF DirSize, NewSize
    <3>3. Measured(j)' = idx'[j]
      BY <1>1, <2>1, <2>5 DEF Measured, LoadInv
    <3>4. QED
      BY <2>1, <3>1, <3>2, <3>3 DEF SizeOK
  <2>6. CASE ~drift' /\ j # k
    <3>1. idx'[j] = idx[j] /\ ~drift
      BY <1>1, <2>3, <2>6 DEF Indexed
    <3>2. QED
      BY <1>2, <2>1, <2>2, <2>6, <3>1, SameDirSize, SizeKept
  <2>7. QED
    BY <1>1, <2>4, <2>5, <2>6 DEF LoadType
<1>6. CASE StoreRefused
  <2>1. UNCHANGED <<load, idx, sizeOf>> /\ (drift => drift')
    BY <1>6 DEF StoreRefused, history
  <2>2. PICK k \in Keys : k = op.key /\ op.pc = "put"
    BY <1>1, <1>6, Storing DEF StoreRefused
  <2>3. CASE j = k
    <3>1. \/ flaw'[j] # {}
          \/ idx[j] = 0 /\ (load.phase = "run" => drift')
      BY <1>1, <1>6, <2>2, <2>3 DEF StoreRefused
    <3>2. QED
      BY <1>1, <2>1, <3>1 DEF SizeOK, Measured, LoadInv
  <2>4. CASE j # k
    <3>1. files'[j] = files[j] /\ flaw'[j] = flaw[j]
      BY <1>1, <1>6, <2>2, <2>4 DEF StoreRefused, Removed
    <3>2. QED
      BY <1>2, <2>1, <2>2, <2>4, <3>1, SameDirSize, SizeKept
  <2>5. QED
    BY <2>3, <2>4
<1>7. CASE StoreMeta
  <2>1. UNCHANGED <<load, idx, sizeOf, flaw, drift>>
    BY <1>7 DEF StoreMeta, history
  <2>2. files'[j].data = files[j].data
    BY <1>1, <1>7 DEF StoreMeta, FileState
  <2>3. QED
    BY <1>2, <1>7, <2>1, <2>2, SameDirSize, SizeKept DEF StoreMeta
<1>8. CASE StoreData
  <2>1. UNCHANGED <<load, idx, sizeOf, drift>>
    BY <1>8 DEF StoreData, history
  <2>2. op'.pc = "put" /\ op'.key = op.key
    BY <1>1, <1>8 DEF StoreData, OpType
  <2>3. CASE j = op.key
    BY <2>2, <2>3 DEF SizeOK
  <2>4. CASE j # op.key
    <3>1. files'[j] = files[j] /\ flaw'[j] = flaw[j]
      BY <1>1, <1>8, <2>4 DEF StoreData
    <3>2. QED
      BY <1>2, <2>1, <2>4, <3>1, SameDirSize, SizeKept
  <2>5. QED
    BY <2>3, <2>4
<1>9. CASE StoreFails
  <2>1. UNCHANGED <<load, idx, sizeOf, drift>> /\ op.pc \in {"meta", "data"}
    BY <1>9 DEF StoreFails, history
  <2>2. /\ op.key \in Keys /\ lastWrite # Torn
    BY <1>1, <2>1, Storing
  <2>3. /\ \A k \in Keys : k # op.key => files'[k] = files[k]
        /\ op.pc = "meta" /\ files' # files =>
             files'[op.key] = [files[op.key] EXCEPT !.md = Torn]
        /\ op.pc = "data" /\ files' # files =>
             files'[op.key] = [files[op.key] EXCEPT !.data = Torn]
    BY <1>1, <1>9, <2>2, InterruptedTyped DEF StoreFails
  <2>4. flaw'[j] = flaw[j] \cup Cut(j)
    BY <1>9 DEF StoreFails
  <2>5. CASE j = op.key /\ op.pc = "data"
    <3>1. files'[j].md = lastWrite /\ files'[j].data # lastWrite
      BY <1>1, <2>2, <2>3, <2>5 DEF OpInv, FileState
    <3>2. flaw'[j] # {}
      BY <2>4, <2>5, <3>1 DEF Cut
    <3>3. QED
      BY <3>2 DEF SizeOK
  <2>6. CASE ~(j = op.key /\ op.pc = "data")
    <3>1. files'[j].data = files[j].data
      BY <1>1, <2>1, <2>2, <2>3, <2>6 DEF FileState
    <3>2. QED
      BY <1>2, <2>1, <2>4, <3>1, SameDirSize, SizeKept
  <2>7. QED
    BY <2>5, <2>6
<1>10. ASSUME NEW k \in Keys, NEW s \in Sizes, StoreInMemory(k, s) \/ StoreOnDisk(k, s)
       PROVE  SizeOK(j)'
  <2>1. /\ UNCHANGED <<load, idx, files, flaw, drift>> /\ op.pc = "idle"
        /\ sizeOf' = [sizeOf EXCEPT ![lastWrite + 1] = s]
    BY <1>10 DEF StoreInMemory, StoreOnDisk, MayStore, WriterMayEnter, NewWrite
  <2>2. files[j].data # lastWrite + 1
    BY <1>1, <1>10, StorageAssumption
       DEF StoreInMemory, StoreOnDisk, NewWrite, Typed, Torn
  <2>3. DirSize(j)' = DirSize(j)
    BY <1>1, <2>1, <2>2 DEF DirSize
  <2>4. op.key # j
    BY <1>1, <2>1, StorageAssumption DEF OpInv
  <2>5. QED
    BY <1>2, <2>1, <2>3, <2>4, SizeKept
<1>11. ASSUME Flush \/ Restart
       PROVE  SizeOK(j)'
  <2>1. /\ idx'[j] = 0
        /\ load' \in {NotLoading, StartLoading} \/ (load' = load /\ load.phase = "start")
    BY <1>11 DEF Flush, Restart
  <2>2. load'.phase = "start" \/ load'.held[j] = 0
    BY <2>1 DEF NotLoading, StartLoading
  <2>3. QED
    BY <2>1, <2>2 DEF SizeOK, Measured
<1>12. CASE LoadStart
  <2>1. UNCHANGED <<idx, files, flaw, op, sizeOf>> /\ load'.held = load.held
        /\ load.phase = "start" /\ load'.todo = {k \in Keys : HasDir(k)}
        /\ drift' = (drift \/ \E k \in Indexed : ~HasDir(k))
    BY <1>1, <1>12 DEF LoadStart, LoadType, history
  <2>2. load'.held[j] = 0
    BY <1>1, <2>1 DEF LoadInv
  <2>3. drift' \/ j \in load'.todo \/ idx'[j] = 0
    BY <2>1 DEF Indexed
  <2>4. QED
    BY <2>2, <2>3 DEF SizeOK, Measured
<1>13. ASSUME NEW k \in Keys, LoadEntry(k)
       PROVE  SizeOK(j)'
  <2>1. UNCHANGED <<idx, files, flaw, op, drift, sizeOf>>
        /\ k \in load.todo /\ load.phase = "run"
    BY <1>1, <1>13 DEF LoadEntry, LoadInv, history
  <2>2. /\ load'.todo = load.todo \ {k} /\ load'.phase = load.phase
        /\ load'.held = [load.held EXCEPT ![k] = IF HasDir(k) THEN DirSize(k) ELSE 0]
    BY <1>1, <1>13 DEF LoadEntry, LoadType
  <2>3. DirSize(j)' = DirSize(j)
    BY <2>1, SameDirSize
  <2>4. CASE j = k
    <3>1. \/ drift
          \/ load'.held[k] = DirSize(k) /\ DirSize(k) # 0
          \/ load'.held[k] = 0 /\ idx'[k] = 0
      BY <1>1, <2>1, <2>2, DirSizePositive DEF CountInv, LoadType
    <3>2. QED
      BY <2>1, <2>2, <2>3, <2>4, <3>1 DEF SizeOK, Measured
  <2>5. CASE j # k
    <3>1. Measured(j)' = Measured(j)
      BY <1>1, <2>1, <2>2, <2>5 DEF Measured, LoadType
    <3>2. QED
      BY <1>2, <2>1, <2>2, <2>3, <3>1 DEF SizeOK
  <2>6. QED
    BY <2>4, <2>5
<1>14. ASSUME NEW k \in Keys, LoadPut(k)
       PROVE  SizeOK(j)'
  <2>1. UNCHANGED <<files, op, sizeOf>>
        /\ load.held[k] # 0 /\ k \notin load.todo /\ load.phase = "run"
    BY <1>1, <1>14 DEF LoadPut, CountInv, LoadInv, history
  <2>2. /\ load'.todo = load.todo /\ load'.phase = load.phase
        /\ load'.held = [load.held EXCEPT ![k] = 0]
    BY <1>1, <1>14 DEF LoadPut, LoadType
  <2>3. DirSize(j)' = DirSize(j)
    BY <2>1, SameDirSize
  <2>4. flaw[j] # {} => flaw'[j] # {}
    BY <1>1, <1>14 DEF LoadPut
  <2>5. PICK S \in SUBSET Indexed, v \in {load.held[k], 0} :
          /\ idx' = [i \in Keys |-> IF i = k THEN v ELSE IF i \in S THEN idx[i] ELSE 0]
          /\ drift' = (drift \/ S # Indexed)
          /\ v = load.held[k] \/ S # Indexed
    BY <1>14, LoadedIndex
  <2>6. CASE ~drift'
    <3>1. ~drift /\ \A i \in Keys : i # k => idx'[i] = idx[i]
      BY <1>1, <2>5, <2>6 DEF Indexed
    <3>2. Measured(j)' = Measured(j)
      <4>1. idx'[k] = load.held[k]
        BY <2>5, <2>6
      <4>2. QED
        BY <1>1, <2>1, <2>2, <3>1, <4>1 DEF Measured, LoadType
    <3>3. QED
      BY <1>2, <2>1, <2>2, <2>3, <2>4, <2>6, <3>1, <3>2 DEF SizeOK
  <2>7. QED
    BY <2>6 DEF SizeOK
<1>15. CASE LoadFinish
  <2>1. UNCHANGED <<idx, files, flaw, op, sizeOf>> /\ load' = NotLoading
        /\ load.phase = "run" /\ load.todo = {} /\ (\A k \in Keys : load.held[k] = 0)
        /\ (drift => drift')
    BY <1>15 DEF LoadFinish, history
  <2>2. Measured(j)' = Measured(j) /\ DirSize(j)' = DirSize(j)
    BY <2>1, SameDirSize DEF Measured, NotLoading
  <2>3. QED
    BY <1>2, <2>1, <2>2 DEF SizeOK
<1>16. ASSUME UNCHANGED <<idx, files, flaw, drift, load, sizeOf>>,
              op.key = j /\ op.pc \notin {"meta", "data"} =>
                op'.key = j /\ op'.pc \notin {"meta", "data"}
       PROVE  SizeOK(j)'
  BY <1>2, <1>16, SameDirSize, SizeKept
<1>17. ASSUME NEW k \in Keys, EvictForCount(k) \/ StorePut \/ PickForCount
       PROVE  /\ UNCHANGED <<idx, files, flaw, drift, load, sizeOf>>
              /\ op'.key = op.key /\ op'.pc \notin {"meta", "data"}
  BY <1>1, <1>17 DEF EvictForCount, StorePut, PickForCount, OpType, history
<1>18. \/ \E d \in Deleters : DeleteRest(d)
       \/ \E k \in Keys : PurgeKey(k) \/ LoadEntry(k) \/ LoadPut(k)
       \/ \E k \in Keys : EvictForCount(k) \/ StorePut \/ PickForCount
       \/ \E k \in Keys, s \in Sizes : StoreInMemory(k, s) \/ StoreOnDisk(k, s)
       \/ StoreInsert \/ LoadStart \/ LoadFinish \/ Flush \/ Restart
       \/ StoreRefused \/ StoreMeta \/ StoreData \/ StoreFails
       \/ UNCHANGED <<idx, files, flaw, drift, load, sizeOf, op>>
  BY DEF Next, vars, history, ReadExpiredInMemory, PurgeAsync, EvictForSpace,
         ReadExpiredOnDisk, OpenStream, CloseStream, Expire
<1>19. QED
  BY <1>3, <1>4, <1>5, <1>6, <1>7, <1>8, <1>9, <1>10, <1>11, <1>12, <1>13, <1>14, <1>15,
     <1>16, <1>17, <1>18

\* No step undoes what a store knows of the room it has made.
LEMMA RoomStep ==
  ASSUME StorageInv, CountInv, RoomInv, StorageAssumption, [Next]_vars
  PROVE  RoomInv'
<1>1. /\ Typed /\ OpInv /\ DeleteInv /\ LoadInv
      /\ idx \in [Keys -> Nat] /\ op \in OpType /\ load \in LoadType
      /\ files \in [Keys -> FileState] /\ sizeOf \in [Writes -> Nat]
      /\ deleting \in [Deleters -> Deletion \cup {None}]
      /\ drift \in BOOLEAN /\ lastWrite \in 0..MaxWrites
      /\ usage \in Int /\ config \in Configs
  BY TypeFacts DEF StorageInv, Typed, TypeOK
<1>2. \A j \in Keys : SizeOK(j)'
  BY SizeStep
<1>3. ASSUME op'.pc \in {"idle", "meta", "data"}
      PROVE  RoomInv'
  BY <1>2, <1>3 DEF RoomInv
<1>4. config.maxSize \in Nat /\ op.seen \in Int
  BY <1>1, StorageAssumption DEF OpType
<1>5. op.pc # "idle" => NewSize \in Nat
  BY <1>1, NewSizePositive
<1>6. ASSUME UNCHANGED <<lastWrite, sizeOf>>
      PROVE  NewSize' = NewSize
  BY <1>6 DEF NewSize
<1>7. CASE StoreData
  <2>1. op'.pc = "put" /\ op'.key = op.key /\ lastWrite' = lastWrite /\ op.key \in Keys
    BY <1>1, <1>7, Storing DEF StoreData, OpType, history
  <2>2. files'[op.key].data = lastWrite
    BY <1>1, <1>7, <2>1 DEF StoreData, FileState
  <2>3. QED
    BY <1>2, <2>1, <2>2 DEF RoomInv
<1>8. CASE StorePut
  <2>1. /\ op'.pc = "space" /\ op'.key = op.key /\ op'.seen = usage
        /\ UNCHANGED <<lastWrite, sizeOf, files, config, usage>>
    BY <1>1, <1>8 DEF StorePut, OpType, history, counters
  <2>2. usage' =< op'.seen
    BY <1>1, <2>1
  <2>3. QED
    BY <1>2, <2>1, <2>2 DEF RoomInv
<1>9. CASE PickForCount
  <2>1. /\ op'.pc = "count" /\ op'.key = op.key /\ op'.seen = op.seen
        /\ UNCHANGED <<lastWrite, sizeOf, files, config, usage, idx, drift, load>>
        /\ op.pc = "space" /\ ~NeedsSpace
    BY <1>1, <1>9 DEF PickForCount, OpType, history, counters
  <2>2. NewSize' = NewSize /\ Indexed' = Indexed
    BY <1>6, <2>1 DEF Indexed
  <2>3. config.maxSize # 0 => op.seen + NewSize =< config.maxSize \/ Indexed = {}
    BY <1>4, <1>5, <2>1 DEF NeedsSpace
  <2>4. QED
    BY <1>2, <2>1, <2>2, <2>3 DEF RoomInv
<1>10. ASSUME NEW d \in Deleters, DeleteRest(d)
       PROVE  RoomInv'
  <2>1. PICK k \in Keys, s \in Nat \ {0} : k = deleting[d].key /\ s = deleting[d].size
    BY <1>1, <1>10 DEF DeleteRest, Deletion
  <2>2. /\ op'.pc = op.pc /\ op'.key = op.key /\ usage' = usage - s
        /\ op'.seen = IF d = Evictor THEN usage' ELSE op.seen
        /\ UNCHANGED <<lastWrite, sizeOf, config, load>>
        /\ (drift => drift') /\ idx' = [idx EXCEPT ![k] = 0]
        /\ files' = [files EXCEPT ![k] = NoFiles]
    BY <1>1, <1>10, <2>1 DEF DeleteRest, OpType, history, Removed
  <2>3. NewSize' = NewSize /\ Indexed' \subseteq Indexed
    BY <1>1, <1>6, <2>2 DEF Indexed
  <2>4. op.pc = "put" => op.key # k
    <3>1. op.pc = "put" => d \in Keys
      BY <1>10, <1>1 DEF DeleteRest, DeleteInv, Deleters
    <3>2. QED
      BY <1>1, <1>10, <2>1, <3>1 DEF DeleteRest, DeleteInv
  <2>5. op.pc = "put" => files'[op.key] = files[op.key]
    BY <1>1, <2>2, <2>4, Storing
  <2>6. ASSUME op.pc \in {"space", "count"}, load.phase = "off", ~drift
        PROVE  usage' =< op'.seen /\ op'.seen =< op.seen
    BY <1>1, <1>4, <2>2, <2>6 DEF RoomInv
  <2>7. ASSUME op.pc = "count", load.phase = "off", config.maxSize # 0, ~drift
        PROVE  op'.seen + NewSize =< config.maxSize \/ Indexed' = {}
    <3>1. op.seen + NewSize =< config.maxSize \/ Indexed = {}
      BY <2>7 DEF RoomInv
    <3>2. op'.seen \in Int
      BY <1>1, <1>4, <2>2
    <3>3. QED
      BY <1>4, <1>5, <2>3, <2>6, <2>7, <3>1, <3>2
  <2>8. QED
    BY <1>2, <2>2, <2>3, <2>5, <2>6, <2>7 DEF RoomInv
<1>11. ASSUME op'.pc = op.pc, op'.key = op.key, op'.seen = op.seen,
              UNCHANGED <<lastWrite, sizeOf, config, usage, files>>, drift => drift',
              \/ UNCHANGED <<idx, load>>
              \/ load'.phase # "off"
              \/ op.pc \in {"space", "count"} => drift'
       PROVE  RoomInv'
  <2>1. NewSize' = NewSize
    BY <1>6, <1>11
  <2>2. UNCHANGED idx => Indexed' = Indexed
    BY DEF Indexed
  <2>3. QED
    BY <1>2, <1>11, <2>1, <2>2 DEF RoomInv
<1>12. ASSUME NEW k \in Keys, EvictForCount(k)
       PROVE  RoomInv'
  <2>1. op'.pc = op.pc /\ op'.key = op.key /\ op'.seen = op.seen
    BY <1>1, <1>12 DEF EvictForCount, OpType
  <2>2. QED
    BY <1>11, <1>12, <2>1 DEF EvictForCount, history, counters
<1>13. ASSUME \/ LoadStart \/ LoadFinish
              \/ \E k \in Keys : LoadEntry(k) \/ LoadPut(k)
       PROVE  RoomInv'
  <2>1. UNCHANGED <<op, lastWrite, sizeOf, config, files>> /\ (drift => drift')
    <3>1. CASE LoadStart \/ LoadFinish
      BY <3>1 DEF LoadStart, LoadFinish, history
    <3>2. ASSUME NEW k \in Keys, LoadEntry(k) \/ LoadPut(k)
          PROVE  UNCHANGED <<op, lastWrite, sizeOf, config, files>> /\ (drift => drift')
      <4>1. CASE LoadEntry(k)
        BY <4>1 DEF LoadEntry, history
      <4>2. CASE LoadPut(k)
        <5>1. UNCHANGED <<op, lastWrite, sizeOf, config, files>>
          BY <4>2 DEF LoadPut, history
        <5>2. PICK S : drift' = (drift \/ S # Indexed)
          BY <4>2, Zenon DEF LoadPut
        <5>3. QED
          BY <5>1, <5>2
      <4>3. QED
        BY <3>2, <4>1, <4>2
    <3>3. QED
      BY <1>13, <3>1, <3>2
  <2>2. CASE LoadFinish
    <3>1. drift' = (drift \/ op.pc \in {"space", "count"})
      BY <2>2 DEF LoadFinish
    <3>2. QED
      BY <1>2, <1>6, <2>1, <3>1 DEF RoomInv
  <2>3. CASE ~LoadFinish
    <3>1. usage' = usage /\ load'.phase # "off"
      BY <1>1, <1>13, <2>3 DEF LoadStart, LoadEntry, LoadPut, LoadType, LoadInv, counters
    <3>2. QED
      BY <1>11, <2>1, <3>1
  <2>4. QED
    BY <2>2, <2>3
<1>14. \/ \E d \in Deleters : DeleteRest(d)
       \/ \E k \in Keys : EvictForCount(k)
       \/ \/ LoadStart \/ LoadFinish
          \/ \E k \in Keys : LoadEntry(k) \/ LoadPut(k)
       \/ StoreData \/ StorePut \/ PickForCount
       \/ op'.pc \in {"idle", "meta", "data"}
       \/ UNCHANGED <<op, lastWrite, sizeOf, config, usage, files, drift, idx, load>>
  <2>1. ASSUME \/ \E k \in Keys, s \in Sizes : StoreInMemory(k, s) \/ StoreOnDisk(k, s)
               \/ \E k \in Keys : PurgeKey(k)
               \/ Flush
        PROVE  op'.pc \in {"idle", "meta", "data"}
    BY <2>1 DEF StoreInMemory, StoreOnDisk, PurgeKey, Flush, MayStore, WriterMayEnter, Idle
  <2>2. ASSUME StoreInsert \/ StoreRefused \/ StoreMeta \/ StoreFails \/ Restart
        PROVE  op'.pc \in {"idle", "meta", "data"}
    BY <1>1, <2>2 DEF StoreInsert, StoreRefused, StoreMeta, StoreFails, Restart, Idle, OpType
  <2>3. QED
    BY <2>1, <2>2
       DEF Next, vars, history, counters, ReadExpiredInMemory, PurgeAsync, EvictForSpace,
           ReadExpiredOnDisk, OpenStream, CloseStream, Expire
<1>15. CASE UNCHANGED <<op, lastWrite, sizeOf, config, usage, files, drift, idx, load>>
  BY <1>11, <1>15
<1>16. QED
  BY <1>3, <1>7, <1>8, <1>9, <1>10, <1>12, <1>13, <1>14, <1>15

\* What the store that ends leaves on the disk is what the counters say, and fits.
LEMMA InsertFits ==
  ASSUME IsFiniteSet(Keys), StorageInv, CountInv, RoomInv, StorageAssumption,
         StoreInsert, CountInv',
         config.maxSize # 0, ~drift', load'.phase = "off", \A k \in Keys : flaw'[k] = {}
  PROVE  \/ SumFunctionOnSet([k \in Keys |-> DirSize(k)'], {k \in Keys : files'[k] # NoFiles})
              =< config.maxSize
         \/ NewSize > config.maxSize /\ {k \in Keys : files'[k] # NoFiles} = {op.key}
<1> DEFINE D == {k \in Keys : files'[k] # NoFiles}
           f == [k \in Keys |-> DirSize(k)']
<1>1. /\ Typed /\ OpInv /\ LoadInv /\ IndexInv
      /\ idx \in [Keys -> Nat] /\ op \in OpType /\ load \in LoadType
      /\ files \in [Keys -> FileState] /\ sizeOf \in [Writes -> Nat]
      /\ config \in Configs /\ usage \in Int /\ drift \in BOOLEAN
  BY TypeFacts DEF StorageInv, Typed, TypeOK
<1>2. UNCHANGED <<load, files, flaw, sizeOf, lastWrite>>
  BY DEF StoreInsert, history
<1>3. PICK k \in Keys : k = op.key /\ op.pc = "count" /\ lastWrite \in Writes
  BY <1>1, Storing DEF StoreInsert
<1>4. PICK S \in SUBSET Indexed :
        /\ S \in Kept(k, NewSize) /\ idx' = Put(k, NewSize, S)
        /\ drift' = (drift \/ S # Indexed \/ load.phase = "run")
  BY <1>3 DEF StoreInsert, Kept
<1>5. ~drift /\ S = Indexed /\ usage' = usage + NewSize - idx[k]
  BY <1>3, <1>4 DEF StoreInsert, CountEntry
<1>6. NewSize \in Nat \ {0}
  BY <1>1, <1>3, NewSizePositive
<1>7. idx' = [j \in Keys |-> IF j = k THEN NewSize ELSE idx[j]]
  BY <1>1, <1>4, <1>5 DEF Put, Indexed
<1>8. config.maxSize \in Nat /\ op.seen \in Int
  BY <1>1, StorageAssumption DEF OpType
<1>9. usage' = SumFunctionOnSet(idx', Keys)
  <2>1. DOMAIN idx' = Keys
    BY <1>7
  <2>2. QED
    BY <1>2, <2>1 DEF CountInv, Tally, SumFunction
\* The files are those of the entries, of the sizes the index has.
<1>10. D = {j \in Keys : idx'[j] # 0} /\ \A j \in D : f[j] = idx'[j]
  <2>1. files[k].data = lastWrite /\ files[k] # NoFiles /\ f[k] = NewSize
    <3>1. files[k].data = lastWrite
      BY <1>1, <1>2, <1>3 DEF OpInv
    <3>2. lastWrite # Nothing
      BY <1>3 DEF Writes, Nothing
    <3>3. DirSize(k)' = NewSize
      BY <1>2, <1>3, <3>1 DEF DirSize, NewSize
    <3>4. QED
      BY <3>1, <3>2, <3>3 DEF NoFiles
  <2>2. ASSUME NEW j \in Keys, j # k
        PROVE  (files'[j] # NoFiles <=> idx'[j] # 0) /\ (idx'[j] # 0 => f[j] = idx'[j])
    <3>1. HasDir(j) <=> idx[j] # 0
      BY <1>1, <1>2, <1>3, <1>5, <2>2 DEF IndexInv, Excused, LoadInv
    <3>2. idx[j] \in {0, DirSize(j)}
      BY <1>1, <1>2, <1>3, <1>5, <2>2 DEF RoomInv, SizeOK, Measured, LoadInv
    <3>3. DirSize(j)' = DirSize(j)
      BY <1>2, SameDirSize
    <3>4. QED
      BY <1>2, <1>7, <2>2, <3>1, <3>2, <3>3 DEF HasDir
  <2>3. QED
    BY <1>2, <1>6, <1>7, <2>1, <2>2
<1>11. SumFunctionOnSet(f, D) = usage'
  <2>1. IsFiniteSet(D)
    BY FS_Subset
  <2>2. \A j \in Keys : idx'[j] \in Int
    BY <1>1, <1>6, <1>7
  <2> HIDE DEF D, f
  <2>3. SumFunctionOnSet(f, D) = SumFunctionOnSet(idx', D)
    BY <1>10, <2>1, SumSame
  <2>4. SumFunctionOnSet(idx', D) = SumFunctionOnSet(idx', Keys)
    BY <1>10, <2>2, SumSupport
  <2>5. QED
    BY <1>9, <2>3, <2>4
<1>12. CASE idx[k] # 0
  <2>1. SumFunctionOnSet([idx EXCEPT ![k] = NewSize], Indexed) =< config.maxSize
    BY <1>4, <1>5, <1>12 DEF Kept, SizeFits
  <2>2. [idx EXCEPT ![k] = NewSize] = idx' /\ Indexed = D
    <3>1. [idx EXCEPT ![k] = NewSize] = idx'
      BY <1>1, <1>7
    <3>2. \A j \in Keys : idx[j] # 0 <=> idx'[j] # 0
      BY <1>6, <1>7, <1>12
    <3>3. D = {j \in Keys : idx'[j] # 0}
      BY <1>10
    <3>4. Indexed = {j \in Keys : idx'[j] # 0}
      BY <3>2 DEF Indexed
    <3>5. QED
      BY <3>1, <3>3, <3>4
  <2>3. \A j \in Keys : idx'[j] \in Int
    BY <1>1, <1>6, <1>7
  <2>4. SumFunctionOnSet(idx', D) = usage'
    BY <1>9, <1>10, <2>3, SumSupport
  <2>5. QED
    BY <1>11, <2>1, <2>2, <2>4
<1>13. CASE idx[k] = 0
  <2>1. usage' = usage + NewSize /\ usage =< op.seen
    BY <1>2, <1>3, <1>5, <1>6, <1>13, <1>1 DEF RoomInv
  <2>2. op.seen + NewSize =< config.maxSize \/ Indexed = {}
    BY <1>2, <1>3, <1>5 DEF RoomInv
  <2>3. CASE op.seen + NewSize =< config.maxSize
    <3>1. usage' =< config.maxSize
      BY <1>1, <1>6, <1>8, <2>1, <2>3
    <3>2. QED
      BY <1>11, <3>1
  <2>4. CASE Indexed = {}
    <3>1. \A j \in Keys : idx[j] = 0
      BY <2>4 DEF Indexed
    <3>2. Tally(idx, usage, count)
      BY <1>2, <1>5 DEF CountInv
    <3>3. Tally(idx, 0, 0)
      BY <1>1, <3>1, TallyZero
    <3>4. usage = 0
      BY <3>2, <3>3 DEF Tally
    <3>5. usage' = NewSize /\ D = {op.key}
      BY <1>3, <1>6, <1>7, <1>10, <2>1, <3>1, <3>4
    <3>6. QED
      BY <1>6, <1>8, <1>11, <3>5
  <2>5. QED
    BY <2>2, <2>3, <2>4
<1>14. QED
  BY <1>12, <1>13

\* A store that ends leaves no more on the disk than the limit, the files of every key
\* counted (checkAndEvict, Put), or nothing but an entry larger than the limit itself, for
\* any sizes, limits and finite set of keys.
THEOREM RoomMade ==
  ASSUME IsFiniteSet(Keys)
  PROVE  Spec => StoreMakesRoom
<1> DEFINE Inv == StorageInv /\ CountInv /\ RoomInv
<1>1. Init => RoomInv
  <2> SUFFICES ASSUME Init PROVE RoomInv
    OBVIOUS
  <2>1. op.pc = "idle" /\ load.phase = "start"
    BY DEF Init, Idle, StartLoading
  <2>2. QED
    BY <2>1 DEF RoomInv, SizeOK
<1>2. StorageInv /\ CountInv /\ RoomInv /\ [Next]_vars => RoomInv'
  BY RoomStep, StorageAssumption
<1>3. ASSUME StorageInv, CountInv, RoomInv, CountInv', Next,
             op.pc = "count", op'.pc = "idle"
      PROVE  \/ config.maxSize = 0 \/ drift' \/ load'.phase # "off"
             \/ \E k \in Keys : flaw'[k] # {}
             \/ SumFunctionOnSet([k \in Keys |-> DirSize(k)'],
                                 {k \in Keys : files'[k] # NoFiles}) =< config.maxSize
             \/ NewSize > config.maxSize /\ {k \in Keys : files'[k] # NoFiles} = {op.key}
  <2>1. StoreInsert \/ Restart
    <3>1. op \in OpType
      BY <1>3, TypeFacts DEF StorageInv
    <3>2. ASSUME NEW k \in Keys
          PROVE  ~EvictForCount(k)
      BY <1>3, <3>1 DEF EvictForCount, OpType
    <3>3. ASSUME NEW d \in Deleters
          PROVE  ~DeleteRest(d)
      BY <1>3, <3>1 DEF DeleteRest, OpType
    <3>4. QED
      BY <1>3, <3>2, <3>3
         DEF Next, ReadExpiredInMemory, PurgeAsync, PurgeKey, EvictForSpace, LoadEntry,
             LoadPut, ReadExpiredOnDisk, OpenStream, StoreInMemory, StoreOnDisk, CloseStream,
             StoreMeta, StoreData, StoreFails, StoreRefused, StorePut, PickForCount, Flush,
             Expire, LoadStart, LoadFinish, MayStore, WriterMayEnter, MayRead
  <2>2. CASE Restart
    BY <2>2 DEF Restart, StartLoading, NotLoading
  <2>3. CASE StoreInsert
    BY <1>3, <2>3, InsertFits, StorageAssumption
  <2>4. QED
    BY <2>1, <2>2, <2>3
<1>4. Init => CountInv
  BY CountStart
<1>5. StorageInv /\ CountInv /\ [Next]_vars => CountInv'
  BY CountStep, StorageAssumption
<1>6. StorageInv /\ CountInv /\ RoomInv /\ CountInv' /\ [Next]_vars =>
        [op.pc = "count" /\ op'.pc = "idle" =>
           \/ config.maxSize = 0 \/ drift' \/ load'.phase # "off"
           \/ \E k \in Keys : flaw'[k] # {}
           \/ SumFunctionOnSet([k \in Keys |-> DirSize(k)'],
                               {k \in Keys : files'[k] # NoFiles}) =< config.maxSize
           \/ NewSize > config.maxSize /\ {k \in Keys : files'[k] # NoFiles} = {op.key}]_vars
  BY <1>3
<1>7. QED
  BY <1>1, <1>2, <1>4, <1>5, <1>6, StorageInvariant, PTL DEF Spec, StoreMakesRoom

=============================================================================
