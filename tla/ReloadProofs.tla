----------------------------- MODULE ReloadProofs -----------------------------
(***************************************************************************)
(* The properties of Reload.tla, proved for every number of instances, of    *)
(* keys, of responses and of reloads.                                       *)
(*                                                                         *)
(* Each property has its own part of the inductive invariant: what the       *)
(* gauges look at (GaugesOK), what an instance knows of the directory while  *)
(* and after it walks it (StepOK), the directory of temporary files (TempOK),*)
(* what a store under way may still do to the files of its key (FilesOK),    *)
(* and what a purge has left behind (PurgeOK).                              *)
(***************************************************************************)
EXTENDS Reload, TLAPS

Stages == {"none", "provisioned", "serving", "draining", "rejected"}

Walks == [phase : {"off", "start", "run"}, todo : SUBSET Names, held : SUBSET Names]
Stores == [pc : {"idle"}, key : {None}, n : Nat]
          \cup [pc : {"data", "put"}, key : Keys, n : Nat \ {NoStore}]
Files == [md : Nat, data : Nat]
Temps == [dir : BOOLEAN, files : SUBSET Captures, left : BOOLEAN]
Budget == [loads : Nat, stores : Nat, captures : Nat]

Typed ==
  /\ stage \in [Instances -> Stages]
  /\ idx \in [Instances -> SUBSET Names]
  /\ mem \in [Instances -> [Keys -> Nat]]
  /\ walk \in [Instances -> Walks]
  /\ store \in [Instances -> Stores]
  /\ files \in [Keys -> Files]
  /\ temp \in Temps
  /\ capture \in [Captures -> Instances \cup {None}]
  /\ collector \in BOOLEAN /\ gauge \in Instances \cup {None}
  /\ budget \in Budget /\ lastStore \in Nat
  /\ purged \in [Keys -> Nat]
  /\ missed \in [Keys -> SUBSET (Instances \cup {None})]
  /\ clashed \in SUBSET Keys
  /\ behind \in [Instances -> SUBSET Names]
  /\ dropped \in [Instances -> SUBSET Names]

\* The gauges look at the instance provisioned last, which is the one provisioned now,
\* if there is one.
GaugesOK ==
  /\ collector => gauge \in Instances
  /\ \A g \in Instances : collector /\ stage[g] = "provisioned" => gauge = g
  /\ GaugesCurrent

Living(g) == stage[g] \in {"provisioned", "serving", "draining"}

\* What an instance that is not, or not yet, in use has to do with.
LifeOK(g) ==
  /\ g \notin Active => store[g].pc = "idle"
  /\ walk[g].phase # "run" => walk[g].todo = {} /\ walk[g].held = {}
  /\ ~Living(g) => idx[g] = {} /\ mem[g] = NothingInMemory /\ walk[g].phase = "off"

\* What g has in its index, or has measured, is there, and what is there it knows of
\* or will come by, or the LRU dropped it; unless the directory changed behind its back.
NameOK(g, n) ==
  n \notin behind[g] =>
    IF store[g].key = n THEN HasDir(n)
    ELSE /\ n \in idx[g] \cup walk[g].held => HasDir(n)
         /\ HasDir(n) /\ walk[g].phase # "start" =>
              n \in idx[g] \cup walk[g].todo \cup walk[g].held \cup dropped[g]

StepOK(g) == Living(g) => \A n \in Names : NameOK(g, n)

\* Left-over files are in their directory, and every instance knows or comes by it, or
\* did.
TempOK ==
  /\ temp.left \/ temp.files # {} => temp.dir
  /\ temp.left => \A g \in Instances :
       Living(g) /\ walk[g].phase # "start" =>
         Temp \in idx[g] \cup walk[g].todo \cup walk[g].held \cup dropped[g]

\* The files of k were written by one store, or one is writing them, or two did, or a
\* removal was crossed or cut short.
FilesOK(k) ==
  /\ files[k].md = NoStore => files[k].data = NoStore \/ k \in clashed
  /\ files[k].data # NoStore => \/ files[k].md = files[k].data
                                \/ Inside(k) # {} \/ k \in clashed
  /\ \A g \in Inside(k) : k \in clashed \/ files[k].md \in {NoStore, store[g].n}

\* What was stored before the last purge of k is where that purge did not see it.
PurgeOK(k) ==
  /\ purged[k] =< lastStore
  /\ \A g \in Instances : mem[g][k] # NoStore => mem[g][k] > purged[k] \/ g \in missed[k]
  /\ files[k].md # NoStore => files[k].md > purged[k] \/ None \in missed[k]
  /\ files[k].data # NoStore =>
       files[k].data > purged[k] \/ None \in missed[k] \/ k \in clashed

LifeInv == \A g \in Instances : LifeOK(g)
StepInv == \A g \in Instances : StepOK(g)
FilesInv == \A k \in Keys : FilesOK(k)
PurgeInv == \A k \in Keys : PurgeOK(k)
-----------------------------------------------------------------------------
(* Types. *)

\* What a removal and a note of it do to the types.
LEMMA RemovalTyped ==
  ASSUME Typed
  PROVE  /\ \A S : Removed(S) => files' \in [Keys -> Files] /\ temp' \in Temps
         /\ \A g \in Instances, n \in Names, own \in BOOLEAN :
              Behind(g, n, own) => behind' \in [Instances -> SUBSET Names]
         /\ \A g \in Instances, n \in Names : idx' = [idx EXCEPT ![g] = @ \ {n}] =>
              idx' \in [Instances -> SUBSET Names]
<1>1. ASSUME NEW S, Removed(S)
      PROVE  files' \in [Keys -> Files] /\ temp' \in Temps
  BY <1>1 DEF Typed, Removed, NoFiles, NoTemp, NoStore, Temps, Files
<1>2. ASSUME NEW g \in Instances, NEW n \in Names, NEW own \in BOOLEAN, Behind(g, n, own)
      PROVE  behind' \in [Instances -> SUBSET Names]
  BY <1>2 DEF Typed, Behind
<1>3. ASSUME NEW g \in Instances, NEW n \in Names, idx' = [idx EXCEPT ![g] = @ \ {n}]
      PROVE  idx' \in [Instances -> SUBSET Names]
  BY <1>3 DEF Typed
<1>4. QED
  BY <1>1, <1>2, <1>3

\* What comes into an index stays there or is dropped, like what was in it.
LEMMA PutIndex ==
  ASSUME Typed, NEW g \in Instances, NEW n \in Names, Put(g, n)
  PROVE  /\ idx' \in [Instances -> SUBSET Names] /\ dropped' \in [Instances -> SUBSET Names]
         /\ idx'[g] \subseteq idx[g] \cup {n}
         /\ idx[g] \cup dropped[g] \cup {n} \subseteq idx'[g] \cup dropped'[g]
         /\ \A h \in Instances : h # g => idx'[h] = idx[h] /\ dropped'[h] = dropped[h]
<1>1. PICK gone \in SUBSET idx[g] :
        /\ idx' = [idx EXCEPT ![g] = (idx[g] \cup {n}) \ gone]
        /\ dropped' = [dropped EXCEPT ![g] = (dropped[g] \ {n}) \cup gone]
  BY DEF Put
<1>2. idx[g] \in SUBSET Names /\ dropped[g] \in SUBSET Names
  BY DEF Typed
<1>3. idx'[g] = (idx[g] \cup {n}) \ gone /\ dropped'[g] = (dropped[g] \ {n}) \cup gone
  BY <1>1 DEF Typed
<1>4. (idx[g] \cup {n}) \ gone \in SUBSET Names /\ (dropped[g] \ {n}) \cup gone \in SUBSET Names
  BY <1>1, <1>2
<1>5. QED
  BY <1>1, <1>3, <1>4 DEF Typed

\* The values that steps give to the parts of an instance.
LEMMA ValuesTyped ==
  /\ NotWalking \in Walks /\ Idle \in Stores /\ NothingInMemory \in [Keys -> Nat]
  /\ NoTemp \in Temps
BY DEF NotWalking, Walks, Idle, Stores, NothingInMemory, NoStore, NoTemp, Temps

\* What is left of the budget is one.
LEMMA SpendTyped ==
  ASSUME budget \in Budget, NEW what \in {"loads", "stores", "captures"}, Spend(what)
  PROVE  budget' \in Budget
BY DEF Spend, Budget

\* What the steps of a walk do to it, and to nobody else's.
LEMMA WalkSteps ==
  ASSUME walk \in [Instances -> Walks], NEW g \in Instances
  PROVE  /\ Provision(g) =>
              /\ walk' \in [Instances -> Walks]
              /\ walk'[g] = [walk[g] EXCEPT !.phase = "start"]
              /\ \A h \in Instances : h # g => walk'[h] = walk[h]
         /\ \A n \in Names : LoadEntry(g, n) =>
              /\ walk' \in [Instances -> Walks]
              /\ walk'[g].phase = walk[g].phase
              /\ walk'[g].todo = walk[g].todo \ {n}
              /\ walk'[g].held = walk[g].held \cup (IF HasDir(n) THEN {n} ELSE {})
              /\ \A h \in Instances : h # g => walk'[h] = walk[h]
         /\ \A n \in Names : LoadPut(g, n) =>
              /\ walk' \in [Instances -> Walks]
              /\ walk'[g].phase = walk[g].phase /\ walk'[g].todo = walk[g].todo
              /\ walk'[g].held = walk[g].held \ {n}
              /\ \A h \in Instances : h # g => walk'[h] = walk[h]
<1>1. ASSUME Provision(g)
      PROVE  /\ walk' \in [Instances -> Walks]
             /\ walk'[g] = [walk[g] EXCEPT !.phase = "start"]
             /\ \A h \in Instances : h # g => walk'[h] = walk[h]
  <2>1. walk' = [walk EXCEPT ![g] = [walk[g] EXCEPT !.phase = "start"]]
    BY <1>1 DEF Provision
  <2>2. [walk[g] EXCEPT !.phase = "start"] \in Walks
    BY DEF Walks
  <2>3. QED
    BY <2>1, <2>2
<1>2. ASSUME NEW n \in Names, LoadEntry(g, n)
      PROVE  /\ walk' \in [Instances -> Walks]
             /\ walk'[g].phase = walk[g].phase
             /\ walk'[g].todo = walk[g].todo \ {n}
             /\ walk'[g].held = walk[g].held \cup (IF HasDir(n) THEN {n} ELSE {})
             /\ \A h \in Instances : h # g => walk'[h] = walk[h]
  <2>1. PICK H : /\ H = walk[g].held \cup (IF HasDir(n) THEN {n} ELSE {})
                 /\ walk' = [walk EXCEPT ![g] =
                               [walk[g] EXCEPT !.todo = walk[g].todo \ {n}, !.held = H]]
    BY <1>2 DEF LoadEntry
  <2>2. walk[g] \in Walks /\ H \in SUBSET Names
    BY <2>1 DEF Walks
  <2>3. [walk[g] EXCEPT !.todo = walk[g].todo \ {n}, !.held = H] \in Walks
    BY <2>2 DEF Walks
  <2>4. walk' \in [Instances -> Walks] /\ \A h \in Instances : h # g => walk'[h] = walk[h]
    BY <2>1, <2>3
  <2>5. walk'[g] = [walk[g] EXCEPT !.todo = walk[g].todo \ {n}, !.held = H]
    BY <2>1
  <2>6. QED
    BY <2>1, <2>2, <2>4, <2>5 DEF Walks
<1>3. ASSUME NEW n \in Names, LoadPut(g, n)
      PROVE  /\ walk' \in [Instances -> Walks]
             /\ walk'[g].phase = walk[g].phase /\ walk'[g].todo = walk[g].todo
             /\ walk'[g].held = walk[g].held \ {n}
             /\ \A h \in Instances : h # g => walk'[h] = walk[h]
  <2>1. walk' = [walk EXCEPT ![g] = [walk[g] EXCEPT !.held = walk[g].held \ {n}]]
    BY <1>3 DEF LoadPut
  <2>2. walk[g] \in Walks
    OBVIOUS
  <2>3. [walk[g] EXCEPT !.held = walk[g].held \ {n}] \in Walks
    BY <2>2 DEF Walks
  <2>4. walk' \in [Instances -> Walks] /\ \A h \in Instances : h # g => walk'[h] = walk[h]
    BY <2>1, <2>3
  <2>5. walk'[g] = [walk[g] EXCEPT !.held = walk[g].held \ {n}]
    BY <2>1
  <2>6. QED
    BY <2>2, <2>4, <2>5 DEF Walks
<1>4. QED
  BY <1>1, <1>2, <1>3

\* What the steps of a store do to it and to the files of its key.
LEMMA StoreSteps ==
  ASSUME Typed, NEW g \in Instances
  PROVE  /\ \A k \in Keys : StoreMeta(g, k) =>
              /\ files' \in [Keys -> Files]
              /\ files'[k].md = lastStore' /\ files'[k].data = files[k].data
              /\ \A j \in Keys : j # k => files'[j] = files[j]
         /\ StoreData(g) \/ StoreDataCrossed(g) =>
              /\ store[g] \in Stores /\ store[g].key \in Keys
              /\ store[g].n \in Nat \ {NoStore} /\ store[g].pc = "data"
              /\ files' \in [Keys -> Files] /\ store' \in [Instances -> Stores]
              /\ \A k \in Keys : files'[k] =
                   IF k = store[g].key THEN [files[k] EXCEPT !.data = store[g].n] ELSE files[k]
              /\ \A h \in Instances : h # g => store'[h] = store[h]
              /\ store'[g].key = store[g].key /\ store'[g].pc = "put"
<1>1. ASSUME NEW k \in Keys, StoreMeta(g, k)
      PROVE  files' = [files EXCEPT ![k] = [files[k] EXCEPT !.md = lastStore']]
             /\ lastStore' \in Nat
  BY <1>1 DEF StoreMeta, Meta, NextStore, Typed
<1>2. ASSUME StoreData(g) \/ StoreDataCrossed(g)
      PROVE  /\ store[g] \in Stores /\ store[g].pc = "data" /\ store[g].key \in Keys
             /\ store[g].n \in Nat \ {NoStore}
  BY <1>2 DEF StoreData, StoreDataCrossed, Stores, Typed
<1>3. ASSUME StoreData(g) \/ StoreDataCrossed(g)
      PROVE  /\ files' = [files EXCEPT ![store[g].key] =
                  [files[store[g].key] EXCEPT !.data = store[g].n]]
             /\ store' = [store EXCEPT ![g] = [store[g] EXCEPT !.pc = "put"]]
  BY <1>2, <1>3 DEF StoreData, StoreDataCrossed, Typed
<1>5. ASSUME StoreData(g) \/ StoreDataCrossed(g)
      PROVE  /\ store' \in [Instances -> Stores]
             /\ \A h \in Instances : h # g => store'[h] = store[h]
             /\ store'[g].key = store[g].key /\ store'[g].pc = "put"
  <2>1. [store[g] EXCEPT !.pc = "put"] \in Stores
    BY <1>2, <1>5 DEF Stores
  <2>2. /\ store' \in [Instances -> Stores]
        /\ \A h \in Instances : h # g => store'[h] = store[h]
        /\ store'[g] = [store[g] EXCEPT !.pc = "put"]
    BY <1>3, <1>5, <2>1 DEF Typed
  <2>3. QED
    BY <1>2, <1>5, <2>2 DEF Stores
<1>6. ASSUME StoreData(g) \/ StoreDataCrossed(g)
      PROVE  /\ files' \in [Keys -> Files]
             /\ \A k \in Keys : files'[k] =
                  IF k = store[g].key THEN [files[k] EXCEPT !.data = store[g].n] ELSE files[k]
  <2>1. files[store[g].key] \in Files /\ store[g].n \in Nat
    BY <1>2, <1>6 DEF Typed
  <2>2. [files[store[g].key] EXCEPT !.data = store[g].n] \in Files
    BY <2>1 DEF Files
  <2>3. PICK v \in Files : v = [files[store[g].key] EXCEPT !.data = store[g].n]
    BY <2>2
  <2>4. files' = [files EXCEPT ![store[g].key] = v] /\ files \in [Keys -> Files]
    BY <1>3, <1>6, <2>3 DEF Typed
  <2>5. files' \in [Keys -> Files]
    BY <2>4
  <2>6. ASSUME NEW k \in Keys
        PROVE  files'[k] = IF k = store[g].key THEN [files[k] EXCEPT !.data = store[g].n]
                           ELSE files[k]
    <3>1. CASE k = store[g].key
      BY <2>3, <2>4, <3>1
    <3>2. CASE k # store[g].key
      BY <2>4, <3>2
    <3>3. QED
      BY <3>1, <3>2
  <2>7. QED
    BY <2>5, <2>6
<1>7. ASSUME NEW k \in Keys, StoreMeta(g, k)
      PROVE  /\ files' \in [Keys -> Files]
             /\ files'[k].md = lastStore' /\ files'[k].data = files[k].data
             /\ \A j \in Keys : j # k => files'[j] = files[j]
  <2>1. files[k] \in Files /\ lastStore' \in Nat
    BY <1>1, <1>7 DEF Typed
  <2>2. [files[k] EXCEPT !.md = lastStore'] \in Files
    BY <2>1 DEF Files
  <2>3. files'[k] = [files[k] EXCEPT !.md = lastStore']
    BY <1>1, <1>7 DEF Typed
  <2>4. files' \in [Keys -> Files] /\ \A j \in Keys : j # k => files'[j] = files[j]
    BY <1>1, <1>7, <2>2 DEF Typed
  <2>5. QED
    BY <2>1, <2>3, <2>4 DEF Files
<1>8. QED
  BY <1>2, <1>5, <1>6, <1>7

\* What a crash leaves of the files: some of them, and the key is known to be clashed.
LEMMA CutShort ==
  ASSUME Typed, Crash
  PROVE  /\ files' \in [Keys -> Files]
         /\ \A k \in Keys : /\ files'[k].md \in {files[k].md, NoStore}
                            /\ files'[k].data \in {files[k].data, NoStore}
                            /\ files'[k] = files[k] \/ k \in clashed'
                            /\ Inside(k) # {} => k \in clashed'
<1>1. /\ files' \in [Keys -> UNION {Halved(k) : k \in Keys}]
      /\ \A k \in Keys : files'[k] \in Halved(k)
      /\ clashed' = clashed \cup {k \in Keys : Inside(k) # {} \/ files'[k] # files[k]}
  BY DEF Crash
<1>2. ASSUME NEW k \in Keys
      PROVE  /\ files'[k] \in Files
             /\ files'[k].md \in {files[k].md, NoStore}
             /\ files'[k].data \in {files[k].data, NoStore}
  <2>1. files[k] \in Files /\ NoStore \in Nat
    BY DEF Typed, NoStore
  <2>2. \/ files'[k] = files[k]
        \/ files'[k] = [files[k] EXCEPT !.md = NoStore]
        \/ files'[k] = [files[k] EXCEPT !.data = NoStore]
    BY <1>1 DEF Halved
  <2>3. QED
    BY <2>1, <2>2 DEF Files
<1>3. files' \in [Keys -> Files]
  BY <1>1, <1>2
<1>4. QED
  BY <1>1, <1>2, <1>3

\* Every variable keeps its type.
LEMMA TypeStep ==
  ASSUME ReloadAssumption, Typed, [Next]_vars
  PROVE  Typed'
<1>1. ASSUME NEW g \in Instances, Provision(g) PROVE Typed'
  <2>1. stage' \in [Instances -> Stages] /\ behind' \in [Instances -> SUBSET Names]
    BY <1>1 DEF Provision, Stages, Typed
  <2>2. walk' \in [Instances -> Walks]
    BY <1>1, WalkSteps DEF Typed
  <2>3. collector' \in BOOLEAN /\ gauge' \in Instances \cup {None}
    BY <1>1 DEF Provision, StartMetricsUpdater, Typed
  <2>4. budget' \in Budget
    BY <1>1, SpendTyped DEF Provision, Typed
  <2>5. QED
    BY <1>1, <2>1, <2>2, <2>3, <2>4 DEF Provision, Typed, disk, ghosts, counts
<1>2. ASSUME NEW g \in Instances, Start(g) PROVE Typed'
  <2>1. stage' \in [Instances -> Stages]
    BY <1>2 DEF Start, Stages, Typed
  <2>2. QED
    BY <1>2, <2>1 DEF Start, Typed, disk, metrics, ghosts, counts
<1>3. ASSUME NEW g \in Instances, Reject(g) PROVE Typed'
  <2>1. stage' \in [Instances -> Stages]
    BY <1>3 DEF Reject, Stages, Typed
  <2>2. /\ idx' \in [Instances -> SUBSET Names]
        /\ behind' \in [Instances -> SUBSET Names] /\ dropped' \in [Instances -> SUBSET Names]
        /\ missed' \in [Keys -> SUBSET (Instances \cup {None})]
    BY <1>3 DEF Reject, Forgotten, Typed
  <2>3. mem' \in [Instances -> [Keys -> Nat]] /\ walk' \in [Instances -> Walks]
    BY <1>3, ValuesTyped DEF Reject, Forgotten, Typed
  <2>4. QED
    BY <1>3, <2>1, <2>2, <2>3 DEF Reject, Typed, disk, metrics, ghosts, counts
<1>4. ASSUME NEW g \in Instances, Finish(g) PROVE Typed'
  <2>1. stage' \in [Instances -> Stages]
    BY <1>4 DEF Finish, Stages, Typed
  <2>2. /\ idx' \in [Instances -> SUBSET Names]
        /\ behind' \in [Instances -> SUBSET Names] /\ dropped' \in [Instances -> SUBSET Names]
        /\ missed' \in [Keys -> SUBSET (Instances \cup {None})]
    BY <1>4 DEF Finish, Forgotten, Typed
  <2>3. mem' \in [Instances -> [Keys -> Nat]] /\ walk' \in [Instances -> Walks]
    BY <1>4, ValuesTyped DEF Finish, Forgotten, Typed
  <2>4. QED
    BY <1>4, <2>1, <2>2, <2>3 DEF Finish, Typed, disk, metrics, ghosts, counts
<1>5. ASSUME NEW g \in Instances, LoadStart(g) PROVE Typed'
  <2>1. walk' \in [Instances -> Walks]
    BY <1>5 DEF LoadStart, Walks, Typed
  <2>2. QED
    BY <1>5, <2>1 DEF LoadStart, Typed, disk, metrics, ghosts, counts
<1>6. ASSUME NEW g \in Instances, LoadFinish(g) PROVE Typed'
  <2>1. walk' \in [Instances -> Walks]
    BY <1>6, ValuesTyped DEF LoadFinish, Typed
  <2>2. QED
    BY <1>6, <2>1 DEF LoadFinish, Typed, disk, metrics, ghosts, counts
<1>7. ASSUME NEW g \in Instances, StoreData(g) PROVE Typed'
  <2>1. files' \in [Keys -> Files] /\ store' \in [Instances -> Stores]
    BY <1>7, StoreSteps
  <2>2. clashed' \in SUBSET Keys
    BY <1>7 DEF StoreData, Typed
  <2>3. QED
    BY <1>7, <2>1, <2>2 DEF StoreData, Typed, disk, metrics, ghosts, counts
<1>8. ASSUME NEW g \in Instances, StorePut(g) PROVE Typed'
  <2>1. idx' \in [Instances -> SUBSET Names] /\ dropped' \in [Instances -> SUBSET Names]
    <3>1. Put(g, store[g].key) /\ store[g].key \in Names
      BY <1>8 DEF StorePut, Typed, Stores, Names
    <3>2. QED
      BY <3>1, PutIndex
  <2>2. store' \in [Instances -> Stores]
    BY <1>8, ValuesTyped DEF StorePut, Typed
  <2>3. QED
    BY <1>8, <2>1, <2>2 DEF StorePut, Typed, disk, metrics, ghosts, counts
<1>9. ASSUME NEW g \in Instances, Flush(g) PROVE Typed'
  <2>1. files' \in [Keys -> Files] /\ temp' \in Temps
    BY <1>9, RemovalTyped DEF Flush
  <2>2. /\ idx' \in [Instances -> SUBSET Names]
        /\ behind' \in [Instances -> SUBSET Names] /\ dropped' \in [Instances -> SUBSET Names]
        /\ missed' \in [Keys -> SUBSET (Instances \cup {None})]
        /\ purged' \in [Keys -> Nat]
    BY <1>9 DEF Flush, Typed
  <2>3. mem' \in [Instances -> [Keys -> Nat]] /\ walk' \in [Instances -> Walks]
    BY <1>9, ValuesTyped DEF Flush, Typed
  <2>4. QED
    BY <1>9, <2>1, <2>2, <2>3 DEF Flush, Typed, metrics, ghosts, counts
<1>10. ASSUME NEW g \in Instances, NEW n \in Names, LoadEntry(g, n) PROVE Typed'
  <2>1. walk' \in [Instances -> Walks]
    BY <1>10, WalkSteps DEF Typed
  <2>2. QED
    BY <1>10, <2>1 DEF LoadEntry, Typed, disk, metrics, ghosts, counts
<1>11. ASSUME NEW g \in Instances, NEW n \in Names, LoadPut(g, n) PROVE Typed'
  <2>1. walk' \in [Instances -> Walks]
    BY <1>11, WalkSteps DEF Typed
  <2>2. idx' \in [Instances -> SUBSET Names] /\ dropped' \in [Instances -> SUBSET Names]
    BY <1>11, PutIndex DEF LoadPut
  <2>3. QED
    BY <1>11, <2>1, <2>2 DEF LoadPut, Typed, disk, metrics, ghosts, counts
<1>12. ASSUME NEW g \in Instances, NEW n \in Names, Evict(g, n) PROVE Typed'
  <2>1. /\ idx' \in [Instances -> SUBSET Names]
        /\ files' \in [Keys -> Files]
        /\ temp' \in Temps
        /\ behind' \in [Instances -> SUBSET Names]
    BY <1>12, RemovalTyped DEF Evict, Delete
  <2>2. QED
    BY <1>12, <2>1 DEF Evict, Typed, metrics, ghosts, counts
<1>13. ASSUME NEW g \in Instances, NEW k \in Keys, StoreInMemory(g, k) PROVE Typed'
  <2>1. mem' \in [Instances -> [Keys -> Nat]] /\ lastStore' \in Nat
    BY <1>13 DEF StoreInMemory, NextStore, Typed
  <2>2. budget' \in Budget
    BY <1>13, SpendTyped DEF StoreInMemory, NextStore, Typed
  <2>3. QED
    BY <1>13, <2>1, <2>2 DEF StoreInMemory, Typed, disk, metrics, ghosts
<1>14. ASSUME NEW g \in Instances, NEW k \in Keys, StoreMeta(g, k) PROVE Typed'
  <2>1. lastStore' \in Nat
    BY <1>14 DEF StoreMeta, NextStore, Typed
  <2>2. budget' \in Budget
    BY <1>14, SpendTyped DEF StoreMeta, NextStore, Typed
  <2>3. files' \in [Keys -> Files]
    BY <1>14, StoreSteps
  <2>4. clashed' \in SUBSET Keys
    BY <1>14 DEF StoreMeta, Typed
  <2>5. behind' \in [Instances -> SUBSET Names]
    BY <1>14, RemovalTyped DEF StoreMeta, Names
  <2>6. store' \in [Instances -> Stores]
    BY <1>14 DEF StoreMeta, NextStore, Stores, Typed, NoStore
  <2>7. QED
    BY <1>14, <2>1, <2>2, <2>3, <2>4, <2>5, <2>6 DEF StoreMeta, Typed, disk, metrics, ghosts
<1>15. ASSUME NEW g \in Instances, NEW k \in Keys, PurgeAsync(g, k) PROVE Typed'
  <2>1. mem' \in [Instances -> [Keys -> Nat]]
    BY <1>15 DEF PurgeAsync, Typed, NoStore
  <2>2. /\ idx' \in [Instances -> SUBSET Names]
        /\ files' \in [Keys -> Files]
        /\ temp' \in Temps
        /\ behind' \in [Instances -> SUBSET Names]
    BY <1>15, RemovalTyped DEF PurgeAsync, Delete, disk, Typed, Names
  <2>3. QED
    BY <1>15, <2>1, <2>2 DEF PurgeAsync, Typed, metrics, ghosts, counts
<1>16. ASSUME NEW g \in Instances, NEW k \in Keys, Purge(g, k) PROVE Typed'
  <2>1. mem' \in [Instances -> [Keys -> Nat]] /\ purged' \in [Keys -> Nat]
    BY <1>16 DEF Purge, Typed, NoStore
  <2>2. missed' \in [Keys -> SUBSET (Instances \cup {None})]
    BY <1>16 DEF Purge, Typed
  <2>3. /\ idx' \in [Instances -> SUBSET Names]
        /\ files' \in [Keys -> Files]
        /\ temp' \in Temps
        /\ behind' \in [Instances -> SUBSET Names]
    BY <1>16, RemovalTyped DEF Purge, Delete, disk, Typed, Names
  <2>4. QED
    BY <1>16, <2>1, <2>2, <2>3 DEF Purge, Typed, metrics, ghosts, counts
<1>17. ASSUME NEW g \in Instances, NEW c \in Captures, BeginCapture(g, c) PROVE Typed'
  <2>1. capture' \in [Captures -> Instances \cup {None}]
    BY <1>17 DEF BeginCapture, Typed
  <2>2. temp' \in Temps
    BY <1>17 DEF BeginCapture, Typed, Temps
  <2>3. behind' \in [Instances -> SUBSET Names]
    BY <1>17 DEF BeginCapture, Typed, Names
  <2>4. budget' \in Budget
    BY <1>17, SpendTyped DEF BeginCapture, Typed
  <2>5. QED
    BY <1>17, <2>1, <2>2, <2>3, <2>4 DEF BeginCapture, Typed, disk, metrics, ghosts, counts
<1>18. ASSUME NEW c \in Captures, EndCapture(c) PROVE Typed'
  <2>1. capture' \in [Captures -> Instances \cup {None}]
    BY <1>18 DEF EndCapture, Typed
  <2>2. temp' \in Temps
    BY <1>18 DEF EndCapture, Typed, Temps
  <2>3. QED
    BY <1>18, <2>1, <2>2 DEF EndCapture, Typed, disk, metrics, ghosts, counts
<1>19. CASE Crash
  <2>1. /\ stage' \in [Instances -> Stages]
        /\ collector' \in BOOLEAN
        /\ gauge' \in Instances \cup {None}
        /\ clashed' \in SUBSET Keys
    BY <1>19 DEF Crash, Stages, Typed
  <2>2. /\ idx' \in [Instances -> SUBSET Names]
        /\ behind' \in [Instances -> SUBSET Names] /\ dropped' \in [Instances -> SUBSET Names]
        /\ missed' \in [Keys -> SUBSET (Instances \cup {None})]
    BY <1>19 DEF Crash, Forgotten, Typed
  <2>3. mem' \in [Instances -> [Keys -> Nat]] /\ walk' \in [Instances -> Walks]
    BY <1>19, ValuesTyped DEF Crash, Forgotten, Typed
  <2>4. store' \in [Instances -> Stores]
    BY <1>19, ValuesTyped DEF Crash
  <2>5. capture' \in [Captures -> Instances \cup {None}]
    BY <1>19 DEF Crash, Typed
  <2>6. temp' \in Temps
    BY <1>19 DEF Crash, Typed, Temps
  <2>7. files' \in [Keys -> Files]
    BY <1>19, CutShort
  <2>8. QED
    BY <1>19, <2>1, <2>2, <2>3, <2>4, <2>5, <2>6, <2>7 DEF Crash, Typed, disk, ghosts, counts
<1>20. CASE UNCHANGED vars
  BY <1>20 DEF vars, Typed, disk, metrics, ghosts, counts
<1>21. ASSUME NEW g \in Instances, StoreDataFails(g) PROVE Typed'
  <2>1. store' \in [Instances -> Stores]
    BY <1>21, ValuesTyped DEF StoreDataFails, Typed
  <2>2. QED
    BY <1>21, <2>1 DEF StoreDataFails, Typed, disk, metrics, ghosts, counts
<1>22. ASSUME NEW g \in Instances, StoreDataCrossed(g) PROVE Typed'
  <2>1. /\ files' \in [Keys -> Files] /\ store' \in [Instances -> Stores]
        /\ store[g].key \in Keys
    BY <1>22, StoreSteps
  <2>2. clashed' \in SUBSET Keys
    BY <1>22, <2>1 DEF StoreDataCrossed, Typed
  <2>3. behind' \in [Instances -> SUBSET Names]
    BY <1>22, <2>1, RemovalTyped DEF StoreDataCrossed, Names
  <2>4. QED
    BY <1>22, <2>1, <2>2, <2>3 DEF StoreDataCrossed, Typed, disk, metrics, ghosts, counts
<1>23. QED
  BY <1>1, <1>2, <1>3, <1>4, <1>5, <1>6, <1>7, <1>8, <1>9, <1>10, <1>11, <1>12, <1>13, <1>14,
     <1>15, <1>16, <1>17, <1>18, <1>19, <1>20, <1>21, <1>22
     DEF Next
-----------------------------------------------------------------------------
(* The gauges. *)

\* Only the life of an instance changes what the gauges look at, and who serves.
LEMMA GaugeStep ==
  ASSUME ReloadAssumption, Typed, GaugesOK, [Next]_vars
  PROVE  GaugesOK'
<1> USE DEF GaugesOK, GaugesCurrent, Serving
<1>1. ASSUME NEW g \in Instances, Provision(g) PROVE GaugesOK'
  BY <1>1 DEF Provision, StartMetricsUpdater, Typed
<1>2. ASSUME NEW g \in Instances, Start(g) PROVE GaugesOK'
  BY <1>2 DEF Start, metrics, Typed
<1>3. ASSUME NEW g \in Instances, Reject(g) PROVE GaugesOK'
  BY <1>3 DEF Reject, metrics, Typed
<1>4. ASSUME NEW g \in Instances, Finish(g) PROVE GaugesOK'
  BY <1>4 DEF Finish, metrics, Typed
<1>5. CASE Crash
  BY <1>5 DEF Crash, Typed
<1>6. CASE UNCHANGED <<stage, metrics>>
  BY <1>6 DEF metrics
<1>7. [Next]_vars => \/ \E g \in Instances : Provision(g) \/ Start(g) \/ Reject(g) \/ Finish(g)
                     \/ Crash \/ UNCHANGED <<stage, metrics>>
  BY DEF Next, vars, LoadStart, LoadFinish, StoreData, StoreDataFails, StoreDataCrossed,
         StorePut, Flush, LoadEntry, LoadPut, Evict, StoreInMemory, StoreMeta, PurgeAsync, Purge, BeginCapture, EndCapture
<1>8. QED
  BY <1>1, <1>2, <1>3, <1>4, <1>5, <1>6, <1>7
-----------------------------------------------------------------------------
(* What is in use and what is not. *)

\* Who is not in use has no store under way, nothing in memory, no index and no walk.
LEMMA LifeStep ==
  ASSUME ReloadAssumption, Typed, LifeInv, [Next]_vars
  PROVE  LifeInv'
<1> USE DEF LifeInv, LifeOK, Living, Active, Typed
<1>1. ASSUME NEW g \in Instances, Provision(g) PROVE LifeInv'
  <2>1. /\ walk[g] \in Walks /\ walk'[g] = [walk[g] EXCEPT !.phase = "start"]
        /\ \A h \in Instances : h # g => walk'[h] = walk[h]
    BY <1>1, WalkSteps
  <2>2. /\ walk[g].todo = {} /\ walk[g].held = {} /\ store[g].pc = "idle"
        /\ stage' = [stage EXCEPT ![g] = "provisioned"] /\ UNCHANGED <<idx, mem, store>>
    BY <1>1 DEF Provision
  <2>3. walk'[g].todo = {} /\ walk'[g].held = {}
    BY <2>1, <2>2 DEF Walks
  <2>4. QED
    BY <2>1, <2>2, <2>3
<1>2. ASSUME NEW g \in Instances, Start(g) PROVE LifeInv'
  BY <1>2 DEF Start
<1>3. ASSUME NEW g \in Instances, Reject(g) PROVE LifeInv'
  BY <1>3 DEF Reject, Forgotten, NotWalking
<1>4. ASSUME NEW g \in Instances, Finish(g) PROVE LifeInv'
  BY <1>4 DEF Finish, Forgotten, Free, NotWalking
<1>5. ASSUME NEW g \in Instances, LoadStart(g) PROVE LifeInv'
  BY <1>5 DEF LoadStart
<1>6. ASSUME NEW g \in Instances, LoadFinish(g) PROVE LifeInv'
  BY <1>6 DEF LoadFinish, NotWalking
<1>7. ASSUME NEW g \in Instances, StoreData(g) PROVE LifeInv'
  <2>1. g \in Active /\ UNCHANGED <<stage, idx, mem, walk>>
    BY <1>7 DEF StoreData
  <2>2. \A h \in Instances : h # g => store'[h] = store[h]
    BY <1>7, StoreSteps
  <2>3. QED
    BY <2>1, <2>2
<1>8. ASSUME NEW g \in Instances, StorePut(g) PROVE LifeInv'
  <2>1. g \in Active /\ UNCHANGED <<stage, mem, walk>> /\ store' = [store EXCEPT ![g] = Idle]
    BY <1>8 DEF StorePut
  <2>2. Put(g, store[g].key) /\ store[g].key \in Names
    BY <1>8 DEF StorePut, Stores, Names
  <2>3. \A h \in Instances : h # g => idx'[h] = idx[h]
    BY <2>2, PutIndex
  <2>4. QED
    BY <2>1, <2>3 DEF Idle
<1>9. ASSUME NEW g \in Instances, Flush(g) PROVE LifeInv'
  BY <1>9 DEF Flush, Free, NotWalking
<1>10. ASSUME NEW g \in Instances, NEW n \in Names, LoadEntry(g, n) PROVE LifeInv'
  <2>1. walk[g].phase = "run" /\ UNCHANGED <<stage, idx, mem, store>>
    BY <1>10 DEF LoadEntry
  <2>2. walk'[g].phase = "run" /\ \A h \in Instances : h # g => walk'[h] = walk[h]
    BY <1>10, <2>1, WalkSteps
  <2>3. QED
    BY <2>1, <2>2
<1>11. ASSUME NEW g \in Instances, NEW n \in Names, LoadPut(g, n) PROVE LifeInv'
  <2>1. walk[g].phase = "run" /\ UNCHANGED <<stage, mem, store>>
    BY <1>11 DEF LoadPut, Walks
  <2>2. walk'[g].phase = "run" /\ \A h \in Instances : h # g => walk'[h] = walk[h]
    BY <1>11, <2>1, WalkSteps
  <2>3. \A h \in Instances : h # g => idx'[h] = idx[h]
    BY <1>11, PutIndex DEF LoadPut
  <2>4. QED
    BY <2>1, <2>2, <2>3
<1>12. ASSUME NEW g \in Instances, NEW n \in Names, Evict(g, n) PROVE LifeInv'
  BY <1>12 DEF Evict, Delete
<1>13. ASSUME NEW g \in Instances, NEW k \in Keys, StoreInMemory(g, k) PROVE LifeInv'
  BY <1>13 DEF StoreInMemory, Free
<1>14. ASSUME NEW g \in Instances, NEW k \in Keys, StoreMeta(g, k) PROVE LifeInv'
  BY <1>14 DEF StoreMeta, Free
<1>15. ASSUME NEW g \in Instances, NEW k \in Keys, PurgeAsync(g, k) PROVE LifeInv'
  BY <1>15 DEF PurgeAsync, Delete
<1>16. ASSUME NEW g \in Instances, NEW k \in Keys, Purge(g, k) PROVE LifeInv'
  BY <1>16 DEF Purge, Delete, Free
<1>17. ASSUME NEW g \in Instances, NEW c \in Captures, BeginCapture(g, c) PROVE LifeInv'
  BY <1>17 DEF BeginCapture
<1>18. ASSUME NEW c \in Captures, EndCapture(c) PROVE LifeInv'
  BY <1>18 DEF EndCapture
<1>19. CASE Crash
  BY <1>19 DEF Crash, Forgotten, NotWalking, Idle
<1>20. CASE UNCHANGED vars
  BY <1>20 DEF vars
<1>21. ASSUME NEW g \in Instances, StoreDataFails(g) PROVE LifeInv'
  BY <1>21 DEF StoreDataFails, Idle
<1>22. ASSUME NEW g \in Instances, StoreDataCrossed(g) PROVE LifeInv'
  <2>1. g \in Active /\ UNCHANGED <<stage, idx, mem, walk>>
    BY <1>22 DEF StoreDataCrossed
  <2>2. \A h \in Instances : h # g => store'[h] = store[h]
    BY <1>22, StoreSteps
  <2>3. QED
    BY <2>1, <2>2
<1>23. QED
  BY <1>1, <1>2, <1>3, <1>4, <1>5, <1>6, <1>7, <1>8, <1>9, <1>10, <1>11, <1>12, <1>13, <1>14,
     <1>15, <1>16, <1>17, <1>18, <1>19, <1>20, <1>21, <1>22
     DEF Next
-----------------------------------------------------------------------------
(* The index and the directory. *)

\* A directory is there as long as one of its files is.
LEMMA DirOfFiles ==
  ASSUME Typed, ReloadAssumption
  PROVE  /\ \A k \in Keys : HasDir(k) <=> files[k].md # NoStore \/ files[k].data # NoStore
         /\ HasDir(Temp) <=> temp.dir
<1>1. ASSUME NEW k \in Keys
      PROVE  HasDir(k) <=> files[k].md # NoStore \/ files[k].data # NoStore
  <2>1. files[k] \in Files /\ k # Temp
    BY ReloadAssumption DEF Typed
  <2>2. files[k] = NoFiles <=> files[k].md = NoStore /\ files[k].data = NoStore
    BY <2>1 DEF Files, NoFiles
  <2>3. QED
    BY <2>1, <2>2 DEF HasDir
<1>2. QED
  BY <1>1 DEF HasDir

\* A removal takes the directories it means to and no others.
LEMMA DirsRemoved ==
  ASSUME Typed, ReloadAssumption, NEW S, Removed(S)
  PROVE  \A n \in Names : HasDir(n)' <=> HasDir(n) /\ n \notin S
BY DEF HasDir, Removed, Typed, NoTemp, NoFiles, Names

\* A step that leaves the files of the keys and the directory of the temporary files
\* alone removes nothing and makes nothing.
LEMMA DirsSame ==
  ASSUME UNCHANGED files, temp'.dir = temp.dir
  PROVE  \A n : HasDir(n)' <=> HasDir(n)
BY DEF HasDir

\* A file makes its directory, or finds it.
LEMMA DirsStored ==
  ASSUME Typed, Typed', ReloadAssumption, NEW g \in Instances
  PROVE  /\ \A k \in Keys : StoreMeta(g, k) =>
              HasDir(k)' /\ \A n \in Names : n # k => (HasDir(n)' <=> HasDir(n))
         /\ StoreData(g) => \A n \in Names : HasDir(n)' <=> HasDir(n)
         /\ \A k \in Keys : StoreDataCrossed(g) /\ k = store[g].key =>
              HasDir(k)' /\ \A n \in Names : n # k => (HasDir(n)' <=> HasDir(n))
<1>1. ASSUME NEW k \in Keys, StoreMeta(g, k)
      PROVE  HasDir(k)' /\ \A n \in Names : n # k => (HasDir(n)' <=> HasDir(n))
  <2>1. files'[k].md # NoStore
    <3>1. lastStore' # NoStore
      BY <1>1 DEF StoreMeta, NextStore, Typed, NoStore
    <3>2. QED
      BY <1>1, <3>1, StoreSteps
  <2>2. HasDir(k)'
    <3>1. k # Temp /\ files'[k] # NoFiles
      BY <2>1, ReloadAssumption DEF NoFiles
    <3>2. QED
      BY <3>1 DEF HasDir
  <2>3. \A n \in Names : n # k => (HasDir(n)' <=> HasDir(n))
    BY <1>1, StoreSteps DEF HasDir, StoreMeta, Names
  <2>4. QED
    BY <2>2, <2>3
<1>2. ASSUME StoreData(g) \/ StoreDataCrossed(g), NEW k \in Keys, k = store[g].key
      PROVE  HasDir(k)' /\ \A n \in Names : n # k => (HasDir(n)' <=> HasDir(n))
  <2>1. k \in Keys /\ k # Temp /\ files[k] \in Files /\ store[g].n \in Nat \ {NoStore}
    BY <1>2, StoreSteps, ReloadAssumption DEF Typed
  <2>2. files'[k] = [files[k] EXCEPT !.data = store[g].n]
    BY <1>2, <2>1, StoreSteps
  <2>3. files'[k].data # NoStore
    BY <2>1, <2>2 DEF Files, NoStore
  <2>4. HasDir(k)'
    BY <2>1, <2>3 DEF HasDir, NoFiles
  <2>5. UNCHANGED temp /\ \A j \in Keys : j # k => files'[j] = files[j]
    BY <1>2, StoreSteps DEF StoreData, StoreDataCrossed
  <2>6. QED
    BY <2>4, <2>5 DEF HasDir, Names
<1>3. StoreData(g) => store[g].key \in Keys /\ HasDir(store[g].key)
  BY StoreSteps DEF StoreData
<1>4. StoreData(g) => \A n \in Names : HasDir(n)' <=> HasDir(n)
  <2> SUFFICES ASSUME StoreData(g), NEW n \in Names PROVE HasDir(n)' <=> HasDir(n)
    OBVIOUS
  <2>1. PICK k \in Keys : k = store[g].key
    BY <1>3
  <2>2. HasDir(k) /\ HasDir(k)'
    BY <1>2, <1>3, <2>1
  <2>3. n # k => (HasDir(n)' <=> HasDir(n))
    BY <1>2, <2>1
  <2>4. QED
    BY <2>2, <2>3
<1>5. QED
  BY <1>1, <1>2, <1>4

\* An instance that does nothing goes on knowing what it knew, if whoever changes a
\* directory behind its back says so.
LEMMA StepKept ==
  ASSUME NEW h \in Instances, StepOK(h), LifeOK(h), Living(h)' => Living(h),
         idx'[h] = idx[h], walk'[h] = walk[h], store'[h] = store[h],
         behind[h] \subseteq behind'[h], dropped'[h] = dropped[h],
         \A n \in Names : n \notin behind'[h] /\ h \in Relies(n) => (HasDir(n)' <=> HasDir(n))
  PROVE  StepOK(h)'
<1> SUFFICES ASSUME Living(h), NEW n \in Names, n \notin behind'[h]
             PROVE  NameOK(h, n)'
  BY DEF StepOK, NameOK
<1>1. NameOK(h, n) /\ n \notin behind[h]
  BY DEF StepOK
<1>2. CASE h \in Relies(n)
  BY <1>1, <1>2 DEF NameOK
<1>3. CASE h \notin Relies(n)
  BY <1>1, <1>3 DEF NameOK, LifeOK, Relies
<1>4. QED
  BY <1>2, <1>3

\* Nor does it matter to it that another instance removes n.
LEMMA StepDelete ==
  ASSUME Typed, ReloadAssumption, LifeInv, StepInv, NEW g \in Instances, NEW n \in Names,
         Delete(g, n), UNCHANGED <<stage, walk, store, dropped>>
  PROVE  StepInv'
<1>1. \A m \in Names : HasDir(m)' <=> HasDir(m) /\ m # n
  BY DirsRemoved DEF Delete
<1>2. /\ idx' = [idx EXCEPT ![g] = @ \ {n}]
      /\ behind' = [h \in Instances |->
                      IF h = g /\ n # store[g].key /\ n \notin walk[g].held
                        THEN behind[h] \ {n}
                      ELSE IF h \in {g} \cup Relies(n) THEN behind[h] \cup {n} ELSE behind[h]]
  BY DEF Delete, Behind
<1>3. ASSUME NEW h \in Instances, h # g PROVE StepOK(h)'
  <2>1. idx'[h] = idx[h] /\ behind[h] \subseteq behind'[h]
    BY <1>2, <1>3 DEF Typed
  <2>2. \A m \in Names : m \notin behind'[h] /\ h \in Relies(m) => (HasDir(m)' <=> HasDir(m))
    BY <1>1, <1>2, <1>3
  <2>3. StepOK(h) /\ LifeOK(h) /\ (Living(h)' => Living(h))
    BY DEF StepInv, LifeInv, Living
  <2>4. QED
    BY <2>1, <2>2, <2>3, StepKept
<1>4. StepOK(g)'
  <2> SUFFICES ASSUME Living(g), NEW m \in Names, m \notin behind'[g]
               PROVE  NameOK(g, m)'
    BY DEF StepOK, NameOK, Living
  <2>1. idx'[g] = idx[g] \ {n}
    BY DEF Typed, Delete
  <2>2. CASE m = n
    BY <1>1, <1>2, <2>1, <2>2 DEF NameOK
  <2>3. CASE m # n
    <3>1. m \notin behind[g] /\ NameOK(g, m)
      BY <1>2, <2>3 DEF StepInv, StepOK
    <3>2. QED
      BY <1>1, <2>1, <2>3, <3>1 DEF NameOK
  <2>4. QED
    BY <2>2, <2>3
<1>5. QED
  BY <1>3, <1>4 DEF StepInv

\* Every instance goes on knowing what it ought to know of the directory.
LEMMA StepStep ==
  ASSUME Typed, Typed', ReloadAssumption, LifeInv, StepInv, FilesInv, [Next]_vars
  PROVE  StepInv'
<1>a. ASSUME NEW h \in Instances, Living(h)' => Living(h),
             idx'[h] = idx[h], walk'[h] = walk[h], store'[h] = store[h],
             behind[h] \subseteq behind'[h], dropped'[h] = dropped[h],
             \A n \in Names :
               n \notin behind'[h] /\ h \in Relies(n) => (HasDir(n)' <=> HasDir(n))
      PROVE  StepOK(h)'
  BY <1>a, StepKept DEF StepInv, LifeInv
<1>b. ASSUME UNCHANGED <<idx, walk, store, behind, dropped>>,
             \A n \in Names : HasDir(n)' <=> HasDir(n),
             \A h \in Instances : Living(h)' => Living(h)
      PROVE  StepInv'
  BY <1>a, <1>b DEF StepInv
<1>1. ASSUME NEW g \in Instances, Provision(g) PROVE StepInv'
  <2>1. \A n \in Names : HasDir(n)' <=> HasDir(n)
    BY <1>1, DirsSame DEF Provision, disk
  <2>2. ASSUME NEW h \in Instances, h # g PROVE StepOK(h)'
    BY <1>1, <1>a, <2>1, <2>2, WalkSteps DEF Provision, Typed, Living
  <2>3. StepOK(g)'
    <3>1. /\ ~Living(g) /\ idx'[g] = {} /\ walk[g].held = {} /\ store'[g].pc = "idle"
      BY <1>1 DEF Provision, Living, LifeInv, LifeOK, Active
    <3>2. walk[g] \in Walks /\ walk'[g] = [walk[g] EXCEPT !.phase = "start"]
      BY <1>1, WalkSteps DEF Typed
    <3>3. walk'[g].phase = "start" /\ walk'[g].held = {}
      BY <3>1, <3>2 DEF Walks
    <3>4. store'[g].key = None
      BY <3>1 DEF Typed, Stores
    <3>5. QED
      BY <3>1, <3>3, <3>4, ReloadAssumption DEF StepOK, NameOK
  <2>4. QED
    BY <2>2, <2>3 DEF StepInv
<1>2. ASSUME NEW g \in Instances, Start(g) PROVE StepInv'
  <2>1. \A h \in Instances : Living(h)' => Living(h)
    BY <1>2 DEF Start, Living, Typed
  <2>2. QED
    BY <1>2, <1>b, <2>1, DirsSame DEF Start, disk, ghosts
<1>3. ASSUME NEW S \in SUBSET Instances, Forgotten(S),
             \A h \in S : ~Living(h)',
             S # Instances => UNCHANGED files /\ temp'.dir = temp.dir,
             \A h \in Instances \ S : store'[h] = store[h] /\ (Living(h)' => Living(h))
      PROVE  StepInv'
  <2>1. ASSUME NEW h \in Instances \ S PROVE StepOK(h)'
    BY <1>3, <1>a, <2>1, DirsSame DEF Forgotten
  <2>2. ASSUME NEW h \in S PROVE StepOK(h)'
    BY <1>3 DEF StepOK
  <2>3. QED
    BY <2>1, <2>2 DEF StepInv
<1>4. ASSUME NEW g \in Instances, Reject(g) \/ Finish(g) PROVE StepInv'
  <2>1. Forgotten({g}) /\ UNCHANGED <<store, files, temp>>
    BY <1>4 DEF Reject, Finish, disk
  <2>2. ~Living(g)' /\ \A h \in Instances \ {g} : Living(h)' => Living(h)
    BY <1>4 DEF Reject, Finish, Living, Typed
  <2>3. QED
    BY <1>3, <2>1, <2>2
<1>5. CASE Crash
  <2>1. Forgotten(Instances) /\ \A h \in Instances : ~Living(h)'
    BY <1>5 DEF Crash, Living
  <2>2. QED
    BY <1>3, <2>1
<1>6. ASSUME NEW g \in Instances, LoadStart(g) PROVE StepInv'
  <2>1. /\ walk[g].phase = "start"
        /\ walk' = [walk EXCEPT ![g] =
                      [phase |-> "run", todo |-> {n \in Names : HasDir(n)}, held |-> {}]]
        /\ UNCHANGED <<stage, idx, store, behind, dropped, files, temp>>
    BY <1>6 DEF LoadStart, disk, ghosts
  <2>2. \A n \in Names : HasDir(n)' <=> HasDir(n)
    BY <2>1, DirsSame
  <2>3. ASSUME NEW h \in Instances, h # g PROVE StepOK(h)'
    BY <1>a, <2>1, <2>2, <2>3 DEF Living, Typed
  <2>4. StepOK(g)'
    <3>1. /\ walk'[g].todo = {n \in Names : HasDir(n)} /\ walk'[g].held = {}
          /\ StepOK(g) /\ (Living(g)' => Living(g))
      BY <2>1 DEF Typed, Living, StepInv
    <3>2. QED
      BY <2>1, <2>2, <3>1 DEF StepOK, NameOK
  <2>5. QED
    BY <2>3, <2>4 DEF StepInv
<1>7. ASSUME NEW g \in Instances, LoadFinish(g) PROVE StepInv'
  <2>1. /\ walk[g].phase = "run" /\ walk[g].todo = {} /\ walk[g].held = {}
        /\ walk' = [walk EXCEPT ![g] = NotWalking]
        /\ UNCHANGED <<stage, idx, store, behind, dropped, files, temp>>
    BY <1>7 DEF LoadFinish, disk, ghosts
  <2>2. \A n \in Names : HasDir(n)' <=> HasDir(n)
    BY <2>1, DirsSame
  <2>3. ASSUME NEW h \in Instances, h # g PROVE StepOK(h)'
    BY <1>a, <2>1, <2>2, <2>3 DEF Living, Typed
  <2>4. StepOK(g)'
    <3>1. /\ walk'[g].todo = {} /\ walk'[g].held = {}
          /\ StepOK(g) /\ (Living(g)' => Living(g))
      BY <2>1 DEF Typed, Living, StepInv, NotWalking
    <3>2. QED
      BY <2>1, <2>2, <3>1 DEF StepOK, NameOK
  <2>5. QED
    BY <2>3, <2>4 DEF StepInv
<1>8. ASSUME NEW g \in Instances, NEW n \in Names, LoadEntry(g, n) PROVE StepInv'
  <2>1. /\ n \in walk[g].todo /\ walk'[g].phase = walk[g].phase
        /\ walk'[g].todo = walk[g].todo \ {n}
        /\ walk'[g].held = walk[g].held \cup (IF HasDir(n) THEN {n} ELSE {})
        /\ \A h \in Instances : h # g => walk'[h] = walk[h]
    BY <1>8, WalkSteps DEF LoadEntry, Typed
  <2>2. UNCHANGED <<stage, idx, store, behind, dropped, files, temp>>
    BY <1>8 DEF LoadEntry, disk, ghosts
  <2>3. \A m \in Names : HasDir(m)' <=> HasDir(m)
    BY <2>2, DirsSame
  <2>4. ASSUME NEW h \in Instances, h # g PROVE StepOK(h)'
    BY <1>a, <2>1, <2>2, <2>3, <2>4 DEF Living
  <2>5. StepOK(g)'
    BY <2>1, <2>2, <2>3 DEF StepInv, StepOK, NameOK, Living
  <2>6. QED
    BY <2>4, <2>5 DEF StepInv
<1>9. ASSUME NEW g \in Instances, NEW n \in Names, LoadPut(g, n) PROVE StepInv'
  <2>1. /\ n \in walk[g].held /\ walk'[g].phase = walk[g].phase
        /\ walk'[g].todo = walk[g].todo /\ walk'[g].held = walk[g].held \ {n}
        /\ \A h \in Instances : h # g => walk'[h] = walk[h]
    BY <1>9, WalkSteps DEF LoadPut, Typed
  <2>2. /\ idx'[g] \subseteq idx[g] \cup {n}
        /\ idx[g] \cup dropped[g] \cup {n} \subseteq idx'[g] \cup dropped'[g]
        /\ \A h \in Instances : h # g => idx'[h] = idx[h] /\ dropped'[h] = dropped[h]
        /\ UNCHANGED <<stage, store, behind, files, temp>>
    BY <1>9, PutIndex DEF LoadPut, disk
  <2>3. \A m \in Names : HasDir(m)' <=> HasDir(m)
    BY <2>2, DirsSame
  <2>4. ASSUME NEW h \in Instances, h # g PROVE StepOK(h)'
    BY <1>a, <2>1, <2>2, <2>3, <2>4 DEF Living
  <2>5. StepOK(g)'
    BY <2>1, <2>2, <2>3 DEF StepInv, StepOK, NameOK, Living
  <2>6. QED
    BY <2>4, <2>5 DEF StepInv
<1>10. ASSUME NEW g \in Instances, NEW k \in Keys, StoreInMemory(g, k) PROVE StepInv'
  <2>1. UNCHANGED <<stage, idx, walk, store, behind, dropped, files, temp>>
    BY <1>10 DEF StoreInMemory, disk, ghosts
  <2>2. QED
    BY <1>b, <2>1, DirsSame DEF Living
<1>11. ASSUME NEW g \in Instances, NEW k \in Keys, StoreMeta(g, k) PROVE StepInv'
  <2>1. /\ UNCHANGED <<stage, idx, walk, dropped>> /\ store[g].pc = "idle"
        /\ store'[g].key = k /\ \A h \in Instances : h # g => store'[h] = store[h]
        /\ behind' = [h \in Instances |-> IF h = g THEN behind[h] \ {k}
                                          ELSE IF h \in {g} \cup Relies(k) THEN behind[h] \cup {k}
                                          ELSE behind[h]]
    BY <1>11 DEF StoreMeta, Free, Behind, Typed
  <2>2. HasDir(k)' /\ \A n \in Names : n # k => (HasDir(n)' <=> HasDir(n))
    BY <1>11, DirsStored
  <2>3. ASSUME NEW h \in Instances, h # g PROVE StepOK(h)'
    BY <1>a, <2>1, <2>2, <2>3 DEF Living
  <2>4. StepOK(g)'
    <3> SUFFICES ASSUME Living(g), NEW n \in Names, n \notin behind'[g]
                 PROVE  NameOK(g, n)'
      BY <2>1 DEF StepOK, NameOK, Living
    <3>1. store[g].key = None
      BY <2>1 DEF Typed, Stores
    <3>2. CASE n = k
      BY <2>1, <2>2, <3>2 DEF NameOK
    <3>3. CASE n # k
      <4>1. n \notin behind[g] /\ NameOK(g, n)
        BY <2>1, <3>3 DEF StepInv, StepOK
      <4>2. QED
        BY <2>1, <2>2, <3>1, <3>3, <4>1, ReloadAssumption DEF NameOK
    <3>4. QED
      BY <3>2, <3>3
  <2>5. QED
    BY <2>3, <2>4 DEF StepInv
<1>12. ASSUME NEW g \in Instances, StoreData(g) PROVE StepInv'
  <2>1. /\ UNCHANGED <<stage, idx, walk, behind, dropped>>
        /\ \A h \in Instances : h # g => store'[h] = store[h]
        /\ store'[g].key = store[g].key
    BY <1>12, StoreSteps DEF StoreData
  <2>2. \A n \in Names : HasDir(n)' <=> HasDir(n)
    BY <1>12, DirsStored
  <2>3. ASSUME NEW h \in Instances, h # g PROVE StepOK(h)'
    BY <1>a, <2>1, <2>2, <2>3 DEF Living
  <2>4. StepOK(g)'
    BY <2>1, <2>2 DEF StepInv, StepOK, NameOK, Living
  <2>5. QED
    BY <2>3, <2>4 DEF StepInv
<1>13. ASSUME NEW g \in Instances, StorePut(g) PROVE StepInv'
  <2>1. Put(g, store[g].key) /\ store[g].key \in Names
    BY <1>13 DEF StorePut, Typed, Stores, Names
  <2>2. /\ idx'[g] \subseteq idx[g] \cup {store[g].key}
        /\ idx[g] \cup dropped[g] \cup {store[g].key} \subseteq idx'[g] \cup dropped'[g]
        /\ \A h \in Instances : h # g => idx'[h] = idx[h] /\ dropped'[h] = dropped[h]
    BY <2>1, PutIndex
  <2>3. /\ store'[g] = Idle /\ \A h \in Instances : h # g => store'[h] = store[h]
        /\ UNCHANGED <<stage, walk, behind, files, temp>>
    BY <1>13 DEF StorePut, disk, Typed
  <2>4. \A n \in Names : HasDir(n)' <=> HasDir(n)
    BY <2>3, DirsSame
  <2>5. ASSUME NEW h \in Instances, h # g PROVE StepOK(h)'
    BY <1>a, <2>2, <2>3, <2>4, <2>5 DEF Living
  <2>6. StepOK(g)'
    <3>1. \A n \in Names : store'[g].key # n
      BY <2>3, ReloadAssumption DEF Idle
    <3>2. QED
      BY <2>2, <2>3, <2>4, <3>1 DEF StepInv, StepOK, NameOK, Living
  <2>7. QED
    BY <2>5, <2>6 DEF StepInv
<1>14. ASSUME NEW g \in Instances, NEW n \in Names, Evict(g, n) PROVE StepInv'
  BY <1>14, StepDelete DEF Evict
<1>15. ASSUME NEW g \in Instances, NEW k \in Keys, PurgeAsync(g, k) \/ Purge(g, k)
       PROVE  StepInv'
  <2>1. UNCHANGED <<stage, walk, store, dropped>>
    BY <1>15 DEF PurgeAsync, Purge
  <2>2. CASE Delete(g, k)
    BY <2>1, <2>2, StepDelete DEF Names
  <2>3. CASE UNCHANGED <<idx, disk, behind>>
    BY <1>b, <2>1, <2>3, DirsSame DEF disk, Living
  <2>4. QED
    BY <1>15, <2>2, <2>3 DEF PurgeAsync, Purge
<1>16. ASSUME NEW g \in Instances, Flush(g) PROVE StepInv'
  <2>1. /\ store[g].pc = "idle" /\ UNCHANGED <<stage, store>>
        /\ idx'[g] = {}
        /\ \A h \in Instances : h # g => idx'[h] = idx[h] /\ dropped'[h] = dropped[h]
        /\ walk'[g] = (IF walk[g].phase = "start" THEN walk[g] ELSE NotWalking)
        /\ \A h \in Instances : h # g => walk'[h] = walk[h]
    BY <1>16 DEF Flush, Free, Typed
  <2>2. behind' = [h \in Instances |->
                     IF h = g THEN {} ELSE behind[h] \cup {n \in Names : h \in Relies(n)}]
    BY <1>16 DEF Flush
  <2>3. \A n \in Names : ~HasDir(n)'
    BY <1>16, DirsRemoved DEF Flush
  <2>4. ASSUME NEW h \in Instances, h # g PROVE StepOK(h)'
    BY <1>a, <2>1, <2>2, <2>4 DEF Living
  <2>5. StepOK(g)'
    <3>1. walk'[g].held = {}
      BY <2>1 DEF LifeInv, LifeOK, NotWalking
    <3>2. store[g].key = None
      BY <2>1 DEF Typed, Stores
    <3>3. QED
      BY <2>1, <2>3, <3>1, <3>2, ReloadAssumption DEF StepOK, NameOK
  <2>6. QED
    BY <2>4, <2>5 DEF StepInv
<1>17. ASSUME NEW g \in Instances, NEW c \in Captures, BeginCapture(g, c) PROVE StepInv'
  <2>1. /\ UNCHANGED <<stage, idx, walk, store, dropped, files>>
        /\ behind' = [h \in Instances |-> IF ~temp.dir /\ h \in Relies(Temp)
                                            THEN behind[h] \cup {Temp} ELSE behind[h]]
    BY <1>17 DEF BeginCapture
  <2>2. temp'.dir
    BY <1>17 DEF BeginCapture, Typed, Temps
  <2>3. ASSUME NEW h \in Instances PROVE StepOK(h)'
    <3>1. behind[h] \subseteq behind'[h] /\ (Living(h)' => Living(h))
      BY <2>1 DEF Living
    <3>2. \A n \in Names : n \notin behind'[h] /\ h \in Relies(n) => (HasDir(n)' <=> HasDir(n))
      BY <2>1, <2>2 DEF HasDir
    <3>3. QED
      BY <1>a, <2>1, <3>1, <3>2
  <2>4. QED
    BY <2>3 DEF StepInv
<1>18. ASSUME NEW c \in Captures, EndCapture(c) PROVE StepInv'
  <2>1. /\ UNCHANGED <<stage, idx, walk, store, behind, dropped, files>>
        /\ temp'.dir = temp.dir
    BY <1>18 DEF EndCapture, ghosts, Typed, Temps
  <2>2. QED
    BY <1>b, <2>1, DirsSame DEF Living
<1>19. CASE UNCHANGED vars
  BY <1>b, <1>19, DirsSame DEF vars, disk, ghosts, Living
<1>20. ASSUME NEW g \in Instances, StoreDataFails(g) PROVE StepInv'
  <2>1. /\ UNCHANGED <<stage, idx, walk, behind, dropped, files, temp>>
        /\ store'[g] = Idle /\ \A h \in Instances : h # g => store'[h] = store[h]
        /\ ~HasDir(store[g].key)
    BY <1>20 DEF StoreDataFails, disk, ghosts, Typed
  <2>2. \A n \in Names : HasDir(n)' <=> HasDir(n)
    BY <2>1, DirsSame
  <2>3. ASSUME NEW h \in Instances, h # g PROVE StepOK(h)'
    BY <1>a, <2>1, <2>2, <2>3 DEF Living
  <2>4. StepOK(g)'
    <3> SUFFICES ASSUME Living(g), NEW n \in Names, n \notin behind[g]
                 PROVE  NameOK(g, n)'
      BY <2>1 DEF StepOK, NameOK, Living
    <3>1. NameOK(g, n)
      BY DEF StepInv, StepOK
    <3>2. store'[g].key # n /\ store[g].key # n
      BY <2>1, <3>1, ReloadAssumption DEF NameOK, Idle
    <3>3. QED
      BY <2>1, <2>2, <3>1, <3>2 DEF NameOK
  <2>5. QED
    BY <2>3, <2>4 DEF StepInv
<1>21. ASSUME NEW g \in Instances, StoreDataCrossed(g) PROVE StepInv'
  <2>k. PICK k \in Keys : k = store[g].key
    BY <1>21, StoreSteps
  <2>1. /\ UNCHANGED <<stage, idx, walk, dropped>>
        /\ store'[g].key = k /\ \A h \in Instances : h # g => store'[h] = store[h]
        /\ behind' = [h \in Instances |-> IF h = g THEN behind[h] \ {k}
                                          ELSE IF h \in {g} \cup Relies(k) THEN behind[h] \cup {k}
                                          ELSE behind[h]]
    BY <1>21, <2>k, StoreSteps DEF StoreDataCrossed, Behind
  <2>2. HasDir(k)' /\ \A n \in Names : n # k => (HasDir(n)' <=> HasDir(n))
    BY <1>21, <2>k, DirsStored
  <2>3. ASSUME NEW h \in Instances, h # g PROVE StepOK(h)'
    BY <1>a, <2>1, <2>2, <2>3 DEF Living
  <2>4. StepOK(g)'
    <3> SUFFICES ASSUME Living(g), NEW n \in Names, n \notin behind'[g]
                 PROVE  NameOK(g, n)'
      BY <2>1 DEF StepOK, NameOK, Living
    <3>1. CASE n = k
      BY <2>1, <2>2, <3>1 DEF NameOK
    <3>2. CASE n # k
      <4>1. n \notin behind[g] /\ NameOK(g, n)
        BY <2>1, <3>2 DEF StepInv, StepOK
      <4>2. QED
        BY <2>1, <2>k, <2>2, <3>2, <4>1 DEF NameOK
    <3>3. QED
      BY <3>1, <3>2
  <2>5. QED
    BY <2>3, <2>4 DEF StepInv
<1>22. QED
  BY <1>1, <1>2, <1>4, <1>5, <1>6, <1>7, <1>8, <1>9, <1>10, <1>11, <1>12, <1>13, <1>14,
     <1>15, <1>16, <1>17, <1>18, <1>19, <1>20, <1>21
     DEF Next
-----------------------------------------------------------------------------
(* The files of a key. *)

\* A removal does no harm to what is left.
LEMMA FilesKept ==
  ASSUME NEW k \in Keys, FilesOK(k), UNCHANGED <<store, clashed>>,
         files'[k] = files[k] \/ files'[k] = NoFiles
  PROVE  FilesOK(k)'
BY DEF FilesOK, Inside, NoFiles, NoStore

\* So the removal of a directory, and of all of them, does none.
LEMMA FilesRemoved ==
  ASSUME FilesInv, UNCHANGED <<store, clashed>>, UNCHANGED files \/ \E S : Removed(S)
  PROVE  FilesInv'
<1>1. ASSUME NEW k \in Keys PROVE files'[k] = files[k] \/ files'[k] = NoFiles
  BY DEF Removed
<1>2. QED
  BY <1>1, FilesKept DEF FilesInv

\* The files of every key stay those of one store, or of several that clash.
LEMMA FilesStep ==
  ASSUME Typed, Typed', ReloadAssumption, LifeInv, FilesInv, [Next]_vars
  PROVE  FilesInv'
<1>1. ASSUME NEW g \in Instances, NEW k \in Keys, StoreMeta(g, k) PROVE FilesInv'
  <2>1. /\ store[g].pc = "idle" /\ store[g].key = None
        /\ store' = [store EXCEPT ![g] = [pc |-> "data", key |-> k, n |-> lastStore']]
        /\ clashed' = (IF Inside(k) = {} THEN clashed ELSE clashed \cup {k})
    BY <1>1 DEF StoreMeta, Free, Typed, Stores
  <2>2. /\ files'[k].md = lastStore' /\ files'[k].data = files[k].data
        /\ \A j \in Keys : j # k => files'[j] = files[j]
    BY <1>1, StoreSteps
  <2>3. lastStore' # NoStore
    BY <1>1 DEF StoreMeta, NextStore, NoStore, Typed
  <2>4. ASSUME NEW j \in Keys, j # k PROVE FilesOK(j)'
    <3>1. Inside(j)' = Inside(j)
      BY <2>1, <2>4 DEF Inside, Typed
    <3>2. \A h \in Inside(j) : store'[h] = store[h]
      BY <2>1 DEF Inside, Typed
    <3>3. j \in clashed' <=> j \in clashed
      BY <2>1, <2>4
    <3>4. FilesOK(j) /\ files'[j] = files[j]
      BY <2>2, <2>4 DEF FilesInv
    <3>5. QED
      BY <3>1, <3>2, <3>3, <3>4 DEF FilesOK
  <2>5. FilesOK(k)'
    <3>1. Inside(k)' = Inside(k) \cup {g} /\ g \notin Inside(k)
      BY <2>1 DEF Inside, Typed
    <3>2. store'[g].n = lastStore'
      BY <2>1 DEF Typed
    <3>3. Inside(k) # {} => k \in clashed'
      BY <2>1
    <3>4. QED
      BY <2>2, <2>3, <3>1, <3>2, <3>3 DEF FilesOK
  <2>6. QED
    BY <2>4, <2>5 DEF FilesInv
<1>2. ASSUME NEW g \in Instances, StoreData(g) \/ StoreDataCrossed(g), NEW k \in Keys
      PROVE  FilesOK(k)'
  <2>1. /\ store[g].pc = "data" /\ store[g].key \in Keys /\ store[g].n # NoStore
        /\ store'[g].pc = "put" /\ \A h \in Instances : h # g => store'[h] = store[h]
    BY <1>2, StoreSteps
  <2>2. Inside(k)' = Inside(k) \ {g} /\ \A h \in Inside(k)' : store'[h] = store[h]
    BY <2>1 DEF Inside
  <2>3. FilesOK(k) /\ files[k] \in Files
    BY DEF FilesInv, Typed
  <2>4. CASE k # store[g].key
    <3>1. files'[k] = files[k]
      BY <1>2, <2>4, StoreSteps
    <3>2. g \notin Inside(k) /\ (k \in clashed' <=> k \in clashed)
      BY <1>2, <2>4 DEF Inside, StoreData, StoreDataCrossed
    <3>3. QED
      BY <2>2, <2>3, <3>1, <3>2 DEF FilesOK
  <2>5. CASE k = store[g].key
    <3>1. files'[k].md = files[k].md /\ files'[k].data = store[g].n
      <4>1. files'[k] = [files[k] EXCEPT !.data = store[g].n]
        BY <1>2, <2>5, StoreSteps
      <4>2. QED
        BY <2>3, <4>1 DEF Files
    <3>2. g \in Inside(k)
      BY <2>1, <2>5 DEF Inside
    <3>3. CASE StoreData(g) /\ Inside(k) = {g} /\ files[k].md = store[g].n
      BY <2>1, <2>2, <3>1, <3>3 DEF FilesOK
    <3>4. CASE StoreData(g) /\ ~(Inside(k) = {g} /\ files[k].md = store[g].n)
      <4>1. clashed' = clashed /\ (files[k].md # NoStore \/ files[k].data # NoStore)
        BY <2>5, <3>4, DirOfFiles, ReloadAssumption DEF StoreData
      <4>2. k \in clashed \/ files[k].md = store[g].n
        BY <2>3, <3>2, <4>1 DEF FilesOK
      <4>3. QED
        BY <2>1, <2>2, <2>3, <3>1, <3>2, <3>4, <4>1, <4>2 DEF FilesOK
    <3>5. CASE StoreDataCrossed(g)
      <4>1. k \in clashed'
        BY <2>5, <3>5 DEF StoreDataCrossed
      <4>2. QED
        BY <4>1 DEF FilesOK
    <3>6. QED
      BY <1>2, <3>3, <3>4, <3>5
  <2>6. QED
    BY <2>4, <2>5
<1>3. ASSUME NEW g \in Instances, StorePut(g) PROVE FilesInv'
  <2>1. store[g].pc = "put" /\ store' = [store EXCEPT ![g] = Idle]
        /\ UNCHANGED <<files, clashed>>
    BY <1>3 DEF StorePut, disk, ghosts
  <2>2. ASSUME NEW k \in Keys PROVE FilesOK(k)'
    <3>1. Inside(k)' = Inside(k) /\ \A h \in Inside(k) : store'[h] = store[h]
      BY <2>1 DEF Inside, Idle, Typed
    <3>2. QED
      BY <2>1, <3>1 DEF FilesInv, FilesOK
  <2>3. QED
    BY <2>2 DEF FilesInv
<1>4. CASE Crash
  <2>1. store' = [g \in Instances |-> Idle] /\ clashed \subseteq clashed'
    BY <1>4 DEF Crash
  <2>2. ASSUME NEW k \in Keys PROVE FilesOK(k)'
    <3>1. Inside(k)' = {}
      BY <2>1 DEF Inside, Idle
    <3>2. /\ files'[k] = files[k] \/ k \in clashed'
          /\ Inside(k) # {} => k \in clashed'
      BY <1>4, CutShort
    <3>3. QED
      BY <2>1, <3>1, <3>2 DEF FilesInv, FilesOK
  <2>3. QED
    BY <2>2 DEF FilesInv
<1>5. ASSUME UNCHANGED <<store, clashed>>, UNCHANGED files \/ \E S : Removed(S)
      PROVE  FilesInv'
  BY <1>5, FilesRemoved
<1>6. ASSUME NEW g \in Instances, NEW n \in Names, Evict(g, n) PROVE FilesInv'
  BY <1>5, <1>6 DEF Evict, Delete
<1>7. ASSUME NEW g \in Instances, NEW k \in Keys, PurgeAsync(g, k) \/ Purge(g, k)
      PROVE  FilesInv'
  BY <1>5, <1>7 DEF PurgeAsync, Purge, Delete, disk
<1>8. ASSUME NEW g \in Instances, Flush(g) PROVE FilesInv'
  BY <1>5, <1>8 DEF Flush
<1>9. CASE UNCHANGED <<store, clashed, files>>
  BY <1>5, <1>9
<1>10. \/ \E g \in Instances, k \in Keys :
            StoreMeta(g, k) \/ PurgeAsync(g, k) \/ Purge(g, k)
       \/ \E g \in Instances : StoreData(g) \/ StoreDataCrossed(g)
       \/ \E g \in Instances : StoreDataFails(g) \/ StorePut(g) \/ Flush(g)
       \/ \E g \in Instances, n \in Names : Evict(g, n)
       \/ Crash
       \/ UNCHANGED <<store, clashed, files>>
  BY DEF Next, vars, Provision, Start, Reject, Finish, LoadStart, LoadFinish, LoadEntry,
         LoadPut, StoreInMemory, BeginCapture, EndCapture, disk, ghosts
<1>11. ASSUME NEW g \in Instances, StoreDataFails(g) PROVE FilesInv'
  <2>1. /\ store[g].pc = "data" /\ ~HasDir(store[g].key)
        /\ store' = [store EXCEPT ![g] = Idle] /\ UNCHANGED <<files, clashed>>
    BY <1>11 DEF StoreDataFails, disk, ghosts
  <2>2. ASSUME NEW k \in Keys PROVE FilesOK(k)'
    <3>1. Inside(k)' = Inside(k) \ {g} /\ \A h \in Inside(k)' : store'[h] = store[h]
      BY <2>1 DEF Inside, Idle, Typed
    <3>2. k = store[g].key => files[k].data = NoStore
      BY <2>1, DirOfFiles, ReloadAssumption
    <3>3. k # store[g].key => g \notin Inside(k)
      BY DEF Inside
    <3>4. QED
      BY <2>1, <3>1, <3>2, <3>3 DEF FilesInv, FilesOK
  <2>3. QED
    BY <2>2 DEF FilesInv
<1>12. QED
  BY <1>1, <1>2, <1>3, <1>4, <1>6, <1>7, <1>8, <1>9, <1>10, <1>11 DEF FilesInv
-----------------------------------------------------------------------------
(* Purges. *)

\* What is removed, or forgotten, was purged all the more.
LEMMA PurgeKept ==
  ASSUME NEW k \in Keys, PurgeOK(k), Typed, Typed', lastStore =< lastStore',
         purged'[k] = purged[k],
         \A g \in Instances : \/ mem'[g][k] = NoStore
                              \/ mem'[g][k] = mem[g][k] /\ (g \in missed[k] => g \in missed'[k]),
         files'[k].md \in {files[k].md, NoStore}, files'[k].data \in {files[k].data, NoStore},
         None \in missed[k] => None \in missed'[k],
         k \in clashed => k \in clashed'
  PROVE  PurgeOK(k)'
<1>1. purged[k] \in Nat /\ lastStore \in Nat /\ lastStore' \in Nat
  BY DEF Typed
<1>2. purged'[k] =< lastStore'
  BY <1>1 DEF PurgeOK
<1>3. \A g \in Instances : mem'[g][k] # NoStore => mem'[g][k] > purged'[k] \/ g \in missed'[k]
  BY DEF PurgeOK
<1>4. /\ files'[k].md # NoStore => files'[k].md = files[k].md
      /\ files'[k].data # NoStore => files'[k].data = files[k].data
  OBVIOUS
<1>5. QED
  BY <1>2, <1>3, <1>4 DEF PurgeOK

\* What a removal from memory, and a store there, does.
LEMMA MemoryUpdated ==
  ASSUME mem \in [Instances -> [Keys -> Nat]], NEW g \in Instances, NEW k \in Keys,
         NEW n \in Nat, mem' = [mem EXCEPT ![g][k] = n]
  PROVE  /\ mem'[g][k] = n
         /\ \A h \in Instances, j \in Keys : h # g \/ j # k => mem'[h][j] = mem[h][j]
<1>1. mem' = [mem EXCEPT ![g] = [mem[g] EXCEPT ![k] = n]]
  OBVIOUS
<1>2. QED
  BY <1>1

\* Whatever else is done, a purge keeps what it did.
LEMMA PurgeStep ==
  ASSUME Typed, Typed', ReloadAssumption, LifeInv, FilesInv, PurgeInv, [Next]_vars
  PROVE  PurgeInv'
<1>a. ASSUME NEW k \in Keys, lastStore =< lastStore', purged'[k] = purged[k],
             \A g \in Instances :
               \/ mem'[g][k] = NoStore
               \/ mem'[g][k] = mem[g][k] /\ (g \in missed[k] => g \in missed'[k]),
             files'[k] = files[k] \/ files'[k] = NoFiles,
             None \in missed[k] => None \in missed'[k],
             k \in clashed => k \in clashed'
      PROVE  PurgeOK(k)'
  <2>1. files'[k].md \in {files[k].md, NoStore} /\ files'[k].data \in {files[k].data, NoStore}
    BY <1>a DEF NoFiles
  <2>2. QED
    BY <1>a, <2>1, PurgeKept DEF PurgeInv
<1>b. lastStore \in Nat
  BY DEF Typed
<1>1. ASSUME NEW S \in SUBSET Instances, Forgotten(S), UNCHANGED <<lastStore, purged>>,
             clashed \subseteq clashed', NEW k \in Keys,
             files'[k].md \in {files[k].md, NoStore}, files'[k].data \in {files[k].data, NoStore}
      PROVE  PurgeOK(k)'
  <2>1. \A g \in Instances : mem'[g][k] = IF g \in S THEN NoStore ELSE mem[g][k]
    BY <1>1 DEF Forgotten, NothingInMemory
  <2>2. missed'[k] = missed[k] \ S /\ None \notin S
    BY <1>1, ReloadAssumption DEF Forgotten
  <2>3. PurgeOK(k) /\ lastStore =< lastStore'
    BY <1>1, <1>b DEF PurgeInv
  <2>4. QED
    BY <1>1, <2>1, <2>2, <2>3, PurgeKept
<1>2. ASSUME NEW g \in Instances, Reject(g) \/ Finish(g) PROVE PurgeInv'
  BY <1>1, <1>2 DEF Reject, Finish, PurgeInv, disk, counts
<1>3. CASE Crash
  <2>1. Forgotten(Instances) /\ UNCHANGED <<lastStore, purged>> /\ clashed \subseteq clashed'
    BY <1>3 DEF Crash, counts
  <2>2. QED
    BY <1>1, <1>3, <2>1, CutShort DEF PurgeInv
<1>4. ASSUME NEW g \in Instances, NEW k \in Keys, StoreInMemory(g, k) PROVE PurgeInv'
  <2>1. /\ lastStore' = lastStore + 1 /\ mem' = [mem EXCEPT ![g][k] = lastStore']
        /\ UNCHANGED <<files, purged, missed, clashed>>
    BY <1>4 DEF StoreInMemory, NextStore, disk, ghosts
  <2>2. lastStore' \in Nat /\ lastStore' > lastStore
    BY <1>b, <2>1
  <2>3. /\ mem'[g][k] = lastStore'
        /\ \A h \in Instances, j \in Keys : h # g \/ j # k => mem'[h][j] = mem[h][j]
    BY <2>1, <2>2, MemoryUpdated DEF Typed
  <2>4. ASSUME NEW j \in Keys, j # k PROVE PurgeOK(j)'
    BY <1>a, <1>b, <2>1, <2>3, <2>4
  <2>5. PurgeOK(k)'
    <3>1. PurgeOK(k) /\ purged[k] \in Nat
      BY DEF PurgeInv, Typed
    <3>2. lastStore' > purged[k]
      BY <1>b, <2>1, <3>1 DEF PurgeOK
    <3>3. QED
      BY <1>b, <2>1, <2>2, <2>3, <3>1, <3>2 DEF PurgeOK
  <2>6. QED
    BY <2>4, <2>5 DEF PurgeInv
<1>5. ASSUME NEW g \in Instances, NEW k \in Keys, StoreMeta(g, k) PROVE PurgeInv'
  <2>1. /\ lastStore' = lastStore + 1 /\ UNCHANGED <<mem, purged, missed>>
        /\ clashed \subseteq clashed'
    BY <1>5 DEF StoreMeta, NextStore
  <2>2. /\ files'[k].md = lastStore' /\ files'[k].data = files[k].data
        /\ \A j \in Keys : j # k => files'[j] = files[j]
    BY <1>5, StoreSteps
  <2>3. ASSUME NEW j \in Keys, j # k PROVE PurgeOK(j)'
    BY <1>a, <1>b, <2>1, <2>2, <2>3
  <2>4. PurgeOK(k)'
    <3>1. PurgeOK(k) /\ purged[k] \in Nat
      BY DEF PurgeInv, Typed
    <3>2. lastStore' > purged[k] /\ purged[k] =< lastStore'
      BY <1>b, <2>1, <3>1 DEF PurgeOK
    <3>3. QED
      BY <2>1, <2>2, <3>1, <3>2 DEF PurgeOK
  <2>5. QED
    BY <2>3, <2>4 DEF PurgeInv
<1>6. ASSUME NEW g \in Instances, StoreData(g) \/ StoreDataCrossed(g), NEW k \in Keys
      PROVE  PurgeOK(k)'
  <2>1. /\ store[g].pc = "data" /\ UNCHANGED <<mem, purged, missed, lastStore>>
    BY <1>6 DEF StoreData, StoreDataCrossed, counts
  <2>2. CASE k # store[g].key
    <3>1. files'[k] = files[k] /\ (k \in clashed' <=> k \in clashed)
      BY <1>6, <2>2, StoreSteps DEF StoreData, StoreDataCrossed
    <3>2. QED
      BY <1>a, <1>b, <2>1, <3>1
  <2>3. CASE k = store[g].key
    <3>1. PurgeOK(k) /\ FilesOK(k) /\ files[k] \in Files /\ g \in Inside(k)
      BY <2>1, <2>3 DEF PurgeInv, FilesInv, Typed, Inside
    <3>2. files'[k].md = files[k].md /\ files'[k].data = store[g].n
      <4>1. files'[k] = [files[k] EXCEPT !.data = store[g].n]
        BY <1>6, <2>3, StoreSteps
      <4>2. QED
        BY <3>1, <4>1 DEF Files
    <3>3. (files[k].md = store[g].n /\ files[k].md # NoStore) \/ k \in clashed'
      <4>1. CASE StoreData(g)
        <5>1. files[k].md # NoStore \/ files[k].data # NoStore
          BY <2>3, <4>1, DirOfFiles, ReloadAssumption DEF StoreData
        <5>2. store[g].n # NoStore
          BY <1>6, StoreSteps
        <5>3. files[k].md = store[g].n \/ k \in clashed
          BY <3>1, <5>1 DEF FilesOK
        <5>4. k \in clashed /\ files[k].md # store[g].n => k \in clashed'
          BY <2>3, <4>1 DEF StoreData
        <5>5. QED
          BY <5>2, <5>3, <5>4
      <4>2. CASE StoreDataCrossed(g)
        BY <2>3, <4>2 DEF StoreDataCrossed
      <4>3. QED
        BY <1>6, <4>1, <4>2
    <3>4. QED
      BY <2>1, <3>1, <3>2, <3>3 DEF PurgeOK
  <2>4. QED
    BY <2>2, <2>3
<1>7. ASSUME NEW g \in Instances, NEW n \in Names, Evict(g, n) PROVE PurgeInv'
  <2>1. Removed({n}) /\ UNCHANGED <<mem, purged, missed, clashed, lastStore>>
    BY <1>7 DEF Evict, Delete, counts
  <2>2. \A k \in Keys : files'[k] = files[k] \/ files'[k] = NoFiles
    BY <2>1 DEF Removed
  <2>3. QED
    BY <1>a, <1>b, <2>1, <2>2 DEF PurgeInv
<1>8. ASSUME NEW g \in Instances, NEW j \in Keys, PurgeAsync(g, j), NEW k \in Keys
      PROVE  PurgeOK(k)'
  <2>1. /\ mem' = [mem EXCEPT ![g][j] = NoStore]
        /\ UNCHANGED <<purged, missed, clashed, lastStore>>
    BY <1>8 DEF PurgeAsync, counts
  <2>2. files'[k] = files[k] \/ files'[k] = NoFiles
    BY <1>8 DEF PurgeAsync, Delete, Removed, disk
  <2>3. \A h \in Instances : mem'[h][k] = NoStore \/ mem'[h][k] = mem[h][k]
    BY <2>1, MemoryUpdated DEF Typed, NoStore
  <2>4. QED
    BY <1>a, <1>b, <2>1, <2>2, <2>3
<1>9. ASSUME NEW g \in Instances, NEW k \in Keys, Purge(g, k) PROVE PurgeInv'
  <2>1. /\ mem' = [mem EXCEPT ![g][k] = NoStore] /\ purged' = [purged EXCEPT ![k] = lastStore]
        /\ UNCHANGED <<clashed, lastStore>>
    BY <1>9 DEF Purge, counts
  <2>2. missed' = [missed EXCEPT ![k] =
                     {h \in Instances \ {g} : mem[h][k] # NoStore}
                     \cup (IF HasDir(k) /\ ~(Listed(g, k) /\ k \in idx[g]) THEN {None} ELSE {})]
    BY <1>9 DEF Purge
  <2>3. \/ Delete(g, k)
        \/ ~(Listed(g, k) /\ k \in idx[g]) /\ UNCHANGED <<idx, disk, behind>>
    BY <1>9 DEF Purge
  <2>4. /\ mem'[g][k] = NoStore
        /\ \A h \in Instances, j \in Keys : h # g \/ j # k => mem'[h][j] = mem[h][j]
    BY <2>1, MemoryUpdated DEF Typed, NoStore
  <2>5. ASSUME NEW j \in Keys, j # k PROVE PurgeOK(j)'
    <3>1. files'[j] = files[j] \/ files'[j] = NoFiles
      BY <2>3 DEF Delete, Removed, disk
    <3>2. purged'[j] = purged[j] /\ missed'[j] = missed[j]
      BY <2>1, <2>2, <2>5 DEF Typed
    <3>3. QED
      BY <1>a, <1>b, <2>1, <2>4, <2>5, <3>1, <3>2
  <2>6. PurgeOK(k)'
    <3>1. purged'[k] = lastStore'
      BY <2>1 DEF Typed
    <3>2. \A h \in Instances : mem'[h][k] # NoStore => h \in missed'[k]
      BY <2>2, <2>4 DEF Typed
    <3>3. files'[k] = NoFiles \/ None \in missed'[k]
      <4>1. CASE Delete(g, k)
        BY <4>1 DEF Delete, Removed
      <4>2. CASE ~(Listed(g, k) /\ k \in idx[g]) /\ UNCHANGED <<idx, disk, behind>>
        <5>1. HasDir(k) => None \in missed'[k]
          BY <2>2, <4>2 DEF Typed
        <5>2. ~HasDir(k) => files[k] = NoFiles
          BY ReloadAssumption DEF HasDir
        <5>3. QED
          BY <4>2, <5>1, <5>2 DEF disk
      <4>3. QED
        BY <2>3, <4>1, <4>2
    <3>4. QED
      BY <1>b, <2>1, <3>1, <3>2, <3>3 DEF PurgeOK, NoFiles
  <2>7. QED
    BY <2>5, <2>6 DEF PurgeInv
<1>10. ASSUME NEW g \in Instances, Flush(g), NEW k \in Keys PROVE PurgeOK(k)'
  <2>1. files'[k] = NoFiles /\ purged'[k] = lastStore /\ lastStore' = lastStore
    BY <1>10 DEF Flush, Removed, counts, Names
  <2>2. \A h \in Instances : mem'[h][k] # NoStore => h \in missed'[k]
    BY <1>10 DEF Flush, NothingInMemory, Typed
  <2>3. QED
    BY <1>b, <2>1, <2>2 DEF PurgeOK, NoFiles
<1>11. CASE UNCHANGED <<mem, files, purged, missed, clashed, lastStore>>
  BY <1>11, <1>a, <1>b DEF PurgeInv
<1>12. \/ \E g \in Instances : \/ Reject(g) \/ Finish(g) \/ Flush(g)
                               \/ StoreData(g) \/ StoreDataCrossed(g)
       \/ \E g \in Instances, k \in Keys :
            StoreInMemory(g, k) \/ StoreMeta(g, k) \/ PurgeAsync(g, k) \/ Purge(g, k)
       \/ \E g \in Instances, n \in Names : Evict(g, n)
       \/ Crash
       \/ UNCHANGED <<mem, files, purged, missed, clashed, lastStore>>
  BY DEF Next, vars, Provision, Start, LoadStart, LoadFinish, LoadEntry, LoadPut, StorePut,
         StoreDataFails, BeginCapture, EndCapture, disk, ghosts, counts
<1>13. QED
  BY <1>2, <1>3, <1>4, <1>5, <1>6, <1>7, <1>8, <1>9, <1>10, <1>11, <1>12 DEF PurgeInv
-----------------------------------------------------------------------------
(* The directory of temporary files. *)

Knows(g) ==
  Living(g) /\ walk[g].phase # "start" =>
    Temp \in idx[g] \cup walk[g].todo \cup walk[g].held \cup dropped[g]

\* As long as files are left over, their directory stays, and with every instance.
LEMMA TempStep ==
  ASSUME Typed, Typed', ReloadAssumption, LifeInv, TempOK, [Next]_vars
  PROVE  TempOK'
<1>a. temp.left => \A g \in Instances : Knows(g)
  BY DEF TempOK, Knows
<1>b. ASSUME temp'.left = temp.left, temp'.dir = temp.dir, temp'.files \subseteq temp.files,
             temp.left => \A g \in Instances : Knows(g)'
      PROVE  TempOK'
  BY <1>b DEF TempOK, Knows
<1>1. ASSUME NEW g \in Instances, Provision(g) PROVE TempOK'
  <2>1. walk[g] \in Walks /\ walk'[g] = [walk[g] EXCEPT !.phase = "start"]
    BY <1>1, WalkSteps DEF Typed
  <2>2. walk'[g].phase = "start"
    BY <2>1 DEF Walks
  <2>3. \A h \in Instances : h # g => walk'[h] = walk[h]
    BY <1>1, WalkSteps DEF Typed
  <2>4. UNCHANGED <<idx, dropped, temp>> /\ stage' = [stage EXCEPT ![g] = "provisioned"]
    BY <1>1 DEF Provision, disk
  <2>5. temp.left => \A h \in Instances : Knows(h)'
    BY <1>a, <2>2, <2>3, <2>4 DEF Knows, Living, Typed
  <2>6. QED
    BY <1>b, <2>4, <2>5
<1>2. ASSUME NEW g \in Instances, Start(g) PROVE TempOK'
  <2>1. temp.left => \A h \in Instances : Knows(h)'
    BY <1>a, <1>2 DEF Start, Knows, Living, Typed, ghosts
  <2>2. QED
    BY <1>2, <1>b, <2>1 DEF Start, disk
<1>3. ASSUME NEW g \in Instances, Reject(g) \/ Finish(g) PROVE TempOK'
  <2>1. ~Living(g)' /\ UNCHANGED temp
    BY <1>3 DEF Reject, Finish, Living, disk, Typed
  <2>2. \A h \in Instances \ {g} :
          /\ (Living(h)' => Living(h)) /\ idx'[h] = idx[h] /\ walk'[h] = walk[h]
          /\ dropped'[h] = dropped[h]
    BY <1>3 DEF Reject, Finish, Forgotten, Living, Typed
  <2>3. temp.left => \A h \in Instances : Knows(h)'
    BY <1>a, <2>1, <2>2 DEF Knows
  <2>4. QED
    BY <1>b, <2>1, <2>3
<1>4. CASE Crash
  <2>1. \A h \in Instances : ~Living(h)'
    BY <1>4 DEF Crash, Living
  <2>2. temp'.dir = temp.dir /\ temp'.files = {} /\ (temp'.left => temp.left \/ temp.files # {})
    BY <1>4 DEF Crash, Typed, Temps
  <2>3. QED
    BY <2>1, <2>2 DEF TempOK
<1>5. ASSUME NEW g \in Instances, LoadStart(g) \/ LoadFinish(g) PROVE TempOK'
  <2>1. /\ UNCHANGED <<stage, idx, dropped, temp>>
        /\ \A h \in Instances : h # g => walk'[h] = walk[h]
    BY <1>5 DEF LoadStart, LoadFinish, disk, ghosts, Typed
  <2>2. temp.left => Knows(g)'
    <3>1. CASE LoadStart(g)
      <4>1. walk'[g].todo = {n \in Names : HasDir(n)}
        BY <3>1 DEF LoadStart, Typed
      <4>2. temp.left => HasDir(Temp)
        BY DEF HasDir, TempOK
      <4>3. QED
        BY <4>1, <4>2 DEF Knows, Names
    <3>2. CASE LoadFinish(g)
      <4>1. walk[g].phase # "start" /\ walk[g].todo = {} /\ walk[g].held = {}
        BY <3>2 DEF LoadFinish
      <4>2. QED
        BY <1>a, <2>1, <4>1 DEF Knows, Living
    <3>3. QED
      BY <1>5, <3>1, <3>2
  <2>3. temp.left => \A h \in Instances : Knows(h)'
    BY <1>a, <2>1, <2>2 DEF Knows, Living
  <2>4. QED
    BY <1>b, <2>1, <2>3
<1>6. ASSUME NEW g \in Instances, NEW n \in Names, LoadEntry(g, n) PROVE TempOK'
  <2>1. /\ walk'[g].phase = walk[g].phase /\ walk'[g].todo = walk[g].todo \ {n}
        /\ walk'[g].held = walk[g].held \cup (IF HasDir(n) THEN {n} ELSE {})
        /\ \A h \in Instances : h # g => walk'[h] = walk[h]
    BY <1>6, WalkSteps DEF Typed
  <2>2. UNCHANGED <<stage, idx, dropped, temp>>
    BY <1>6 DEF LoadEntry, disk, ghosts
  <2>3. temp.left => HasDir(Temp)
    BY DEF HasDir, TempOK
  <2>4. temp.left => \A h \in Instances : Knows(h)'
    BY <1>a, <2>1, <2>2, <2>3 DEF Knows, Living
  <2>5. QED
    BY <1>b, <2>2, <2>4
<1>7. ASSUME NEW g \in Instances, NEW n \in Names, LoadPut(g, n) PROVE TempOK'
  <2>1. /\ walk'[g].phase = walk[g].phase /\ walk'[g].todo = walk[g].todo
        /\ walk'[g].held = walk[g].held \ {n}
        /\ \A h \in Instances : h # g => walk'[h] = walk[h]
    BY <1>7, WalkSteps DEF Typed
  <2>2. /\ UNCHANGED <<stage, temp>>
        /\ idx[g] \cup dropped[g] \cup {n} \subseteq idx'[g] \cup dropped'[g]
        /\ \A h \in Instances : h # g => idx'[h] = idx[h] /\ dropped'[h] = dropped[h]
    BY <1>7, PutIndex DEF LoadPut, disk
  <2>3. temp.left => \A h \in Instances : Knows(h)'
    BY <1>a, <2>1, <2>2 DEF Knows, Living
  <2>4. QED
    BY <1>b, <2>2, <2>3
<1>8. ASSUME NEW g \in Instances, StorePut(g) PROVE TempOK'
  <2>1. /\ UNCHANGED <<stage, walk, temp>>
        /\ \A h \in Instances : idx[h] \cup dropped[h] \subseteq idx'[h] \cup dropped'[h]
    <3>1. Put(g, store[g].key) /\ store[g].key \in Names /\ UNCHANGED <<stage, walk, temp>>
      BY <1>8 DEF StorePut, disk, Typed, Stores, Names
    <3>2. QED
      BY <3>1, PutIndex
  <2>2. temp.left => \A h \in Instances : Knows(h)'
    BY <1>a, <2>1 DEF Knows, Living
  <2>3. QED
    BY <1>b, <2>1, <2>2
<1>9. ASSUME NEW g \in Instances, NEW n \in Names, Delete(g, n),
             UNCHANGED <<stage, walk, dropped>>
      PROVE  TempOK'
  <2>1. CASE n = Temp
    BY <1>9, <2>1 DEF Delete, Removed, TempOK, NoTemp
  <2>2. CASE n # Temp
    <3>1. UNCHANGED temp /\ \A h \in Instances : idx[h] \ {n} \subseteq idx'[h]
      BY <1>9, <2>2 DEF Delete, Removed, Typed
    <3>2. temp.left => \A h \in Instances : Knows(h)'
      BY <1>9, <1>a, <2>2, <3>1 DEF Knows, Living
    <3>3. QED
      BY <1>b, <3>1, <3>2
  <2>3. QED
    BY <2>1, <2>2
<1>10. ASSUME NEW g \in Instances, Flush(g) PROVE TempOK'
  BY <1>10 DEF Flush, Removed, Names, TempOK, NoTemp
<1>11. ASSUME NEW g \in Instances, NEW c \in Captures, BeginCapture(g, c) PROVE TempOK'
  <2>1. temp'.dir /\ temp'.left = temp.left /\ UNCHANGED <<stage, idx, walk, dropped>>
    BY <1>11 DEF BeginCapture, Typed, Temps
  <2>2. QED
    BY <2>1 DEF TempOK, Living
<1>12. ASSUME NEW c \in Captures, EndCapture(c) PROVE TempOK'
  <2>1. /\ temp'.dir = temp.dir /\ temp'.left = temp.left /\ temp'.files \subseteq temp.files
        /\ UNCHANGED <<stage, idx, walk, dropped>>
    BY <1>12 DEF EndCapture, ghosts, Typed, Temps
  <2>2. QED
    BY <2>1 DEF TempOK, Living
<1>13. CASE UNCHANGED <<stage, idx, walk, dropped, temp>>
  BY <1>13 DEF TempOK, Living
<1>14. ASSUME NEW g \in Instances, NEW k \in Keys, PurgeAsync(g, k) \/ Purge(g, k)
       PROVE  TempOK'
  BY <1>9, <1>13, <1>14 DEF PurgeAsync, Purge, disk, Names
<1>15. ASSUME NEW g \in Instances, NEW n \in Names, Evict(g, n) PROVE TempOK'
  BY <1>9, <1>15 DEF Evict
<1>16. \/ \E g \in Instances : \/ Provision(g) \/ Start(g) \/ Reject(g) \/ Finish(g)
                               \/ LoadStart(g) \/ LoadFinish(g) \/ StorePut(g) \/ Flush(g)
       \/ \E g \in Instances, n \in Names : LoadEntry(g, n) \/ LoadPut(g, n) \/ Evict(g, n)
       \/ \E g \in Instances, k \in Keys : PurgeAsync(g, k) \/ Purge(g, k)
       \/ \E g \in Instances, c \in Captures : BeginCapture(g, c)
       \/ \E c \in Captures : EndCapture(c)
       \/ Crash
       \/ UNCHANGED <<stage, idx, walk, dropped, temp>>
  BY DEF Next, vars, StoreInMemory, StoreMeta, StoreData, StoreDataFails, StoreDataCrossed,
         disk, ghosts
<1>17. QED
  BY <1>1, <1>2, <1>3, <1>4, <1>5, <1>6, <1>7, <1>8, <1>10, <1>11, <1>12, <1>13, <1>14,
     <1>15, <1>16

-----------------------------------------------------------------------------
(* The theorems. *)

ReloadInv ==
  /\ Typed
  /\ LifeInv
  /\ FilesInv
  /\ PurgeInv
  /\ StepInv
  /\ TempOK
  /\ GaugesOK

\* Instances, index, files and purges are as the parts of the invariant have them.
THEOREM ReloadInvariant == Spec => []ReloadInv
<1>1. Init => ReloadInv
  <2> SUFFICES ASSUME Init PROVE ReloadInv
    OBVIOUS
  <2>1. Typed
    <3>1. /\ stage \in [Instances -> Stages] /\ idx \in [Instances -> SUBSET Names]
          /\ mem \in [Instances -> [Keys -> Nat]] /\ walk \in [Instances -> Walks]
          /\ store \in [Instances -> Stores] /\ temp \in Temps
      BY ValuesTyped DEF Init, Stages
    <3>2. files \in [Keys -> Files] /\ purged \in [Keys -> Nat]
      BY DEF Init, Files, NoFiles, NoStore
    <3>3. /\ capture \in [Captures -> Instances \cup {None}]
          /\ collector \in BOOLEAN /\ gauge \in Instances \cup {None}
          /\ budget \in Budget /\ lastStore \in Nat
      BY ReloadAssumption DEF Init, Budget
    <3>4. /\ missed \in [Keys -> SUBSET (Instances \cup {None})]
          /\ clashed \in SUBSET Keys
          /\ behind \in [Instances -> SUBSET Names]
          /\ dropped \in [Instances -> SUBSET Names]
      BY DEF Init
    <3>5. QED
      BY <3>1, <3>2, <3>3, <3>4 DEF Typed
  <2>2. LifeInv
    BY DEF Init, LifeInv, LifeOK, Idle, NotWalking
  <2>3. FilesInv
    BY DEF Init, FilesInv, FilesOK, Inside, Idle, NoFiles
  <2>4. PurgeInv
    BY DEF Init, PurgeInv, PurgeOK, NothingInMemory, NoFiles
  <2>5. StepInv /\ TempOK /\ GaugesOK
    BY DEF Init, StepInv, StepOK, Living, TempOK, NoTemp, GaugesOK, GaugesCurrent
  <2>6. QED
    BY <2>1, <2>2, <2>3, <2>4, <2>5 DEF ReloadInv
<1>2. ReloadInv /\ [Next]_vars => ReloadInv'
  BY TypeStep, LifeStep, FilesStep, PurgeStep, StepStep, TempStep, GaugeStep, ReloadAssumption
     DEF ReloadInv
<1>3. QED
  BY <1>1, <1>2, PTL DEF Spec

\* The gauges follow the storage that serves (StartMetricsUpdater), but for the time the
\* next one takes to start, or if that is rejected.
THEOREM GaugesFollow == Spec => []GaugesCurrent
<1>1. ReloadInv => GaugesCurrent
  BY DEF ReloadInv, GaugesOK
<1>2. QED
  BY <1>1, ReloadInvariant, PTL

\* However many instances store, evict and purge over one directory, what is served has
\* the metadata it was stored with, but where two of them wrote one key at once; and a
\* body is left without metadata only by a removal that another's store crossed, or that
\* a crash cut short.
THEOREM WholeAcrossReloads == Spec => []ServedWhole
<1>1. ReloadInv => ServedWhole
  <2> SUFFICES ASSUME ReloadInv PROVE ServedWhole
    OBVIOUS
  <2>1. \A k \in Keys : FilesOK(k) /\ files[k] \in Files
    BY DEF ReloadInv, FilesInv, Typed
  <2>2. ASSUME NEW g \in Active, NEW k \in Keys
        PROVE  Served(g, k).md = Served(g, k).data \/ Inside(k) # {} \/ k \in clashed
    BY <2>1 DEF Served, NoFiles, FilesOK, NoStore
  <2>3. QED
    BY <2>1, <2>2 DEF ServedWhole, FilesOK
<1>2. QED
  BY <1>1, ReloadInvariant, PTL

\* What a purge took is served by no instance again, whatever is reloaded, crashes or is
\* under way, except from where that purge could not see it.
THEOREM PurgesLast == Spec => []PurgedNotServed
<1>1. ReloadInv => PurgedNotServed
  <2> SUFFICES ASSUME ReloadInv, NEW g \in Active, NEW k \in Keys
               PROVE  \/ Served(g, k) = NoFiles
                      \/ Served(g, k).md > purged[k] /\ Served(g, k).data > purged[k]
                      \/ mem[g][k] # NoStore /\ g \in missed[k]
                      \/ mem[g][k] = NoStore /\ (None \in missed[k] \/ k \in clashed)
    BY DEF PurgedNotServed
  <2>1. PurgeOK(k) /\ g \in Instances
    BY DEF ReloadInv, PurgeInv, Active
  <2>2. QED
    BY <2>1 DEF Served, PurgeOK
<1>2. QED
  BY <1>1, ReloadInvariant, PTL

\* Once its LoadIndex is done, an instance's index names no directory that is not there,
\* and every one that is there, but what its LRU dropped (MemoryCache.put) and the names
\* that changed behind its back.
THEOREM IndexKeepsUp == Spec => []IndexInStep
<1>1. ReloadInv => IndexInStep
  <2> SUFFICES ASSUME ReloadInv, NEW g \in Active, walk[g].phase = "off",
                      NEW n \in Names, n \notin behind[g], n # store[g].key
               PROVE  /\ n \in idx[g] => HasDir(n)
                      /\ HasDir(n) => n \in idx[g] \/ n \in dropped[g]
    BY DEF IndexInStep
  <2>1. g \in Instances /\ Living(g)
    BY DEF Active, Living
  <2>2. NameOK(g, n) /\ walk[g].todo = {} /\ walk[g].held = {}
    BY <2>1 DEF ReloadInv, StepInv, StepOK, LifeInv, LifeOK
  <2>3. QED
    BY <2>2 DEF NameOK
<1>2. QED
  BY <1>1, ReloadInvariant, PTL

\* Whatever is left of the temporary files of a crash, every later instance has their
\* directory in its index and may evict it, unless its own LRU has dropped it from there.
THEOREM LeftoversIndexed == Spec => []LeftoversEvictable
<1>1. ReloadInv => LeftoversEvictable
  <2> SUFFICES ASSUME ReloadInv, temp.left, NEW g \in Active, walk[g].phase = "off"
               PROVE  Temp \in idx[g] \/ Temp \in dropped[g]
    BY DEF LeftoversEvictable
  <2>1. g \in Instances /\ Living(g)
    BY DEF Active, Living
  <2>2. QED
    BY <2>1 DEF ReloadInv, LifeInv, LifeOK, TempOK
<1>2. QED
  BY <1>1, ReloadInvariant, PTL
=============================================================================
