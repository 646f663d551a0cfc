----------------------------- MODULE MemoryCache -----------------------------
(***************************************************************************)
(* MemoryCache: the LRU cache with a limit on the number of entries and one *)
(* on their cost, which is the memory tier of Storage and the index of      *)
(* DiskCache. Values are left out: an entry is its key and its cost.        *)
(*                                                                         *)
(* Every method holds mu throughout and is one step, but for LoadOrCompute, *)
(* which lets go of it twice on its way from the read to the write lock.    *)
(*                                                                         *)
(* A definition whose name starts with Wrong is the one that follows it     *)
(* with a plausible bug in it; see Sidekick.tla.                            *)
(***************************************************************************)
EXTENDS Integers, Sequences, FiniteSets, SequencesExt

CONSTANTS
  Keys,        \* the keys
  Procs,       \* the goroutines in LoadOrCompute at a time
  Costs,       \* what an entry may cost
  Capacities,  \* the limits: records of count and cost, 0 or less for none
  None

ASSUME MemoryCacheAssumption ==
  /\ Costs \subseteq Nat
  /\ Capacities \subseteq [count : Int, cost : Int]
  /\ None \notin Keys

VARIABLES
  capacity,     \* capacityCount and capacityCost
  ll,           \* ll: the keys, the most recently used first
  cost,         \* cost[k]: the cost of the entry of k, 0 without one
  currentCost,  \* currentCost
  at, wanted,   \* at[p]: where p is in LoadOrCompute, and for which key
  last          \* ghost: the operation that took the last step, and its key

vars == <<capacity, ll, cost, currentCost, at, wanted, last>>

Cached == ToSet(ll)

\* The list without k, and with k moved to the front; k is in it once.
Without(k) == RemoveAt(ll, CHOOSE i \in DOMAIN ll : ll[i] = k)
WrongMoved(k) == <<k>> \o ll
Moved(k) == <<k>> \o Without(k)

Did(what, k) == last' = [op |-> what, key |-> k]

Init ==
  /\ capacity \in Capacities
  /\ ll = <<>>
  /\ cost = [k \in Keys |-> 0]
  /\ currentCost = 0
  /\ at = [p \in Procs |-> "out"]
  /\ wanted = [p \in Procs |-> None]
  /\ last = [op |-> "none", key |-> None]

-----------------------------------------------------------------------------
\* What the keys S cost, at costs c: so many units, each of one key.
Units(S, c)  == UNION {{k} \X (1..c[k]) : k \in S}
CostOf(S, c) == Cardinality(Units(S, c))

\* currentCost once removeElement has left the entries s of those there are, and
\* with what is added to it.
Left(s, c, added) == currentCost + added - CostOf(Cached \ ToSet(s), c)

WrongEvictsNewest(s, c, added) ==
  IF capacity.cost <= 0 \/ Left(s, c, added) =< capacity.cost THEN s ELSE Tail(s)

\* evictByCost pops the oldest of s as long as currentCost is too much.
AfterEvictByCost(s, c, added) ==
  LET fits(n) == capacity.cost =< 0 \/ Left(SubSeq(s, 1, n), c, added) =< capacity.cost
  IN SubSeq(s, 1, CHOOSE n \in 0..Len(s) :
                    (fits(n) \/ n = 0) /\ \A m \in (n + 1)..Len(s) : ~fits(m))

WrongAllowsOneMore(s) ==
  IF capacity.count > 0 /\ Len(s) > capacity.count
    THEN SubSeq(s, 1, capacity.count) ELSE s

\* evictByCount pops the oldest of s until there is room for one more.
AfterEvictByCount(s) ==
  IF capacity.count > 0 /\ Len(s) >= capacity.count
    THEN SubSeq(s, 1, capacity.count - 1) ELSE s

\* The entries s stay, at costs c.
Keep(s, c, added) ==
  /\ ll' = s
  /\ cost' = [k \in Keys |-> IF k \in ToSet(s) THEN c[k] ELSE 0]
  /\ currentCost' = Left(s, c, added)

WrongUpdateAddsUp(k, n) ==
  LET c == [cost EXCEPT ![k] = n]
  IN Keep(AfterEvictByCost(Moved(k), c, n), c, n)

\* put of a key that is there: to the front, at its new cost. It may go itself.
Update(k, n) ==
  LET c == [cost EXCEPT ![k] = n]
      added == n - cost[k]
  IN Keep(AfterEvictByCost(Moved(k), c, added), c, added)

\* put of another: room is made first, for one more entry of any cost.
Insert(k, n) ==
  LET kept == AfterEvictByCost(AfterEvictByCount(ll), cost, 0)
  IN Keep(<<k>> \o kept, [cost EXCEPT ![k] = n], n)

PutEntry(k, n) == IF k \in Cached THEN Update(k, n) ELSE Insert(k, n)

-----------------------------------------------------------------------------
Get(k) ==
  /\ k \in Cached
  /\ ll' = Moved(k)
  /\ Did("get", k)
  /\ UNCHANGED <<capacity, cost, currentCost, at, wanted>>

Put(k, n) ==
  /\ PutEntry(k, n)
  /\ Did("put", k)
  /\ UNCHANGED <<capacity, at, wanted>>

Delete(k) ==
  /\ k \in Cached
  /\ Keep(Without(k), cost, 0)
  /\ Did("delete", k)
  /\ UNCHANGED <<capacity, at, wanted>>

\* LoadOrCompute peeks under the read lock: a hit leads to the write lock to move
\* the entry to the front, a miss to the write lock to compute it.
Look(p, k) ==
  /\ at[p] = "out"
  /\ at' = [at EXCEPT ![p] = IF k \in Cached THEN "touch" ELSE "compute"]
  /\ wanted' = [wanted EXCEPT ![p] = k]
  /\ Did("look", k)
  /\ UNCHANGED <<capacity, ll, cost, currentCost>>

\* The entry may be gone by now.
Touch(p) ==
  LET k == wanted[p] IN
  /\ at[p] = "touch"
  /\ at' = [at EXCEPT ![p] = IF k \in Cached THEN "out" ELSE "compute"]
  /\ ll' = IF k \in Cached THEN Moved(k) ELSE ll
  /\ Did("touch", k)
  /\ UNCHANGED <<capacity, cost, currentCost, wanted>>

\* And it may be there again, put by another. valueFn may also decline.
Compute(p, n) ==
  LET k == wanted[p] IN
  /\ at[p] = "compute"
  /\ at' = [at EXCEPT ![p] = "out"]
  /\ \/ k \in Cached /\ ll' = Moved(k) /\ Did("touch", k) /\ UNCHANGED <<cost, currentCost>>
     \/ k \notin Cached /\ PutEntry(k, n) /\ Did("compute", k)
     \/ k \notin Cached /\ Did("declined", k) /\ UNCHANGED <<ll, cost, currentCost>>
  /\ UNCHANGED <<capacity, wanted>>

Next ==
  \/ \E k \in Keys : Get(k) \/ Delete(k)
  \/ \E k \in Keys, n \in Costs : Put(k, n)
  \/ \E p \in Procs, k \in Keys : Look(p, k)
  \/ \E p \in Procs : Touch(p)
  \/ \E p \in Procs, n \in Costs : Compute(p, n)

Spec == Init /\ [][Next]_vars

-----------------------------------------------------------------------------
(* Properties *)

\* Every variable has its type, and a key is in the list once at most.
TypeOK ==
  /\ capacity \in Capacities
  /\ ll \in Seq(Keys) /\ Len(ll) = Cardinality(Cached)
  /\ cost \in [Keys -> Nat]
  /\ currentCost \in Nat
  /\ at \in [Procs -> {"out", "touch", "compute"}]
  /\ wanted \in [Procs -> Keys \cup {None}]

\* currentCost is what the entries cost, through every replacement and eviction: it
\* is kept by adding and subtracting, and eviction goes by it.
CostIsSum ==
  /\ currentCost = CostOf(Cached, cost)
  /\ \A k \in Keys \ Cached : cost[k] = 0

\* There are never more entries than capacityCount, and they cost no more than
\* capacityCost plus one of them: room is made before an entry is added (Put),
\* whatever it costs.
CountBounded == capacity.count > 0 => Len(ll) =< capacity.count
CostBounded ==
  capacity.cost > 0 =>
    \/ currentCost =< capacity.cost
    \/ \E k \in Cached : currentCost - cost[k] =< capacity.cost
LimitsKept == CountBounded /\ CostBounded

\* A put never evicts an entry that was used after one it keeps.
EvictsOldest ==
  [][ last'.op \in {"put", "compute"} =>
        \A i, j \in DOMAIN ll :
          i < j /\ ll[j] \in ToSet(ll') /\ ll[j] # last'.key
            => ll[i] \in ToSet(ll') ]_vars

=============================================================================
