---------------------------- MODULE MCMemoryCache ----------------------------
(* An instance of MemoryCache.tla small enough for TLC; see the cfg file.    *)
EXTENDS MemoryCache, TLC

\* No limit, either, and both; one entry may cost more than all may.
SomeCapacities ==
  {[count |-> 0, cost |-> 0], [count |-> 2, cost |-> 0], [count |-> -1, cost |-> 4],
   [count |-> 1, cost |-> 4], [count |-> 3, cost |-> 4]}

CacheSymmetry == Permutations(Keys) \cup Permutations(Procs)
=============================================================================
