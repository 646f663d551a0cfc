------------------------------- MODULE Cache --------------------------------
(***************************************************************************)
(* What Storage promises the handler, whatever its tiers, files, index and  *)
(* locks: a store may be lost but is never torn unless it fails, a purge     *)
(* ends every copy a read could have found, and nothing that is gone comes   *)
(* back, but for what a load finds on disk that a purge could not see.       *)
(* Storage.tla is shown to implement it (Storage!ImplementsCache).           *)
(*                                                                         *)
(* Stores are numbered. A copy names the store its metadata and the store    *)
(* its body come from.                                                     *)
(***************************************************************************)
EXTENDS Naturals

CONSTANTS
  Keys,
  None    \* no store under way

VARIABLES
  seen,     \* seen[k]: the copies of k that reads may find
  hidden,   \* hidden[k]: copies on disk that neither reads nor purges find
  open,     \* the key of the store under way, or None
  last,     \* the number of the latest store
  purged,   \* purged[k]: the latest store before the last purge of k
  loading   \* the files of an earlier run are being indexed

vars == <<seen, hidden, open, last, purged, loading>>

Whole(w) == [md |-> w, data |-> w]

Init ==
  /\ seen = [k \in Keys |-> {}]
  /\ hidden = [k \in Keys |-> {}]
  /\ open = None
  /\ last = 0
  /\ purged = [k \in Keys |-> 0]
  /\ loading = TRUE

\* The copies of k are at most those of before and New; what is found may be
\* lost from sight, not the other way round.
Fades(k, New) ==
  /\ seen'[k] \subseteq seen[k] \cup New
  /\ hidden'[k] \subseteq hidden[k] \cup seen[k]

\* Evicted, expired, replaced, or forgotten by the index.
Lose ==
  /\ UNCHANGED <<open, last, purged, loading>>
  /\ \A k \in Keys : Fades(k, {})

\* A store that is a single step.
Store(k) ==
  /\ open = None
  /\ last' = last + 1
  /\ UNCHANGED <<open, purged, loading>>
  /\ \A j \in Keys : Fades(j, IF j = k THEN {Whole(last')} ELSE {})

\* A store that takes several steps: until it ends, nobody reads k.
Begin(k) ==
  /\ open = None
  /\ last' = last + 1 /\ open' = k
  /\ UNCHANGED <<seen, hidden, purged, loading>>

\* It ends: the new copy may be found, or be forgotten by the index at once.
End ==
  /\ open # None
  /\ open' = None
  /\ UNCHANGED <<last, purged, loading>>
  /\ \A j \in Keys \ {open} : Fades(j, {})
  /\ seen'[open] \subseteq seen[open] \cup {Whole(last)}
  /\ hidden'[open] \subseteq hidden[open] \cup seen[open] \cup {Whole(last)}

\* The store fails: what it may leave of its key has its metadata and any body.
Fail ==
  /\ open # None
  /\ open' = None
  /\ \A j \in Keys \ {open} : Fades(j, {})
  /\ \A c \in seen'[open] \ seen[open] : c.md = last
  /\ \A c \in hidden'[open] \ (hidden[open] \cup seen[open]) : c.md = last
  /\ UNCHANGED <<last, purged, loading>>

\* A purge of one key waits for the store under way, and ends all it can see.
Purge(k) ==
  /\ open = None
  /\ purged' = [purged EXCEPT ![k] = last]
  /\ seen' = [seen EXCEPT ![k] = {}]
  /\ UNCHANGED <<hidden, open, last, loading>>

\* A purge of everything. Files it cannot remove are out of sight.
PurgeAll ==
  /\ open = None
  /\ purged' = [k \in Keys |-> last]
  /\ seen' = [k \in Keys |-> {}]
  /\ \A k \in Keys : hidden'[k] \subseteq hidden[k] \cup seen[k]
  /\ loading' \in {loading, FALSE}
  /\ UNCHANGED <<open, last>>

\* A crash: nothing is in sight until it is loaded again.
Crash ==
  /\ open' = None /\ loading' = TRUE
  /\ seen' = [k \in Keys |-> {}]
  /\ \A k \in Keys : \A c \in hidden'[k] \ (hidden[k] \cup seen[k]) :
       k = open /\ c.md = last
  /\ UNCHANGED <<last, purged>>

\* The load brings what it finds of k into sight, or ends.
Surface(k) ==
  /\ loading
  /\ UNCHANGED <<open, last, purged, loading>>
  /\ \A j \in Keys : Fades(j, IF j = k THEN hidden[k] ELSE {})

Loaded == loading /\ loading' = FALSE /\ UNCHANGED <<seen, hidden, open, last, purged>>

Next ==
  \/ Lose \/ End \/ Fail \/ PurgeAll \/ Crash \/ Loaded
  \/ \E k \in Keys : Store(k) \/ Begin(k) \/ Purge(k) \/ Surface(k)

Spec == Init /\ [][Next]_vars
=============================================================================
