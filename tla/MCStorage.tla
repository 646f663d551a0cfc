------------------------------ MODULE MCStorage ------------------------------
(* Instances of Storage.tla small enough for TLC; see the cfg files.        *)
EXTENDS Storage, TLC

\* The memory tier is on, the disk tier takes one entry, entries expire.
CountLimited == [ttl |-> TRUE, memItem |-> 2, maxItem |-> 4, maxSize |-> 0, maxCount |-> 1]

\* Everything goes to disk, which takes two entries of size 2, or one of size 3;
\* a body of size 3 passes SetWithKey and is refused with its metadata.
SizeLimited == [ttl |-> FALSE, memItem |-> 0, maxItem |-> 3, maxSize |-> 4, maxCount |-> 0]

\* Everything goes to disk, no item is too large, and a body of size 3 is larger with
\* its metadata than all the disk should take.
Undersized == [ttl |-> FALSE, memItem |-> 0, maxItem |-> 0, maxSize |-> 3, maxCount |-> 0]

\* Everything goes to disk, and nothing is limited; entries expire.
Unlimited == [ttl |-> TRUE, memItem |-> 0, maxItem |-> 2, maxSize |-> 0, maxCount |-> 0]

Limited == {CountLimited, SizeLimited, Undersized}
OnlyUnlimited == {Unlimited}

\* Readers, streams and keys are interchangeable.
StorageSymmetry == Permutations(Readers) \cup Permutations(Keys)
=============================================================================
