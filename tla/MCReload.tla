------------------------------ MODULE MCReload -------------------------------
(* An instance of Reload.tla small enough for TLC; see the cfg file.        *)
EXTENDS Reload, TLC

\* Either two or three responses are stored, none large enough for a temporary file, or
\* one, beside one that is captured in such a file.
Either ==
  {[loads |-> 3, stores |-> 2, captures |-> 0], [loads |-> 2, stores |-> 3, captures |-> 0],
   [loads |-> 3, stores |-> 1, captures |-> 1]}

\* The storages are interchangeable.
ReloadSymmetry == Permutations(Instances)
=============================================================================
