----------------------------- MODULE MCSidekick -----------------------------
(* Instances of Sidekick.tla small enough for TLC; see the cfg files.       *)
EXTENDS Sidekick, TLC

\* The kinds of request that contend for a record.
FillingKinds == {"plain", "range"}
EveryKind == AllKinds

\* Requests are interchangeable: for runs without liveness properties.
RequestSymmetry == Permutations(Requests)
=============================================================================
