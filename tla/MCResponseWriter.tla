-------------------------- MODULE MCResponseWriter --------------------------
(* Instances of ResponseWriter.tla small enough for TLC; see the cfg files.  *)
EXTENDS ResponseWriter

\* Everything is cached, nothing is, or what is no longer than 3; bodies are held
\* in memory whole, or up to 1 or 2.
SomeLimits == {-1, 0, 3}
SomeThresholds == {-1, 0, 1, 2}
NoLimit == {-1}
OneThreshold == {1}
=============================================================================
