----------------------------- MODULE MCServing ------------------------------
(* Instances of Serving.tla small enough for TLC; see the cfg files.        *)
EXTENDS Serving

Site(accept, aeKeyed, etag, dated, rangeFill, partial) ==
  [accept |-> accept, aeKeyed |-> aeKeyed, etag |-> etag, dated |-> dated,
   rangeFill |-> rangeFill, partial |-> partial]

\* The defaults behind an origin that edits twice a second, for visitors that take
\* gzip, and without ETags for some that refuse it; dates only, which tell edits
\* apart; no ETags, range_fill off and every 2xx cacheable, and the same with strong
\* ETags; Accept-Encoding not in the key, with no dates, and with weak ETags.
Sites == {Site({"gzip"}, TRUE, "strong", "same", TRUE, FALSE),
          Site({"refuses"}, TRUE, "none", "same", TRUE, FALSE),
          Site({"none"}, TRUE, "none", "distinct", FALSE, TRUE),
          Site({"none"}, TRUE, "strong", "no", FALSE, TRUE),
          Site({"none"}, TRUE, "none", "distinct", TRUE, FALSE),
          Site(Encodings, FALSE, "strong", "no", TRUE, TRUE),
          Site({"any", "refuses"}, FALSE, "weak", "distinct", FALSE, FALSE)}
=============================================================================
