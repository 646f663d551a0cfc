---------------------------- MODULE MCCachePolicy ----------------------------
(* Instances of CachePolicy.tla small enough for TLC; see the cfg files.     *)
EXTENDS CachePolicy, TLC

Paths == {"page", "home", "archive", "admin"} \cup StaticPaths

NoCookies == [c \in CookieNames |-> None]

Plain(p) ==
  [path |-> p, keyed |-> None, click |-> None, other |-> None, array |-> FALSE, private |-> FALSE,
   debug |-> FALSE, auth |-> FALSE, language |-> None, cookies |-> NoCookies]

\* A request for p that carries one thing, of value v where there is a choice.
Single(p, v) ==
  {[Plain(p) EXCEPT !.keyed = v], [Plain(p) EXCEPT !.other = v],
   [Plain(p) EXCEPT !.language = v]}
  \cup {[Plain(p) EXCEPT !.cookies[c] = v] : c \in CookieNames}

\* And one that carries several, or something that has one value only.
Others(p) ==
  {Plain(p),
   [Plain(p) EXCEPT !.private = TRUE],
   [Plain(p) EXCEPT !.auth = TRUE],
   [Plain(p) EXCEPT !.array = TRUE],
   [Plain(p) EXCEPT !.click = "safe"],
   [Plain(p) EXCEPT !.click = "unsafe"],
   [Plain(p) EXCEPT !.click = "unsafe", !.keyed = "a"],
   [Plain(p) EXCEPT !.cookies["settings"] = "a", !.cookies["author"] = "b"],
   [Plain(p) EXCEPT !.other = "a", !.cookies["author"] = "a"],
   [Plain(p) EXCEPT !.language = "a", !.cookies["settings"] = "a"],
   [Plain(p) EXCEPT !.debug = TRUE, !.cookies["login"] = "a"]}

AllRequests == UNION {Single(p, "a") \cup Single(p, "b") \cup Others(p) : p \in Paths}

\* Any two requests for a path; the value of one alone does not matter.
Pairs ==
  UNION {{{r, s} : r \in Others(p) \cup Single(p, "a"), s \in Others(p) \cup Single(p, "a")}
         \cup {{r, s} : r \in Single(p, "a"), s \in Single(p, "b")} : p \in Paths}
  \cup {{Plain(p), Plain(q)} : p, q \in Paths}
TruePairs == {c \in Pairs : Cardinality(c) = 2}

\* The default, and what else may be configured.
Default == [home |-> FALSE, keyAll |-> FALSE, keyLanguage |-> FALSE, nostore |-> FALSE,
            keyCookies |-> {"login", "settings"}]
SomeConfigs ==
  {Default, [Default EXCEPT !.keyLanguage = TRUE],
   [Default EXCEPT !.home = TRUE, !.keyAll = TRUE, !.keyCookies = {"settings"}],
   [Default EXCEPT !.nostore = TRUE, !.keyLanguage = TRUE]}
=============================================================================
