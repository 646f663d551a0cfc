----------------------------- MODULE CachePolicy -----------------------------
(***************************************************************************)
(* Who may be sent whose page: what Sidekick puts into its cache key, which *)
(* requests it keeps away from the cache, and what the headers it writes    *)
(* let a shared cache in front of it (CloudFront, a proxy) do with the      *)
(* answer. The origin and the shared cache are the environment: the origin  *)
(* renders a page from what it reads of the request, the shared cache keeps *)
(* what Cache-Control lets it keep and selects it by URL and Vary.          *)
(*                                                                         *)
(* A request is handled in one step; Sidekick.tla is about what happens     *)
(* between the lookup and the store. A definition whose name starts with    *)
(* Wrong is the one that follows it with a plausible bug in it.             *)
(***************************************************************************)
EXTENDS Integers, FiniteSets

CONSTANTS
  Requests,     \* the GET requests there may be
  Crowds,       \* bound: the sets of requests that come in one behaviour
  Configs,      \* the configurations there may be
  CookieNames,  \* the names of the cookies a site reads
  TTL,          \* CacheTTL, as resolved by Provision
  SharedLife,   \* how long a shared cache keeps what Sidekick says nothing about
  MaxClock,     \* bound on the time
  None

\* The cookies of privateCookiePrefixes.
PrivateCookies == {"login", "author"}

\* Kinds of paths: those of static_asset_regex, of nocache_regex, of nocache.
StaticPaths  == {"script", "style"}
RefusedPaths == {"style", "archive"}
AreaPaths    == {"admin"}

ASSUME PolicyAssumption ==
  /\ \A c \in Crowds : c \subseteq Requests
  /\ TTL \in Nat \ {0} /\ SharedLife \in Nat \ {0} /\ MaxClock \in Nat
  /\ PrivateCookies \subseteq CookieNames /\ None \notin {"a", "b"}
  /\ \A r \in Requests :
       /\ r.path \in {"page", "home", "archive", "admin"} \cup StaticPaths
       /\ r.keyed \in {None, "a", "b"}              \* a value of cache_key_queries
       /\ r.click \in {None, "safe", "unsafe"}      \* one of cache_ignore_queries
       /\ r.other \in {None, "a", "b"}              \* a parameter in neither list
       /\ r.array \in BOOLEAN                       \* one written as an array, name[]
       /\ r.private \in BOOLEAN                     \* nocache_query, or unparseable
       /\ r.debug \in BOOLEAN /\ r.auth \in BOOLEAN
       /\ r.language \in {None, "a", "b"}           \* a header the site reads
       /\ r.cookies \in [CookieNames -> {None, "a", "b"}]
  /\ \A c \in Configs :
       /\ {c.home, c.keyAll, c.keyLanguage, c.nostore} \subseteq BOOLEAN
       /\ c.keyCookies \subseteq CookieNames

VARIABLES
  crowd,    \* who comes
  config,   \* NoCacheHome, CacheKeyQueries "*", CacheKeyHeaders, BypassCacheControl,
            \* CacheKeyCookies
  clock,    \* the time, in seconds
  entries,  \* Storage: the cached pages, one for a key
  shared    \* the copies in the shared cache, which has room for one

vars == <<crowd, config, clock, entries, shared>>

-----------------------------------------------------------------------------
(* The origin and the shared cache. *)

\* What the page of r depends on: a file is the same for everyone; WordPress reads its
\* own cookies, and the site no other cookie or header than those it has configured. A
\* click ID shows only if it carries markup.
Rendered(r) ==
  [path |-> r.path, keyed |-> r.keyed, other |-> r.other, array |-> r.array,
   private |-> r.private,
   click |-> IF r.click = "unsafe" THEN "unsafe" ELSE None,
   auth |-> r.auth,
   language |-> IF config.keyLanguage THEN r.language ELSE None,
   cookies |-> [c \in CookieNames |->
                  IF r.path \notin StaticPaths /\ c \in PrivateCookies \cup config.keyCookies
                    THEN r.cookies[c] ELSE None]]

\* An answer of the origin: its Cache-Control, whether it sets a cookie, and whether its
\* status and headers let Sidekick store it.
Responses(r) ==
  {[page |-> Rendered(r), at |-> clock, says |-> s, sets |-> c, storable |-> b] :
     s \in {"nothing", "public", "private"}, c \in BOOLEAN, b \in BOOLEAN}

URL(r) == [f \in {"path", "keyed", "click", "other", "array", "private", "debug"} |-> r[f]]

Selects(copy, r) ==
  /\ URL(copy.request) = URL(r)
  /\ "language" \in copy.vary => copy.request.language = r.language
  /\ "cookie" \in copy.vary => copy.request.cookies = r.cookies

\* The shared cache may keep an answer with headers h, until its age reaches max-age.
Keeps(r, h, response) ==
  \/ UNCHANGED shared
  \/ /\ h.control # "private"
     /\ LET life == IF h.control = "max-age" THEN h.maxAge - h.age ELSE SharedLife
            copy == [request |-> r, vary |-> h.vary, page |-> response.page,
                     at |-> response.at, until |-> clock + life,
                     says |-> response.says, stated |-> h.control = "max-age"]
        IN life > 0 /\ shared' = {copy}

-----------------------------------------------------------------------------
(* The policy. *)

\* classifyQuery: what the query alone says. An array is not keyed, whatever its name.
Classified(r) ==
  [reason   |-> IF r.private THEN "private"
                ELSE IF r.array \/ (r.other # None /\ ~config.keyAll) THEN "query" ELSE "none",
   canonical |-> <<r.keyed, IF config.keyAll THEN r.other ELSE None>>,
   readOnly  |-> r.click = "unsafe"]

HasPrivateCookie(r) == \E c \in PrivateCookies : r.cookies[c] # None

\* bypassReasonFor: the first rule that applies.
BypassReason(r) ==
  IF r.debug THEN "debug"
  ELSE IF Classified(r).reason = "private" \/ r.auth \/ r.path \in AreaPaths THEN "private"
  ELSE IF r.path \in RefusedPaths \/ (config.home /\ r.path = "home") THEN "policy"
  ELSE IF r.path \notin StaticPaths /\ HasPrivateCookie(r) THEN "private"
  ELSE Classified(r).reason

\* computeKeyDims: the configured headers and cookies there are on r.
KeyDims(r) ==
  [headers |-> {h \in {"language"} : config.keyLanguage /\ r.language # None},
   cookies |-> r.path \notin StaticPaths /\ \E c \in config.keyCookies : r.cookies[c] # None]

WrongCacheKey(r) ==
  [path |-> r.path, query |-> Classified(r).canonical, language |-> None,
   cookies |-> {<<c, r.cookies[c]>> : c \in {d \in config.keyCookies :
                                               KeyDims(r).cookies /\ r.cookies[d] # None}}]

\* buildCacheKeyFor; the host is left out.
CacheKey(r) ==
  [path |-> r.path, query |-> Classified(r).canonical,
   language |-> IF config.keyLanguage THEN r.language ELSE None,
   cookies |-> {<<c, r.cookies[c]>> : c \in {d \in config.keyCookies :
                                               KeyDims(r).cookies /\ r.cookies[d] # None}}]

Private(vary) == [vary |-> vary, control |-> "private", maxAge |-> 0, age |-> 0]
MaxAge(vary, n, a) == [vary |-> vary, control |-> "max-age", maxAge |-> n, age |-> a]
AsOrigin(vary, response) ==
  [vary |-> vary, control |-> response.says, maxAge |-> 0, age |-> 0]

WrongVary(dims) == {v \in {"cookie"} : dims.cookies}
Vary(dims) == dims.headers \cup {v \in {"cookie"} : dims.cookies}

WrongHitHeaders(vary, age) == MaxAge(vary, TTL, 0)

\* A HIT has what remains of its TTL, and says how old it is.
HitHeaders(vary, age) == MaxAge(vary, IF TTL < age THEN 0 ELSE TTL - age, age)

\* A MISS is as cacheable as a HIT, unless it sets a cookie.
MissHeaders(vary, response) ==
  IF response.sets THEN Private(vary) ELSE MaxAge(vary, TTL, 0)

\* What the state alone calls for.
StateHeaders(vary, state, response) ==
  CASE state = "hit"    -> HitHeaders(vary, clock - response.at)
    [] state = "miss"   -> MissHeaders(vary, response)
    [] state = "query"  -> IF response.says # "nothing" THEN AsOrigin(vary, response)
                           ELSE MissHeaders(vary, response)
    [] state = "policy" -> AsOrigin(vary, response)
    [] state \in {"private", "debug"} -> Private(vary)

WrongDownstreamHeaders(dims, state, response) ==
  IF config.nostore /\ state # "hit" THEN Private(Vary(dims))
  ELSE StateHeaders(Vary(dims), state, response)

\* applyDownstreamCacheHeaders: answers to a keyed cookie first, then the behaviour of
\* bypass_cache_control nostore, then by state.
DownstreamHeaders(dims, state, response) ==
  IF dims.cookies \/ (config.nostore /\ state # "hit") THEN Private(Vary(dims))
  ELSE StateHeaders(Vary(dims), state, response)

\* bypassResponseWriter: only what would be stored is advertised as a MISS would be.
BypassHeaders(r, state, response) ==
  DownstreamHeaders(KeyDims(r),
    IF state = "query" /\ ~response.storable THEN "policy" ELSE state, response)

\* The entry of r, if it is not expired.
Cached(r) == {e \in entries : e.key = CacheKey(r) /\ clock - e.at =< TTL}

-----------------------------------------------------------------------------
(* The requests that get past the shared cache; those it answers change nothing. *)

Init ==
  /\ crowd \in Crowds
  /\ config \in Configs
  /\ clock = 0
  /\ entries = {}
  /\ shared = {}

\* serveBypass: nothing of the cache is read or written.
ServeBypass(r) ==
  /\ BypassReason(r) # "none"
  /\ \E p \in Responses(r) :
       Keeps(r, BypassHeaders(r, BypassReason(r), p), p)
  /\ UNCHANGED <<crowd, config, clock, entries>>

\* A HIT, streamed or buffered, or a 304 for what the visitor has: Set-Cookie and
\* Cache-Control are not among the headers an entry keeps.
Hit(r) ==
  /\ BypassReason(r) = "none"
  /\ \E e \in Cached(r) :
       LET p == [page |-> e.page, at |-> e.at, says |-> e.says, sets |-> FALSE]
       IN Keeps(r, DownstreamHeaders(KeyDims(r), "hit", p), p)
  /\ UNCHANGED <<crowd, config, clock, entries>>

\* A click ID that may carry markup is served the entry, but never fills it.
ReadOnlyMiss(r) ==
  /\ BypassReason(r) = "none" /\ Cached(r) = {} /\ Classified(r).readOnly
  /\ \E p \in Responses(r) :
       Keeps(r, BypassHeaders(r, "query", p), p)
  /\ UNCHANGED <<crowd, config, clock, entries>>

WrongMissState(p) == IF ~p.storable THEN "policy" ELSE "miss"

\* ResponseWriter.WriteHeader: "miss" if the response may be stored.
MissState(p) ==
  IF p.says = "private" THEN "private" ELSE IF ~p.storable THEN "policy" ELSE "miss"

OtherEntries(r) == {e \in entries : e.key # CacheKey(r)}

\* The store may still fail, and the lookup has removed an entry that is too old.
Miss(r) ==
  /\ BypassReason(r) = "none" /\ Cached(r) = {} /\ ~Classified(r).readOnly
  /\ \E p \in Responses(r) :
       /\ Keeps(r, DownstreamHeaders(KeyDims(r), MissState(p), p), p)
       /\ \/ entries' = OtherEntries(r)
          \/ /\ MissState(p) = "miss"
             /\ entries' = OtherEntries(r) \cup
                  {[key |-> CacheKey(r), page |-> p.page, at |-> p.at, says |-> p.says]}
  /\ UNCHANGED <<crowd, config, clock>>

\* A range request that gave up waiting for another's fetch goes to the origin itself.
Fallback(r) ==
  /\ BypassReason(r) = "none" /\ ~Classified(r).readOnly
  /\ \E p \in Responses(r) :
       Keeps(r, BypassHeaders(r, "policy", p), p)
  /\ UNCHANGED <<crowd, config, clock, entries>>

Tick ==
  /\ clock < MaxClock
  /\ clock' = clock + 1
  /\ shared' = {c \in shared : c.until > clock'}
  /\ UNCHANGED <<crowd, config, entries>>

Next ==
  \/ \E r \in crowd : ServeBypass(r) \/ Hit(r) \/ ReadOnlyMiss(r) \/ Miss(r) \/ Fallback(r)
  \/ Tick

Spec == Init /\ [][Next]_vars

-----------------------------------------------------------------------------
(* Properties *)

\* Whoever is served an entry is served the page the origin would have rendered for
\* this very request, but for what an unsafe click ID would have shown: the key and
\* the reasons to bypass together cover all the page depends on.
OwnPage ==
  \A r \in crowd : BypassReason(r) = "none" =>
    \A e \in Cached(r) : e.page = [Rendered(r) EXCEPT !.click = None]

Personal(page) == page.auth \/ page.private \/ \E c \in CookieNames : page.cookies[c] # None

\* What is rendered for one visitor is never kept by a shared cache. The exception is
\* a refused path, or the home page: the policy rules are asked before the private
\* cookies, and if no key names the cookie, the origin's silence stands.
PersonalNotShared ==
  \A c \in shared : Personal(c.page) =>
    /\ ~c.page.auth /\ ~c.page.private
    /\ c.page.path \in RefusedPaths \/ (config.home /\ c.page.path = "home")
    /\ \A k \in config.keyCookies : c.page.cookies[k] = None

\* What the origin called private is neither cached nor shared, whichever way it went.
OriginPrivateKept ==
  /\ \A e \in entries : e.says # "private"
  /\ \A c \in shared : c.says # "private"

\* A page is not shown longer than CacheTTL after it was rendered, however it got into
\* the shared cache, where Sidekick states how long: from the origin or as a HIT.
WithinTTL == \A c \in shared : c.stated => c.until =< c.at + TTL

\* A shared cache answers whoever it selects a copy for with the page of that very
\* request, up to what an unsafe click ID would have shown; and with no page made for a
\* keyed cookie. The exception is a visitor who sends a keyed header or cookie: Vary does
\* not name it on a copy made for a request without it (computeKeyDims), so the visitor is
\* sent that page. sidekick.go:2628 asks for more: "Vary must be consistent across HIT,
\* MISS and BYPASS for the same URL, or a shared cache can store one variant and serve it
\* for another."
SharedOwnPage ==
  \A c \in shared, r \in crowd : Selects(c, r) =>
    /\ \A f \in {"path", "keyed", "other", "array", "private"} : c.page[f] = Rendered(r)[f]
    /\ c.page.click \in {None, Rendered(r).click}
    /\ \/ c.page.language = Rendered(r).language
       \/ "language" \notin c.vary /\ c.page.language = None
    /\ \A k \in config.keyCookies : c.page.cookies[k] = None
=============================================================================
