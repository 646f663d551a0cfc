-------------------------- MODULE CachePolicyProofs --------------------------
(***************************************************************************)
(* The properties of CachePolicy.tla, proved for every set of requests, of   *)
(* cookies and of configurations, and every TTL.                            *)
(*                                                                         *)
(* Every entry was rendered for some request of the crowd that has its key  *)
(* (EntryOK), and every copy of a shared cache was handed out with headers  *)
(* that are right for its page and for whoever asked for it (CopyOK). That  *)
(* the headers are right is shown state by state (Sound), and is all that   *)
(* the steps need.                                                         *)
(***************************************************************************)
EXTENDS CachePolicy, TLAPS

\* What is rendered for one visitor may be shared, as PersonalNotShared has it.
Shareable(page) ==
  Personal(page) =>
    /\ ~page.auth /\ ~page.private
    /\ page.path \in RefusedPaths \/ (config.home /\ page.path = "home")
    /\ \A k \in config.keyCookies : page.cookies[k] = None

\* An entry is the page of a request with its key, which the cache was asked for.
EntryOK(e) ==
  /\ \E s \in crowd :
       /\ BypassReason(s) = "none" /\ ~Classified(s).readOnly
       /\ e.key = CacheKey(s) /\ e.page = Rendered(s)
  /\ e.at \in Nat /\ e.at =< clock
  /\ e.says \in {"nothing", "public"}

\* Two pages that differ in nothing but what a click ID shows.
SameButClick(x, y) ==
  /\ x.path = y.path /\ x.keyed = y.keyed /\ x.other = y.other /\ x.array = y.array
  /\ x.private = y.private /\ x.auth = y.auth
  /\ x.language = y.language /\ x.cookies = y.cookies

\* A page made for request r, or for one without its click ID.
PageFor(r, page) ==
  SameButClick(Rendered(r), page) /\ page.click \in {None, Rendered(r).click}

CopyOK(c) ==
  /\ c.request \in crowd
  /\ c.vary = Vary(KeyDims(c.request))
  /\ PageFor(c.request, c.page)
  /\ c.says # "private"
  /\ c.stated => c.until =< c.at + TTL
  /\ Shareable(c.page)

PolicyInv ==
  /\ crowd \in Crowds /\ config \in Configs /\ clock \in Nat
  /\ \A e \in entries : EntryOK(e)
  /\ \A c \in shared : CopyOK(c)

\* Headers h on answer p to r let a shared cache do no harm.
Sound(r, h, p) ==
  /\ h.vary = Vary(KeyDims(r))
  /\ PageFor(r, p.page)
  /\ p.says = "private" => h.control = "private"
  /\ h.control = "max-age" => clock + (h.maxAge - h.age) =< p.at + TTL
  /\ h.control # "private" => Shareable(p.page)

-----------------------------------------------------------------------------
(* The headers.                                                            *)

Headers(r, state, p) == DownstreamHeaders(KeyDims(r), state, p)

States == {"hit", "miss", "query", "policy", "private", "debug"}

\* Whatever the state, the answer varies by what the key does; what a keyed cookie
\* selects is private, and what the origin says stands or is made stricter.
LEMMA HeadersShape ==
  ASSUME NEW r, NEW state \in States, NEW p,
         p.says \in {"nothing", "public", "private"}
  PROVE  /\ Headers(r, state, p).vary = Vary(KeyDims(r))
         /\ Headers(r, state, p).control # "private" =>
              ~KeyDims(r).cookies /\ state \notin {"private", "debug"}
         /\ p.says = "private" /\ state \in {"policy", "query"} =>
              Headers(r, state, p).control = "private"
  BY DEF Headers, DownstreamHeaders, StateHeaders, Private, AsOrigin, MaxAge, HitHeaders,
         MissHeaders, States

\* A MISS may be kept for the whole TTL, a HIT for what remains of it.
LEMMA HeadersLife ==
  ASSUME NEW r, NEW state \in States, NEW p,
         p.says \in {"nothing", "public", "private"}, p.at \in Nat,
         TTL \in Nat, clock \in Nat, p.at =< clock, state # "hit" => p.at = clock,
         Headers(r, state, p).control = "max-age"
  PROVE  clock + (Headers(r, state, p).maxAge - Headers(r, state, p).age) =< p.at + TTL
<1> DEFINE vary == Vary(KeyDims(r))
<1>1. \/ Headers(r, state, p) = HitHeaders(vary, clock - p.at)
      \/ Headers(r, state, p) = MaxAge(vary, TTL, 0)
  BY DEF Headers, DownstreamHeaders, StateHeaders, Private, AsOrigin, MissHeaders, States
<1>2. CASE Headers(r, state, p) = HitHeaders(vary, clock - p.at)
  BY <1>2 DEF HitHeaders, MaxAge
<1>3. CASE state # "hit" /\ Headers(r, state, p) = MaxAge(vary, TTL, 0)
  BY <1>3 DEF MaxAge
<1>4. state = "hit" => Headers(r, state, p) = HitHeaders(vary, clock - p.at)
  BY DEF Headers, DownstreamHeaders, StateHeaders, Private, MaxAge, States
<1>5. QED
  BY <1>1, <1>2, <1>3, <1>4

\* A page that was asked of the cache and is selected by no keyed cookie is nobody's.
LEMMA CachedShareable ==
  ASSUME NEW r, BypassReason(r) = "none", ~KeyDims(r).cookies
  PROVE  ~Personal(Rendered(r))
<1>1. ~r.auth /\ ~r.private /\ (r.path \in StaticPaths \/ ~HasPrivateCookie(r))
  BY DEF BypassReason, Classified
<1>2. r.path \in StaticPaths \/ \A c \in config.keyCookies : r.cookies[c] = None
  BY DEF KeyDims
<1>3. \A c \in CookieNames : Rendered(r).cookies[c] = None
  BY <1>1, <1>2 DEF Rendered, HasPrivateCookie
<1>4. ~Rendered(r).auth /\ ~Rendered(r).private
  BY <1>1 DEF Rendered
<1>5. QED
  BY <1>3, <1>4 DEF Personal

\* What the origin may answer.
LEMMA ResponseOK ==
  ASSUME NEW r, NEW p \in Responses(r)
  PROVE  /\ p.page = Rendered(r) /\ p.at = clock
         /\ p.says \in {"nothing", "public", "private"}
  BY DEF Responses

\* What bypasses the cache by the origin's word or as a MISS would be is shareable.
LEMMA BypassShareable ==
  ASSUME NEW r, PolicyAssumption, config \in Configs,
         BypassReason(r) \in {"policy", "query"}, ~KeyDims(r).cookies
  PROVE  Shareable(Rendered(r))
<1>1. ~r.auth /\ ~r.private
  BY DEF BypassReason, Classified
<1>2. ~Rendered(r).auth /\ ~Rendered(r).private /\ Rendered(r).path = r.path
  BY <1>1 DEF Rendered
<1>3. \A k \in config.keyCookies : k \in CookieNames /\ Rendered(r).cookies[k] = None
  BY DEF KeyDims, Rendered, PolicyAssumption
<1>4. CASE BypassReason(r) = "policy"
  <2>1. r.path \in RefusedPaths \/ (config.home /\ r.path = "home")
    BY <1>4 DEF BypassReason, Classified
  <2>2. QED
    BY <1>2, <1>3, <2>1 DEF Shareable
<1>5. CASE BypassReason(r) = "query"
  <2>1. r.path \in StaticPaths \/ ~HasPrivateCookie(r)
    BY <1>5 DEF BypassReason, Classified
  <2>2. r.path \in StaticPaths \/ \A c \in config.keyCookies : r.cookies[c] = None
    BY DEF KeyDims
  <2>3. \A c \in CookieNames : Rendered(r).cookies[c] = None
    BY <2>1, <2>2 DEF Rendered, HasPrivateCookie
  <2>4. QED
    BY <1>2, <2>3 DEF Shareable, Personal
<1>6. QED
  BY <1>4, <1>5

\* Every request is served by the cache or bypasses it for one of four reasons.
LEMMA ReasonOK ==
  ASSUME NEW r
  PROVE  BypassReason(r) \in {"none", "debug", "private", "policy", "query"}
  BY DEF BypassReason, Classified

-----------------------------------------------------------------------------
(* Every answer that leaves Sidekick has sound headers.                     *)

\* The answer to a request that was asked of the cache and missed it.
LEMMA PolicySound ==
  ASSUME NEW r, NEW p \in Responses(r), NEW state \in {"miss", "query", "policy", "private"},
         PolicyInv, PolicyAssumption, BypassReason(r) = "none",
         state = "miss" => p.says # "private"
  PROVE  Sound(r, Headers(r, state, p), p)
<1>1. p.page = Rendered(r) /\ p.at = clock /\ p.says \in {"nothing", "public", "private"}
  BY ResponseOK
<1>2. state \in States /\ TTL \in Nat /\ clock \in Nat
  BY DEF States, PolicyInv, PolicyAssumption
<1>3. /\ Headers(r, state, p).vary = Vary(KeyDims(r))
      /\ Headers(r, state, p).control # "private" => ~KeyDims(r).cookies /\ state # "private"
      /\ p.says = "private" => Headers(r, state, p).control = "private"
  BY <1>1, <1>2, HeadersShape
<1>4. Headers(r, state, p).control # "private" => Shareable(p.page)
  BY <1>1, <1>3, CachedShareable DEF Shareable
<1>5. Headers(r, state, p).control = "max-age" =>
        clock + (Headers(r, state, p).maxAge - Headers(r, state, p).age) =< p.at + TTL
  BY <1>1, <1>2, HeadersLife
<1>6. PageFor(r, p.page)
  BY <1>1 DEF PageFor, SameButClick
<1>7. QED
  BY <1>1, <1>3, <1>4, <1>5, <1>6 DEF Sound

\* The answer to a request that bypasses the cache (serveBypass).
LEMMA BypassSound ==
  ASSUME NEW r, NEW p \in Responses(r), PolicyInv, PolicyAssumption,
         BypassReason(r) # "none"
  PROVE  Sound(r, BypassHeaders(r, BypassReason(r), p), p)
<1> DEFINE kind == IF BypassReason(r) = "query" /\ ~p.storable THEN "policy"
                   ELSE BypassReason(r)
<1>1. PICK state \in {"query", "policy", "private", "debug"} :
        state = kind
  BY ReasonOK
<1>2. p.page = Rendered(r) /\ p.at = clock /\ p.says \in {"nothing", "public", "private"}
  BY ResponseOK
<1>3. state \in States /\ state # "hit" /\ TTL \in Nat /\ clock \in Nat
  BY DEF States, PolicyInv, PolicyAssumption
<1>4. /\ Headers(r, state, p).vary = Vary(KeyDims(r))
      /\ Headers(r, state, p).control # "private" =>
           ~KeyDims(r).cookies /\ state \notin {"private", "debug"}
      /\ p.says = "private" => Headers(r, state, p).control = "private"
  BY <1>2, <1>3, HeadersShape
<1>5. Headers(r, state, p).control # "private" => Shareable(p.page)
  <2>1. state \notin {"private", "debug"} => BypassReason(r) \in {"policy", "query"}
    BY <1>1, ReasonOK
  <2>2. QED
    BY <1>2, <1>4, <2>1, BypassShareable DEF PolicyInv
<1>6. Headers(r, state, p).control = "max-age" =>
        clock + (Headers(r, state, p).maxAge - Headers(r, state, p).age) =< p.at + TTL
  BY <1>2, <1>3, HeadersLife
<1>a. PageFor(r, p.page)
  BY <1>2 DEF PageFor, SameButClick
<1>7. Sound(r, Headers(r, state, p), p)
  BY <1>2, <1>4, <1>5, <1>6, <1>a DEF Sound
<1>8. Headers(r, state, p) = BypassHeaders(r, BypassReason(r), p)
  BY <1>1 DEF BypassHeaders, Headers
<1>9. QED
  BY <1>7, <1>8

IsPage(x) ==
  x = [path |-> x.path, keyed |-> x.keyed, other |-> x.other, array |-> x.array,
       private |-> x.private, click |-> x.click, auth |-> x.auth, language |-> x.language, cookies |-> x.cookies]

\* Pages are records: two that agree but for the click ID differ in it at most.
LEMMA PageEqual ==
  ASSUME NEW x, NEW y, IsPage(x), IsPage(y), SameButClick(x, y), y.click = None
  PROVE  y = [x EXCEPT !.click = None]
  BY DEF IsPage, SameButClick

\* Two requests with one key are shown one page, unless a click ID may carry markup.
LEMMA SameKeySamePage ==
  ASSUME NEW r \in Requests, NEW s \in Requests, PolicyAssumption, config \in Configs,
         CacheKey(r) = CacheKey(s),
         BypassReason(r) = "none", BypassReason(s) = "none"
  PROVE  SameButClick(Rendered(r), Rendered(s))
<1>1. r.path = s.path /\ r.keyed = s.keyed
  BY DEF CacheKey, Classified
<1>2. r.other = s.other /\ ~r.array /\ ~s.array
  BY DEF CacheKey, Classified, BypassReason
<1>3. ~r.auth /\ ~s.auth /\ ~r.private /\ ~s.private
  BY DEF BypassReason, Classified
<1>4. r.auth = s.auth /\ r.private = s.private /\ r.array = s.array
  BY <1>2, <1>3 DEF PolicyAssumption
<1>5. config.keyLanguage => r.language = s.language
  BY DEF CacheKey
<1>6. ASSUME NEW c \in CookieNames
      PROVE  Rendered(r).cookies[c] = Rendered(s).cookies[c]
  <2>1. CASE r.path \in StaticPaths
    BY <1>1, <2>1 DEF Rendered
  <2>2. CASE r.path \notin StaticPaths /\ c \in PrivateCookies
    <3>1. r.cookies[c] = None /\ s.cookies[c] = None
      BY <1>1, <2>2 DEF BypassReason, Classified, HasPrivateCookie
    <3>2. QED
      BY <3>1 DEF Rendered
  <2>3. CASE r.path \notin StaticPaths /\ c \in config.keyCookies
    <3>1. CacheKey(r).cookies = CacheKey(s).cookies
      OBVIOUS
    <3>2. ASSUME NEW q, q.path \notin StaticPaths
          PROVE  \A v : <<c, v>> \in CacheKey(q).cookies <=> v = q.cookies[c] /\ v # None
      <4>1. KeyDims(q).cookies <=> \E d \in config.keyCookies : q.cookies[d] # None
        BY <3>2 DEF KeyDims
      <4>2. CacheKey(q).cookies =
              {<<d, q.cookies[d]>> : d \in {b \in config.keyCookies : q.cookies[b] # None}}
        BY <4>1 DEF CacheKey
      <4>3. QED
        BY <2>3, <4>2
    <3>3. \A v : v = r.cookies[c] /\ v # None <=> v = s.cookies[c] /\ v # None
      <4>1. \A v : /\ <<c, v>> \in CacheKey(r).cookies <=> v = r.cookies[c] /\ v # None
                   /\ <<c, v>> \in CacheKey(s).cookies <=> v = s.cookies[c] /\ v # None
        BY <1>1, <2>3, <3>2
      <4>2. QED
        BY <3>1, <4>1
    <3>4. r.cookies[c] = s.cookies[c]
      BY <3>3
    <3>5. QED
      BY <1>1, <3>4 DEF Rendered
  <2>4. CASE c \notin PrivateCookies \cup config.keyCookies
    BY <2>4 DEF Rendered
  <2>5. QED
    BY <2>1, <2>2, <2>3, <2>4
<1>7. Rendered(r).cookies = Rendered(s).cookies
  BY <1>6 DEF Rendered
<1>8. QED
  BY <1>1, <1>2, <1>4, <1>5, <1>7 DEF Rendered, SameButClick

\* Whoever finds an entry finds a page of its own.
LEMMA CachedOwn ==
  ASSUME NEW r \in crowd, BypassReason(r) = "none", NEW e \in Cached(r),
         PolicyInv, PolicyAssumption
  PROVE  /\ SameButClick(Rendered(r), e.page) /\ e.page.click = None
         /\ e.page = [Rendered(r) EXCEPT !.click = None]
<1>1. PICK s \in crowd : /\ BypassReason(s) = "none" /\ ~Classified(s).readOnly
                         /\ e.key = CacheKey(s) /\ e.page = Rendered(s)
  BY DEF Cached, PolicyInv, EntryOK
<1>2. r \in Requests /\ s \in Requests
  BY DEF PolicyInv, PolicyAssumption
<1>3. CacheKey(r) = CacheKey(s)
  BY <1>1 DEF Cached
<1>4. SameButClick(Rendered(r), Rendered(s))
  BY <1>1, <1>2, <1>3, SameKeySamePage DEF PolicyInv
<1>5. Rendered(s).click = None
  BY <1>1 DEF Classified, Rendered
<1>6. e.page = [Rendered(r) EXCEPT !.click = None]
  <2>1. IsPage(Rendered(r)) /\ IsPage(Rendered(s))
    BY DEF IsPage, Rendered
  <2>2. QED
    BY <1>1, <1>4, <1>5, <2>1, PageEqual
<1>7. QED
  BY <1>1, <1>4, <1>5, <1>6

\* The answer that is an entry.
LEMMA HitSound ==
  ASSUME NEW r \in crowd, BypassReason(r) = "none", NEW e \in Cached(r),
         PolicyInv, PolicyAssumption, NEW p,
         p = [page |-> e.page, at |-> e.at, says |-> e.says, sets |-> FALSE]
  PROVE  Sound(r, Headers(r, "hit", p), p)
<1>1. /\ p.page = e.page /\ p.at = e.at
      /\ p.says = e.says /\ e.says \in {"nothing", "public"}
  BY DEF Cached, PolicyInv, EntryOK
<1>2. p.at \in Nat /\ p.at =< clock /\ TTL \in Nat /\ clock \in Nat
  BY <1>1 DEF Cached, PolicyInv, EntryOK, PolicyAssumption
<1>3. "hit" \in States
  BY DEF States
<1>4. /\ Headers(r, "hit", p).vary = Vary(KeyDims(r))
      /\ Headers(r, "hit", p).control # "private" => ~KeyDims(r).cookies
  BY <1>1, <1>3, HeadersShape
<1>5. PageFor(r, p.page)
  BY <1>1, CachedOwn DEF PageFor
<1>6. ~KeyDims(r).cookies => ~Personal(e.page)
  <2>1. /\ e.page.auth = Rendered(r).auth /\ e.page.private = Rendered(r).private
        /\ e.page.cookies = Rendered(r).cookies
    BY CachedOwn DEF SameButClick
  <2>2. QED
    BY <2>1, CachedShareable DEF Personal
<1>7. Headers(r, "hit", p).control = "max-age" =>
        clock + (Headers(r, "hit", p).maxAge - Headers(r, "hit", p).age) =< p.at + TTL
  BY <1>1, <1>2, <1>3, HeadersLife
<1>8. QED
  BY <1>1, <1>4, <1>5, <1>6, <1>7 DEF Sound, Shareable

-----------------------------------------------------------------------------
(* The steps.                                                              *)

\* A shared cache that is given sound headers keeps sound copies.
LEMMA KeptOK ==
  ASSUME NEW r \in crowd, NEW p, NEW h, PolicyInv, UNCHANGED <<crowd, config>>,
         Keeps(r, h, p), Sound(r, h, p)
  PROVE  \A c \in shared' : CopyOK(c)'
<1>1. CASE UNCHANGED shared
  BY <1>1 DEF PolicyInv, CopyOK, Vary, KeyDims, Rendered, PageFor, Shareable
<1>2. CASE h.control # "private" /\ ~UNCHANGED shared
  <2>1. PICK life, c :
          /\ life = IF h.control = "max-age" THEN h.maxAge - h.age ELSE SharedLife
          /\ c = [request |-> r, vary |-> h.vary, page |-> p.page, at |-> p.at,
                  until |-> clock + life, says |-> p.says,
                  stated |-> h.control = "max-age"]
          /\ shared' = {c}
    BY <1>2, Zenon DEF Keeps
  <2>2. CopyOK(c)
    <3>1. /\ c.request = r /\ c.vary = h.vary /\ c.page = p.page /\ c.says = p.says
          /\ c.at = p.at /\ c.until = clock + life
      BY <2>1
    <3>2. c.stated <=> h.control = "max-age"
      BY <2>1
    <3>3. c.stated => c.until =< c.at + TTL
      BY <2>1, <3>1, <3>2 DEF Sound
    <3>4. QED
      BY <1>2, <3>1, <3>3 DEF Sound, CopyOK
  <2>3. CopyOK(c)'
    BY <2>2 DEF CopyOK, Vary, KeyDims, Rendered, PageFor, Shareable
  <2>4. QED
    BY <2>1, <2>3
<1>3. QED
  BY <1>1, <1>2 DEF Keeps

\* The policy depends on nothing but the configuration.
LEMMA PolicyFixed ==
  ASSUME UNCHANGED config, NEW s
  PROVE  /\ BypassReason(s)' = BypassReason(s) /\ Classified(s)' = Classified(s)
         /\ CacheKey(s)' = CacheKey(s) /\ Rendered(s)' = Rendered(s)
<1>1. Classified(s)' = Classified(s)
  BY DEF Classified
<1>2. BypassReason(s)' = BypassReason(s)
  BY <1>1 DEF BypassReason
<1>3. CacheKey(s)' = CacheKey(s)
  BY <1>1 DEF CacheKey, KeyDims
<1>4. Rendered(s)' = Rendered(s)
  BY DEF Rendered
<1>5. QED
  BY <1>1, <1>2, <1>3, <1>4

\* What is an entry stays one as time passes.
LEMMA EntryKept ==
  ASSUME UNCHANGED <<crowd, config>>, clock \in Nat, clock' \in Nat, clock =< clock',
         NEW e, EntryOK(e)
  PROVE  EntryOK(e)'
<1>1. PICK s \in crowd : /\ BypassReason(s) = "none" /\ ~Classified(s).readOnly
                         /\ e.key = CacheKey(s) /\ e.page = Rendered(s)
  BY DEF EntryOK
<1>2. /\ s \in crowd' /\ BypassReason(s)' = "none" /\ ~Classified(s)'.readOnly
      /\ e.key = CacheKey(s)' /\ e.page = Rendered(s)'
  BY <1>1, PolicyFixed
<1>3. QED
  BY <1>2 DEF EntryOK

\* So the entries stay entries.
LEMMA EntriesKept ==
  ASSUME PolicyInv, UNCHANGED <<crowd, config>>, clock' \in Nat, clock =< clock',
         NEW e \in entries
  PROVE  EntryOK(e)'
  BY EntryKept DEF PolicyInv

\* Every step keeps entries and copies what they are meant to be.
LEMMA PolicyStep ==
  ASSUME PolicyInv, PolicyAssumption, [Next]_vars
  PROVE  PolicyInv'
<1>1. ASSUME NEW r \in crowd, ServeBypass(r) PROVE PolicyInv'
  <2>1. UNCHANGED <<crowd, config, clock, entries>>
    BY <1>1 DEF ServeBypass
  <2>2. PICK p, h : Keeps(r, h, p) /\ Sound(r, h, p)
    BY <1>1, BypassSound, Zenon DEF ServeBypass
  <2>3. \A c \in shared' : CopyOK(c)'
    BY <2>1, <2>2, KeptOK
  <2>4. QED
    BY <2>1, <2>3, EntriesKept DEF PolicyInv
<1>2. ASSUME NEW r \in crowd, Hit(r) PROVE PolicyInv'
  <2>1. UNCHANGED <<crowd, config, clock, entries>>
    BY <1>2 DEF Hit
  <2>2. PICK p, h : Keeps(r, h, p) /\ Sound(r, h, p)
    <3>1. BypassReason(r) = "none"
      BY <1>2 DEF Hit
    <3>2. PICK e, p :
            /\ e \in Cached(r)
            /\ p = [page |-> e.page, at |-> e.at, says |-> e.says, sets |-> FALSE]
            /\ Keeps(r, DownstreamHeaders(KeyDims(r), "hit", p), p)
      BY <1>2, Zenon DEF Hit
    <3>3. Sound(r, Headers(r, "hit", p), p)
      BY <3>1, <3>2, HitSound
    <3>4. QED
      BY <3>2, <3>3, Zenon DEF Headers
  <2>3. \A c \in shared' : CopyOK(c)'
    BY <2>1, <2>2, KeptOK
  <2>4. QED
    BY <2>1, <2>3, EntriesKept DEF PolicyInv
<1>3. ASSUME NEW r \in crowd, ReadOnlyMiss(r) PROVE PolicyInv'
  <2>1. UNCHANGED <<crowd, config, clock, entries>> /\ BypassReason(r) = "none"
    BY <1>3 DEF ReadOnlyMiss
  <2>2. PICK p \in Responses(r) : Keeps(r, BypassHeaders(r, "query", p), p)
    BY <1>3 DEF ReadOnlyMiss
  <2>3. PICK state \in {"query", "policy"} : BypassHeaders(r, "query", p) = Headers(r, state, p)
    BY DEF BypassHeaders, Headers
  <2>4. Sound(r, Headers(r, state, p), p)
    BY <2>1, PolicySound
  <2>5. \A c \in shared' : CopyOK(c)'
    <3>1. PICK h : Keeps(r, h, p) /\ Sound(r, h, p)
      BY <2>2, <2>3, <2>4, Zenon
    <3>2. QED
      BY <2>1, <3>1, KeptOK
  <2>6. QED
    BY <2>1, <2>5, EntriesKept DEF PolicyInv
<1>4. ASSUME NEW r \in crowd, Miss(r) PROVE PolicyInv'
  <2>1. /\ UNCHANGED <<crowd, config, clock>>
        /\ BypassReason(r) = "none" /\ ~Classified(r).readOnly
    BY <1>4 DEF Miss
  <2>2. PICK p \in Responses(r) :
          /\ Keeps(r, DownstreamHeaders(KeyDims(r), MissState(p), p), p)
          /\ \/ entries' = OtherEntries(r)
             \/ /\ MissState(p) = "miss"
                /\ entries' = OtherEntries(r) \cup
                     {[key |-> CacheKey(r), page |-> p.page, at |-> p.at, says |-> p.says]}
    BY <1>4 DEF Miss
  <2>3. PICK state \in {"miss", "policy", "private"} :
          state = MissState(p) /\ (state = "miss" => p.says # "private")
    BY DEF MissState
  <2>4. Sound(r, Headers(r, state, p), p)
    BY <2>1, <2>3, PolicySound
  <2>5. \A c \in shared' : CopyOK(c)'
    <3>1. PICK h : Keeps(r, h, p) /\ Sound(r, h, p)
      BY <2>2, <2>3, <2>4, Zenon DEF Headers
    <3>2. QED
      BY <2>1, <3>1, KeptOK
  <2>6. ASSUME NEW e \in entries' PROVE EntryOK(e)'
    <3>1. CASE e \in entries
      BY <2>1, <3>1, EntriesKept DEF PolicyInv
    <3>2. CASE e \notin entries
      <4>1. /\ e.key = CacheKey(r) /\ e.page = p.page /\ e.at = p.at /\ e.says = p.says
            /\ p.says # "private"
        BY <2>2, <2>3, <3>2 DEF OtherEntries
      <4>2. EntryOK(e)
        BY <2>1, <4>1, ResponseOK DEF EntryOK, PolicyInv
      <4>3. QED
        BY <2>1, <4>2, EntryKept DEF PolicyInv
    <3>3. QED
      BY <3>1, <3>2
  <2>7. QED
    BY <2>1, <2>5, <2>6 DEF PolicyInv
<1>5. ASSUME NEW r \in crowd, Fallback(r) PROVE PolicyInv'
  <2>1. UNCHANGED <<crowd, config, clock, entries>> /\ BypassReason(r) = "none"
    BY <1>5 DEF Fallback
  <2>2. PICK p \in Responses(r) : Keeps(r, BypassHeaders(r, "policy", p), p)
    BY <1>5 DEF Fallback
  <2>3. BypassHeaders(r, "policy", p) = Headers(r, "policy", p)
    BY DEF BypassHeaders, Headers
  <2>4. Sound(r, Headers(r, "policy", p), p)
    BY <2>1, PolicySound
  <2>5. \A c \in shared' : CopyOK(c)'
    <3>1. PICK h : Keeps(r, h, p) /\ Sound(r, h, p)
      BY <2>2, <2>3, <2>4, Zenon
    <3>2. QED
      BY <2>1, <3>1, KeptOK
  <2>6. QED
    BY <2>1, <2>5, EntriesKept DEF PolicyInv
<1>6. ASSUME Tick PROVE PolicyInv'
  <2>1. /\ UNCHANGED <<crowd, config, entries>> /\ shared' \subseteq shared
        /\ clock' \in Nat /\ clock =< clock'
    BY <1>6 DEF Tick, PolicyInv
  <2>2. \A c \in shared' : CopyOK(c)'
    BY <2>1 DEF PolicyInv, CopyOK, Vary, KeyDims, Rendered, PageFor, Shareable
  <2>3. QED
    BY <2>1, <2>2, EntriesKept DEF PolicyInv
<1>7. ASSUME UNCHANGED vars PROVE PolicyInv'
  <2>1. UNCHANGED <<crowd, config, clock, entries, shared>>
    BY <1>7 DEF vars
  <2>2. \A c \in shared' : CopyOK(c)'
    BY <2>1 DEF PolicyInv, CopyOK, Vary, KeyDims, Rendered, PageFor, Shareable
  <2>3. QED
    BY <2>1, <2>2, EntriesKept DEF PolicyInv
<1>8. QED
  BY <1>1, <1>2, <1>3, <1>4, <1>5, <1>6, <1>7 DEF Next

-----------------------------------------------------------------------------
(* The theorems.                                                           *)

\* Entries and copies are what they are meant to be, always.
THEOREM PolicyInvariant == Spec => []PolicyInv
<1>1. Init => PolicyInv
  BY DEF Init, PolicyInv
<1>2. PolicyInv /\ [Next]_vars => PolicyInv'
  BY PolicyStep, PolicyAssumption
<1>3. QED
  BY <1>1, <1>2, PTL DEF Spec

\* The key and the reasons to bypass (buildCacheKeyFor, bypassReasonFor) cover all a
\* page depends on: a hit is the page the origin would have rendered for the request.
THEOREM OwnPageHeld == Spec => []OwnPage
<1>1. PolicyInv => OwnPage
  BY CachedOwn, PolicyAssumption DEF OwnPage
<1>2. QED
  BY <1>1, PolicyInvariant, PTL

\* No shared cache gets to keep one visitor's page (applyDownstreamCacheHeaders).
THEOREM PersonalPagesKept == Spec => []PersonalNotShared
<1>1. PolicyInv => PersonalNotShared
  BY DEF PolicyInv, CopyOK, Shareable, PersonalNotShared
<1>2. QED
  BY <1>1, PolicyInvariant, PTL

\* What the origin calls private is neither stored nor advertised (WriteHeader).
THEOREM OriginPrivateHeld == Spec => []OriginPrivateKept
<1>1. PolicyInv => OriginPrivateKept
  BY DEF PolicyInv, EntryOK, CopyOK, OriginPrivateKept
<1>2. QED
  BY <1>1, PolicyInvariant, PTL

\* The lives of an entry and of the copies made of it together are one CacheTTL.
THEOREM OneTTL == Spec => []WithinTTL
<1>1. PolicyInv => WithinTTL
  BY DEF PolicyInv, CopyOK, WithinTTL
<1>2. QED
  BY <1>1, PolicyInvariant, PTL

\* What a shared cache sends a visitor is the page of its own request (buildCacheKeyFor,
\* bypassReasonFor, Vary), but for a keyed header or cookie that the copy's Vary does not
\* name because the request it was made for had none.
THEOREM OwnPageShared == Spec => []SharedOwnPage
<1>1. ASSUME PolicyInv PROVE SharedOwnPage
  <2> SUFFICES ASSUME NEW c \in shared, NEW r \in crowd, Selects(c, r)
               PROVE  /\ \A f \in {"path", "keyed", "other", "array", "private"} :
                           c.page[f] = Rendered(r)[f]
                      /\ c.page.click \in {None, Rendered(r).click}
                      /\ \/ c.page.language = Rendered(r).language
                         \/ "language" \notin c.vary /\ c.page.language = None
                      /\ \A k \in config.keyCookies : c.page.cookies[k] = None
    BY DEF SharedOwnPage
  <2>1. /\ c.vary = Vary(KeyDims(c.request)) /\ PageFor(c.request, c.page)
        /\ Shareable(c.page) /\ config \in Configs
    BY <1>1 DEF PolicyInv, CopyOK
  <2>2. /\ c.request.path = r.path /\ c.request.keyed = r.keyed
        /\ c.request.other = r.other /\ c.request.array = r.array
        /\ c.request.private = r.private /\ c.request.click = r.click
    BY DEF Selects, URL
  <2>3. /\ \A f \in {"path", "keyed", "other", "array", "private"} : c.page[f] = Rendered(r)[f]
        /\ c.page.click \in {None, Rendered(r).click}
    BY <2>1, <2>2 DEF PageFor, SameButClick, Rendered
  <2>4. c.page.language = Rendered(c.request).language
    BY <2>1 DEF PageFor, SameButClick
  <2>5. \A k \in config.keyCookies : c.page.cookies[k] = None
    BY <2>1, PolicyAssumption DEF Shareable, Personal, PolicyAssumption
  <2>6. CASE "language" \in c.vary
    BY <2>3, <2>4, <2>5, <2>6 DEF Selects, Rendered
  <2>7. CASE "language" \notin c.vary
    <3>1. ~config.keyLanguage \/ c.request.language = None
      BY <2>1, <2>7 DEF Vary, KeyDims
    <3>2. c.page.language = None
      BY <2>4, <3>1 DEF Rendered
    <3>3. QED
      BY <2>3, <2>5, <2>7, <3>2
  <2>8. QED
    BY <2>6, <2>7
<1>2. QED
  BY <1>1, PolicyInvariant, PTL
=============================================================================
