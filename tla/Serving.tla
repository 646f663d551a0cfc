------------------------------ MODULE Serving -------------------------------
(***************************************************************************)
(* How one URL's entry is turned into an answer: the streamed read          *)
(* (tryServeStreamed, Storage.GetReader), the buffered read (Storage.Get and *)
(* the HIT branch of ServeHTTP), and the miss, with conditions, ranges       *)
(* and encodings.                                                          *)
(*                                                                         *)
(* A body is the VERSION the origin rendered and the encoding its bytes are  *)
(* in; a range of it is a window on those bytes. A client keeps what it was  *)
(* sent and asks again: to revalidate it, or to resume a broken download.    *)
(* Another visitor's request, an edit or a purge may come between any two    *)
(* steps. Each read of the store is one step, under cacheMu.RLock.           *)
(*                                                                         *)
(* A definition whose name starts with Wrong is the one that follows it     *)
(* with a plausible bug in it; see Sidekick.tla.                            *)
(***************************************************************************)
EXTENDS Naturals

CONSTANTS
  Clients,
  Configs,      \* the sites to consider; see ServingAssumption
  MaxVersion,   \* bound: how often the page is edited
  MaxRequests,  \* bound: how often a client asks
  None

Versions == 0..MaxVersion

(***************************************************************************)
(* A site: the Accept-Encoding headers of its visitors, whether the cache    *)
(* key holds them (the default of cache_key_headers), the validators its     *)
(* origin sends (an ETag; a Last-Modified that is the same for two edits     *)
(* within a second), whether range_fill is on, and whether                   *)
(* cache_response_codes covers 206.                                        *)
(***************************************************************************)
ASSUME ServingAssumption ==
  /\ MaxVersion \in Nat /\ MaxRequests \in Nat
  /\ None \notin Versions \X {"identity", "gzip"}
  /\ Configs \subseteq [accept : SUBSET {"none", "gzip", "any", "refuses"},
                       aeKeyed : BOOLEAN, etag : {"none", "weak", "strong"},
                       dated : {"no", "distinct", "same"},
                       rangeFill : BOOLEAN, partial : BOOLEAN]

VARIABLES
  config,   \* the site, one of Configs
  version,  \* what the origin renders now
  cache,    \* cache[s]: the entry of the key s
  pc,       \* pc[c]: where the request of client c is
  req,      \* req[c]: what it asks
  asked,    \* asked[c]: the number of its requests
  copy,     \* copy[c]: what the client keeps
  last,     \* last[c]: the answer to its latest request
  joined    \* joined[c]: the bodies its latest resumed download is made of

site == <<config, version>>
client == <<req, asked, copy, last, joined>>
vars == <<site, cache, pc, client>>

-----------------------------------------------------------------------------
(* Requests, entries and validators. *)

\* "refuses" is gzip;q=0; "none" is no Accept-Encoding, or identity; "any" is *.
Encodings == {"none", "gzip", "any", "refuses"}

\* What the header means, and what the code makes of it once q is cut off.
Accepts(ae, enc) == enc = "identity" \/ ae \in {"gzip", "any"}
TakenToAccept(ae, enc) == enc = "identity" \/ ae # "none"

\* clientWantsCompression: the first name listed that means anything.
ClientWantsCompression(ae) == ae \in {"gzip", "refuses"}

\* The ETag of a body, as the origin makes it; an encoded body has one of its own.
Tag(v, enc) == IF config.etag = "none" THEN None ELSE <<v, enc>>

\* Its Last-Modified, to the second.
Date(v) ==
  CASE config.dated = "no" -> None
    [] config.dated = "same" -> 0
    [] OTHER -> v

\* A request; a range is "part" of the body, "many" parts, or "beyond" its end.
Plain(ae) == [ae |-> ae, range |-> "none", ifRange |-> "none", ifNoneMatch |-> "none",
              ifModifiedSince |-> FALSE, ifMatch |-> FALSE, ifUnmodifiedSince |-> FALSE]

NoCopy == [v |-> None, enc |-> "identity", tag |-> None, date |-> None, broken |-> FALSE]

Known(x) == x # None

Ranged(ae, range) == [Plain(ae) EXCEPT !.range = range]

\* If-None-Match: * asks whether there is anything at all.
Probe(ae) == [Plain(ae) EXCEPT !.ifNoneMatch = "star"]

\* Is the copy still good? By its tag as well as its date, or by the date alone.
Revalidation(ae, k, tagged) ==
  [Plain(ae) EXCEPT !.ifNoneMatch = IF tagged /\ Known(k.tag) THEN "tag" ELSE "none",
                    !.ifModifiedSince = Known(k.date)]

\* Only if it is what the client has.
Guarded(ae, k) ==
  [Plain(ae) EXCEPT !.ifMatch = Known(k.tag),
                    !.ifUnmodifiedSince = Known(k.date) /\ ~Known(k.tag)]

\* The rest of a download that broke off.
Resumption(ae, k) ==
  [Plain(ae) EXCEPT !.range = "part", !.ifRange = IF Known(k.tag) THEN "tag" ELSE "date"]

Resumable(k) == k.broken /\ (Known(k.tag) \/ Known(k.date))

\* What a client with the copy k may ask. The validators are those of its copy.
Asks(k) ==
  {Ranged(ae, range) : ae \in config.accept, range \in {"none", "part", "many", "beyond"}}
  \cup {Probe(ae) : ae \in config.accept}
  \cup {Revalidation(ae, k, tagged) : ae \in config.accept, tagged \in BOOLEAN}
  \cup {Guarded(ae, k) : ae \in config.accept}
  \cup {Resumption(ae, k) : ae \in IF Resumable(k) THEN config.accept ELSE {}}

Slots == Encodings \cup {"shared"}
Slot(ae) == IF config.aeKeyed THEN ae ELSE "shared"

Entry == [status : {200, 404, 206}, v : Versions, enc : {"identity", "gzip"},
          tier : {"memory", "disk"}, packed : BOOLEAN, old : BOOLEAN]

NoAnswer == [status |-> 0, v |-> None, enc |-> "identity", label |-> "identity",
             tag |-> None, date |-> None]

\* An answer whose body is in enc and says it is in label.
Answer(status, v, enc, label, tag) ==
  [status |-> status, v |-> v, enc |-> enc, label |-> label, tag |-> tag,
   date |-> Date(v)]

Init ==
  /\ config \in Configs
  /\ version = 0
  /\ cache = [s \in Slots |-> None]
  /\ pc = [c \in Clients |-> "idle"]
  /\ req = [c \in Clients |-> Plain("none")]
  /\ asked = [c \in Clients |-> 0]
  /\ copy = [c \in Clients |-> NoCopy]
  /\ last = [c \in Clients |-> NoAnswer]
  /\ joined = [c \in Clients |-> {}]

-----------------------------------------------------------------------------
(* Conditions and ranges, for a request r of a client that keeps k, against a *)
(* body with a tag and a date.                                              *)

StrongMatch(k, tag) == config.etag = "strong" /\ Known(tag) /\ k.tag = tag
WeakMatch(k, tag) == Known(tag) /\ k.tag = tag
NotSince(k, date) == Known(date) /\ Known(k.date) /\ date =< k.date

PreconditionFails(r, k, tag, date) ==
  IF r.ifMatch THEN ~StrongMatch(k, tag)
  ELSE r.ifUnmodifiedSince /\ Known(date) /\ ~NotSince(k, date)

NotModified(r, k, tag, date) ==
  \/ r.ifNoneMatch = "star"
  \/ r.ifNoneMatch = "tag" /\ WeakMatch(k, tag)
  \/ r.ifNoneMatch = "none" /\ r.ifModifiedSince /\ NotSince(k, date)

\* No range is asked for, or only of a body that this is not.
WholeWanted(r, k, tag, date) ==
  \/ r.range = "none"
  \/ r.ifRange = "tag" /\ ~StrongMatch(k, tag)
  \/ r.ifRange = "date" /\ ~(Known(date) /\ k.date = date)

\* http.ServeContent: RFC 9110's order of preconditions, then the range.
ServeContent(r, k, tag, date) ==
  IF PreconditionFails(r, k, tag, date) THEN 412
  ELSE IF NotModified(r, k, tag, date) THEN 304
  ELSE IF WholeWanted(r, k, tag, date) THEN 200
  ELSE IF r.range = "beyond" THEN 416 ELSE 206

WrongShouldReturn304(r, k, tag, date) ==
  \/ r.ifNoneMatch = "star" /\ Known(tag)
  \/ r.ifNoneMatch = "tag" /\ WeakMatch(k, tag)
  \/ r.ifModifiedSince /\ NotSince(k, date)

\* If-None-Match decides alone if it is there; without a stored ETag it fails.
ShouldReturn304(r, k, tag, date) ==
  CASE r.ifNoneMatch = "star" -> Known(tag)
    [] r.ifNoneMatch = "tag" -> WeakMatch(k, tag)
    [] OTHER -> r.ifModifiedSince /\ NotSince(k, date)

-----------------------------------------------------------------------------
(* The two ways of serving an entry. *)

Identity200(e) == e.status = 200 /\ e.enc = "identity"

\* tryServeStreamed: ServeContent gets its say after shouldReturn304.
Streamed(e, r, k) ==
  LET tag == Tag(e.v, e.enc)
      status == IF r.range = "none" /\ ShouldReturn304(r, k, tag, Date(e.v))
                  THEN 304 ELSE ServeContent(r, k, tag, Date(e.v))
  IN Answer(status, e.v, "identity", "identity", tag)

WrongCanRange(e, r) == r.range # "none" /\ r.ifRange = "none" /\ Identity200(e)

CanRange(e, r) == r.range # "none" /\ Identity200(e)

WrongEncode(e, r) ==
  IF ClientWantsCompression(r.ae)
    THEN [enc |-> "gzip", label |-> "identity"]
    ELSE [enc |-> e.enc, label |-> e.enc]

\* The encoding of a buffered answer: the label is set only if the client seems to
\* accept what is stored, the bytes are sent either way.
Encode(e, r) ==
  IF e.enc # "identity"
    THEN [enc |-> e.enc, label |-> IF TakenToAccept(r.ae, e.enc) THEN e.enc ELSE "identity"]
  ELSE IF ClientWantsCompression(r.ae)
    THEN [enc |-> "gzip", label |-> "gzip"]
  ELSE [enc |-> "identity", label |-> "identity"]

\* An error page has no ETag to store.
StoredTag(e) == IF e.status = 404 THEN None ELSE Tag(e.v, e.enc)

WrongBuffered(e, r, k) ==
  LET tag == StoredTag(e)
      body == Encode(e, r)
  IN IF CanRange(e, r)
       THEN Answer(ServeContent(r, k, tag, Date(e.v)), e.v, body.enc, body.label, tag)
     ELSE IF ShouldReturn304(r, k, tag, Date(e.v))
       THEN Answer(304, e.v, e.enc, e.enc, tag)
     ELSE Answer(e.status, e.v, body.enc, body.label, tag)

\* The HIT branch of ServeHTTP. The headers stored with the entry, its ETag among
\* them, go out whatever the body is encoded in.
Buffered(e, r, k) ==
  LET tag == StoredTag(e)
      body == Encode(e, r)
  IN IF CanRange(e, r)
       THEN Answer(ServeContent(r, k, tag, Date(e.v)), e.v, e.enc, e.enc, tag)
     ELSE IF ShouldReturn304(r, k, tag, Date(e.v))
       THEN Answer(304, e.v, e.enc, e.enc, tag)
     ELSE Answer(e.status, e.v, body.enc, body.label, tag)

-----------------------------------------------------------------------------
(* The client. *)

Goto(c, from, to) == pc[c] = from /\ pc' = [pc EXCEPT ![c] = to]

Arrive(c, r) ==
  /\ Goto(c, "idle", "stream")
  /\ asked[c] < MaxRequests
  /\ r \in Asks(copy[c])
  /\ req' = [req EXCEPT ![c] = r]
  /\ asked' = [asked EXCEPT ![c] = @ + 1]
  /\ last' = [last EXCEPT ![c] = NoAnswer]
  /\ joined' = [joined EXCEPT ![c] = {}]
  /\ UNCHANGED <<site, cache, copy>>

\* The request of c ends with the answer a. A whole body replaces what the client
\* keeps, and may break off; a window that continues a broken one completes it.
Finish(c, a) ==
  /\ pc' = [pc EXCEPT ![c] = "idle"]
  /\ last' = [last EXCEPT ![c] = a]
  /\ IF a.status = 206 /\ req[c].ifRange # "none"
       THEN /\ joined' = [joined EXCEPT ![c] =
                            {<<copy[c].v, copy[c].enc>>, <<a.v, a.enc>>}]
            /\ copy' = [copy EXCEPT ![c].broken = FALSE]
     ELSE IF a.status = 200
       THEN \E broken \in BOOLEAN :
              /\ copy' = [copy EXCEPT ![c] = [v |-> a.v, enc |-> a.enc, tag |-> a.tag,
                                              date |-> a.date, broken |-> broken]]
              /\ UNCHANGED joined
     ELSE UNCHANGED <<copy, joined>>
  /\ UNCHANGED <<site, req, asked>>

-----------------------------------------------------------------------------
(* Reads of the store: they find no entry, an expired one, or one to serve.  *)

Found(c) == cache[Slot(req[c].ae)]
Fresh(e) == e # None /\ ~e.old

\* An expired entry on disk is deleted on the spot, one in memory in the
\* background (Vanish).
FindOld(c) ==
  /\ Found(c) # None /\ Found(c).old
  /\ cache' = IF Found(c).tier = "disk"
                THEN [cache EXCEPT ![Slot(req[c].ae)] = None] ELSE cache

FindNone(c) == Found(c) = None /\ UNCHANGED cache

FindFresh(c) == Fresh(Found(c)) /\ UNCHANGED cache

\* A body that is to be compressed is not worth opening.
SkipStream(c) ==
  /\ ClientWantsCompression(req[c].ae)
  /\ Goto(c, "stream", "get")
  /\ UNCHANGED <<site, cache, client>>

\* GetReader, and tryServeStreamed, which closes the reader of anything but an
\* identity 200. What is compressed on disk is not streamable.
TryStream(c) ==
  /\ pc[c] = "stream" /\ ~ClientWantsCompression(req[c].ae)
  /\ \/ /\ FindFresh(c) /\ ~Found(c).packed /\ Identity200(Found(c))
        /\ Finish(c, Streamed(Found(c), req[c], copy[c]))
     \/ /\ Goto(c, "stream", "get")
        /\ \/ FindNone(c) \/ FindOld(c)
           \/ FindFresh(c) /\ (Found(c).packed \/ ~Identity200(Found(c)))
        /\ UNCHANGED <<site, client>>

\* Get, and the HIT branch of ServeHTTP.
Get(c) ==
  /\ pc[c] = "get"
  /\ \/ FindFresh(c) /\ Finish(c, Buffered(Found(c), req[c], copy[c]))
     \/ /\ FindNone(c) \/ FindOld(c)
        /\ Goto(c, "get", "miss")
        /\ UNCHANGED <<site, client>>

-----------------------------------------------------------------------------
(* The miss. *)

\* What the origin answers a request with the encodings ae: the page as it is now,
\* or that there is none, encoded in a way the client accepts.
OriginAnswers(r, k) ==
  {Answer(ServeContent(r, k, Tag(version, enc), Date(version)), version, enc, enc,
          Tag(version, enc)) :
     enc \in {x \in {"identity", "gzip"} : Accepts(r.ae, x)}} \cup
  {Answer(404, version, "identity", "identity", None)}

\* WriteHeader: the status is listed, and no header such as Content-Range, which a
\* 206 with several ranges does not have, forbids it.
Cacheable(a, r) ==
  \/ a.status \in {200, 404}
  \/ a.status = 206 /\ config.partial /\ r.range = "many"

\* Close and SetWithKey: in either tier; on disk, perhaps compressed.
Entries(a) ==
  {e \in Entry : /\ <<e.status, e.v, e.enc>> = <<a.status, a.v, a.enc>> /\ ~e.old
                 /\ e.packed => e.tier = "disk" /\ e.enc = "identity"}

WrongWholeOf(r) == [r EXCEPT !.ifRange = "none"]

\* serveRangeFill asks for the whole body.
WholeOf(r) == [r EXCEPT !.range = "none", !.ifRange = "none"]

\* The answer to r out of the captured answer a: ServeContent without a date.
FromCapture(a, r, k) == [a EXCEPT !.status = ServeContent(r, k, a.tag, None)]

IsRangeFill(r) == config.rangeFill /\ r.range # "none"

\* The request goes to the origin through ResponseWriter.
Fill(c) ==
  LET r == req[c]  sent == IF IsRangeFill(r) THEN WholeOf(r) ELSE r IN
  /\ pc[c] = "miss"
  /\ \E a \in OriginAnswers(sent, copy[c]) :
       /\ Finish(c, IF IsRangeFill(r) /\ a.status = 200
                      THEN FromCapture(a, r, copy[c]) ELSE a)
       /\ IF Cacheable(a, sent)
            THEN \E e \in Entries(a) : cache' = [cache EXCEPT ![Slot(r.ae)] = e]
            ELSE UNCHANGED cache

\* awaitFill behind another request's fill: read the store again, or let the origin
\* answer the range, past the cache, when the read or the wait comes to nothing.
Follow(c) ==
  /\ pc[c] = "miss" /\ IsRangeFill(req[c])
  /\ \/ /\ FindFresh(c) /\ Identity200(Found(c))
        /\ Finish(c, Streamed(Found(c), req[c], copy[c]))
     \/ /\ \E a \in OriginAnswers(req[c], copy[c]) : Finish(c, a)
        /\ \/ FindNone(c) \/ FindOld(c)
           \/ FindFresh(c) /\ ~Identity200(Found(c))
           \/ UNCHANGED cache

-----------------------------------------------------------------------------
(* Everybody else. *)

Publish ==
  /\ version < MaxVersion
  /\ version' = version + 1
  /\ UNCHANGED <<config, cache, pc, client>>

\* Another visitor's plain miss.
OthersFill(ae) ==
  /\ cache[Slot(ae)] = None
  /\ \E a \in OriginAnswers(Plain(ae), NoCopy) : \E e \in Entries(a) :
       cache' = [cache EXCEPT ![Slot(ae)] = e]
  /\ UNCHANGED <<site, pc, client>>

\* Evicted, purged, or removed by purgeAsync.
Vanish(s) ==
  /\ cache[s] # None
  /\ cache' = [cache EXCEPT ![s] = None]
  /\ UNCHANGED <<site, pc, client>>

\* The entry outlives the TTL.
Expire(s) ==
  /\ cache[s] # None /\ ~cache[s].old
  /\ cache' = [cache EXCEPT ![s].old = TRUE]
  /\ UNCHANGED <<site, pc, client>>

Next ==
  \/ Publish
  \/ \E s \in Slots : Vanish(s) \/ Expire(s)
  \/ \E ae \in config.accept : OthersFill(ae)
  \/ \E c \in Clients :
       \/ \E r \in Asks(copy[c]) : Arrive(c, r)
       \/ SkipStream(c) \/ TryStream(c) \/ Get(c) \/ Fill(c) \/ Follow(c)

Spec == Init /\ [][Next]_vars

-----------------------------------------------------------------------------
(* Properties. *)

Answered(c) == pc[c] = "idle" /\ asked[c] > 0

\* Where the bytes lie, in memory, on disk as they are or on disk compressed, does
\* not show in the answer ("Conditional handling matches the buffered path",
\* sidekick.go:2421). It does in two cases: ServeContent, which only the streamed
\* path calls without a Range, knows If-Match and If-Unmodified-Since, and takes
\* If-None-Match: * to match an entry without an ETag.
TierInvisible ==
  \A c \in Clients :
    LET r == req[c]  e == Found(c) IN
    \/ ~Fresh(e) \/ pc[c] \notin {"stream", "get"}
    \/ ~Identity200(e) \/ ClientWantsCompression(r.ae)
    \/ r.range = "none" /\ (r.ifMatch \/ r.ifUnmodifiedSince)
    \/ r.ifNoneMatch = "star" /\ config.etag = "none"
    \/ Streamed(e, r, copy[c]) = Buffered(e, r, copy[c])

\* A client told 304 (shouldReturn304, ServeContent) holds the version the answer is
\* about, whatever happened to the page and the entry since it got it. If it sent a
\* date only, its version may also be a later one than the entry's, which the date
\* cannot tell, or one written within the same second.
NotModifiedIsSame ==
  \A c \in Clients :
    Answered(c) /\ last[c].status = 304 /\ req[c].ifNoneMatch # "star" =>
      \/ last[c].v = copy[c].v
      \/ req[c].ifNoneMatch = "none" /\ (config.dated = "same" \/ last[c].v < copy[c].v)

\* A download resumed under If-Range is made of pieces of one body. The HIT branch
\* breaks this for a body it compressed itself, which it sends with the ETag of the
\* stored bytes, the bytes a range is then taken out of; a date is too coarse a
\* validator to resume by; and a partial answer that became the entry (see
\* PartialOnlyUnfilled) is sent to whoever asks, whatever the If-Range.
ResumeJoinsOne ==
  \A c \in Clients :
    \/ \A x, y \in joined[c] : x = y
    \/ copy[c].tag # Tag(copy[c].v, copy[c].enc)
    \/ req[c].ifRange = "date"
    \/ config.partial /\ ~config.rangeFill

\* A body goes out under the name of the encoding it is in, and in one the client
\* accepts, unless Accept-Encoding was taken out of the cache key, where one
\* client's encoded entry is another's (and loses its label on the way), or the
\* client refused an encoding by q=0.
ClientCanRead ==
  \A c \in Clients :
    Answered(c) /\ last[c].status \in {200, 206, 404} =>
      /\ last[c].label = last[c].enc \/ ~config.aeKeyed
      /\ \/ Accepts(req[c].ae, last[c].enc)
         \/ ~config.aeKeyed \/ req[c].ae = "refuses"

\* A partial answer becomes the entry only if range_fill is off and the configured
\* codes cover 206: several ranges come without the Content-Range header that
\* keeps a 206 out of the cache.
PartialOnlyUnfilled ==
  \A s \in Slots :
    cache[s] # None /\ cache[s].status = 206 => config.partial /\ ~config.rangeFill
=============================================================================
