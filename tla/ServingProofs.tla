---------------------------- MODULE ServingProofs ----------------------------
(***************************************************************************)
(* The properties of Serving.tla, proved for every set of clients and of     *)
(* sites, and any number of edits and requests.                             *)
(*                                                                         *)
(* Whatever the path, an answer is Right: what it says of the body it is    *)
(* about follows from the validators that the client sent, and its encoding *)
(* from the slot of the entry. That is shown of the pure part, path by      *)
(* path; the steps then need that what a client keeps is as the origin made *)
(* it (CopyOK), and that an entry suits its slot (EntryOK).                 *)
(***************************************************************************)
EXTENDS Serving, TLAPS

Names == {"identity", "gzip"}
Bodies == (Versions \cup {None}) \X Names
Tags == (Versions \X Names) \cup {None}
Dates == Versions \cup {None}

Requests == [ae : Encodings, range : {"none", "part", "many", "beyond"},
             ifRange : {"none", "tag", "date"}, ifNoneMatch : {"none", "tag", "star"},
             ifModifiedSince : BOOLEAN, ifMatch : BOOLEAN, ifUnmodifiedSince : BOOLEAN]

Copies == [v : Versions \cup {None}, enc : Names, tag : Tags, date : Dates,
           broken : BOOLEAN]

Statuses == {0, 200, 206, 304, 404, 412, 416}
Answers == [status : Statuses, v : Versions \cup {None}, enc : Names, label : Names,
            tag : Tags, date : Dates]

\* A tag and a date that the origin gave the version v, in some encoding.
Genuine(v, tag, date) ==
  /\ v \in Versions
  /\ tag \in {Tag(v, enc) : enc \in Names}
  /\ date = Date(v)

\* What a client keeps: nothing yet, or a version with its own validators.
CopyOK(k) == (k.tag = None /\ k.date = None) \/ Genuine(k.v, k.tag, k.date)

\* An entry is whole unless the site stores parts, and in an encoding of its slot.
EntryOK(s, e) ==
  /\ e.status = 206 => config.partial /\ ~config.rangeFill
  /\ config.aeKeyed => Accepts(s, e.enc)

\* A 304 about the version v tells a client that keeps k, and asked r, the truth.
Unmodified(r, k, v) ==
  \/ r.ifNoneMatch = "star" \/ v = k.v
  \/ r.ifNoneMatch = "none" /\ (config.dated = "same" \/ v < k.v)

\* A part of a body continues the client's copy.
Continues(r, k, tag) ==
  \/ r.ifRange \in {"none", "date"}
  \/ Known(tag) /\ k.tag = tag

Readable(r, a) ==
  /\ a.label = a.enc \/ ~config.aeKeyed
  /\ Accepts(r.ae, a.enc) \/ ~config.aeKeyed \/ r.ae = "refuses"

\* The answer a is right for a client that keeps k and asked r.
Right(r, k, a) ==
  /\ a \in Answers
  /\ a.status = 200 => Genuine(a.v, a.tag, a.date)
  /\ a.status = 304 => Unmodified(r, k, a.v)
  /\ a.status = 206 => \/ config.partial /\ ~config.rangeFill
                       \/ Continues(r, k, Tag(a.v, a.enc))
  /\ a.status \in {200, 206, 404} => Readable(r, a)

-----------------------------------------------------------------------------
(* Validators and conditions.                                              *)

LEMMA TagTyped ==
  ASSUME NEW v \in Versions, NEW enc \in Names
  PROVE  Tag(v, enc) \in Tags /\ Date(v) \in Dates
  BY ServingAssumption DEF Tag, Date, Tags, Dates, Versions

\* A body with no ETag has none in any encoding; one ETag is of one body.
LEMMA TagNames ==
  ASSUME NEW v \in Versions, NEW enc \in Names, NEW w \in Versions, NEW other \in Names,
         Known(Tag(v, enc)), Tag(w, other) = Tag(v, enc)
  PROVE  w = v /\ other = enc
  BY DEF Tag, Known

\* A matching ETag is of the version that the client keeps.
LEMMA SameTag ==
  ASSUME NEW v \in Versions, NEW enc \in Names, NEW k, CopyOK(k),
         Known(Tag(v, enc)), k.tag = Tag(v, enc)
  PROVE  k.v = v
<1>1. PICK other \in Names : k.v \in Versions /\ k.tag = Tag(k.v, other)
  BY DEF CopyOK, Genuine, Known
<1>2. PICK w \in Versions : w = k.v
  BY <1>1
<1>3. QED
  BY <1>1, <1>2, TagNames

\* A date that is not later is the same date, that of a copy of the same second, or
\* one of an earlier version.
LEMMA SameDate ==
  ASSUME NEW v \in Versions, NEW k, CopyOK(k), NotSince(k, Date(v)),
         config.dated \in {"no", "distinct", "same"}
  PROVE  v = k.v \/ config.dated = "same" \/ v < k.v
<1>1. k.v \in Versions /\ k.date = Date(k.v)
  BY DEF CopyOK, Genuine, NotSince, Known
<1>2. CASE config.dated = "distinct"
  <2>1. k.date = k.v /\ Date(v) = v
    BY <1>1, <1>2 DEF Date
  <2>2. v =< k.v
    BY <2>1 DEF NotSince
  <2>3. QED
    BY <1>1, <2>2, ServingAssumption DEF Versions
<1>3. CASE config.dated = "no"
  BY <1>3 DEF Date, NotSince, Known
<1>4. QED
  BY <1>2, <1>3

LEMMA SiteTyped ==
  ASSUME config \in Configs
  PROVE  /\ config.dated \in {"no", "distinct", "same"}
         /\ config.etag \in {"none", "weak", "strong"}
         /\ config.accept \subseteq Encodings
  BY ServingAssumption DEF Encodings

\* A 304 of either judge is right.
LEMMA Unchanged ==
  ASSUME config \in Configs, NEW v \in Versions, NEW enc \in Names,
         NEW date \in {None, Date(v)}, NEW k, CopyOK(k), NEW r \in Requests,
         \/ ShouldReturn304(r, k, Tag(v, enc), date)
         \/ ServeContent(r, k, Tag(v, enc), date) = 304
  PROVE  Unmodified(r, k, v)
<1>1. \/ r.ifNoneMatch = "star"
      \/ WeakMatch(k, Tag(v, enc))
      \/ r.ifNoneMatch = "none" /\ NotSince(k, date)
  BY DEF ShouldReturn304, ServeContent, NotModified, PreconditionFails, WholeWanted, Requests
<1>2. CASE WeakMatch(k, Tag(v, enc))
  BY <1>2, SameTag DEF WeakMatch, Unmodified
<1>3. CASE r.ifNoneMatch = "none" /\ NotSince(k, date)
  <2>1. NotSince(k, Date(v))
    BY <1>3 DEF NotSince, Known
  <2>2. QED
    BY <1>3, <2>1, SameDate, SiteTyped DEF Unmodified
<1>4. QED
  BY <1>1, <1>2, <1>3 DEF Unmodified

LEMMA Statused ==
  ASSUME NEW r, NEW k, NEW tag, NEW date
  PROVE  /\ ServeContent(r, k, tag, date) \in Statuses \ {0, 404}
         /\ ServeContent(r, k, tag, date) = 206 => r.range # "none"
  BY DEF ServeContent, WholeWanted, Statuses

\* What ServeContent makes of a condition on a part.
LEMMA PartContinues ==
  ASSUME NEW r \in Requests, NEW k, NEW tag, NEW date,
         ServeContent(r, k, tag, date) = 206
  PROVE  Continues(r, k, tag)
  BY DEF ServeContent, WholeWanted, Requests, Continues, StrongMatch

-----------------------------------------------------------------------------
(* The ways to an answer.                                                  *)

\* What ServeContent answers about a body is right if the encoding is readable.
LEMMA ServedRight ==
  ASSUME config \in Configs, NEW v \in Versions, NEW enc \in Names,
         NEW date \in {None, Date(v)}, NEW k, CopyOK(k), NEW r \in Requests,
         NEW a, a = [status |-> ServeContent(r, k, Tag(v, enc), date), v |-> v, enc |-> enc,
                     label |-> enc, tag |-> Tag(v, enc), date |-> Date(v)],
         Accepts(r.ae, enc) \/ ~config.aeKeyed
  PROVE  Right(r, k, a)
<1>1. a \in Answers
  BY Statused, TagTyped DEF Answers
<1>2. a.status = 200 => Genuine(a.v, a.tag, a.date)
  BY DEF Genuine
<1>3. a.status = 304 => Unmodified(r, k, a.v)
  BY Unchanged
<1>4. a.status = 206 => Continues(r, k, Tag(a.v, a.enc))
  BY PartContinues
<1>5. QED
  BY <1>1, <1>2, <1>3, <1>4 DEF Right, Readable

LEMMA StreamedRight ==
  ASSUME config \in Configs, NEW e \in Entry, Identity200(e), NEW k, CopyOK(k),
         NEW r \in Requests
  PROVE  Right(r, k, Streamed(e, r, k))
<1> DEFINE a == Streamed(e, r, k)
           tag == Tag(e.v, "identity")
<1>1. e.v \in Versions /\ "identity" \in Names /\ Accepts(r.ae, "identity")
  BY DEF Entry, Names, Accepts
<1>2. CASE r.range = "none" /\ ShouldReturn304(r, k, tag, Date(e.v))
  <2>1. a = [status |-> 304, v |-> e.v, enc |-> "identity", label |-> "identity",
             tag |-> tag, date |-> Date(e.v)]
    BY <1>2 DEF Streamed, Answer, Identity200
  <2>2. Unmodified(r, k, e.v)
    BY <1>1, <1>2, Unchanged
  <2>3. QED
    BY <1>1, <2>1, <2>2, TagTyped DEF Right, Answers, Statuses
<1>3. CASE ~(r.range = "none" /\ ShouldReturn304(r, k, tag, Date(e.v)))
  <2>1. a = [status |-> ServeContent(r, k, tag, Date(e.v)), v |-> e.v,
             enc |-> "identity", label |-> "identity", tag |-> tag, date |-> Date(e.v)]
    BY <1>3 DEF Streamed, Answer, Identity200
  <2>2. QED
    BY <1>1, <2>1, ServedRight
<1>4. QED
  BY <1>2, <1>3

\* The encoding that the HIT branch sends, and how it calls it.
LEMMA EncodeReadable ==
  ASSUME NEW e \in Entry, NEW r \in Requests, NEW body, body = Encode(e, r),
         config.aeKeyed => Accepts(r.ae, e.enc)
  PROVE  /\ body.enc \in Names /\ body.label \in Names
         /\ body.label = body.enc \/ ~config.aeKeyed
         /\ Accepts(r.ae, body.enc) \/ ~config.aeKeyed \/ r.ae = "refuses"
  BY DEF Encode, Entry, Names, Accepts, TakenToAccept, ClientWantsCompression, Requests,
         Encodings

LEMMA BufferedRight ==
  ASSUME config \in Configs, NEW e \in Entry, NEW k, CopyOK(k), NEW r \in Requests,
         EntryOK(r.ae, e)
  PROVE  Right(r, k, Buffered(e, r, k))
<1> DEFINE a == Buffered(e, r, k)
           body == Encode(e, r)
           stored == StoredTag(e)
<1>1. /\ e.v \in Versions /\ e.enc \in Names /\ e.status \in {200, 404, 206}
      /\ Date(e.v) \in Dates
  BY TagTyped DEF Entry, Names
<1>2. stored \in {None, Tag(e.v, e.enc)} /\ stored \in Tags
  BY <1>1, TagTyped DEF StoredTag, Tags
<1>3. CASE CanRange(e, r)
  <2>1. a = [status |-> ServeContent(r, k, Tag(e.v, e.enc), Date(e.v)), v |-> e.v,
             enc |-> e.enc, label |-> e.enc, tag |-> Tag(e.v, e.enc), date |-> Date(e.v)]
    BY <1>3 DEF Buffered, Answer, CanRange, Identity200, StoredTag
  <2>2. Accepts(r.ae, e.enc)
    BY <1>3 DEF CanRange, Identity200, Accepts
  <2>3. QED
    BY <1>1, <2>1, <2>2, ServedRight
<1>4. CASE ~CanRange(e, r) /\ ShouldReturn304(r, k, stored, Date(e.v))
  <2>1. a = [status |-> 304, v |-> e.v, enc |-> e.enc, label |-> e.enc, tag |-> stored,
             date |-> Date(e.v)]
    BY <1>4 DEF Buffered, Answer
  <2>2. CASE stored = Tag(e.v, e.enc)
    BY <1>1, <1>2, <1>4, <2>1, <2>2, Unchanged DEF Right, Answers, Statuses
  <2>3. CASE stored = None
    <3>1. r.ifNoneMatch = "none" /\ NotSince(k, Date(e.v))
      BY <1>4, <2>3 DEF ShouldReturn304, WeakMatch, Known, Requests
    <3>2. Unmodified(r, k, e.v)
      BY <1>1, <3>1, SameDate, SiteTyped DEF Unmodified
    <3>3. QED
      BY <1>1, <1>2, <2>1, <3>2 DEF Right, Answers, Statuses
  <2>4. QED
    BY <1>2, <2>2, <2>3
<1>5. CASE ~CanRange(e, r) /\ ~ShouldReturn304(r, k, stored, Date(e.v))
  <2>1. a = [status |-> e.status, v |-> e.v, enc |-> body.enc, label |-> body.label,
             tag |-> stored, date |-> Date(e.v)]
    BY <1>5 DEF Buffered, Answer
  <2>2. /\ body.enc \in Names /\ body.label \in Names
        /\ Readable(r, a)
    BY <2>1, EncodeReadable DEF Readable, EntryOK
  <2>3. a \in Answers
    BY <1>1, <1>2, <2>1, <2>2 DEF Answers, Statuses
  <2>4. a.status = 200 => Genuine(a.v, a.tag, a.date)
    BY <1>1, <2>1 DEF Genuine, StoredTag
  <2>5. a.status # 304
    BY <1>1, <2>1
  <2>6. a.status = 206 => config.partial /\ ~config.rangeFill
    BY <2>1 DEF EntryOK
  <2>7. QED
    BY <2>2, <2>3, <2>4, <2>5, <2>6 DEF Right
<1>6. QED
  BY <1>3, <1>4, <1>5

LEMMA OriginRight ==
  ASSUME config \in Configs, version \in Versions, NEW k, CopyOK(k), NEW r \in Requests,
         NEW a \in OriginAnswers(r, k)
  PROVE  /\ Right(r, k, a)
         /\ a.v \in Versions /\ Accepts(r.ae, a.enc)
         /\ a.status = 206 => r.range # "none"
<1>1. CASE a = Answer(404, version, "identity", "identity", None)
  <2>1. a = [status |-> 404, v |-> version, enc |-> "identity", label |-> "identity",
             tag |-> None, date |-> Date(version)]
    BY <1>1 DEF Answer
  <2>2. Date(version) \in Dates
    BY TagTyped DEF Names
  <2>3. QED
    BY <2>1, <2>2 DEF Right, Answers, Statuses, Tags, Names, Readable, Accepts
<1>2. CASE \E enc \in {x \in {"identity", "gzip"} : Accepts(r.ae, x)} :
             a = Answer(ServeContent(r, k, Tag(version, enc), Date(version)), version, enc,
                        enc, Tag(version, enc))
  <2>1. PICK enc \in Names :
          /\ Accepts(r.ae, enc)
          /\ a = Answer(ServeContent(r, k, Tag(version, enc), Date(version)), version, enc,
                        enc, Tag(version, enc))
    BY <1>2 DEF Names
  <2>2. a = [status |-> ServeContent(r, k, Tag(version, enc), Date(version)),
             v |-> version, enc |-> enc, label |-> enc, tag |-> Tag(version, enc),
             date |-> Date(version)]
    BY <2>1 DEF Answer
  <2>3. PICK v \in Versions : v = version
    OBVIOUS
  <2>4. Right(r, k, a)
    BY <2>1, <2>2, <2>3, ServedRight
  <2>5. QED
    BY <2>1, <2>2, <2>4, Statused
<1>3. QED
  BY <1>1, <1>2 DEF OriginAnswers

\* The whole body that was fetched to be stored, a window of which is sent on.
LEMMA CaptureRight ==
  ASSUME config \in Configs, version \in Versions, NEW k, CopyOK(k), NEW r \in Requests,
         NEW a \in OriginAnswers(WholeOf(r), k), a.status = 200
  PROVE  Right(r, k, FromCapture(a, r, k))
<1> DEFINE sent == WholeOf(r)
           b == FromCapture(a, r, k)
<1>1. sent \in Requests /\ sent.ae = r.ae
  BY DEF WholeOf, Requests
<1>2. PICK enc \in Names :
        /\ Accepts(r.ae, enc)
        /\ a = Answer(ServeContent(sent, k, Tag(version, enc), Date(version)), version, enc,
                      enc, Tag(version, enc))
  <2>1. a # Answer(404, version, "identity", "identity", None)
    BY DEF Answer
  <2>2. QED
    BY <1>1, <2>1 DEF OriginAnswers, Names
<1>3. b = [status |-> ServeContent(r, k, Tag(version, enc), None), v |-> version,
           enc |-> enc, label |-> enc, tag |-> Tag(version, enc), date |-> Date(version)]
  BY <1>2 DEF Answer, FromCapture
<1>4. PICK v \in Versions : v = version
  OBVIOUS
<1>5. QED
  BY <1>2, <1>3, <1>4, ServedRight

\* An answer to the request for the whole body is one to the request for a range, for
\* it is not a part, and every other condition is in both.
LEMMA WholeRight ==
  ASSUME NEW k, NEW r \in Requests, NEW a, Right(WholeOf(r), k, a), a.status # 206
  PROVE  Right(r, k, a)
<1>1. WholeOf(r).ae = r.ae /\ WholeOf(r).ifNoneMatch = r.ifNoneMatch
  BY DEF WholeOf, Requests
<1>2. QED
  BY <1>1 DEF Right, Unmodified, Readable

\* What a cacheable answer leaves in the cache suits its slot.
LEMMA StoredOK ==
  ASSUME config \in Configs, version \in Versions, NEW k, CopyOK(k), NEW r \in Requests,
         NEW sent, sent = (IF IsRangeFill(r) THEN WholeOf(r) ELSE r),
         NEW a \in OriginAnswers(sent, k), Cacheable(a, sent), NEW e \in Entries(a)
  PROVE  e \in Entry /\ EntryOK(Slot(r.ae), e)
<1>1. sent \in Requests /\ sent.ae = r.ae /\ (IsRangeFill(r) => sent.range = "none")
  BY DEF WholeOf, Requests
<1>2. e \in Entry /\ e.status = a.status /\ e.v = a.v /\ e.enc = a.enc
  BY DEF Entries
<1>3. Accepts(r.ae, e.enc)
  BY <1>1, <1>2, OriginRight
<1>4. config.aeKeyed => Accepts(Slot(r.ae), e.enc)
  BY <1>3 DEF Slot
<1>5. e.status = 206 => config.partial /\ ~config.rangeFill
  <2>1. SUFFICES ASSUME a.status = 206
                 PROVE  config.partial /\ ~config.rangeFill
    BY <1>2
  <2>2. config.partial /\ sent.range = "many"
    BY <2>1 DEF Cacheable
  <2>3. ~IsRangeFill(r) /\ r.range = "many"
    BY <1>1, <2>2
  <2>4. QED
    BY <2>2, <2>3 DEF IsRangeFill
<1>6. QED
  BY <1>2, <1>4, <1>5 DEF EntryOK

\* Another visitor's plain request is answered in full or with 404.
LEMMA OthersStoredOK ==
  ASSUME config \in Configs, version \in Versions, NEW ae \in config.accept,
         NEW a \in OriginAnswers(Plain(ae), NoCopy), NEW e \in Entries(a)
  PROVE  e \in Entry /\ EntryOK(Slot(ae), e)
<1> DEFINE r == Plain(ae)
<1>1. r \in Requests /\ r.range = "none"
  BY SiteTyped DEF Plain, Requests
<1>2. CopyOK(NoCopy)
  BY DEF CopyOK, NoCopy
<1>3. Accepts(ae, a.enc) /\ a.status # 206
  BY <1>1, <1>2, OriginRight DEF Plain
<1>4. QED
  BY <1>3 DEF Entries, EntryOK, Slot

-----------------------------------------------------------------------------
(* The invariant.                                                          *)

SiteTypes == config \in Configs /\ version \in Versions

StoreOK ==
  /\ cache \in [Slots -> Entry \cup {None}]
  /\ \A s \in Slots : cache[s] # None => EntryOK(s, cache[s])

ClientTypes ==
  /\ pc \in [Clients -> {"idle", "stream", "get", "miss"}]
  /\ req \in [Clients -> Requests]
  /\ asked \in [Clients -> Nat]
  /\ copy \in [Clients -> Copies]
  /\ last \in [Clients -> Answers]
  /\ joined \in [Clients -> SUBSET Bodies]

\* The pieces of a download are one body, with ResumeJoinsOne's exceptions.
JoinedOK(c) ==
  \/ \A x, y \in joined[c] : x = y
  \/ copy[c].tag # Tag(copy[c].v, copy[c].enc)
  \/ req[c].ifRange = "date"
  \/ config.partial /\ ~config.rangeFill

\* Between requests the latest answer is right about what the client now keeps.
ClientOK(c) ==
  /\ CopyOK(copy[c])
  /\ pc[c] # "idle" => joined[c] = {}
  /\ JoinedOK(c)
  /\ Answered(c) /\ last[c].status = 304 => Unmodified(req[c], copy[c], last[c].v)
  /\ Answered(c) /\ last[c].status \in {200, 206, 404} => Readable(req[c], last[c])

ServingInv ==
  /\ SiteTypes /\ StoreOK /\ ClientTypes
  /\ \A c \in Clients : ClientOK(c)

\* A client that a step leaves alone is as well off after it.
LEMMA LeftAlone ==
  ASSUME NEW c \in Clients, ClientOK(c), config' = config,
         copy'[c] = copy[c], req'[c] = req[c], last'[c] = last[c],
         joined'[c] = joined[c], pc'[c] # "idle" => pc[c] # "idle",
         pc'[c] = "idle" => pc[c] = "idle", asked'[c] = asked[c]
  PROVE  ClientOK(c)'
<1>1. CopyOK(copy[c])'
  BY DEF ClientOK, CopyOK, Genuine, Tag, Date
<1>2. (pc[c] # "idle" => joined[c] = {})'
  BY DEF ClientOK
<1>3. JoinedOK(c)'
  BY DEF ClientOK, JoinedOK, Tag
<1>4. Answered(c)' => Answered(c)
  BY DEF Answered
<1>5. (Answered(c) /\ last[c].status = 304 => Unmodified(req[c], copy[c], last[c].v))'
  BY <1>4 DEF ClientOK, Unmodified
<1>6. (Answered(c) /\ last[c].status \in {200, 206, 404} => Readable(req[c], last[c]))'
  BY <1>4 DEF ClientOK, Readable, Accepts
<1>7. QED
  BY <1>1, <1>2, <1>3, <1>5, <1>6 DEF ClientOK

\* The pieces of a resumed download, when the answer continues the copy.
LEMMA PiecesJoin ==
  ASSUME NEW r \in Requests, NEW k \in Copies, CopyOK(k), NEW a, Right(r, k, a),
         a.status = 206, r.ifRange # "none", r.ifRange # "date",
         ~(config.partial /\ ~config.rangeFill), k.tag = Tag(k.v, k.enc),
         a.v \in Versions
  PROVE  <<k.v, k.enc>> = <<a.v, a.enc>>
<1>1. Known(Tag(a.v, a.enc)) /\ k.tag = Tag(a.v, a.enc)
  BY DEF Right, Continues
<1>2. k.v \in Versions
  BY <1>1 DEF CopyOK, Genuine, Known
<1>3. a.enc \in Names /\ k.enc \in Names
  BY DEF Right, Answers, Copies
<1>4. PICK v \in Versions, enc \in Names, w \in Versions, other \in Names :
        v = a.v /\ enc = a.enc /\ w = k.v /\ other = k.enc
  BY <1>2, <1>3
<1>5. Known(Tag(v, enc)) /\ Tag(w, other) = Tag(v, enc)
  BY <1>1, <1>4
<1>6. w = v /\ other = enc
  BY <1>5, TagNames
<1>7. QED
  BY <1>4, <1>6

\* What the client keeps after the answer a, and the pieces it was put together from.
Outcome(r, k, a, new, pieces) ==
  \/ /\ a.status = 206 /\ r.ifRange # "none"
     /\ pieces = {<<k.v, k.enc>>, <<a.v, a.enc>>}
     /\ new = [k EXCEPT !.broken = FALSE]
  \/ /\ a.status = 200 /\ pieces = {}
     /\ \E broken \in BOOLEAN :
          new = [v |-> a.v, enc |-> a.enc, tag |-> a.tag, date |-> a.date,
                 broken |-> broken]
  \/ /\ a.status # 200 /\ ~(a.status = 206 /\ r.ifRange # "none")
     /\ new = k /\ pieces = {}

\* A request that ends with a right answer.
LEMMA FinishKeeps ==
  ASSUME ServingInv, NEW c \in Clients, pc[c] # "idle", NEW a,
         Right(req[c], copy[c], a), a.v \in Versions, Finish(c, a)
  PROVE  ClientTypes' /\ \A d \in Clients : ClientOK(d)'
<1> USE DEF ServingInv
<1>1. /\ config' = config /\ req' = req /\ asked' = asked
      /\ pc' = [pc EXCEPT ![c] = "idle"] /\ last' = [last EXCEPT ![c] = a]
  BY DEF Finish, site
<1>2. \/ /\ a.status = 206 /\ req[c].ifRange # "none"
         /\ joined' = [joined EXCEPT ![c] = {<<copy[c].v, copy[c].enc>>, <<a.v, a.enc>>}]
         /\ copy' = [copy EXCEPT ![c].broken = FALSE]
      \/ /\ a.status = 200 /\ joined' = joined
         /\ \E broken \in BOOLEAN :
              copy' = [copy EXCEPT ![c] = [v |-> a.v, enc |-> a.enc, tag |-> a.tag,
                                           date |-> a.date, broken |-> broken]]
      \/ /\ a.status # 200 /\ copy' = copy /\ joined' = joined
         /\ ~(a.status = 206 /\ req[c].ifRange # "none")
  BY DEF Finish
<1>3. PICK r \in Requests, k \in Copies : r = req[c] /\ k = copy[c]
  BY DEF ClientTypes
<1>4. a \in Answers /\ Right(r, k, a) /\ CopyOK(k) /\ joined[c] = {}
  <2>1. CopyOK(copy[c]) /\ joined[c] = {}
    BY DEF ClientOK
  <2>2. QED
    BY <1>3, <2>1 DEF Right
<1>5. PICK new \in Copies, pieces \in SUBSET Bodies :
        /\ copy' = [copy EXCEPT ![c] = new] /\ joined' = [joined EXCEPT ![c] = pieces]
        /\ Outcome(r, k, a, new, pieces)
  <2>1. copy \in [Clients -> Copies] /\ joined \in [Clients -> SUBSET Bodies]
    BY DEF ClientTypes
  <2>2. <<k.v, k.enc>> \in Bodies /\ <<a.v, a.enc>> \in Bodies
    BY <1>4 DEF Copies, Answers, Bodies
  <2>3. CASE a.status = 206 /\ req[c].ifRange # "none"
    <3>1. PICK new \in Copies, pieces \in SUBSET Bodies :
            new = [k EXCEPT !.broken = FALSE] /\ pieces = {<<k.v, k.enc>>, <<a.v, a.enc>>}
      BY <2>2 DEF Copies
    <3>2. joined' = [joined EXCEPT ![c] = pieces] /\ copy' = [copy EXCEPT ![c] = new]
      BY <1>2, <1>3, <2>3, <3>1
    <3>3. Outcome(r, k, a, new, pieces)
      BY <1>3, <2>3, <3>1 DEF Outcome
    <3>4. QED
      BY <3>2, <3>3
  <2>4. CASE a.status = 200
    <3>1. PICK broken \in BOOLEAN :
            copy' = [copy EXCEPT ![c] = [v |-> a.v, enc |-> a.enc, tag |-> a.tag,
                                         date |-> a.date, broken |-> broken]]
      BY <1>2, <2>4
    <3>2. PICK new \in Copies :
            new = [v |-> a.v, enc |-> a.enc, tag |-> a.tag, date |-> a.date,
                   broken |-> broken]
      BY <1>4 DEF Answers, Copies
    <3>3. PICK pieces \in SUBSET Bodies : pieces = {}
      OBVIOUS
    <3>4. joined' = [joined EXCEPT ![c] = pieces] /\ copy' = [copy EXCEPT ![c] = new]
      BY <1>2, <1>4, <2>1, <2>4, <3>1, <3>2, <3>3
    <3>5. Outcome(r, k, a, new, pieces)
      BY <2>4, <3>2, <3>3 DEF Outcome
    <3>6. QED
      BY <3>4, <3>5
  <2>5. CASE a.status # 200 /\ ~(a.status = 206 /\ req[c].ifRange # "none")
    <3>1. PICK pieces \in SUBSET Bodies : pieces = {}
      OBVIOUS
    <3>2. copy' = [copy EXCEPT ![c] = k] /\ joined' = [joined EXCEPT ![c] = pieces]
      BY <1>2, <1>3, <1>4, <2>1, <2>5, <3>1
    <3>3. Outcome(r, k, a, k, pieces)
      BY <1>3, <2>5, <3>1 DEF Outcome
    <3>4. QED
      BY <3>2, <3>3
  <2>6. QED
    BY <2>3, <2>4, <2>5
<1>6. ClientTypes'
  BY <1>1, <1>4, <1>5 DEF ClientTypes
<1>7. ASSUME NEW d \in Clients, d # c
      PROVE  ClientOK(d)'
  <2>1. /\ copy'[d] = copy[d] /\ joined'[d] = joined[d] /\ pc'[d] = pc[d]
        /\ last'[d] = last[d] /\ req'[d] = req[d] /\ asked'[d] = asked[d]
    BY <1>1, <1>5, <1>7 DEF ClientTypes
  <2>2. QED
    BY <1>1, <2>1, LeftAlone
<1>8. ClientOK(c)'
  <2>1. /\ copy'[c] = new /\ joined'[c] = pieces /\ pc'[c] = "idle" /\ last'[c] = a
        /\ req'[c] = r
    BY <1>1, <1>3, <1>5 DEF ClientTypes
  <2>2. CopyOK(new)
    <3>1. CASE a.status = 200
      BY <1>4, <1>5, <3>1 DEF Right, CopyOK, Outcome
    <3>2. CASE a.status # 200
      <4>1. new.v = k.v /\ new.tag = k.tag /\ new.date = k.date
        BY <1>5, <3>2 DEF Copies, Outcome
      <4>2. QED
        BY <1>4, <4>1 DEF CopyOK
    <3>3. QED
      BY <3>1, <3>2
  <2>3. CopyOK(copy[c])'
    BY <1>1, <2>1, <2>2 DEF CopyOK, Genuine, Tag, Date
  <2>4. JoinedOK(c)'
    <3>1. CASE a.status = 206 /\ r.ifRange # "none"
      <4>1. new.v = k.v /\ new.tag = k.tag /\ new.enc = k.enc
        BY <1>5, <3>1 DEF Copies, Outcome
      <4>2. pieces = {<<k.v, k.enc>>, <<a.v, a.enc>>}
        BY <1>5, <3>1 DEF Outcome
      <4>3. \/ r.ifRange = "date" \/ (config.partial /\ ~config.rangeFill)
            \/ k.tag # Tag(k.v, k.enc) \/ <<k.v, k.enc>> = <<a.v, a.enc>>
        BY <1>4, <3>1, PiecesJoin
      <4>4. CASE <<k.v, k.enc>> = <<a.v, a.enc>>
        BY <2>1, <4>2, <4>4 DEF JoinedOK
      <4>5. CASE k.tag # Tag(k.v, k.enc)
        BY <1>1, <2>1, <4>1, <4>5 DEF JoinedOK, Tag
      <4>6. QED
        BY <1>1, <2>1, <4>3, <4>4, <4>5 DEF JoinedOK
    <3>2. CASE ~(a.status = 206 /\ r.ifRange # "none")
      BY <1>5, <2>1, <3>2 DEF JoinedOK, Outcome
    <3>3. QED
      BY <3>1, <3>2
  <2>5. (last[c].status = 304 => Unmodified(req[c], copy[c], last[c].v))'
    <3>1. SUFFICES ASSUME a.status = 304
                   PROVE  Unmodified(req[c], copy[c], last[c].v)'
      BY <2>1
    <3>2. new = k /\ Unmodified(r, k, a.v)
      BY <1>4, <1>5, <3>1 DEF Right, Outcome
    <3>3. QED
      BY <1>1, <2>1, <3>2 DEF Unmodified
  <2>6. (last[c].status \in {200, 206, 404} => Readable(req[c], last[c]))'
    <3>1. a.status \in {200, 206, 404} => Readable(r, a)
      BY <1>4 DEF Right
    <3>2. QED
      BY <1>1, <2>1, <3>1 DEF Readable, Accepts
  <2>7. QED
    BY <2>1, <2>3, <2>4, <2>5, <2>6 DEF ClientOK
<1>9. QED
  BY <1>6, <1>7, <1>8

-----------------------------------------------------------------------------
(* The store.                                                              *)

LEMMA StoreSame ==
  ASSUME StoreOK, config' = config, cache' = cache
  PROVE  StoreOK'
  BY DEF StoreOK, EntryOK, Accepts

LEMMA StoreSet ==
  ASSUME StoreOK, config' = config, NEW s \in Slots, NEW e \in Entry \cup {None},
         e # None => EntryOK(s, e), cache' = [cache EXCEPT ![s] = e]
  PROVE  StoreOK'
<1>1. cache' \in [Slots -> Entry \cup {None}]
  BY DEF StoreOK
<1>2. ASSUME NEW t \in Slots, cache'[t] # None
      PROVE  EntryOK(t, cache[t])'
  <2>1. PICK f \in Entry : f = cache'[t] /\ EntryOK(t, f)
    <3>1. CASE t = s
      BY <1>2, <3>1 DEF StoreOK
    <3>2. CASE t # s
      BY <1>2, <3>2 DEF StoreOK
    <3>3. QED
      BY <3>1, <3>2
  <2>2. QED
    BY <2>1 DEF EntryOK, Accepts
<1>3. QED
  BY <1>1, <1>2 DEF StoreOK

\* A request finds what its slot holds.
LEMMA FoundTyped ==
  ASSUME ServingInv, NEW c \in Clients
  PROVE  /\ Slot(req[c].ae) \in Slots
         /\ Found(c) \in Entry \cup {None}
         /\ Found(c) # None => EntryOK(req[c].ae, Found(c))
<1>1. req[c] \in Requests
  BY DEF ServingInv, ClientTypes
<1>2. PICK ae \in Encodings : ae = req[c].ae
  BY <1>1 DEF Requests
<1>3. Slot(ae) \in Slots /\ (config.aeKeyed => Slot(ae) = ae)
  BY DEF Slot, Slots
<1>4. PICK s \in Slots : s = Slot(ae)
  BY <1>3
<1>5. cache[s] \in Entry \cup {None} /\ (cache[s] # None => EntryOK(s, cache[s]))
  BY DEF ServingInv, StoreOK
<1>6. cache[s] # None => EntryOK(ae, cache[s])
  BY <1>3, <1>4, <1>5 DEF EntryOK
<1>7. Found(c) = cache[s]
  BY <1>2, <1>4 DEF Found
<1>8. QED
  BY <1>2, <1>3, <1>5, <1>6, <1>7

\* A read that finds nothing to serve leaves the store as it was, or drops the entry.
LEMMA FindKeepsStore ==
  ASSUME ServingInv, NEW c \in Clients, config' = config,
         FindOld(c) \/ FindNone(c) \/ FindFresh(c)
  PROVE  StoreOK'
<1>1. PICK s \in Slots : s = Slot(req[c].ae)
  BY FoundTyped
<1>2. cache' = cache \/ cache' = [cache EXCEPT ![s] = None]
  BY <1>1 DEF FindOld, FindNone, FindFresh
<1>3. QED
  BY <1>2, StoreSame, StoreSet DEF ServingInv

\* The answers out of the store.
LEMMA FoundRight ==
  ASSUME ServingInv, NEW c \in Clients, Fresh(Found(c))
  PROVE  /\ Right(req[c], copy[c], Buffered(Found(c), req[c], copy[c]))
         /\ Buffered(Found(c), req[c], copy[c]).v \in Versions
         /\ Identity200(Found(c)) =>
              /\ Right(req[c], copy[c], Streamed(Found(c), req[c], copy[c]))
              /\ Streamed(Found(c), req[c], copy[c]).v \in Versions
<1>1. PICK e \in Entry : e = Found(c) /\ EntryOK(req[c].ae, e)
  BY FoundTyped DEF Fresh
<1>2. PICK r \in Requests, k \in Copies : r = req[c] /\ k = copy[c] /\ CopyOK(k)
  <2>1. req[c] \in Requests /\ copy[c] \in Copies /\ CopyOK(copy[c])
    BY DEF ServingInv, ClientTypes, ClientOK
  <2>2. QED
    BY <2>1
<1>3. config \in Configs
  BY DEF ServingInv, SiteTypes
<1>4. Right(r, k, Buffered(e, r, k))
  BY <1>1, <1>2, <1>3, BufferedRight
<1>5. Identity200(e) => Right(r, k, Streamed(e, r, k))
  BY <1>2, <1>3, StreamedRight
<1>6. e.v \in Versions
  BY DEF Entry
<1>7. Buffered(e, r, k).v = e.v /\ Streamed(e, r, k).v = e.v
  BY DEF Buffered, Streamed, Answer
<1>8. QED
  BY <1>1, <1>2, <1>4, <1>5, <1>6, <1>7

-----------------------------------------------------------------------------
(* The steps of a request.                                                 *)

\* A request that goes on leaves its client's answers for later.
LEMMA GoesOn ==
  ASSUME ServingInv, NEW c \in Clients, NEW to \in {"get", "miss"}, pc[c] # "idle",
         pc' = [pc EXCEPT ![c] = to], UNCHANGED <<site, client>>
  PROVE  SiteTypes' /\ ClientTypes' /\ \A d \in Clients : ClientOK(d)'
<1>1. SiteTypes' /\ ClientTypes' /\ config' = config
  BY DEF ServingInv, SiteTypes, ClientTypes, site, client
<1>2. ASSUME NEW d \in Clients
      PROVE  ClientOK(d)'
  <2>1. (pc'[d] # "idle" => pc[d] # "idle") /\ (pc'[d] = "idle" => pc[d] = "idle")
    BY DEF ServingInv, ClientTypes
  <2>2. ClientOK(d)
    BY DEF ServingInv
  <2>3. QED
    BY <1>1, <2>1, <2>2, LeftAlone DEF client
<1>3. QED
  BY <1>1, <1>2

\* A client asks well-formed requests, whatever it keeps.
LEMMA AsksTyped ==
  ASSUME config \in Configs, NEW k, NEW r \in Asks(k)
  PROVE  r \in Requests
<1>1. PICK ae \in config.accept :
        \/ \E range \in {"none", "part", "many", "beyond"} : r = Ranged(ae, range)
        \/ r = Probe(ae)
        \/ \E tagged \in BOOLEAN : r = Revalidation(ae, k, tagged)
        \/ r = Guarded(ae, k)
        \/ r = Resumption(ae, k)
  BY DEF Asks
<1>2. Plain(ae) \in Requests
  BY SiteTyped DEF Plain, Requests
<1>3. CASE \E range \in {"none", "part", "many", "beyond"} : r = Ranged(ae, range)
  BY <1>2, <1>3 DEF Ranged, Requests
<1>4. CASE r = Probe(ae)
  BY <1>2, <1>4 DEF Probe, Requests
<1>5. CASE \E tagged \in BOOLEAN : r = Revalidation(ae, k, tagged)
  <2>1. PICK match \in {"none", "tag"}, since \in BOOLEAN :
          r = [Plain(ae) EXCEPT !.ifNoneMatch = match, !.ifModifiedSince = since]
    BY <1>5 DEF Revalidation, Known
  <2>2. QED
    BY <1>2, <2>1 DEF Requests
<1>6. CASE r = Guarded(ae, k)
  <2>1. PICK match \in BOOLEAN, since \in BOOLEAN :
          r = [Plain(ae) EXCEPT !.ifMatch = match, !.ifUnmodifiedSince = since]
    BY <1>6 DEF Guarded, Known
  <2>2. QED
    BY <1>2, <2>1 DEF Requests
<1>7. CASE r = Resumption(ae, k)
  BY <1>2, <1>7 DEF Resumption, Requests
<1>8. QED
  BY <1>1, <1>3, <1>4, <1>5, <1>6, <1>7

LEMMA ArriveKeeps ==
  ASSUME ServingInv, NEW c \in Clients, NEW r \in Asks(copy[c]), Arrive(c, r)
  PROVE  ServingInv'
<1>1. config \in Configs /\ copy[c] \in Copies
  BY DEF ServingInv, SiteTypes, ClientTypes
<1>2. r \in Requests
  BY <1>1, AsksTyped
<1>3. NoAnswer \in Answers
  BY DEF NoAnswer, Answers, Statuses, Names, Tags, Dates
<1>4. /\ UNCHANGED <<site, cache, copy>> /\ config' = config /\ version' = version
      /\ pc' = [pc EXCEPT ![c] = "stream"] /\ req' = [req EXCEPT ![c] = r]
      /\ asked' = [asked EXCEPT ![c] = @ + 1] /\ last' = [last EXCEPT ![c] = NoAnswer]
      /\ joined' = [joined EXCEPT ![c] = {}]
  BY DEF Arrive, Goto, site
<1>5. SiteTypes' /\ StoreOK'
  BY <1>4, StoreSame DEF ServingInv, SiteTypes
<1>6. ClientTypes'
  BY <1>2, <1>3, <1>4 DEF ServingInv, ClientTypes
<1>7. ASSUME NEW d \in Clients
      PROVE  ClientOK(d)'
  <2>1. CASE d = c
    <3>1. pc'[d] = "stream" /\ joined'[d] = {}
      BY <1>4, <2>1 DEF ServingInv, ClientTypes
    <3>2. CopyOK(copy[d])'
      BY <1>4 DEF ServingInv, ClientOK, CopyOK, Genuine, Tag, Date
    <3>3. JoinedOK(d)' /\ ~Answered(d)'
      BY <3>1 DEF JoinedOK, Answered
    <3>4. QED
      BY <3>1, <3>2, <3>3 DEF ClientOK
  <2>2. CASE d # c
    <3>1. /\ pc'[d] = pc[d] /\ req'[d] = req[d] /\ asked'[d] = asked[d]
          /\ last'[d] = last[d] /\ joined'[d] = joined[d] /\ copy'[d] = copy[d]
      BY <1>4, <2>2 DEF ServingInv, ClientTypes
    <3>2. QED
      BY <1>4, <3>1, LeftAlone DEF ServingInv
  <2>3. QED
    BY <2>1, <2>2
<1>8. QED
  BY <1>5, <1>6, <1>7 DEF ServingInv

LEMMA SkipStreamKeeps ==
  ASSUME ServingInv, NEW c \in Clients, SkipStream(c)
  PROVE  ServingInv'
<1>1. /\ pc[c] = "stream" /\ pc' = [pc EXCEPT ![c] = "get"]
      /\ UNCHANGED <<site, client>> /\ cache' = cache /\ config' = config
  BY DEF SkipStream, Goto, site
<1>2. SiteTypes' /\ ClientTypes' /\ \A d \in Clients : ClientOK(d)'
  BY <1>1, GoesOn
<1>3. StoreOK'
  BY <1>1, StoreSame DEF ServingInv
<1>4. QED
  BY <1>2, <1>3 DEF ServingInv

\* The end of a request, whatever it does to the store.
LEMMA FinishWith ==
  ASSUME ServingInv, NEW c \in Clients, pc[c] # "idle", NEW a,
         Right(req[c], copy[c], a), a.v \in Versions, Finish(c, a), StoreOK'
  PROVE  ServingInv'
<1>1. ClientTypes' /\ \A d \in Clients : ClientOK(d)'
  BY FinishKeeps
<1>2. SiteTypes'
  BY DEF Finish, ServingInv, SiteTypes, site
<1>3. QED
  BY <1>1, <1>2 DEF ServingInv

LEMMA ReadKeeps ==
  ASSUME ServingInv, NEW c \in Clients, TryStream(c) \/ Get(c)
  PROVE  ServingInv'
<1>1. CASE /\ FindFresh(c) /\ pc[c] # "idle"
           /\ \/ Finish(c, Buffered(Found(c), req[c], copy[c]))
              \/ /\ Identity200(Found(c))
                 /\ Finish(c, Streamed(Found(c), req[c], copy[c]))
  <2>1. PICK a : Right(req[c], copy[c], a) /\ a.v \in Versions /\ Finish(c, a)
    <3>1. Fresh(Found(c))
      BY <1>1 DEF FindFresh
    <3>2. CASE Finish(c, Buffered(Found(c), req[c], copy[c]))
      BY <3>1, <3>2, FoundRight
    <3>3. CASE /\ Identity200(Found(c))
               /\ Finish(c, Streamed(Found(c), req[c], copy[c]))
      BY <3>1, <3>3, FoundRight
    <3>4. QED
      BY <1>1, <3>2, <3>3
  <2>2. StoreOK'
    <3>1. config' = config
      BY <2>1 DEF Finish, site
    <3>2. QED
      BY <1>1, <3>1, FindKeepsStore
  <2>3. QED
    BY <1>1, <2>1, <2>2, FinishWith
<1>2. CASE /\ FindNone(c) \/ FindOld(c) \/ FindFresh(c)
           /\ Goto(c, "stream", "get") \/ Goto(c, "get", "miss")
           /\ UNCHANGED <<site, client>>
  <2>1. PICK to \in {"get", "miss"} : pc[c] # "idle" /\ pc' = [pc EXCEPT ![c] = to]
    BY <1>2 DEF Goto
  <2>2. SiteTypes' /\ ClientTypes' /\ \A d \in Clients : ClientOK(d)'
    BY <1>2, <2>1, GoesOn
  <2>3. StoreOK'
    <3>1. config' = config
      BY <1>2 DEF site
    <3>2. QED
      BY <1>2, <3>1, FindKeepsStore
  <2>4. QED
    BY <2>2, <2>3 DEF ServingInv
<1>3. QED
  BY <1>1, <1>2 DEF TryStream, Get

\* A request, the copy it is about and the site, as constants.
LEMMA AtHand ==
  ASSUME ServingInv, NEW c \in Clients
  PROVE  /\ config \in Configs /\ version \in Versions
         /\ \E r \in Requests, k \in Copies : r = req[c] /\ k = copy[c] /\ CopyOK(k)
<1>1. req[c] \in Requests /\ copy[c] \in Copies /\ CopyOK(copy[c])
  BY DEF ServingInv, ClientTypes, ClientOK
<1>2. QED
  BY <1>1 DEF ServingInv, SiteTypes

LEMMA FillKeeps ==
  ASSUME ServingInv, NEW c \in Clients, Fill(c)
  PROVE  ServingInv'
<1>1. /\ config \in Configs /\ version \in Versions
      /\ \E r \in Requests, k \in Copies : r = req[c] /\ k = copy[c] /\ CopyOK(k)
  BY AtHand
<1>2. PICK r \in Requests, k \in Copies : r = req[c] /\ k = copy[c] /\ CopyOK(k)
  BY <1>1
<1>3. PICK sent : sent = IF IsRangeFill(r) THEN WholeOf(r) ELSE r
  OBVIOUS
<1>4. PICK a \in OriginAnswers(sent, k) :
        /\ Finish(c, IF IsRangeFill(r) /\ a.status = 200 THEN FromCapture(a, r, k) ELSE a)
        /\ IF Cacheable(a, sent)
             THEN \E e \in Entries(a) : cache' = [cache EXCEPT ![Slot(r.ae)] = e]
             ELSE UNCHANGED cache
  BY <1>2, <1>3 DEF Fill
<1>5. /\ sent \in Requests /\ (IsRangeFill(r) => sent = WholeOf(r) /\ sent.range = "none")
      /\ pc[c] # "idle"
  BY <1>3 DEF WholeOf, Requests, Fill
<1>6. Right(sent, k, a) /\ a.v \in Versions /\ (a.status = 206 => sent.range # "none")
  BY <1>1, <1>2, <1>5, OriginRight
<1>7. PICK b : b = IF IsRangeFill(r) /\ a.status = 200 THEN FromCapture(a, r, k) ELSE a
  OBVIOUS
<1>8. Right(r, k, b)
  <2>1. CASE IsRangeFill(r) /\ a.status = 200
    BY <1>1, <1>2, <1>3, <1>4, <1>7, <2>1, CaptureRight
  <2>2. CASE IsRangeFill(r) /\ a.status # 200
    BY <1>5, <1>6, <1>7, <2>2, WholeRight
  <2>3. CASE ~IsRangeFill(r)
    BY <1>3, <1>6, <1>7, <2>3
  <2>4. QED
    BY <2>1, <2>2, <2>3
<1>9. b.v \in Versions
  <2>1. CASE IsRangeFill(r) /\ a.status = 200
    <3>1. b.v = a.v
      BY <1>7, <2>1 DEF FromCapture
    <3>2. QED
      BY <1>6, <3>1
  <2>2. CASE ~(IsRangeFill(r) /\ a.status = 200)
    BY <1>6, <1>7, <2>2
  <2>3. QED
    BY <2>1, <2>2
<1>10. Finish(c, b) /\ config' = config
  BY <1>4, <1>7 DEF Finish, site
<1>11. StoreOK'
  <2>1. CASE Cacheable(a, sent)
    <3>1. PICK e \in Entries(a) : cache' = [cache EXCEPT ![Slot(r.ae)] = e]
      BY <1>4, <2>1
    <3>2. PICK s \in Slots : s = Slot(r.ae)
      BY <1>2, FoundTyped
    <3>3. e \in Entry /\ EntryOK(Slot(r.ae), e)
      BY <1>1, <1>2, <1>3, <1>4, <2>1, StoredOK
    <3>4. EntryOK(s, e)
      BY <3>2, <3>3
    <3>5. QED
      BY <1>10, <3>1, <3>2, <3>3, <3>4, StoreSet DEF ServingInv
  <2>2. CASE ~Cacheable(a, sent)
    BY <1>4, <1>10, <2>2, StoreSame DEF ServingInv
  <2>3. QED
    BY <2>1, <2>2
<1>12. QED
  BY <1>2, <1>5, <1>8, <1>9, <1>10, <1>11, FinishWith

LEMMA FollowKeeps ==
  ASSUME ServingInv, NEW c \in Clients, Follow(c)
  PROVE  ServingInv'
<1>1. pc[c] # "idle"
  BY DEF Follow
<1>2. PICK a : Right(req[c], copy[c], a) /\ a.v \in Versions /\ Finish(c, a)
  <2>1. CASE /\ FindFresh(c) /\ Identity200(Found(c))
             /\ Finish(c, Streamed(Found(c), req[c], copy[c]))
    BY <2>1, FoundRight DEF FindFresh
  <2>2. CASE \E a \in OriginAnswers(req[c], copy[c]) : Finish(c, a)
    <3>1. /\ config \in Configs /\ version \in Versions
          /\ \E r \in Requests, k \in Copies : r = req[c] /\ k = copy[c] /\ CopyOK(k)
      BY AtHand
    <3>2. PICK r \in Requests, k \in Copies : r = req[c] /\ k = copy[c] /\ CopyOK(k)
      BY <3>1
    <3>3. PICK a \in OriginAnswers(r, k) : Finish(c, a)
      BY <2>2, <3>2
    <3>4. Right(r, k, a) /\ a.v \in Versions
      BY <3>1, <3>2, <3>3, OriginRight
    <3>5. QED
      BY <3>2, <3>3, <3>4
  <2>3. QED
    BY <2>1, <2>2 DEF Follow
<1>3. config' = config
  BY <1>2 DEF Finish, site
<1>4. StoreOK'
  <2>1. FindNone(c) \/ FindOld(c) \/ FindFresh(c) \/ cache' = cache
    BY DEF Follow
  <2>2. CASE cache' = cache
    BY <1>3, <2>2, StoreSame DEF ServingInv
  <2>3. QED
    BY <1>3, <2>1, <2>2, FindKeepsStore
<1>5. QED
  BY <1>1, <1>2, <1>4, FinishWith

-----------------------------------------------------------------------------
(* Everybody else, and the whole.                                          *)

\* What the clients do not take part in leaves them all as they were.
LEMMA ClientsSame ==
  ASSUME ServingInv, config' = config, pc' = pc, UNCHANGED client
  PROVE  ClientTypes' /\ \A c \in Clients : ClientOK(c)'
<1>1. ClientTypes'
  BY DEF ServingInv, ClientTypes, client
<1>2. ASSUME NEW c \in Clients
      PROVE  ClientOK(c)'
  BY LeftAlone DEF ServingInv, client
<1>3. QED
  BY <1>1, <1>2

LEMMA OthersKeep ==
  ASSUME ServingInv,
         \/ Publish
         \/ \E s \in Slots : Vanish(s) \/ Expire(s)
         \/ \E ae \in config.accept : OthersFill(ae)
  PROVE  ServingInv'
<1>1. config' = config /\ pc' = pc /\ UNCHANGED client
  BY DEF Publish, Vanish, Expire, OthersFill, site
<1>2. ClientTypes' /\ \A c \in Clients : ClientOK(c)'
  BY <1>1, ClientsSame
<1>3. SiteTypes'
  BY <1>1, ServingAssumption DEF Publish, Vanish, Expire, OthersFill, ServingInv, SiteTypes,
     Versions, site
<1>4. StoreOK'
  <2>1. CASE Publish
    BY <1>1, <2>1, StoreSame DEF Publish, ServingInv
  <2>2. CASE \E s \in Slots : Vanish(s)
    <3>1. PICK s \in Slots : cache' = [cache EXCEPT ![s] = None]
      BY <2>2 DEF Vanish
    <3>2. QED
      BY <1>1, <3>1, StoreSet DEF ServingInv
  <2>3. CASE \E s \in Slots : Expire(s)
    <3>1. PICK s \in Slots : cache[s] # None /\ cache' = [cache EXCEPT ![s].old = TRUE]
      BY <2>3 DEF Expire
    <3>2. PICK e \in Entry : e = cache[s] /\ EntryOK(s, e)
      BY <3>1 DEF ServingInv, StoreOK
    <3>3. PICK f \in Entry : f = [e EXCEPT !.old = TRUE]
      <4>1. [e EXCEPT !.old = TRUE] \in Entry
        BY DEF Entry
      <4>2. QED
        BY <4>1
    <3>4. EntryOK(s, f)
      BY <3>2, <3>3 DEF EntryOK, Entry
    <3>5. cache' = [cache EXCEPT ![s] = f]
      BY <3>1, <3>2, <3>3
    <3>6. QED
      BY <1>1, <3>4, <3>5, StoreSet DEF ServingInv
  <2>4. CASE \E ae \in config.accept : OthersFill(ae)
    <3>1. PICK ae \in config.accept : OthersFill(ae)
      BY <2>4
    <3>2. PICK a \in OriginAnswers(Plain(ae), NoCopy) :
            \E e \in Entries(a) : cache' = [cache EXCEPT ![Slot(ae)] = e]
      BY <3>1 DEF OthersFill
    <3>3. PICK e \in Entries(a) : cache' = [cache EXCEPT ![Slot(ae)] = e]
      BY <3>2
    <3>4. config \in Configs /\ version \in Versions
      BY DEF ServingInv, SiteTypes
    <3>5. PICK s \in Slots : s = Slot(ae)
      BY <3>4, SiteTyped DEF Slot, Slots
    <3>6. e \in Entry /\ EntryOK(Slot(ae), e)
      BY <3>3, <3>4, OthersStoredOK
    <3>7. EntryOK(s, e)
      BY <3>5, <3>6
    <3>8. QED
      BY <1>1, <3>3, <3>5, <3>6, <3>7, StoreSet DEF ServingInv
  <2>5. QED
    BY <2>1, <2>2, <2>3, <2>4
<1>5. QED
  BY <1>2, <1>3, <1>4 DEF ServingInv

LEMMA ServingInit ==
  ASSUME Init
  PROVE  ServingInv
<1>1. SiteTypes
  BY ServingAssumption DEF Init, SiteTypes, Versions
<1>2. StoreOK
  BY DEF Init, StoreOK
<1>3. Plain("none") \in Requests /\ NoCopy \in Copies /\ NoAnswer \in Answers
  BY DEF Plain, Requests, Encodings, NoCopy, Copies, NoAnswer, Answers, Statuses, Names,
     Tags, Dates
<1>4. ClientTypes
  BY <1>3 DEF Init, ClientTypes
<1>5. ASSUME NEW c \in Clients
      PROVE  ClientOK(c)
  <2>1. CopyOK(copy[c])
    BY DEF Init, NoCopy, CopyOK
  <2>2. ~Answered(c) /\ joined[c] = {}
    BY DEF Init, Answered
  <2>3. QED
    BY <2>1, <2>2 DEF ClientOK, JoinedOK
<1>6. QED
  BY <1>1, <1>2, <1>4, <1>5 DEF ServingInv

\* The inductive invariant: answers right about what clients keep, entries that suit
\* their slots.
THEOREM ServingInvariant == Spec => []ServingInv
<1>1. Init => ServingInv
  BY ServingInit
<1>2. ServingInv /\ [Next]_vars => ServingInv'
  <2> SUFFICES ASSUME ServingInv, [Next]_vars
               PROVE  ServingInv'
    OBVIOUS
  <2>1. CASE UNCHANGED vars
    <3>1. config' = config /\ version' = version /\ cache' = cache /\ pc' = pc
          /\ UNCHANGED client
      BY <2>1 DEF vars, site
    <3>2. ClientTypes' /\ \A c \in Clients : ClientOK(c)'
      BY <3>1, ClientsSame
    <3>3. StoreOK' /\ SiteTypes'
      BY <3>1, StoreSame DEF ServingInv, SiteTypes
    <3>4. QED
      BY <3>2, <3>3 DEF ServingInv
  <2>2. CASE \/ Publish
             \/ \E s \in Slots : Vanish(s) \/ Expire(s)
             \/ \E ae \in config.accept : OthersFill(ae)
    BY <2>2, OthersKeep
  <2>3. ASSUME NEW c \in Clients, NEW r \in Asks(copy[c]), Arrive(c, r)
        PROVE  ServingInv'
    BY <2>3, ArriveKeeps
  <2>4. ASSUME NEW c \in Clients,
               SkipStream(c) \/ TryStream(c) \/ Get(c) \/ Fill(c) \/ Follow(c)
        PROVE  ServingInv'
    BY <2>4, SkipStreamKeeps, ReadKeeps, FillKeeps, FollowKeeps
  <2>5. QED
    BY <2>2, <2>3, <2>4, <2>1 DEF Next
<1>3. QED
  BY <1>1, <1>2, PTL DEF Spec

\* The streamed and the buffered path give one answer (tryServeStreamed, ServeHTTP).
LEMMA OneAnswer ==
  ASSUME config \in Configs, NEW e \in Entry, Identity200(e), NEW k, NEW r \in Requests,
         ~ClientWantsCompression(r.ae),
         ~(r.range = "none" /\ (r.ifMatch \/ r.ifUnmodifiedSince)),
         ~(r.ifNoneMatch = "star" /\ config.etag = "none")
  PROVE  Streamed(e, r, k) = Buffered(e, r, k)
<1> DEFINE tag == Tag(e.v, "identity")
           date == Date(e.v)
<1>1. e.enc = "identity" /\ e.status = 200 /\ StoredTag(e) = tag
  BY DEF Identity200, StoredTag
<1>2. CASE r.range # "none"
  BY <1>1, <1>2 DEF Streamed, Buffered, CanRange, Identity200
<1>3. CASE r.range = "none" /\ ShouldReturn304(r, k, tag, date)
  BY <1>1, <1>3 DEF Streamed, Buffered, CanRange
<1>4. CASE r.range = "none" /\ ~ShouldReturn304(r, k, tag, date)
  <2>1. config.etag # "none" => Known(tag)
    BY ServingAssumption DEF Tag, Known, Entry
  <2>2. ServeContent(r, k, tag, date) = 200
    BY <1>4, <2>1 DEF ServeContent, PreconditionFails, NotModified, WholeWanted,
       ShouldReturn304, Requests
  <2>3. Encode(e, r) = [enc |-> "identity", label |-> "identity"]
    BY <1>1 DEF Encode
  <2>4. QED
    BY <1>1, <1>4, <2>2, <2>3 DEF Streamed, Buffered, CanRange
<1>5. QED
  BY <1>2, <1>3, <1>4

\* Where an entry lies does not show, for any request and any validators.
THEOREM TiersAlike == Spec => []TierInvisible
<1>1. ASSUME ServingInv PROVE TierInvisible
  <2> SUFFICES ASSUME NEW c \in Clients, Fresh(Found(c)), Identity200(Found(c)),
                      ~ClientWantsCompression(req[c].ae),
                      ~(req[c].range = "none" /\ (req[c].ifMatch \/ req[c].ifUnmodifiedSince)),
                      ~(req[c].ifNoneMatch = "star" /\ config.etag = "none")
               PROVE  Streamed(Found(c), req[c], copy[c]) = Buffered(Found(c), req[c], copy[c])
    BY DEF TierInvisible
  <2>1. PICK e \in Entry : e = Found(c)
    BY <1>1, FoundTyped DEF Fresh
  <2>2. /\ config \in Configs
        /\ \E r \in Requests, k \in Copies : r = req[c] /\ k = copy[c]
    BY <1>1, AtHand
  <2>3. PICK r \in Requests, k \in Copies : r = req[c] /\ k = copy[c]
    BY <2>2
  <2>4. Streamed(e, r, k) = Buffered(e, r, k)
    BY <2>1, <2>2, <2>3, OneAnswer
  <2>5. QED
    BY <2>1, <2>3, <2>4
<1>2. QED
  BY <1>1, ServingInvariant, PTL

\* A 304 is about the version its client holds (shouldReturn304).
THEOREM RevalidationHonest == Spec => []NotModifiedIsSame
<1>1. ASSUME ServingInv PROVE NotModifiedIsSame
  <2> SUFFICES ASSUME NEW c \in Clients, Answered(c), last[c].status = 304,
                      req[c].ifNoneMatch # "star"
               PROVE  \/ last[c].v = copy[c].v
                      \/ /\ req[c].ifNoneMatch = "none"
                         /\ config.dated = "same" \/ last[c].v < copy[c].v
    BY DEF NotModifiedIsSame
  <2>1. Unmodified(req[c], copy[c], last[c].v)
    BY <1>1 DEF ServingInv, ClientOK
  <2>2. QED
    BY <2>1 DEF Unmodified
<1>2. QED
  BY <1>1, ServingInvariant, PTL

\* A resumed download is one body (http.ServeContent under If-Range).
THEOREM ResumesJoin == Spec => []ResumeJoinsOne
<1>1. ASSUME ServingInv PROVE ResumeJoinsOne
  <2>1. \A c \in Clients : JoinedOK(c)
    BY <1>1 DEF ServingInv, ClientOK
  <2>2. QED
    BY <2>1 DEF JoinedOK, ResumeJoinsOne
<1>2. QED
  BY <1>1, ServingInvariant, PTL

\* A client gets an encoding it can read, under its name (the HIT branch of ServeHTTP).
THEOREM ClientsRead == Spec => []ClientCanRead
<1>1. ASSUME ServingInv PROVE ClientCanRead
  <2>1. \A c \in Clients : Answered(c) /\ last[c].status \in {200, 206, 404} =>
                             Readable(req[c], last[c])
    BY <1>1 DEF ServingInv, ClientOK
  <2>2. QED
    BY <2>1 DEF Readable, ClientCanRead
<1>2. QED
  BY <1>1, ServingInvariant, PTL

\* Parts of a body are stored only without range_fill (serveRangeFill, WriteHeader).
THEOREM PartsUnfilled == Spec => []PartialOnlyUnfilled
<1>1. ServingInv => PartialOnlyUnfilled
  BY DEF ServingInv, StoreOK, EntryOK, PartialOnlyUnfilled
<1>2. QED
  BY <1>1, ServingInvariant, PTL
=============================================================================
