--------------------------- MODULE ResponseWriter ---------------------------
(***************************************************************************)
(* ResponseWriter: what one response goes through on a cache miss. The       *)
(* upstream handler writes it in chunks; each is sent to the client, or held *)
(* back for a range fill, and captured for the cache in a buffer or, past a  *)
(* threshold, in a temporary file. Then serveRangeFill answers the client    *)
(* from the capture, and Close stores it.                                   *)
(*                                                                         *)
(* A byte is its position in the body, and a file or a buffer the sequence   *)
(* of the bytes in it: what is lost, repeated or out of order shows. Of a    *)
(* range request only what its range is taken out of is modelled.            *)
(*                                                                         *)
(* A definition whose name starts with Wrong is the one that follows it     *)
(* with a plausible bug in it; see Sidekick.tla.                            *)
(***************************************************************************)
EXTENDS Integers, Sequences, SequencesExt

CONSTANTS
  Lengths,    \* the lengths of a body
  Chunks,     \* how much the upstream handler writes at a time
  Limits,     \* maxCacheableSize: 0 caches nothing, less than 0 everything
  Thresholds, \* streamToDiskSize: 0 or less never uses a file
  Statuses,   \* out of AllStatuses
  Faults      \* what may fail: "origin", "client", "temp"

\* A complete response; another that cache_response_codes names; one that is not
\* to be cached for its status, its headers or what the origin says of it.
AllStatuses == {"ok", "cacheable", "uncacheable"}

ASSUME ResponseWriterAssumption ==
  /\ Lengths \subseteq Nat /\ Chunks \subseteq Nat \ {0}
  /\ Limits \subseteq Int /\ Thresholds \subseteq Int
  /\ Statuses \subseteq AllStatuses
  /\ Faults \subseteq {"origin", "client", "temp"}

Responses ==
  [length : Lengths, declared : BOOLEAN, status : Statuses, fill : BOOLEAN,
   limit : Limits, threshold : Thresholds]

VARIABLES
  response,     \* the response, the kind of request and the configuration
  pc,           \* where the request is: "header", "body", "answer", "close", "closed"
  captureOnly,  \* captureOnly: the client gets nothing for now
  abandoned,    \* fillAbandoned
  needCache,    \* needCache
  buffer,       \* buffer
  temp,         \* tempFile, or NoTemp
  produced,     \* how much the upstream handler has written
  sent,         \* what the client has been sent, or a range of it
  stored,       \* what Close stored, or NotStored
  refused,      \* whether a Write returned an error to the upstream handler
  gone,         \* ghost: whether the client went away
  cut,          \* ghost: whether the origin broke off
  spoiled       \* ghost: whether the temporary file failed

capture == <<needCache, buffer, temp>>
fill == <<captureOnly, abandoned>>
failures == <<refused, gone, cut, spoiled>>
vars == <<response, pc, fill, capture, produced, sent, stored, failures>>

NoTemp    == <<0>>   \* 0 is no byte of a body
NotStored == <<0>>

Body     == [i \in 1..response.length |-> i]
Captured == IF temp # NoTemp THEN temp ELSE buffer

TooLarge(size) == response.limit = 0 \/ (response.limit > 0 /\ size > response.limit)

Init ==
  /\ response \in Responses
  /\ pc = "header"
  /\ captureOnly = response.fill /\ abandoned = FALSE
  /\ needCache = FALSE /\ buffer = <<>> /\ temp = NoTemp
  /\ produced = 0 /\ sent = <<>>
  /\ stored = NotStored
  /\ refused = FALSE /\ gone = FALSE /\ cut = FALSE /\ spoiled = FALSE

-----------------------------------------------------------------------------
(* WriteHeader; Write calls it with 200 if the handler has not.              *)

WrongBypass == response.declared /\ TooLarge(response.length)

\* A Content-Length says beforehand that the response will be too large.
Bypass == \/ response.status = "uncacheable"
          \/ response.declared /\ TooLarge(response.length)

\* A fill is given up before the body if no range can be taken out of it.
WriteHeader ==
  /\ pc = "header"
  /\ pc' = "body"
  /\ needCache' = ~Bypass
  /\ LET giveUp == captureOnly /\ (Bypass \/ response.status # "ok") IN
       /\ captureOnly' = (captureOnly /\ ~giveUp)
       /\ abandoned' = giveUp
  /\ UNCHANGED <<response, buffer, temp, produced, sent, stored, failures>>

-----------------------------------------------------------------------------
(* Write. The handler writes n bytes, b; produced is totalSize as long as    *)
(* needCache is set.                                                        *)

Chunk(n) == SubSeq(Body, produced + 1, produced + n)

Produce(n) ==
  /\ pc = "body"
  /\ produced + n =< response.length
  /\ produced' = produced + n

\* The client gets b, or is gone.
Reach(b) ==
  \/ ~gone /\ sent' = sent \o b /\ UNCHANGED gone
  \/ "client" \in Faults /\ gone' = TRUE /\ UNCHANGED sent

\* The client is sent b; Write returns the error if it is gone.
Send(b) == Reach(b) /\ refused' = (refused \/ gone')

PassOn(b) == IF captureOnly THEN UNCHANGED <<sent, gone, refused>> ELSE Send(b)

\* Nothing is captured any more.
WriteThrough(n) ==
  /\ Produce(n) /\ ~needCache
  /\ PassOn(Chunk(n))
  /\ UNCHANGED <<response, pc, fill, capture, stored, cut, spoiled>>

WrongReleased == IF captureOnly THEN buffer ELSE <<>>

\* What a fill held back of the body.
Released == IF captureOnly THEN Captured ELSE <<>>

\* Too large for the cache: the capture is dropped, what a fill has held back is
\* released first.
WriteTooLarge(n) ==
  /\ Produce(n) /\ needCache /\ TooLarge(produced + n)
  /\ Send(Released \o Chunk(n))
  /\ captureOnly' = FALSE /\ abandoned' = (abandoned \/ captureOnly)
  /\ needCache' = FALSE /\ buffer' = <<>> /\ temp' = NoTemp
  /\ UNCHANGED <<response, pc, stored, cut, spoiled>>

\* The temporary file cannot be read back to release it; Write returns there.
ReleaseFails(n) ==
  /\ "temp" \in Faults
  /\ Produce(n) /\ needCache /\ TooLarge(produced + n)
  /\ captureOnly /\ temp # NoTemp
  /\ \E m \in 0..(produced - 1) : sent' = SubSeq(temp, 1, m)
  /\ captureOnly' = FALSE /\ abandoned' = TRUE
  /\ needCache' = FALSE
  /\ refused' = TRUE /\ spoiled' = TRUE
  /\ UNCHANGED <<response, pc, buffer, temp, stored, gone, cut>>

WrongNeedsFile(n) ==
  temp = NoTemp /\ response.threshold > 0 /\ produced > response.threshold

NeedsFile(n) ==
  temp = NoTemp /\ response.threshold > 0 /\ produced + n > response.threshold

WrongSwitchFails(n) ==
  /\ "temp" \in Faults
  /\ Produce(n) /\ needCache /\ ~TooLarge(produced + n) /\ NeedsFile(n)
  /\ needCache' = FALSE
  /\ refused' = TRUE /\ spoiled' = TRUE
  /\ UNCHANGED <<response, pc, fill, buffer, temp, sent, stored, gone, cut>>

\* switchToStreaming fails; its error is what Write returns, held back or not, and
\* although a client that nothing is held back from has the chunk already.
SwitchFails(n) ==
  /\ "temp" \in Faults
  /\ Produce(n) /\ needCache /\ ~TooLarge(produced + n) /\ NeedsFile(n)
  /\ IF captureOnly THEN UNCHANGED <<sent, gone>> ELSE Reach(Chunk(n))
  /\ needCache' = FALSE
  /\ refused' = TRUE /\ spoiled' = TRUE
  /\ UNCHANGED <<response, pc, fill, buffer, temp, stored, cut>>

\* The temporary file after switchToStreaming.
Switched == buffer

WrongAddToFile(b) == temp' = temp \o b /\ UNCHANGED buffer

AddToCapture(b) ==
  IF temp = NoTemp THEN buffer' = buffer \o b /\ UNCHANGED temp
                   ELSE temp' = temp \o b /\ UNCHANGED buffer

WriteCaptured(n) ==
  /\ Produce(n) /\ needCache /\ ~TooLarge(produced + n)
  /\ PassOn(Chunk(n))
  /\ IF NeedsFile(n) THEN temp' = Switched \o Chunk(n) /\ buffer' = <<>>
                     ELSE AddToCapture(Chunk(n))
  /\ UNCHANGED <<response, pc, fill, needCache, stored, cut, spoiled>>

WrongFileFails(n) ==
  /\ "temp" \in Faults
  /\ Produce(n) /\ needCache /\ ~TooLarge(produced + n)
  /\ temp # NoTemp
  /\ PassOn(Chunk(n))
  /\ spoiled' = TRUE
  /\ UNCHANGED <<response, pc, fill, capture, stored, cut>>

\* Writing the temporary file fails, some of b written; Write does not say so.
FileFails(n) ==
  /\ "temp" \in Faults
  /\ Produce(n) /\ needCache /\ ~TooLarge(produced + n)
  /\ NeedsFile(n) \/ temp # NoTemp
  /\ PassOn(Chunk(n))
  /\ \E m \in 0..(n - 1) :
       temp' = (IF temp = NoTemp THEN Switched ELSE temp) \o SubSeq(Chunk(n), 1, m)
  /\ buffer' = IF temp = NoTemp THEN <<>> ELSE buffer
  /\ needCache' = FALSE
  /\ spoiled' = TRUE
  /\ UNCHANGED <<response, pc, fill, stored, cut>>

-----------------------------------------------------------------------------
(* The upstream handler returns, and serveRangeFill answers from the capture. *)

HandlerEnds ==
  /\ pc = "body" /\ produced = response.length
  /\ pc' = IF response.fill /\ ~abandoned THEN "answer" ELSE "close"
  /\ UNCHANGED <<response, fill, capture, produced, sent, stored, failures>>

\* It breaks off, with an error or a panic, because the origin did or because of
\* what Write returned. Close runs all the same.
HandlerFails ==
  /\ pc \in {"header", "body"}
  /\ refused \/ "origin" \in Faults
  /\ cut' = (cut \/ ~refused)
  /\ pc' = "close"
  /\ UNCHANGED <<response, fill, capture, produced, sent, stored, refused, gone, spoiled>>

\* ServeContent takes the client's range out of the capture; past RangeFillMaxSize
\* ReplayCaptured relays all of it.
Answer ==
  /\ pc = "answer"
  /\ sent' = Captured
  /\ pc' = "close"
  /\ UNCHANGED <<response, fill, capture, produced, stored, failures>>

\* The temporary file cannot be rewound, for ReplayCaptured either.
AnswerFails ==
  /\ "temp" \in Faults
  /\ pc = "answer" /\ temp # NoTemp
  /\ spoiled' = TRUE
  /\ pc' = "close"
  /\ UNCHANGED <<response, fill, capture, produced, sent, stored, refused, gone, cut>>

\* Close stores the capture unless another request sharing the record has stored
\* its own, or the temporary file cannot be read back.
Close ==
  /\ pc = "close"
  /\ stored' \in {NotStored} \cup (IF needCache THEN {Captured} ELSE {})
  /\ temp' = NoTemp
  /\ pc' = "closed"
  /\ UNCHANGED <<response, fill, needCache, buffer, produced, sent, failures>>

-----------------------------------------------------------------------------
Next ==
  \/ WriteHeader
  \/ \E n \in Chunks :
       \/ WriteThrough(n)
       \/ WriteTooLarge(n) \/ ReleaseFails(n)
       \/ WriteCaptured(n) \/ SwitchFails(n) \/ FileFails(n)
  \/ HandlerEnds \/ HandlerFails
  \/ Answer \/ AnswerFails
  \/ Close

Spec == Init /\ [][Next]_vars

-----------------------------------------------------------------------------
(* Properties *)

Bytes == Seq(1..response.length)

\* Every variable has its type.
TypeOK ==
  /\ response \in Responses
  /\ pc \in {"header", "body", "answer", "close", "closed"}
  /\ {captureOnly, abandoned, needCache, refused, gone, cut, spoiled} \subseteq BOOLEAN
  /\ buffer \in Bytes
  /\ temp = NoTemp \/ temp \in Bytes
  /\ produced \in 0..response.length
  /\ sent \in Bytes
  /\ stored = NotStored \/ stored \in Bytes

\* Write has returned an error that is not the client's: a temporary file that could not
\* be opened (switchToStreaming) or read back (releaseCaptureLocked).
RefusedForFile == refused /\ spoiled

\* What serveRangeFill would answer from is incomplete or cannot be read.
FillSpoiled == spoiled /\ response.fill /\ ~abandoned

\* What the client has (Write, releaseCaptureLocked) is the beginning of the body, with
\* nothing left out, sent twice or out of order when a fill is given up half-way. What
\* is not held back it has as soon as it is written, whatever becomes of the capture.
\* At the end it has the whole body (or a range of it), if it stayed and the origin sent
\* it, unless the temporary file failed in one of two ways: Write told the upstream
\* handler so, which may stop there, on a plain miss too (response_writer.go:453); or
\* the file is what a fill is answered from. If a release cannot read it back and the
\* handler writes on after the error, there is a gap.
ClientWhole ==
  /\ IsPrefix(sent, Body) \/ (RefusedForFile /\ abandoned)
  /\ ~response.fill /\ ~gone => sent = SubSeq(Body, 1, produced)
  /\ pc = "closed" /\ ~gone /\ ~cut => sent = Body \/ RefusedForFile \/ FillSpoiled

\* The buffer never holds more than streamToDiskSize, even when the file fails.
BufferBounded == response.threshold > 0 => Len(buffer) =< response.threshold

\* What is stored is the whole body unless the client left or the origin broke off:
\* a capture that failed or was given up is never stored.
StoredWhole == stored # NotStored => gone \/ cut \/ stored = Body

\* Nothing uncacheable or too large is stored, whether its length was declared or
\* not; but a body of no bytes is never measured.
StoredAllowed ==
  stored # NotStored =>
    response.status # "uncacheable" /\ (stored = <<>> \/ ~TooLarge(Len(stored)))

\* README.md:563: "Sidekick stores exactly one representation per cache key: the
\* full `200` response." The body of a client that left half-way is stored as one.
StoredComplete == stored # NotStored => stored = Body
=============================================================================
