------------------------- MODULE ResponseWriterProofs -------------------------
(***************************************************************************)
(* The properties of ResponseWriter.tla, proved for bodies, chunks, limits   *)
(* and thresholds of every length.                                          *)
(*                                                                         *)
(* Whatever is captured or sent is a prefix of the body, and how long it is *)
(* follows from where the request is: WriterInv says so for the capture     *)
(* (CaptureOK), the client (ClientOK) and the ways to the end (EndOK).      *)
(***************************************************************************)
EXTENDS ResponseWriter, SequenceTheorems, TLAPS

\* As long as the response is to be stored, all that was produced is captured.
CaptureOK ==
  needCache =>
    /\ pc # "header"
    /\ pc # "closed" => Captured = SubSeq(Body, 1, produced)
    /\ response.status # "uncacheable"
    /\ produced = 0 \/ ~TooLarge(produced)

\* The body from its beginning, as far as it goes.
Beginning(s) == s = SubSeq(Body, 1, Len(s)) /\ Len(s) =< response.length

\* What has been captured is one, also when the file failed.
CapturedOK == pc # "closed" => Beginning(Captured)

\* The buffer is in use or the file is.
BufferOK ==
  /\ temp # NoTemp => buffer = <<>>
  /\ BufferBounded

\* A fill that is not given up holds everything back, and captures it.
FillOK ==
  /\ captureOnly <=> response.fill /\ ~abandoned
  /\ abandoned => response.fill
  /\ captureOnly /\ pc \in {"header", "body"} => sent = <<>>
  /\ captureOnly /\ pc \in {"body", "answer"} /\ ~spoiled => needCache

\* Of what was to be released part could not be read back.
ReleaseLost == RefusedForFile /\ abandoned

\* What the client has, by where the request is.
ClientOK ==
  /\ Beginning(sent) \/ ReleaseLost
  /\ ~captureOnly /\ ~gone => sent = SubSeq(Body, 1, produced) \/ ReleaseLost
  /\ pc \in {"close", "closed"} /\ ~gone /\ ~cut => sent = Body \/ RefusedForFile \/ FillSpoiled

\* How a response ends before its body does.
EndOK ==
  /\ refused => gone \/ (~needCache /\ spoiled)
  /\ pc \in {"answer", "close"} /\ needCache /\ ~gone /\ ~cut => produced = response.length
  /\ pc = "answer" => response.fill /\ ~abandoned /\ produced = response.length
  /\ pc = "header" =>
       produced = 0 /\ buffer = <<>> /\ temp = NoTemp /\ ~refused /\ ~abandoned

WriterInv ==
  /\ CaptureOK
  /\ CapturedOK
  /\ BufferOK
  /\ FillOK
  /\ ClientOK
  /\ EndOK
  /\ StoredWhole
  /\ StoredAllowed

-----------------------------------------------------------------------------
(* The body and its parts.                                                 *)

\* The parts of a response.
LEMMA ResponseType ==
  ASSUME ResponseWriterAssumption, response \in Responses
  PROVE  /\ response.length \in Nat /\ response.limit \in Int /\ response.threshold \in Int
         /\ response.status \in AllStatuses /\ response.fill \in BOOLEAN
  BY DEF ResponseWriterAssumption, Responses

\* A part of the body is made of its bytes, and has the length it is meant to have.
LEMMA Parts ==
  ASSUME NEW l \in Nat, NEW body, body = [i \in 1..l |-> i],
         NEW m \in 1..(l + 1), NEW n \in (m - 1)..l
  PROVE  /\ body \in Seq(1..l) /\ Len(body) = l
         /\ SubSeq(body, m, n) \in Seq(1..l)
         /\ Len(SubSeq(body, m, n)) = n - m + 1
         /\ SubSeq(body, 1, m - 1) \o SubSeq(body, m, n) = SubSeq(body, 1, n)
         /\ SubSeq(body, 1, l) = body
         /\ SubSeq(body, 1, 0) = <<>>
<1>1. body \in Seq(1..l) /\ Len(body) = l
  OBVIOUS
<1>2. \A i \in m..n : body[i] \in 1..l
  OBVIOUS
<1>3. SubSeq(body, m, n) \in Seq(1..l) /\ Len(SubSeq(body, m, n)) = n - m + 1
  BY <1>2, SubSeqProperties
<1>4. SubSeq(body, 1, m - 1) \o SubSeq(body, m, n) = SubSeq(body, 1, n)
  BY <1>1, ConcatAdjacentSubSeq
<1>5. SubSeq(body, 1, l) = body
  BY <1>1, SubSeqFull
<1>6. SubSeq(body, 1, 0) = <<>>
  BY SubSeqEmpty
<1>7. QED
  BY <1>1, <1>3, <1>4, <1>5, <1>6

\* A chunk is made of bytes of the body, and follows on what was produced before it.
LEMMA ChunkOK ==
  ASSUME response.length \in Nat, produced \in Nat, NEW n \in Nat,
         produced + n =< response.length
  PROVE  /\ Body \in Bytes /\ Len(Body) = response.length
         /\ Chunk(n) \in Bytes /\ Len(Chunk(n)) = n
         /\ SubSeq(Body, 1, produced) \o Chunk(n) = SubSeq(Body, 1, produced + n)
         /\ SubSeq(Body, 1, produced) \in Bytes
         /\ SubSeq(Body, 1, produced + n) \in Bytes
         /\ Len(SubSeq(Body, 1, produced)) = produced
         /\ Len(SubSeq(Body, 1, produced + n)) = produced + n
         /\ SubSeq(Body, 1, response.length) = Body
         /\ SubSeq(Body, 1, 0) = <<>>
<1> DEFINE l == response.length
<1>1. Body = [i \in 1..l |-> i]
  BY DEF Body
<1>2. /\ Body \in Seq(1..l) /\ Len(Body) = l
      /\ SubSeq(Body, produced + 1, produced + n) \in Seq(1..l)
      /\ Len(SubSeq(Body, produced + 1, produced + n)) = (produced + n) - (produced + 1) + 1
      /\ SubSeq(Body, 1, (produced + 1) - 1) \o SubSeq(Body, produced + 1, produced + n)
           = SubSeq(Body, 1, produced + n)
      /\ SubSeq(Body, 1, l) = Body /\ SubSeq(Body, 1, 0) = <<>>
  <2>1. produced + 1 \in 1..(l + 1) /\ produced + n \in ((produced + 1) - 1)..l
    OBVIOUS
  <2>2. QED
    BY <1>1, <2>1, Parts
<1>3. ASSUME NEW k \in 0..l
      PROVE  SubSeq(Body, 1, k) \in Seq(1..l) /\ Len(SubSeq(Body, 1, k)) = k
  <2>1. 1 \in 1..(l + 1) /\ k \in (1 - 1)..l
    OBVIOUS
  <2>2. QED
    BY <1>1, <2>1, Parts
<1>4. produced \in 0..l /\ produced + n \in 0..l
  OBVIOUS
<1>5. Len(SubSeq(Body, produced + 1, produced + n)) = n
  BY <1>2
<1>6. (produced + 1) - 1 = produced
  OBVIOUS
<1>7. QED
  BY <1>2, <1>3, <1>4, <1>5, <1>6 DEF Chunk, Bytes
-----------------------------------------------------------------------------
(* Types. *)

\* A file is no sequence of bytes only when there is none.
LEMMA NoTempNoBytes ==
  ASSUME ResponseWriterAssumption, response \in Responses
  PROVE  NoTemp \notin Bytes /\ NotStored \notin Bytes /\ <<>> \in Bytes /\ Len(<<>>) = 0
<1>1. <<0>> \notin Seq(1..response.length)
  <2>1. <<0>>[1] = 0 /\ 1 \in 1..Len(<<0>>)
    OBVIOUS
  <2>2. QED
    BY <2>1, ElementOfSeq
<1>2. QED
  BY <1>1, EmptySeq DEF Bytes, NoTemp, NotStored

\* What a Write adds to a sequence of bytes.
LEMMA WriteAdds ==
  ASSUME ResponseWriterAssumption, TypeOK, NEW n \in Chunks, Produce(n)
  PROVE  /\ n \in Nat /\ n > 0
         /\ Chunk(n) \in Bytes /\ Len(Chunk(n)) = n
         /\ \A s \in Bytes : s \o Chunk(n) \in Bytes /\ Len(s \o Chunk(n)) = Len(s) + n
         /\ \A m \in 0..(n - 1), s \in Bytes : s \o SubSeq(Chunk(n), 1, m) \in Bytes
         /\ Captured \in Bytes /\ Released \in Bytes
         /\ produced' \in 0..response.length
<1>1. /\ n \in Nat /\ n > 0 /\ produced \in Nat /\ response.length \in Nat
      /\ response \in Responses
  BY ResponseType DEF ResponseWriterAssumption, TypeOK
<1>2. Chunk(n) \in Bytes /\ Len(Chunk(n)) = n
  BY <1>1, ChunkOK DEF Produce
<1>3. \A s \in Bytes : s \o Chunk(n) \in Bytes /\ Len(s \o Chunk(n)) = Len(s) + n
  BY <1>2, ConcatProperties DEF Bytes
<1>4. ASSUME NEW m \in 0..(n - 1), NEW s \in Bytes
      PROVE  s \o SubSeq(Chunk(n), 1, m) \in Bytes
  <2>1. \A i \in 1..m : Chunk(n)[i] \in 1..response.length
    BY <1>1, <1>2, ElementOfSeq DEF Bytes
  <2>2. SubSeq(Chunk(n), 1, m) \in Bytes
    BY <2>1, SubSeqProperties DEF Bytes
  <2>3. QED
    BY <2>2, ConcatProperties DEF Bytes
<1>5. Captured \in Bytes /\ Released \in Bytes
  BY <1>1, NoTempNoBytes DEF TypeOK, Captured, Released
<1>6. produced' \in 0..response.length
  BY <1>1 DEF Produce
<1>7. QED
  BY <1>1, <1>2, <1>3, <1>4, <1>5, <1>6

\* The response writer's state has the types TypeOK gives it.
LEMMA TypeStep ==
  ASSUME ResponseWriterAssumption, TypeOK, CaptureOK, [Next]_vars
  PROVE  TypeOK'
<1> USE ResponseWriterAssumption DEF TypeOK, failures, fill, capture
<1>0. response \in Responses /\ NoTemp \notin Bytes /\ <<>> \in Bytes
  BY NoTempNoBytes
<1>1. UNCHANGED response => Bytes' = Bytes
  BY DEF Bytes
<1>2. CASE WriteHeader
  BY <1>1, <1>2 DEF WriteHeader
<1>3. ASSUME NEW n \in Chunks, WriteThrough(n) PROVE TypeOK'
  <2>1. sent' \in Bytes
    BY <1>3, WriteAdds DEF WriteThrough, PassOn, Send, Reach
  <2>2. QED
    BY <1>1, <1>3, <2>1, WriteAdds DEF WriteThrough, Produce, PassOn, Send, Reach
<1>4. ASSUME NEW n \in Chunks, WriteTooLarge(n) PROVE TypeOK'
  <2>1. sent' \in Bytes
    <3>1. Released \o Chunk(n) \in Bytes
      BY <1>4, WriteAdds DEF WriteTooLarge
    <3>2. \A b \in Bytes : sent \o b \in Bytes
      BY ConcatProperties DEF Bytes
    <3>3. QED
      BY <1>4, <3>1, <3>2 DEF WriteTooLarge, Send, Reach
  <2>2. QED
    BY <1>0, <1>1, <1>4, <2>1, WriteAdds DEF WriteTooLarge, Produce, Send, Reach
<1>5. ASSUME NEW n \in Chunks, ReleaseFails(n) PROVE TypeOK'
  <2>1. sent' \in Bytes
    <3>1. temp \in Bytes /\ temp = SubSeq(Body, 1, produced) /\ Len(temp) = produced
      BY <1>5, ChunkOK, WriteAdds DEF ReleaseFails, CaptureOK, Captured, Produce
    <3>2. PICK m \in 0..(produced - 1) : sent' = SubSeq(temp, 1, m)
      BY <1>5 DEF ReleaseFails
    <3>3. \A i \in 1..m : temp[i] \in 1..response.length
      BY <3>1, ElementOfSeq DEF Bytes
    <3>4. QED
      BY <3>2, <3>3, SubSeqProperties DEF Bytes
  <2>2. QED
    BY <1>1, <1>5, <2>1, WriteAdds DEF ReleaseFails, Produce
<1>6. ASSUME NEW n \in Chunks, SwitchFails(n) PROVE TypeOK'
  <2>1. sent' \in Bytes
    BY <1>6, WriteAdds DEF SwitchFails, Reach
  <2>2. QED
    BY <1>1, <1>6, <2>1, WriteAdds DEF SwitchFails, Produce, Reach
<1>7. ASSUME NEW n \in Chunks, WriteCaptured(n) PROVE TypeOK'
  <2>1. sent' \in Bytes
    BY <1>7, WriteAdds DEF WriteCaptured, PassOn, Send, Reach
  <2>2. buffer' \in Bytes /\ (temp' = NoTemp \/ temp' \in Bytes)
    BY <1>0, <1>7, WriteAdds DEF WriteCaptured, Switched, AddToCapture
  <2>3. QED
    BY <1>1, <1>7, <2>1, <2>2, WriteAdds DEF WriteCaptured, Produce, PassOn, Send, Reach
<1>8. ASSUME NEW n \in Chunks, FileFails(n) PROVE TypeOK'
  <2>1. sent' \in Bytes
    BY <1>8, WriteAdds DEF FileFails, PassOn, Send, Reach
  <2>2. temp' \in Bytes /\ buffer' \in Bytes
    BY <1>0, <1>8, WriteAdds DEF FileFails, Switched
  <2>3. QED
    BY <1>1, <1>8, <2>1, <2>2, WriteAdds DEF FileFails, Produce, PassOn, Send, Reach
<1>9. CASE HandlerEnds
  BY <1>1, <1>9 DEF HandlerEnds
<1>10. CASE HandlerFails
  BY <1>1, <1>10 DEF HandlerFails
<1>11. CASE Answer
  BY <1>1, <1>11 DEF Answer, Captured
<1>12. CASE AnswerFails
  BY <1>1, <1>12 DEF AnswerFails
<1>13. CASE Close
  BY <1>1, <1>13 DEF Close, Captured
<1>14. CASE UNCHANGED vars
  BY <1>1, <1>14 DEF vars
<1>15. QED
  BY <1>2, <1>3, <1>4, <1>5, <1>6, <1>7, <1>8, <1>9, <1>10, <1>11, <1>12, <1>13, <1>14
     DEF Next
-----------------------------------------------------------------------------
(* The steps.                                                              *)

\* What a Write adds to the parts of the body there are already.
LEMMA WriteExtends ==
  ASSUME ResponseWriterAssumption, TypeOK, WriterInv, NEW n \in Chunks, Produce(n),
         UNCHANGED response
  PROVE  /\ pc = "body" /\ n > 0
         /\ produced' = produced + n /\ produced' =< response.length
         /\ produced \in Nat /\ response.length \in Nat
         /\ Body' = Body /\ \A size : TooLarge(size)' = TooLarge(size)
         /\ SubSeq(Body, 1, produced) \o Chunk(n) = SubSeq(Body, 1, produced')
         /\ <<>> \o Chunk(n) = Chunk(n)
         /\ Len(SubSeq(Body, 1, produced')) = produced'
         /\ Len(SubSeq(Body, 1, produced)) = produced
         /\ needCache => Captured = SubSeq(Body, 1, produced)
         /\ SubSeq(Body, 1, 0) = <<>>
<1>1. /\ n \in Nat /\ n > 0 /\ produced \in Nat /\ response.length \in Nat
      /\ response \in Responses
  BY ResponseType DEF ResponseWriterAssumption, TypeOK
<1>2. pc = "body" /\ produced' = produced + n /\ produced' =< response.length
  BY <1>1 DEF Produce
<1>3. Body' = Body /\ \A size : TooLarge(size)' = TooLarge(size)
  BY DEF Body, TooLarge
<1>4. /\ Chunk(n) \in Bytes
      /\ SubSeq(Body, 1, produced) \o Chunk(n) = SubSeq(Body, 1, produced')
      /\ Len(SubSeq(Body, 1, produced')) = produced'
      /\ Len(SubSeq(Body, 1, produced)) = produced
      /\ SubSeq(Body, 1, 0) = <<>>
  BY <1>1, <1>2, ChunkOK
<1>5. <<>> \o Chunk(n) = Chunk(n)
  BY <1>4, ConcatEmptySeq DEF Bytes
<1>6. needCache => Captured = SubSeq(Body, 1, produced)
  BY <1>2 DEF WriterInv, CaptureOK
<1>7. QED
  BY <1>1, <1>2, <1>3, <1>4, <1>5, <1>6

\* A chunk, byte by byte.
LEMMA ChunkIs ==
  ASSUME response.length \in Nat, produced \in Nat, NEW n \in Nat,
         produced + n =< response.length
  PROVE  Chunk(n) = [i \in 1..n |-> produced + i]
<1>1. Body \in Seq(1..response.length) /\ Len(Body) = response.length
  BY ChunkOK DEF Bytes
<1>2. \A i \in (produced + 1)..(produced + n) : Body[i] \in 1..response.length
  BY DEF Body
<1>3. /\ Chunk(n) \in Seq(1..response.length) /\ Len(Chunk(n)) = (produced + n) - (produced + 1) + 1
      /\ \A i \in 1..((produced + n) - (produced + 1) + 1) : Chunk(n)[i] = Body[(produced + 1) + i - 1]
  BY <1>2, SubSeqProperties DEF Chunk
<1>4. (produced + n) - (produced + 1) + 1 = n
  OBVIOUS
<1>5. Chunk(n) \in Seq(1..response.length) /\ Len(Chunk(n)) = n
  BY <1>3, <1>4
<1>6. ASSUME NEW i \in 1..n PROVE Chunk(n)[i] = produced + i
  <2>1. (produced + 1) + i - 1 = produced + i /\ produced + i \in 1..response.length
    OBVIOUS
  <2>2. Chunk(n)[i] = Body[produced + i]
    BY <1>3, <1>4, <2>1
  <2>3. QED
    BY <2>1, <2>2 DEF Body
<1>7. QED
  BY <1>5, <1>6

\* Part of a chunk follows on what there is already, too.
LEMMA PartWritten ==
  ASSUME ResponseWriterAssumption, TypeOK, NEW n \in Chunks, Produce(n), NEW m \in 0..(n - 1)
  PROVE  /\ SubSeq(Body, 1, produced) \o SubSeq(Chunk(n), 1, m) = SubSeq(Body, 1, produced + m)
         /\ Len(SubSeq(Body, 1, produced + m)) = produced + m
<1>1. /\ n \in Nat /\ m \in Nat /\ m < n /\ produced \in Nat /\ response.length \in Nat
      /\ produced + n =< response.length
  BY ResponseType DEF ResponseWriterAssumption, TypeOK, Produce
<1>2. produced + m =< response.length
  BY <1>1
<1>3. SubSeq(Chunk(n), 1, m) = Chunk(m)
  <2>1. Chunk(n) = [i \in 1..n |-> produced + i]
    BY <1>1, ChunkIs
  <2>2. Chunk(m) = [i \in 1..m |-> produced + i]
    BY <1>1, <1>2, ChunkIs
  <2>3. QED
    BY <1>1, <2>1, <2>2
<1>4. QED
  BY <1>1, <1>2, <1>3, ChunkOK

\* What was sent stays a beginning of the body when the client is passed a chunk on, or
\* the chunk is held back, whatever becomes of the temporary file meanwhile.
LEMMA PassedOn ==
  ASSUME ResponseWriterAssumption, TypeOK, WriterInv, NEW n \in Chunks, Produce(n),
         UNCHANGED <<response, pc, cut, captureOnly, abandoned>>,
         spoiled => spoiled', refused => refused',
         captureOnly => UNCHANGED <<sent, gone>>,
         ~captureOnly => Reach(Chunk(n))
  PROVE  ClientOK' /\ (captureOnly => sent' = sent) /\ (gone => gone')
<1> USE WriteExtends
<1>1. ReleaseLost => ReleaseLost'
  BY DEF ReleaseLost, RefusedForFile
<1>2. pc' = "body"
  OBVIOUS
<1>3. CASE captureOnly
  BY <1>1, <1>2, <1>3 DEF WriterInv, ClientOK, Beginning
<1>4. CASE ~captureOnly /\ gone'
  BY <1>1, <1>2, <1>4 DEF WriterInv, ClientOK, Beginning, Reach
<1>5. CASE ~captureOnly /\ ~gone'
  <2>1. sent' = sent \o Chunk(n) /\ ~gone
    BY <1>5 DEF Reach
  <2>2. ReleaseLost \/ sent = SubSeq(Body, 1, produced)
    BY <1>5, <2>1 DEF WriterInv, ClientOK
  <2>3. ReleaseLost' \/ (sent' = SubSeq(Body', 1, produced') /\ Beginning(sent)')
    BY <1>1, <2>1, <2>2 DEF Beginning
  <2>4. ReleaseLost' \/ (sent' = SubSeq(Body, 1, produced)' /\ Beginning(sent)')
    BY <2>3
  <2>5. QED
    BY <1>2, <1>5, <2>1, <2>4 DEF ClientOK
<1>6. QED
  BY <1>3, <1>4, <1>5 DEF Reach

\* The capture, the client and the way to the end are as WriterInv has them, always.
LEMMA WriterStep ==
  ASSUME ResponseWriterAssumption, TypeOK, WriterInv, [Next]_vars
  PROVE  WriterInv'
<1> USE ResponseWriterAssumption DEF failures, fill, capture
<1>0. response \in Responses /\ NoTemp \notin Bytes
  BY NoTempNoBytes DEF TypeOK
<1>a. UNCHANGED response => Body' = Body /\ \A size : TooLarge(size)' = TooLarge(size)
  BY DEF Body, TooLarge
<1>b. UNCHANGED <<stored, response>> /\ (gone => gone') /\ (cut => cut')
        => (StoredWhole /\ StoredAllowed)'
  BY <1>a DEF WriterInv, StoredWhole, StoredAllowed
<1>c. UNCHANGED <<response, buffer, temp>> => BufferOK'
  BY DEF WriterInv, BufferOK, BufferBounded
<1>e. ASSUME UNCHANGED <<response, buffer, temp>>, pc # "closed"
      PROVE  CapturedOK'
  BY <1>a, <1>e DEF WriterInv, CapturedOK, Captured, Beginning
<1>f. ASSUME UNCHANGED response, NEW s, Beginning(s)
      PROVE  s = SubSeq(Body', 1, Len(s)) /\ Len(s) =< response'.length
  BY <1>a, <1>f DEF Beginning
<1>d. /\ SubSeq(Body, 1, 0) = <<>> /\ Body = SubSeq(Body, 1, response.length)
      /\ Len(Body) = response.length /\ Len(<<>>) = 0 /\ response.length \in Nat
      /\ response.threshold \in Int
  <2>1. response.length \in Nat /\ 1 \in 1..(response.length + 1)
        /\ 0 \in (1 - 1)..response.length
    BY <1>0, ResponseType
  <2>2. QED
    BY <1>0, <2>1, Parts, ResponseType DEF Body
<1>1. CASE WriteHeader
  <2>1. /\ pc = "header" /\ pc' = "body" /\ needCache' = ~Bypass
        /\ UNCHANGED <<response, buffer, temp, produced, sent, stored>>
        /\ UNCHANGED <<refused, gone, cut, spoiled>>
    BY <1>1 DEF WriteHeader
  <2>2. /\ produced = 0 /\ buffer = <<>> /\ temp = NoTemp /\ ~refused /\ ~abandoned
        /\ (captureOnly <=> response.fill)
    BY <2>1 DEF WriterInv, EndOK, FillOK
  <2>3. CaptureOK'
    BY <2>1, <2>2, <1>a, <1>d DEF CaptureOK, Captured, Bypass
  <2>4. FillOK'
    BY <1>1, <2>1, <2>2 DEF FillOK, WriteHeader, WriterInv
  <2>5. ClientOK'
    <3>1. Beginning(sent) \/ ReleaseLost
      BY DEF WriterInv, ClientOK
    <3>2. Beginning(sent)
      BY <2>2, <3>1 DEF ReleaseLost, RefusedForFile
    <3>3. ~gone => sent = SubSeq(Body, 1, produced)
      <4>1. CASE captureOnly
        BY <1>d, <2>1, <2>2, <4>1 DEF WriterInv, FillOK
      <4>2. CASE ~captureOnly
        BY <2>1, <2>2, <3>2, <4>2, <1>d DEF WriterInv, ClientOK, ReleaseLost, RefusedForFile,
           EndOK, FillOK
      <4>3. QED
        BY <4>1, <4>2
    <3>4. QED
      BY <2>1, <3>2, <3>3, <1>a DEF ClientOK, Beginning
  <2>6. EndOK'
    BY <2>1, <2>2 DEF EndOK
  <2>7. QED
    BY <2>1, <2>3, <2>4, <2>5, <2>6, <1>b, <1>c, <1>e DEF WriterInv
<1>2. ASSUME NEW n \in Chunks, WriteThrough(n) PROVE WriterInv'
  <2>1. /\ Produce(n) /\ ~needCache /\ PassOn(Chunk(n)) /\ ~needCache'
        /\ UNCHANGED <<response, pc, captureOnly, abandoned, buffer, temp, stored>>
        /\ UNCHANGED <<cut, spoiled>>
    BY <1>2 DEF WriteThrough
  <2>2. gone => gone'
    BY <2>1 DEF PassOn, Send, Reach
  <2>3. pc = "body" /\ (captureOnly => needCache \/ spoiled)
    BY <2>1 DEF Produce, WriterInv, FillOK
  <2>4. ClientOK' /\ (captureOnly => sent' = sent)
    <3>1. /\ refused => refused'
          /\ captureOnly => UNCHANGED <<sent, gone>>
          /\ ~captureOnly => Reach(Chunk(n))
      BY <2>1 DEF PassOn, Send
    <3>2. QED
      BY <2>1, <3>1, PassedOn
  <2>5. CaptureOK' /\ FillOK' /\ EndOK'
    BY <2>1, <2>3, <2>4 DEF WriterInv, CaptureOK, FillOK, EndOK, PassOn, Send, Reach
  <2>6. QED
    BY <2>1, <2>2, <2>3, <2>4, <2>5, <1>b, <1>c, <1>e DEF WriterInv
<1>3. ASSUME NEW n \in Chunks, WriteTooLarge(n) PROVE WriterInv'
  <2>1. /\ Produce(n) /\ needCache /\ Send(Released \o Chunk(n))
        /\ captureOnly' = FALSE /\ abandoned' = (abandoned \/ captureOnly)
        /\ needCache' = FALSE /\ buffer' = <<>> /\ temp' = NoTemp
        /\ UNCHANGED <<response, pc, stored, cut, spoiled>>
    BY <1>3 DEF WriteTooLarge
  <2>2. gone => gone'
    BY <2>1 DEF Send, Reach
  <2>3. captureOnly => sent = <<>> /\ Released = SubSeq(Body, 1, produced)
    BY <2>1, WriteExtends DEF Released, WriterInv, FillOK
  <2>4. /\ captureOnly => Released \o Chunk(n) = SubSeq(Body, 1, produced')
        /\ ~captureOnly => Released \o Chunk(n) = Chunk(n)
    BY <2>1, <2>3, WriteExtends DEF Released
  <2>5. captureOnly => <<>> \o (Released \o Chunk(n)) = SubSeq(Body, 1, produced')
    <3>1. Chunk(n) \in Bytes /\ Released \in Bytes
      BY <2>1, WriteAdds
    <3>2. Released \o Chunk(n) \in Bytes
      BY <3>1, ConcatProperties DEF Bytes
    <3>3. QED
      BY <2>4, <3>2, ConcatEmptySeq DEF Bytes
  <2>6. ClientOK'
    <3>1. pc' = "body" /\ (ReleaseLost => gone)
      BY <2>1, WriteExtends DEF WriterInv, EndOK, ReleaseLost, RefusedForFile
    <3>2. CASE gone'
      <4>1. sent' = sent /\ (ReleaseLost => ReleaseLost')
        BY <2>1, <3>2 DEF Send, Reach, ReleaseLost, RefusedForFile
      <4>2. Beginning(sent)' \/ ReleaseLost'
        BY <2>1, <4>1, WriteExtends DEF WriterInv, ClientOK, Beginning
      <4>3. QED
        BY <3>1, <3>2, <4>2 DEF ClientOK
    <3>3. CASE ~gone'
      <4>1. sent' = sent \o (Released \o Chunk(n)) /\ ~gone /\ ~ReleaseLost
        BY <2>1, <3>1, <3>3 DEF Send, Reach
      <4>2. sent' = SubSeq(Body, 1, produced')
        <5>1. CASE captureOnly
          BY <2>3, <2>5, <4>1, <5>1
        <5>2. CASE ~captureOnly
          <6>1. sent = SubSeq(Body, 1, produced)
            BY <4>1, <5>2 DEF WriterInv, ClientOK
          <6>2. QED
            BY <2>1, <2>4, <4>1, <5>2, <6>1, WriteExtends
        <5>3. QED
          BY <5>1, <5>2
      <4>3. sent' = SubSeq(Body, 1, produced)' /\ Beginning(sent)'
        BY <2>1, <4>2, WriteExtends DEF Beginning
      <4>4. QED
        BY <3>1, <4>3 DEF ClientOK
    <3>4. QED
      BY <3>2, <3>3
  <2>7. BufferOK'
    BY <1>d, <2>1 DEF BufferOK, BufferBounded
  <2>a. CapturedOK'
    <3>1. <<>> = SubSeq(Body, 1, Len(<<>>)) /\ Len(<<>>) =< response.length
      BY <1>d
    <3>2. QED
      BY <2>1, <3>1, WriteExtends DEF CapturedOK, Captured, Beginning
  <2>8. CaptureOK' /\ FillOK' /\ EndOK'
    <3>1. CaptureOK' /\ pc = "body"
      BY <2>1, WriteExtends DEF CaptureOK
    <3>2. FillOK'
      BY <2>1, Zenon DEF WriterInv, FillOK
    <3>3. EndOK'
      BY <2>1, <3>1 DEF WriterInv, EndOK, Send, Reach
    <3>4. QED
      BY <3>1, <3>2, <3>3
  <2>9. QED
    BY <2>1, <2>2, <2>6, <2>7, <2>8, <2>a, <1>b DEF WriterInv
<1>4. ASSUME NEW n \in Chunks, ReleaseFails(n) PROVE WriterInv'
  <2>1. /\ Produce(n) /\ spoiled' /\ refused' /\ ~needCache' /\ captureOnly
        /\ ~captureOnly' /\ abandoned'
        /\ UNCHANGED <<response, pc, buffer, temp, stored, gone, cut>>
    BY <1>4 DEF ReleaseFails
  <2>2. pc = "body"
    BY <2>1, WriteExtends
  <2>3. ClientOK'
    BY <2>1, <2>2 DEF ClientOK, ReleaseLost, RefusedForFile
  <2>4. CaptureOK' /\ FillOK' /\ EndOK'
    BY <2>1, <2>2 DEF WriterInv, CaptureOK, FillOK, EndOK
  <2>5. QED
    BY <2>1, <2>2, <2>3, <2>4, <1>b, <1>c, <1>e DEF WriterInv
<1>5. ASSUME NEW n \in Chunks, SwitchFails(n) PROVE WriterInv'
  <2>1. /\ Produce(n) /\ spoiled' /\ refused' /\ ~needCache'
        /\ captureOnly => UNCHANGED <<sent, gone>>
        /\ ~captureOnly => Reach(Chunk(n))
        /\ UNCHANGED <<response, pc, captureOnly, abandoned, buffer, temp, stored, cut>>
    BY <1>5 DEF SwitchFails
  <2>2. ClientOK' /\ (captureOnly => sent' = sent) /\ (gone => gone')
    BY <2>1, PassedOn
  <2>3. pc = "body"
    BY <2>1, WriteExtends
  <2>4. CaptureOK' /\ FillOK' /\ EndOK'
    BY <2>1, <2>2, <2>3 DEF WriterInv, CaptureOK, FillOK, EndOK
  <2>5. QED
    BY <2>1, <2>2, <2>3, <2>4, <1>b, <1>c, <1>e DEF WriterInv
<1>6. ASSUME NEW n \in Chunks, WriteCaptured(n) PROVE WriterInv'
  <2>1. /\ Produce(n) /\ needCache /\ needCache' /\ ~TooLarge(produced + n)
        /\ PassOn(Chunk(n))
        /\ UNCHANGED <<response, pc, captureOnly, abandoned, stored, cut, spoiled>>
    BY <1>6 DEF WriteCaptured
  <2>2. gone => gone'
    BY <2>1 DEF PassOn, Send, Reach
  <2>3. ClientOK' /\ (captureOnly => sent' = sent)
    <3>1. /\ refused => refused'
          /\ captureOnly => UNCHANGED <<sent, gone>>
          /\ ~captureOnly => Reach(Chunk(n))
      BY <2>1 DEF PassOn, Send
    <3>2. QED
      BY <2>1, <3>1, PassedOn
  <2>4. Captured \o Chunk(n) = SubSeq(Body, 1, produced') /\ pc = "body"
    BY <2>1, WriteExtends
  <2>5. Captured' = Captured \o Chunk(n) /\ (temp' # NoTemp => buffer' = <<>>)
    <3>1. temp # NoTemp => temp \o Chunk(n) # NoTemp
      BY <1>0, <2>1, WriteAdds DEF TypeOK
    <3>2. temp = NoTemp => buffer \o Chunk(n) # NoTemp
      BY <1>0, <2>1, WriteAdds DEF TypeOK
    <3>3. temp # NoTemp => buffer = <<>>
      BY DEF WriterInv, BufferOK
    <3>4. QED
      BY <1>6, <3>1, <3>2, <3>3
         DEF WriteCaptured, NeedsFile, AddToCapture, Captured, Switched
  <2>6. response.threshold > 0 => Len(buffer') =< response.threshold
    <3>1. response.threshold \in Int
      BY <1>0, ResponseType
    <3>2. CASE temp' = NoTemp
      <4>1. buffer' = SubSeq(Body, 1, produced') /\ ~NeedsFile(n) /\ temp = NoTemp
        BY <1>0, <1>6, <2>1, <2>4, <2>5, <3>2, WriteAdds
           DEF WriteCaptured, AddToCapture, Captured, Switched, TypeOK
      <4>2. QED
        BY <2>1, <3>1, <4>1, WriteExtends DEF NeedsFile
    <3>3. CASE temp' # NoTemp
      BY <1>d, <2>5, <3>1, <3>3
    <3>4. QED
      BY <3>2, <3>3
  <2>7. BufferOK'
    BY <2>1, <2>5, <2>6 DEF BufferOK, BufferBounded
  <2>8. CaptureOK'
    BY <2>1, <2>4, <2>5, WriteExtends DEF WriterInv, CaptureOK
  <2>9. FillOK' /\ EndOK'
    BY <2>1, <2>3, <2>4 DEF WriterInv, FillOK, EndOK, PassOn, Send, Reach
  <2>10. CapturedOK'
    BY <2>1, <2>4, <2>5, WriteExtends DEF CapturedOK, Beginning
  <2>11. QED
    BY <2>1, <2>2, <2>3, <2>7, <2>8, <2>9, <2>10, <1>b DEF WriterInv
<1>7. ASSUME NEW n \in Chunks, FileFails(n) PROVE WriterInv'
  <2>1. /\ Produce(n) /\ PassOn(Chunk(n)) /\ spoiled' /\ ~needCache'
        /\ buffer' = IF temp = NoTemp THEN <<>> ELSE buffer
        /\ UNCHANGED <<response, pc, captureOnly, abandoned, stored, cut>>
    BY <1>7 DEF FileFails
  <2>2. (gone => gone') /\ (captureOnly => sent' = sent) /\ (refused' => refused \/ gone')
    BY <2>1 DEF PassOn, Send, Reach
  <2>3. buffer' = <<>>
    BY <2>1 DEF WriterInv, BufferOK
  <2>4. BufferOK'
    BY <1>d, <2>1, <2>3 DEF BufferOK, BufferBounded
  <2>5. pc = "body" /\ needCache
    BY <1>7, <2>1, WriteExtends DEF FileFails
  <2>6. ClientOK'
    <3>1. /\ refused => refused'
          /\ captureOnly => UNCHANGED <<sent, gone>>
          /\ ~captureOnly => Reach(Chunk(n))
      BY <2>1 DEF PassOn, Send
    <3>2. QED
      BY <2>1, <3>1, PassedOn
  <2>7. CapturedOK'
    <3>1. PICK m \in 0..(n - 1) :
            temp' = (IF temp = NoTemp THEN Switched ELSE temp) \o SubSeq(Chunk(n), 1, m)
      BY <1>7 DEF FileFails
    <3>2. temp' = Captured \o SubSeq(Chunk(n), 1, m)
      BY <3>1 DEF Captured, Switched
    <3>3. Captured = SubSeq(Body, 1, produced)
      BY <2>1, <2>5, WriteExtends
    <3>4. temp' = SubSeq(Body, 1, produced + m) /\ Len(temp') = produced + m
      BY <2>1, <3>2, <3>3, PartWritten
    <3>5. temp' # NoTemp
      <4>1. temp' \in Bytes
        BY <2>1, <3>2, WriteAdds
      <4>2. QED
        BY <1>0, <4>1
    <3>6. m \in Nat /\ produced \in Nat /\ n \in Nat /\ m < n /\ produced + n =< response.length
          /\ response.length \in Nat
      BY <2>1, WriteAdds, WriteExtends DEF Produce
    <3>7. produced + m =< response.length
      BY <3>6
    <3>8. QED
      BY <2>1, <3>4, <3>5, <3>7, <1>a DEF CapturedOK, Captured, Beginning
  <2>8. CaptureOK' /\ FillOK' /\ EndOK'
    BY <2>1, <2>2, <2>5 DEF WriterInv, CaptureOK, FillOK, EndOK
  <2>9. QED
    BY <2>1, <2>2, <2>4, <2>6, <2>7, <2>8, <1>b DEF WriterInv
<1>8. CASE HandlerEnds
  <2>1. /\ pc = "body" /\ produced = response.length
        /\ pc' = IF response.fill /\ ~abandoned THEN "answer" ELSE "close"
        /\ UNCHANGED <<response, captureOnly, abandoned, needCache, buffer, temp, produced>>
        /\ UNCHANGED <<sent, stored, refused, gone, cut, spoiled>>
    BY <1>8 DEF HandlerEnds
  <2>2. ReleaseLost => ReleaseLost' /\ RefusedForFile'
    BY <2>1 DEF ReleaseLost, RefusedForFile
  <2>3. ClientOK'
    <3>1. Beginning(sent)' \/ ReleaseLost'
      BY <2>1, <2>2, <1>a DEF WriterInv, ClientOK, Beginning
    <3>2. ~captureOnly' /\ ~gone' => (sent = SubSeq(Body, 1, produced))' \/ ReleaseLost'
      BY <2>1, <2>2, <1>a DEF WriterInv, ClientOK
    <3>3. pc' \in {"close", "closed"} => ~captureOnly'
      BY <2>1 DEF WriterInv, FillOK
    <3>4. (sent = SubSeq(Body, 1, produced))' => (sent = Body)'
      BY <2>1, <1>a, <1>d
    <3>5. QED
      BY <2>2, <3>1, <3>2, <3>3, <3>4 DEF ClientOK, ReleaseLost
  <2>4. CaptureOK' /\ FillOK' /\ EndOK'
    BY <2>1, <1>a DEF WriterInv, CaptureOK, Captured, FillOK, EndOK
  <2>5. QED
    BY <2>1, <2>3, <2>4, <1>b, <1>c, <1>e DEF WriterInv
<1>9. CASE HandlerFails
  <2>1. /\ pc \in {"header", "body"} /\ pc' = "close" /\ cut' = (cut \/ ~refused)
        /\ UNCHANGED <<response, captureOnly, abandoned, needCache, buffer, temp, produced>>
        /\ UNCHANGED <<sent, stored, refused, gone, spoiled>>
    BY <1>9 DEF HandlerFails
  <2>2. cut => cut'
    BY <2>1
  <2>3. ClientOK'
    <3>1. ReleaseLost => ReleaseLost'
      BY <2>1 DEF ReleaseLost, RefusedForFile
    <3>2. ~gone' /\ ~cut' => RefusedForFile'
      BY <2>1 DEF WriterInv, EndOK, RefusedForFile
    <3>3. QED
      BY <2>1, <3>1, <3>2, <1>a DEF WriterInv, ClientOK, Beginning
  <2>4. CaptureOK' /\ FillOK' /\ EndOK'
    BY <2>1, <1>a DEF WriterInv, CaptureOK, Captured, FillOK, EndOK
  <2>5. QED
    BY <2>1, <2>2, <2>3, <2>4, <1>b, <1>c, <1>e DEF WriterInv
<1>10. CASE Answer
  <2>1. /\ pc = "answer" /\ pc' = "close" /\ sent' = Captured
        /\ UNCHANGED <<response, captureOnly, abandoned, needCache, buffer, temp, produced>>
        /\ UNCHANGED <<stored, refused, gone, cut, spoiled>>
    BY <1>10 DEF Answer
  <2>2. ~spoiled => Captured = Body
    BY <2>1, <1>d DEF WriterInv, CaptureOK, FillOK, EndOK
  <2>3. ClientOK'
    <3>1. Beginning(sent)'
      BY <2>1, <1>a DEF WriterInv, CapturedOK, Beginning
    <3>2. captureOnly' /\ (spoiled => FillSpoiled')
      BY <2>1 DEF WriterInv, EndOK, FillOK, FillSpoiled
    <3>3. QED
      BY <2>1, <2>2, <3>1, <3>2, <1>a DEF ClientOK
  <2>4. CaptureOK' /\ FillOK' /\ EndOK'
    BY <2>1, <1>a DEF WriterInv, CaptureOK, Captured, FillOK, EndOK
  <2>5. QED
    BY <2>1, <2>3, <2>4, <1>b, <1>c, <1>e DEF WriterInv
<1>11. CASE AnswerFails
  <2>1. /\ pc = "answer" /\ pc' = "close" /\ spoiled'
        /\ UNCHANGED <<response, captureOnly, abandoned, needCache, buffer, temp, produced>>
        /\ UNCHANGED <<sent, stored, refused, gone, cut>>
    BY <1>11 DEF AnswerFails
  <2>2. ClientOK'
    <3>1. ReleaseLost => ReleaseLost'
      BY <2>1 DEF ReleaseLost, RefusedForFile
    <3>2. captureOnly' /\ FillSpoiled'
      BY <2>1 DEF WriterInv, EndOK, FillOK, FillSpoiled
    <3>3. QED
      BY <2>1, <3>1, <3>2, <1>a DEF WriterInv, ClientOK, Beginning
  <2>3. CaptureOK' /\ FillOK' /\ EndOK'
    BY <2>1, <1>a DEF WriterInv, CaptureOK, Captured, FillOK, EndOK
  <2>4. QED
    BY <2>1, <2>2, <2>3, <1>b, <1>c, <1>e DEF WriterInv
<1>12. CASE Close
  <2>1. /\ pc = "close" /\ pc' = "closed" /\ temp' = NoTemp
        /\ stored' \in {NotStored} \cup (IF needCache THEN {Captured} ELSE {})
        /\ UNCHANGED <<response, captureOnly, abandoned, needCache, buffer, produced>>
        /\ UNCHANGED <<sent, refused, gone, cut, spoiled>>
    BY <1>12 DEF Close
  <2>2. CaptureOK' /\ CapturedOK' /\ FillOK' /\ EndOK' /\ BufferOK'
    BY <2>1, <1>a
       DEF WriterInv, CaptureOK, CapturedOK, FillOK, EndOK, BufferOK, BufferBounded
  <2>a. ClientOK'
    <3>1. /\ ReleaseLost => ReleaseLost'
          /\ RefusedForFile => RefusedForFile'
          /\ FillSpoiled => FillSpoiled'
      BY <2>1 DEF ReleaseLost, RefusedForFile, FillSpoiled
    <3>2. QED
      BY <2>1, <3>1, <1>a DEF WriterInv, ClientOK, Beginning
  <2>3. stored' # NotStored =>
          needCache /\ stored' = SubSeq(Body, 1, produced)
    BY <2>1 DEF WriterInv, CaptureOK
  <2>4. StoredWhole'
    BY <2>1, <2>3, <1>a, <1>d DEF WriterInv, EndOK, StoredWhole
  <2>5. StoredAllowed'
    <3>1. Len(SubSeq(Body, 1, produced)) = produced
      BY <1>d, ChunkOK DEF TypeOK
    <3>2. QED
      BY <2>1, <2>3, <3>1, <1>a, <1>d DEF WriterInv, CaptureOK, StoredAllowed
  <2>6. QED
    BY <2>2, <2>4, <2>5, <2>a DEF WriterInv
<1>13. CASE UNCHANGED vars
  <2>1. /\ UNCHANGED <<response, captureOnly, abandoned, needCache, buffer, temp, produced>>
        /\ UNCHANGED <<pc, sent, stored, refused, gone, cut, spoiled>>
    BY <1>13 DEF vars
  <2>2. CaptureOK' /\ CapturedOK' /\ FillOK' /\ EndOK'
    BY <2>1, <1>a DEF WriterInv, CaptureOK, CapturedOK, Captured, Beginning, FillOK, EndOK
  <2>3. ClientOK'
    BY <2>1, <1>a
       DEF WriterInv, ClientOK, Beginning, ReleaseLost, RefusedForFile, FillSpoiled
  <2>4. QED
    BY <2>1, <2>2, <2>3, <1>b, <1>c DEF WriterInv
<1>14. QED
  BY <1>1, <1>2, <1>3, <1>4, <1>5, <1>6, <1>7, <1>8, <1>9, <1>10, <1>11, <1>12, <1>13
     DEF Next
-----------------------------------------------------------------------------
(* The theorems.                                                           *)

\* The response writer's state has its types, and is as WriterInv has it, always: of
\* the two the types need what WriterInv says of the temporary file.
THEOREM WriterInvariant == Spec => [](TypeOK /\ WriterInv)
<1>1. Init => TypeOK
  <2> SUFFICES ASSUME Init PROVE TypeOK
    OBVIOUS
  <2>1. /\ response \in Responses /\ <<>> \in Bytes
        /\ response.length \in Nat /\ response.fill \in BOOLEAN
    BY NoTempNoBytes, ResponseType, ResponseWriterAssumption DEF Init
  <2>2. {captureOnly, abandoned, needCache, refused, gone, cut, spoiled} \subseteq BOOLEAN
    BY <2>1 DEF Init
  <2>3. produced \in 0..response.length /\ pc \in {"header"}
    BY <2>1 DEF Init
  <2>4. QED
    BY <2>1, <2>2, <2>3, Zenon DEF Init, TypeOK
<1>2. Init => WriterInv
  <2> SUFFICES ASSUME Init PROVE WriterInv
    OBVIOUS
  <2>1. response \in Responses /\ captureOnly = response.fill
    BY DEF Init
  <2>2. /\ SubSeq(Body, 1, 0) = <<>> /\ Len(<<>>) = 0
        /\ response.length \in Nat /\ response.threshold \in Int
    BY <2>1, ResponseType, ResponseWriterAssumption, SubSeqEmpty
  <2>3. CaptureOK /\ FillOK /\ EndOK /\ StoredWhole /\ StoredAllowed
    BY <2>1 DEF Init, CaptureOK, FillOK, EndOK, StoredWhole, StoredAllowed
  <2>4. BufferOK
    BY <2>2 DEF Init, BufferOK, BufferBounded
  <2>5. Beginning(<<>>)
    BY <2>2 DEF Beginning
  <2>6. ClientOK /\ CapturedOK
    BY <2>2, <2>5 DEF Init, ClientOK, CapturedOK, Captured
  <2>7. QED
    BY <2>3, <2>4, <2>6 DEF WriterInv
<1>3. TypeOK /\ WriterInv /\ [Next]_vars => (TypeOK /\ WriterInv)'
  BY TypeStep, WriterStep, ResponseWriterAssumption DEF WriterInv
<1>4. QED
  BY <1>1, <1>2, <1>3, PTL DEF Spec

\* The response writer's state has the types TypeOK gives it.
THEOREM WriterTyped == Spec => []TypeOK
BY WriterInvariant, PTL

\* What the client gets (Write, releaseCaptureLocked, serveRangeFill) is the body from
\* its beginning, at once if nothing is held back, and all of it in the end, but for the
\* two ways a temporary file that failed costs it the rest.
THEOREM ClientGetsBody == Spec => []ClientWhole
<1>1. TypeOK /\ WriterInv => ClientWhole
  <2> SUFFICES ASSUME TypeOK, WriterInv
               PROVE  ClientWhole
    OBVIOUS
  <2>1. Beginning(sent) => IsPrefix(sent, Body)
    <3>1. Len(Body) = response.length
      BY ResponseType, ResponseWriterAssumption DEF TypeOK, Body
    <3>2. sent = SubSeq(sent, 1, Len(sent))
      BY SubSeqFull DEF TypeOK, Bytes
    <3>3. QED
      BY <3>1, <3>2 DEF IsPrefix, Beginning
  <2>2. ~response.fill => ~captureOnly /\ ~ReleaseLost
    BY DEF WriterInv, FillOK, ReleaseLost
  <2>3. QED
    BY <2>1, <2>2 DEF WriterInv, ClientOK, ClientWhole, ReleaseLost
<1>2. QED
  BY <1>1, WriterInvariant, PTL

\* The buffer never grows past streamToDiskSize, whatever switchToStreaming meets.
THEOREM BufferStaysSmall == Spec => []BufferBounded
<1>1. WriterInv => BufferBounded
  BY DEF WriterInv, BufferOK
<1>2. QED
  BY <1>1, WriterInvariant, PTL

\* Close stores nothing but the whole body, of a client that stayed and an origin that
\* did not break off.
THEOREM WholeBodyStored == Spec => []StoredWhole
<1>1. WriterInv => StoredWhole
  BY DEF WriterInv
<1>2. QED
  BY <1>1, WriterInvariant, PTL

\* Close stores nothing whose status, headers or length forbid it.
THEOREM OnlyAllowedStored == Spec => []StoredAllowed
<1>1. WriterInv => StoredAllowed
  BY DEF WriterInv
<1>2. QED
  BY <1>1, WriterInvariant, PTL
=============================================================================
