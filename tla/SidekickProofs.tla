--------------------------- MODULE SidekickProofs ---------------------------
(***************************************************************************)
(* The safety properties of Sidekick.tla, proved for every set of keys and  *)
(* requests and every number of edits.                                     *)
(*                                                                         *)
(* None of them is inductive as it stands. What they rest on is that a      *)
(* record is named by its leader, who is the last to lose track of it:      *)
(* RecordInv ties the registry, the channels and the requests together, and *)
(* FreshInv follows each response from its rendering into the cache and to  *)
(* the clients.                                                            *)
(***************************************************************************)
EXTENDS Sidekick, TLAPS

\* A request holds a record from acquireFill on; the record is its leader's,
\* for the same key, and its leader neither waits nor passes through.
FillOK(r) ==
  /\ pc[r] \in {"idle", "lookup", "acquire"} => fill[r] = None
  /\ pc[r] \in Holding \cup {"await"} => fill[r] # None
  /\ fill[r] # None =>
       /\ fill[fill[r]] = fill[r]
       /\ key[fill[r]] = key[r]
       /\ pc[fill[r]] \in Holding \cup {"done"}

\* The record registered for a key is open, and its leader is still filling.
RegisteredOK(k) ==
  inFlight[k] # None =>
    /\ key[inFlight[k]] = k
    /\ fill[inFlight[k]] = inFlight[k]
    /\ pc[inFlight[k]] \in Filling
    /\ ~closed[inFlight[k]]

\* Whoever is about to close the channel has dropped the record; a leader that
\* is done has closed its own; only leaders fill for a Range request.
ReleaseOK(r) ==
  /\ pc[r] = "wake" => inFlight[key[r]] # fill[r]
  /\ fill[r] = r /\ pc[r] = "done" => closed[r]
  /\ kind[r] = "range" /\ pc[r] \in Holding => fill[r] = r

\* A leader's record stays registered until a plain sharer drops it.
LeaderOK(f) ==
  fill[f] = f /\ pc[f] \in Filling => inFlight[key[f]] = f \/ LeftEarly(f)

RecordInv ==
  /\ \A r \in Requests : FillOK(r)
  /\ \A k \in Keys : RegisteredOK(k)
  /\ \A r \in Requests : ReleaseOK(r)
  /\ \A f \in Requests : LeaderOK(f)
  /\ EarlyWakeOnlyBySharer

\* The response of q will not change any more.
Rendered(q) ==
  pc[q] \in {"body", "stream", "close", "store", "release", "wake", "done"}

VersionOK ==
  /\ \A k \in Keys : floor[k] <= origin[k]
  /\ \A r \in Requests : since[r] <= floor[key[r]]

\* A response that may still be stored and predates the purge was overtaken.
CarriedOK(r) ==
  pc[r] \in Carrying /\ ver[r] < floor[key[r]] => r \in overtaken

StoredOK(k) ==
  \A q \in cache[k] :
    /\ key[q] = k
    /\ Rendered(q)
    /\ ver[q] < floor[k] => q \in overtaken

SentOK(r) ==
  /\ pc[r] \in {"idle", "lookup"} => got[r] = None
  /\ got[r] # None =>
       /\ Rendered(got[r])
       /\ ver[got[r]] < since[r] => got[r] \in overtaken

FreshInv ==
  /\ VersionOK
  /\ \A r \in Requests : CarriedOK(r)
  /\ \A k \in Keys : StoredOK(k)
  /\ \A r \in Requests : SentOK(r)

-----------------------------------------------------------------------------
(* Every step of the system is one of these. *)

LEMMA NextCases ==
  ASSUME NEW P, [Next]_vars,
         ASSUME NEW k \in Keys, Publish(k) PROVE P,
         ASSUME NEW k \in Keys, Vanish(k) PROVE P,
         ASSUME NEW K \in SUBSET Keys, HandlePurgeRequest(K) PROVE P,
         ASSUME NEW r \in Requests, Arrive(r) PROVE P,
         ASSUME NEW r \in Requests, Lookup(r) PROVE P,
         ASSUME NEW r \in Requests, AcquireAsLeader(r) PROVE P,
         ASSUME NEW r \in Requests, AcquireAsSharer(r) PROVE P,
         ASSUME NEW r \in Requests, AwaitDone(r) PROVE P,
         ASSUME NEW r \in Requests, AwaitTimeout(r) PROVE P,
         ASSUME NEW r \in Requests, AwaitDisconnect(r) PROVE P,
         ASSUME NEW r \in Requests, PassThrough(r) PROVE P,
         ASSUME NEW r \in Requests, Respond(r) PROVE P,
         ASSUME NEW r \in Requests, GiveUpCapture(r) PROVE P,
         ASSUME NEW r \in Requests, FetchEnds(r) PROVE P,
         ASSUME NEW r \in Requests, Close(r) PROVE P,
         ASSUME NEW r \in Requests, Store(r) PROVE P,
         ASSUME NEW r \in Requests, ReleaseRecord(r) PROVE P,
         ASSUME NEW r \in Requests, WakeFollowers(r) PROVE P,
         ASSUME UNCHANGED vars PROVE P
  PROVE  P
BY DEF Next, Client, Handler, Upstream, Acquire

-----------------------------------------------------------------------------
(* Types. *)

\* The handler's state has the types TypeOK gives it.
THEOREM TypeCorrect == Spec => []TypeOK
<1> USE SidekickAssumption
<1>1. Init => TypeOK
  BY DEF Init, TypeOK, PCs, Maybe
<1>2. TypeOK /\ [Next]_vars => TypeOK'
  <2> SUFFICES ASSUME TypeOK, [Next]_vars PROVE TypeOK'
    OBVIOUS
  <2> USE DEF TypeOK, Maybe, PCs, Holding, Filling, Goto, Serve, Hit,
              registry, request, ghosts
  <2>1. ASSUME NEW k \in Keys, Publish(k) PROVE TypeOK'
    BY <2>1 DEF Publish
  <2>2. ASSUME NEW k \in Keys, Vanish(k) PROVE TypeOK'
    BY <2>2 DEF Vanish
  <2>3. ASSUME NEW K \in SUBSET Keys, HandlePurgeRequest(K) PROVE TypeOK'
    BY <2>3 DEF HandlePurgeRequest
  <2>4. ASSUME NEW r \in Requests, Arrive(r) PROVE TypeOK'
    BY <2>4 DEF Arrive
  <2>5. ASSUME NEW r \in Requests, Lookup(r) PROVE TypeOK'
    BY <2>5 DEF Lookup
  <2>6. ASSUME NEW r \in Requests, AcquireAsLeader(r) PROVE TypeOK'
    BY <2>6 DEF AcquireAsLeader
  <2>7. ASSUME NEW r \in Requests, AcquireAsSharer(r) PROVE TypeOK'
    BY <2>7 DEF AcquireAsSharer
  <2>8. ASSUME NEW r \in Requests, AwaitDone(r) PROVE TypeOK'
    BY <2>8 DEF AwaitDone
  <2>9. ASSUME NEW r \in Requests, AwaitTimeout(r) PROVE TypeOK'
    BY <2>9 DEF AwaitTimeout
  <2>10. ASSUME NEW r \in Requests, AwaitDisconnect(r) PROVE TypeOK'
    BY <2>10 DEF AwaitDisconnect
  <2>11. ASSUME NEW r \in Requests, PassThrough(r) PROVE TypeOK'
    BY <2>11 DEF PassThrough
  <2>12. ASSUME NEW r \in Requests, Respond(r) PROVE TypeOK'
    BY <2>12 DEF Respond
  <2>13. ASSUME NEW r \in Requests, GiveUpCapture(r) PROVE TypeOK'
    BY <2>13 DEF GiveUpCapture
  <2>14. ASSUME NEW r \in Requests, FetchEnds(r) PROVE TypeOK'
    BY <2>14 DEF FetchEnds
  <2>15. ASSUME NEW r \in Requests, Close(r) PROVE TypeOK'
    BY <2>15 DEF Close
  <2>16. ASSUME NEW r \in Requests, Store(r) PROVE TypeOK'
    <3>1. cache' \in [Keys -> SUBSET Requests]
      BY <2>16 DEF Store
    <3>2. once' \in [Requests -> {"unused", "busy", "used"}]
      BY <2>16 DEF Store
    <3>3. pc' \in [Requests -> PCs]
      BY <2>16 DEF Store
    <3>4. QED
      BY <2>16, <3>1, <3>2, <3>3 DEF Store
  <2>17. ASSUME NEW r \in Requests, ReleaseRecord(r) PROVE TypeOK'
    BY <2>17 DEF ReleaseRecord
  <2>18. ASSUME NEW r \in Requests, WakeFollowers(r) PROVE TypeOK'
    BY <2>18 DEF WakeFollowers
  <2>19. ASSUME UNCHANGED vars PROVE TypeOK'
    BY <2>19 DEF vars
  <2>20. QED
    BY NextCases, <2>1, <2>2, <2>3, <2>4, <2>5, <2>6, <2>7, <2>8, <2>9, <2>10,
       <2>11, <2>12, <2>13, <2>14, <2>15, <2>16, <2>17, <2>18, <2>19
<1>3. QED
  BY <1>1, <1>2, PTL DEF Spec

-----------------------------------------------------------------------------
(* Records. *)

LEMMA RecordStep ==
  ASSUME TypeOK, RecordInv, [Next]_vars
  PROVE  RecordInv'
<1> USE SidekickAssumption
<1> USE DEF TypeOK, Maybe, PCs, Holding, Filling, Goto, registry, request,
            ghosts, RecordInv, FillOK, RegisteredOK, ReleaseOK, LeaderOK,
            LeftEarly, EarlyWakeOnlyBySharer
  <1>1. ASSUME NEW k \in Keys, Publish(k) PROVE RecordInv'
    BY <1>1 DEF Publish
  <1>2. ASSUME NEW k \in Keys, Vanish(k) PROVE RecordInv'
    BY <1>2 DEF Vanish
  <1>3. ASSUME NEW K \in SUBSET Keys, HandlePurgeRequest(K) PROVE RecordInv'
    BY <1>3 DEF HandlePurgeRequest
  <1>4. ASSUME NEW r \in Requests, Arrive(r) PROVE RecordInv'
    BY <1>4 DEF Arrive
  <1>5. ASSUME NEW r \in Requests, Lookup(r) PROVE RecordInv'
    <2>1. /\ pc[r] = "lookup"
          /\ \E to \in {"done", "pass", "acquire"} : pc' = [pc EXCEPT ![r] = to]
          /\ UNCHANGED <<inFlight, once, closed, kind, key, fill>>
      BY <1>5 DEF Lookup
    <2>2. PICK to \in {"done", "pass", "acquire"} : pc' = [pc EXCEPT ![r] = to]
      BY <2>1
    <2>3. fill[r] = None
      BY <2>1
    <2>4. QED
      BY <2>1, <2>2, <2>3
  <1>6. ASSUME NEW r \in Requests, AcquireAsLeader(r) PROVE RecordInv'
    BY <1>6 DEF AcquireAsLeader
  <1>7. ASSUME NEW r \in Requests, AcquireAsSharer(r) PROVE RecordInv'
    BY <1>7 DEF AcquireAsSharer
  <1>8. ASSUME NEW r \in Requests, AwaitDone(r) PROVE RecordInv'
    BY <1>8 DEF AwaitDone
  <1>9. ASSUME NEW r \in Requests, AwaitTimeout(r) PROVE RecordInv'
    BY <1>9 DEF AwaitTimeout
  <1>10. ASSUME NEW r \in Requests, AwaitDisconnect(r) PROVE RecordInv'
    BY <1>10 DEF AwaitDisconnect
  <1>11. ASSUME NEW r \in Requests, PassThrough(r) PROVE RecordInv'
    BY <1>11 DEF PassThrough
  <1>12. ASSUME NEW r \in Requests, Respond(r) PROVE RecordInv'
    BY <1>12 DEF Respond
  <1>13. ASSUME NEW r \in Requests, GiveUpCapture(r) PROVE RecordInv'
    BY <1>13 DEF GiveUpCapture
  <1>14. ASSUME NEW r \in Requests, FetchEnds(r) PROVE RecordInv'
    <2>1. CASE Goto(r, "body", "close")
      BY <1>14, <2>1 DEF FetchEnds
    <2>2. CASE Goto(r, "stream", "release")
      BY <1>14, <2>2 DEF FetchEnds
    <2>3. QED
      BY <1>14, <2>1, <2>2 DEF FetchEnds
  <1>15. ASSUME NEW r \in Requests, Close(r) PROVE RecordInv'
    <2>1. CASE Goto(r, "close", "store")
      BY <1>15, <2>1 DEF Close
    <2>2. CASE Goto(r, "close", "release")
      BY <1>15, <2>2 DEF Close
    <2>3. QED
      BY <1>15, <2>1, <2>2 DEF Close
  <1>16. ASSUME NEW r \in Requests, Store(r) PROVE RecordInv'
    BY <1>16 DEF Store
  <1>17. ASSUME NEW r \in Requests, ReleaseRecord(r) PROVE RecordInv'
    BY <1>17 DEF ReleaseRecord
  <1>18. ASSUME NEW r \in Requests, WakeFollowers(r) PROVE RecordInv'
    BY <1>18 DEF WakeFollowers
  <1>19. ASSUME UNCHANGED vars PROVE RecordInv'
    BY <1>19 DEF vars
  <1>20. QED
    BY NextCases, <1>1, <1>2, <1>3, <1>4, <1>5, <1>6, <1>7, <1>8, <1>9, <1>10, <1>11, <1>12, <1>13, <1>14, <1>15, <1>16, <1>17, <1>18, <1>19

THEOREM RecordsCorrect == Spec => []RecordInv
<1>1. Init => RecordInv
  BY SidekickAssumption
  DEF Init, RecordInv, FillOK, RegisteredOK, ReleaseOK, LeaderOK,
      EarlyWakeOnlyBySharer, Holding, Filling
<1>2. TypeOK /\ RecordInv /\ [Next]_vars => RecordInv'
  BY RecordStep
<1>3. QED
  BY <1>1, <1>2, TypeCorrect, PTL DEF Spec

\* A record found in the registry is open and will be released.
THEOREM RegistryIsOpen == Spec => []RegisteredIsOpen
<1>1. TypeOK /\ RecordInv => RegisteredIsOpen
  BY DEF TypeOK, Maybe, RecordInv, RegisteredOK, RegisteredIsOpen
<1>2. QED
  BY <1>1, TypeCorrect, RecordsCorrect, PTL

\* No follower waits on a record that nobody is left to release.
THEOREM FollowersNotOrphaned == Spec => []NoOrphanWait
<1>1. TypeOK /\ RecordInv => NoOrphanWait
  <2> SUFFICES ASSUME TypeOK, RecordInv, NEW r \in Requests,
                      pc[r] = "await", ~closed[fill[r]]
               PROVE  \E q \in Requests : fill[q] = fill[r] /\ pc[q] \in Holding
    BY DEF NoOrphanWait
  <2>1. fill[r] \in Requests /\ fill[fill[r]] = fill[r]
    BY DEF TypeOK, Maybe, RecordInv, FillOK
  <2>2. pc[fill[r]] \in Holding
    BY <2>1 DEF RecordInv, FillOK, ReleaseOK
  <2>3. QED
    BY <2>1, <2>2
<1>2. QED
  BY <1>1, TypeCorrect, RecordsCorrect, PTL

\* Range requests read an object upstream one at a time unless a plain request
\* releases the record they share.
THEOREM FullFetchesCollapse == Spec => []OneFullFetch
<1>1. RecordInv => OneFullFetch
  <2> SUFFICES ASSUME RecordInv, NEW q \in Requests, NEW r \in Requests,
                      q # r, key[q] = key[r], {kind[q], kind[r]} = {"range"},
                      {pc[q], pc[r]} \subseteq Filling
               PROVE  LeftEarly(q) \/ LeftEarly(r)
    BY DEF OneFullFetch
  <2>1. kind[q] = "range" /\ kind[r] = "range"
    OBVIOUS
  <2>2. pc[q] \in Filling /\ pc[r] \in Filling
    OBVIOUS
  <2>3. fill[q] = q /\ fill[r] = r
    BY <2>1, <2>2 DEF RecordInv, ReleaseOK, Holding
  <2>4. /\ inFlight[key[q]] = q \/ LeftEarly(q)
        /\ inFlight[key[r]] = r \/ LeftEarly(r)
    BY <2>2, <2>3 DEF RecordInv, LeaderOK
  <2>5. QED
    BY <2>4
<1>2. QED
  BY <1>1, RecordsCorrect, PTL

\* Only a plain sharer wakes followers before the leader has stored.
THEOREM EarlyWakes == Spec => []EarlyWakeOnlyBySharer
<1>1. RecordInv => EarlyWakeOnlyBySharer
  BY DEF RecordInv
<1>2. QED
  BY <1>1, RecordsCorrect, PTL

\* A late release never evicts the record of a newer fill.
THEOREM ReleasesOwnRecord == Spec => OnlyOwnRelease
<1> DEFINE Own ==
  \A k \in Keys : inFlight[k] # None /\ inFlight'[k] # inFlight[k] =>
    /\ inFlight'[k] = None
    /\ \E r \in Requests :
         fill[r] = inFlight[k] /\ pc[r] = "release" /\ pc'[r] = "wake"
<1>1. TypeOK /\ [Next]_vars => Own
  <2> SUFFICES ASSUME TypeOK, [Next]_vars PROVE Own
    OBVIOUS
  <2>1. CASE UNCHANGED inFlight
    BY <2>1
  <2>2. ASSUME NEW r \in Requests, AcquireAsLeader(r) PROVE Own
    BY <2>2 DEF AcquireAsLeader, TypeOK
  <2>3. ASSUME NEW r \in Requests, ReleaseRecord(r) PROVE Own
    BY <2>3 DEF ReleaseRecord, Goto, TypeOK
  <2>4. QED
    BY <2>1, <2>2, <2>3
    DEF Next, Client, Handler, Upstream, Acquire, Publish, Vanish,
        HandlePurgeRequest, Arrive, Lookup, AcquireAsSharer, AwaitDone,
        AwaitTimeout, AwaitDisconnect, PassThrough, Respond, GiveUpCapture,
        FetchEnds, Close, Store, WakeFollowers, registry, vars
<1>2. QED
  BY <1>1, TypeCorrect, PTL DEF Spec, OnlyOwnRelease

-----------------------------------------------------------------------------
(* Staleness. *)

\* A stored copy that is sent is as fresh as the copies that are stored.
LEMMA HitFresh ==
  ASSUME TypeOK, FreshInv, NEW r \in Requests, NEW q \in cache[key[r]],
         NEW from \in PCs, Serve(r, q), Goto(r, from, "done"),
         UNCHANGED <<origin, cache, registry, request, fill, ver, ghosts>>
  PROVE  FreshInv'
<1> USE DEF TypeOK, Maybe, PCs, Holding, Filling, Carrying, Goto, Serve,
            registry, request, ghosts, FreshInv
<1>1. q \in Requests /\ q # None
  BY SidekickAssumption
<1>2. Rendered(q) /\ (ver[q] < since[r] => q \in overtaken)
  BY <1>1 DEF StoredOK, VersionOK
<1>3. VersionOK' /\ \A p \in Requests : CarriedOK(p)'
  BY DEF VersionOK, CarriedOK
<1>4. \A k \in Keys : StoredOK(k)'
  BY DEF StoredOK, Rendered
<1>5. \A p \in Requests : SentOK(p)'
  BY <1>1, <1>2 DEF SentOK, Rendered
<1>6. QED
  BY <1>3, <1>4, <1>5

LEMMA FreshStep ==
  ASSUME TypeOK, FreshInv, [Next]_vars
  PROVE  FreshInv'
<1> USE SidekickAssumption
<1> USE DEF TypeOK, Maybe, PCs, Holding, Filling, Carrying, Goto, Serve,
            registry, request, ghosts, FreshInv, VersionOK, CarriedOK,
            StoredOK, SentOK, Rendered
<1>1. ASSUME NEW k \in Keys, Publish(k) PROVE FreshInv'
  BY <1>1 DEF Publish
<1>2. ASSUME NEW k \in Keys, Vanish(k) PROVE FreshInv'
  BY <1>2 DEF Vanish
<1>3. ASSUME NEW K \in SUBSET Keys, HandlePurgeRequest(K) PROVE FreshInv'
  BY <1>3 DEF HandlePurgeRequest
<1>4. ASSUME NEW r \in Requests, Arrive(r) PROVE FreshInv'
  BY <1>4 DEF Arrive
<1>5. ASSUME NEW r \in Requests, Lookup(r) PROVE FreshInv'
  <2>1. ASSUME Goto(r, "lookup", IF kind[r] = "readonly" THEN "pass" ELSE "acquire"),
               UNCHANGED got
        PROVE  FreshInv'
    BY <1>5, <2>1 DEF Lookup
  <2>2. ASSUME NEW q \in cache[key[r]], Serve(r, q), Goto(r, "lookup", "done")
        PROVE  FreshInv'
    BY <1>5, <2>2, HitFresh DEF Lookup
  <2>3. QED
    BY <1>5, <2>1, <2>2 DEF Lookup, Hit
<1>6. ASSUME NEW r \in Requests, AcquireAsLeader(r) PROVE FreshInv'
  BY <1>6 DEF AcquireAsLeader
<1>7. ASSUME NEW r \in Requests, AcquireAsSharer(r) PROVE FreshInv'
  BY <1>7 DEF AcquireAsSharer
<1>8. ASSUME NEW r \in Requests, AwaitDone(r) PROVE FreshInv'
  <2>1. ASSUME Goto(r, "await", "pass"), UNCHANGED got PROVE FreshInv'
    BY <1>8, <2>1 DEF AwaitDone
  <2>2. ASSUME NEW q \in cache[key[r]], Serve(r, q), Goto(r, "await", "done")
        PROVE  FreshInv'
    BY <1>8, <2>2, HitFresh DEF AwaitDone
  <2>3. QED
    BY <1>8, <2>1, <2>2 DEF AwaitDone, Hit
<1>9. ASSUME NEW r \in Requests, AwaitTimeout(r) PROVE FreshInv'
  BY <1>9 DEF AwaitTimeout
<1>10. ASSUME NEW r \in Requests, AwaitDisconnect(r) PROVE FreshInv'
  BY <1>10 DEF AwaitDisconnect
<1>11. ASSUME NEW r \in Requests, PassThrough(r) PROVE FreshInv'
  BY <1>11 DEF PassThrough
<1>12. ASSUME NEW r \in Requests, Respond(r) PROVE FreshInv'
  BY <1>12 DEF Respond
<1>13. ASSUME NEW r \in Requests, GiveUpCapture(r) PROVE FreshInv'
  BY <1>13 DEF GiveUpCapture
<1>14. ASSUME NEW r \in Requests, FetchEnds(r) PROVE FreshInv'
  BY <1>14 DEF FetchEnds
<1>15. ASSUME NEW r \in Requests, Close(r) PROVE FreshInv'
  <2>1. pc[r] = "close" /\ \E to \in {"store", "release"} : pc' = [pc EXCEPT ![r] = to]
    BY <1>15 DEF Close
  <2>2. UNCHANGED <<cache, key, ver, got, floor, since, origin, overtaken>>
    BY <1>15 DEF Close
  <2>3. \A q \in Requests : Rendered(q) => Rendered(q)'
    BY <2>1
  <2>4. \A k \in Keys : StoredOK(k)'
    BY <2>2, <2>3
  <2>5. VersionOK'
    BY <2>2
  <2>6. \A q \in Requests : CarriedOK(q)'
    BY <2>1, <2>2
  <2>7. \A q \in Requests : SentOK(q)'
    BY <2>1, <2>2, <2>3
  <2>8. QED
    BY <2>4, <2>5, <2>6, <2>7
<1>16. ASSUME NEW r \in Requests, Store(r) PROVE FreshInv'
  <2>1. \A k \in Keys : StoredOK(k)'
    <3>1. \A k \in Keys : cache'[k] \subseteq
                             IF k = key[r] THEN cache[k] \cup {r} ELSE cache[k]
      BY <1>16 DEF Store
    <3>2. \A q \in Requests : Rendered(q) => Rendered(q)'
      BY <1>16 DEF Store
    <3>3. Rendered(r) /\ (ver[r] < floor[key[r]] => r \in overtaken)
      BY <1>16 DEF Store
    <3>4. UNCHANGED <<key, ver, floor, overtaken>>
      BY <1>16 DEF Store
    <3>5. QED
      BY <3>1, <3>2, <3>3, <3>4
  <2>2. VersionOK'
    BY <1>16 DEF Store
  <2>3. \A q \in Requests : CarriedOK(q)'
    BY <1>16 DEF Store
  <2>4. \A q \in Requests : SentOK(q)'
    BY <1>16 DEF Store
  <2>5. QED
    BY <2>1, <2>2, <2>3, <2>4
<1>17. ASSUME NEW r \in Requests, ReleaseRecord(r) PROVE FreshInv'
  BY <1>17 DEF ReleaseRecord
<1>18. ASSUME NEW r \in Requests, WakeFollowers(r) PROVE FreshInv'
  BY <1>18 DEF WakeFollowers
<1>19. ASSUME UNCHANGED vars PROVE FreshInv'
  BY <1>19 DEF vars
<1>20. QED
  BY NextCases, <1>1, <1>2, <1>3, <1>4, <1>5, <1>6, <1>7, <1>8, <1>9, <1>10, <1>11, <1>12, <1>13, <1>14, <1>15, <1>16, <1>17, <1>18, <1>19

\* Only what was rendered before a purge and stored after it can be stale.
THEOREM PurgeCorrect == Spec => []StaleOnlyIfOvertaken
<1>1. Init => FreshInv
  BY SidekickAssumption
  DEF Init, FreshInv, VersionOK, CarriedOK, StoredOK, SentOK, Carrying
<1>2. TypeOK /\ FreshInv /\ [Next]_vars => FreshInv'
  BY FreshStep
<1>3. FreshInv => StaleOnlyIfOvertaken
  BY DEF FreshInv, StoredOK, SentOK, StaleOnlyIfOvertaken
<1>4. QED
  BY <1>1, <1>2, <1>3, TypeCorrect, PTL DEF Spec
=============================================================================
