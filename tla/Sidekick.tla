------------------------------ MODULE Sidekick ------------------------------
(***************************************************************************)
(* The request handler of the middleware: Sidekick.ServeHTTP, the in-flight *)
(* record that collapses concurrent range fills (SyncHandler,              *)
(* inflightFill), ResponseWriter.Close as the store that ends a miss, and   *)
(* the purge endpoint, all interleaved.                                    *)
(*                                                                         *)
(* What a page says is abstracted to the VERSION of it the origin had when  *)
(* it rendered the response, and a response to the request that fetched it: *)
(* q \in cache[k] reads "a read of k may find the response fetched by q".   *)
(* Storage is here what Cache.tla says it promises, its load finished: the  *)
(* two tiers may hold a copy each, of different age; eviction and expiry    *)
(* reach the handler as copies that disappear (Vanish), faults as reads or  *)
(* writes that come to nothing.                                            *)
(*                                                                         *)
(* Each critical section of SyncHandler.cacheMu and inFlightMu is one step. *)
(* Whatever happens outside a lock is a step of its own.                    *)
(*                                                                         *)
(* A definition whose name starts with Wrong is the one that follows it     *)
(* with a plausible bug in it. No specification uses it: it is there to     *)
(* show that the property named beside it can tell the difference.          *)
(***************************************************************************)
EXTENDS Naturals

CONSTANTS
  Keys,        \* the cache keys requests are mapped to
  Requests,    \* the requests; each arrives once
  Kinds,       \* the kinds of request that arrive, out of AllKinds
  MaxVersion,  \* bound: how often the content behind a key is edited
  None         \* no entry, no record, no response

(***************************************************************************)
(* "range": a Range request with range_fill on; "plain": any other request  *)
(* that may fill; "readonly": a click-ID value that may read an entry but   *)
(* not fill it; "bypass": bypassReasonFor gave a reason, or not a GET.      *)
(***************************************************************************)
AllKinds == {"plain", "range", "readonly", "bypass"}

ASSUME SidekickAssumption ==
  /\ Kinds \subseteq AllKinds
  /\ MaxVersion \in Nat
  /\ None \notin Requests

VARIABLES
  origin,     \* origin[k]: the version the origin renders for k
  cache,      \* cache[k]: the requests whose responses are stored for k
  inFlight,   \* SyncHandler.inFlight: the record of k, named by its creator
  once,       \* once[f]: the sync.Once of record f
  closed,     \* closed[f]: whether the done channel of record f is closed
  pc,         \* pc[r]: where request r is in ServeHTTP
  kind, key,  \* what r asks for
  fill,       \* fill[r]: the record r created or joined
  ver,        \* ver[r]: the version the origin rendered for r
  got,        \* got[r]: the request whose response r's client was sent
  floor,      \* ghost: the version current when k was last purged
  since,      \* ghost: floor of r's key when r arrived
  overtaken   \* ghost: requests already rendered when a purge of their key ran

registry == <<inFlight, once, closed>>
request  == <<kind, key, since>>
ghosts   == <<floor, overtaken>>
vars == <<origin, cache, registry, pc, request, fill, ver, got, ghosts>>

-----------------------------------------------------------------------------
(* The states of a request, in groups that the properties speak of. *)

\* Between acquireFill and the deletion of the record in releaseFill.
Filling == {"fetch", "body", "stream", "close", "store", "release"}
\* Filling, or about to close the done channel.
Holding == Filling \cup {"wake"}
\* The response is rendered and may still be stored.
Carrying == {"body", "close", "store"}

PCs == Holding \cup {"idle", "lookup", "acquire", "await", "pass", "done"}

Init ==
  /\ origin = [k \in Keys |-> 0]
  /\ cache = [k \in Keys |-> {}]
  /\ inFlight = [k \in Keys |-> None]
  /\ once = [f \in Requests |-> "unused"]
  /\ closed = [f \in Requests |-> FALSE]
  /\ pc = [r \in Requests |-> "idle"]
  /\ kind \in [Requests -> Kinds]
  /\ key \in [Requests -> Keys]
  /\ fill = [r \in Requests |-> None]
  /\ ver = [r \in Requests |-> 0]
  /\ got = [r \in Requests |-> None]
  /\ floor = [k \in Keys |-> 0]
  /\ since = [r \in Requests |-> 0]
  /\ overtaken = {}

\* r moves from one place of the handler to another.
Goto(r, from, to) ==
  /\ pc[r] = from
  /\ pc' = [pc EXCEPT ![r] = to]

\* r's client is sent the response that q fetched.
Serve(r, q) == got' = [got EXCEPT ![r] = q]

-----------------------------------------------------------------------------
(* The world outside the handler. *)

\* A page is edited; the mu-plugin's purge request follows, some time later.
Publish(k) ==
  /\ origin[k] < MaxVersion
  /\ origin' = [origin EXCEPT ![k] = @ + 1]
  /\ UNCHANGED <<cache, registry, pc, request, fill, ver, got, ghosts>>

\* Storage loses a copy of k: evicted, expired, or removed by a failed write or
\* by a purgeAsync started when an earlier entry of k had expired.
Vanish(k) ==
  /\ \E q \in cache[k] : cache' = [cache EXCEPT ![k] = @ \ {q}]
  /\ UNCHANGED <<origin, registry, pc, request, fill, ver, got, ghosts>>

\* Wrong: leaves alone a key that is being filled. (StaleOnlyIfOvertaken)
WrongPurgeSkipsFilling(K) ==
  /\ cache' = [k \in Keys |->
       IF k \in K /\ inFlight[k] = None THEN {} ELSE cache[k]]
  /\ floor' = [k \in Keys |-> IF k \in K THEN origin[k] ELSE floor[k]]
  /\ overtaken' =
       overtaken \cup {r \in Requests : key[r] \in K /\ pc[r] \in Carrying}
  /\ UNCHANGED <<origin, registry, pc, request, fill, ver, got>>

\* POST to the purge path, under cacheMu: an empty list of paths purges every
\* key (Flush), otherwise K holds the keys whose stored path matches the list.
HandlePurgeRequest(K) ==
  /\ cache' = [k \in Keys |-> IF k \in K THEN {} ELSE cache[k]]
  /\ floor' = [k \in Keys |-> IF k \in K THEN origin[k] ELSE floor[k]]
  /\ overtaken' =
       overtaken \cup {r \in Requests : key[r] \in K /\ pc[r] \in Carrying}
  /\ UNCHANGED <<origin, registry, pc, request, fill, ver, got>>

-----------------------------------------------------------------------------
(* ServeHTTP up to the miss. *)

\* The method and the bypass rules decide whether r looks at the cache at all.
Arrive(r) ==
  /\ Goto(r, "idle", IF kind[r] = "bypass" THEN "pass" ELSE "lookup")
  /\ since' = [since EXCEPT ![r] = floor[key[r]]]
  /\ UNCHANGED <<origin, cache, registry, kind, key, fill, ver, got, ghosts>>

\* Serve a stored response: the memory tier's, or an older one the disk still has
\* once the memory tier evicts the newer. In the code the read lock is gone by
\* then: what an open data file then yields is the concern of Storage.tla.
Hit(r) == \E q \in cache[key[r]] : Serve(r, q)

\* tryServeStreamed, then Get if that served nothing: two reads under cacheMu,
\* each a hit or a miss. A miss is also what an entry is that cannot be read
\* back, so a miss with an entry present is possible, and the first read's miss
\* leaves r where it was.
Lookup(r) ==
  /\ \/ Hit(r) /\ Goto(r, "lookup", "done")
     \/ /\ Goto(r, "lookup", IF kind[r] = "readonly" THEN "pass" ELSE "acquire")
        /\ UNCHANGED got
  /\ UNCHANGED <<origin, cache, registry, request, fill, ver, ghosts>>

\* next.ServeHTTP with no capture: a bypass, or a follower that degrades open.
PassThrough(r) ==
  /\ Goto(r, "pass", "done")
  /\ ver' = [ver EXCEPT ![r] = origin[key[r]]]
  /\ Serve(r, r)
  /\ UNCHANGED <<origin, cache, registry, request, fill, ghosts>>

-----------------------------------------------------------------------------
(* The in-flight record. *)

\* acquireFill creates the record of the key: r is its leader.
AcquireAsLeader(r) ==
  /\ inFlight[key[r]] = None
  /\ Goto(r, "acquire", "fetch")
  /\ inFlight' = [inFlight EXCEPT ![key[r]] = r]
  /\ fill' = [fill EXCEPT ![r] = r]
  /\ UNCHANGED <<origin, cache, once, closed, request, ver, got, ghosts>>

\* Wrong: a range request does not wait for the leader. (OneFullFetch)
WrongAcquireNoWait(r) ==
  /\ inFlight[key[r]] # None
  /\ Goto(r, "acquire", "fetch")
  /\ fill' = [fill EXCEPT ![r] = inFlight[key[r]]]
  /\ UNCHANGED <<origin, cache, registry, request, ver, got, ghosts>>

\* acquireFill finds a record. A range request waits for it; any other miss
\* fetches all the same, and shares the record.
AcquireAsSharer(r) ==
  /\ inFlight[key[r]] # None
  /\ Goto(r, "acquire", IF kind[r] = "range" THEN "await" ELSE "fetch")
  /\ fill' = [fill EXCEPT ![r] = inFlight[key[r]]]
  /\ UNCHANGED <<origin, cache, registry, request, ver, got, ghosts>>

Acquire(r) == AcquireAsLeader(r) \/ AcquireAsSharer(r)

\* awaitFill, done closed: serve what is stored, or pass through if nothing
\* usable is.
AwaitDone(r) ==
  /\ pc[r] = "await" /\ closed[fill[r]]
  /\ \/ Hit(r) /\ Goto(r, "await", "done")
     \/ Goto(r, "await", "pass") /\ UNCHANGED got
  /\ UNCHANGED <<origin, cache, registry, request, fill, ver, ghosts>>

\* Wrong: the timer is looked at only once done is closed. (FollowerNeverBlocks)
WrongTimeoutAfterDone(r) ==
  /\ Goto(r, "await", "pass")
  /\ closed[fill[r]]
  /\ UNCHANGED <<origin, cache, registry, request, fill, ver, got, ghosts>>

\* awaitFill, the timer fires first.
AwaitTimeout(r) ==
  /\ Goto(r, "await", "pass")
  /\ UNCHANGED <<origin, cache, registry, request, fill, ver, got, ghosts>>

\* awaitFill, the client goes away: nobody is answered.
AwaitDisconnect(r) ==
  /\ Goto(r, "await", "done")
  /\ UNCHANGED <<origin, cache, registry, request, fill, ver, got, ghosts>>

-----------------------------------------------------------------------------
(* The fetch, whose response passes through ResponseWriter. *)

\* Wrong: wakes the followers when the header is in. (EarlyWakeOnlyBySharer)
WrongRespondWakes(r) ==
  /\ \E capture \in {"body", "stream"} : Goto(r, "fetch", capture)
  /\ ver' = [ver EXCEPT ![r] = origin[key[r]]]
  /\ Serve(r, r)
  /\ closed' = [closed EXCEPT ![fill[r]] = TRUE]
  /\ UNCHANGED <<origin, cache, inFlight, once, request, fill, ghosts>>

\* The origin answers with the version current now, and WriteHeader decides:
\* the response is captured for the cache ("body"), or its status or headers
\* rule that out ("stream").
Respond(r) ==
  /\ \E capture \in {"body", "stream"} : Goto(r, "fetch", capture)
  /\ ver' = [ver EXCEPT ![r] = origin[key[r]]]
  /\ Serve(r, r)
  /\ UNCHANGED <<origin, cache, registry, request, fill, ghosts>>

\* Write: the body outgrows the cacheable size, or its temp file fails.
GiveUpCapture(r) ==
  /\ Goto(r, "body", "stream")
  /\ UNCHANGED <<origin, cache, registry, request, fill, ver, got, ghosts>>

\* Wrong: a response that is not captured is not released. (NoOrphanWait)
WrongFetchEndsUnreleased(r) ==
  /\ Goto(r, "body", "close") \/ Goto(r, "stream", "done")
  /\ UNCHANGED <<origin, cache, registry, request, fill, ver, got, ghosts>>

\* next.ServeHTTP returns, with an error or without, or panics; the deferred
\* function runs Close, which has something to do only if needCache is set.
FetchEnds(r) ==
  /\ Goto(r, "body", "close") \/ Goto(r, "stream", "release")
  /\ UNCHANGED <<origin, cache, registry, request, fill, ver, got, ghosts>>

\* Close enters once.Do. While another sharer is inside, r is blocked.
Close(r) ==
  /\ pc[r] = "close"
  /\ \/ /\ once[fill[r]] = "unused"
        /\ Goto(r, "close", "store")
        /\ once' = [once EXCEPT ![fill[r]] = "busy"]
     \/ /\ once[fill[r]] = "used"
        /\ Goto(r, "close", "release")
        /\ UNCHANGED once
  /\ UNCHANGED <<origin, cache, inFlight, closed, request, fill, ver, got, ghosts>>

\* Wrong: leaves once.Do without ending it. (AllAnswered)
WrongStoreKeepsOnce(r) ==
  /\ Goto(r, "store", "release")
  /\ \/ cache' = [cache EXCEPT ![key[r]] = @ \cup {r}]
     \/ UNCHANGED cache
  /\ UNCHANGED <<origin, registry, request, fill, ver, got, ghosts>>

\* The body of once.Do, under cacheMu: SetWithKey stores the response, unless
\* the capture or the disk fails. once is used up either way.
Store(r) ==
  /\ Goto(r, "store", "release")
  /\ \/ cache' = [cache EXCEPT ![key[r]] = @ \cup {r}]
     \/ UNCHANGED cache
  /\ once' = [once EXCEPT ![fill[r]] = "used"]
  /\ UNCHANGED <<origin, inFlight, closed, request, fill, ver, got, ghosts>>

\* Wrong: drops whatever record the key has. (OnlyOwnRelease)
WrongReleaseAnyRecord(r) ==
  /\ Goto(r, "release", "wake")
  /\ inFlight' = [inFlight EXCEPT ![key[r]] = None]
  /\ UNCHANGED <<origin, cache, once, closed, request, fill, ver, got, ghosts>>

\* releaseFill, under inFlightMu: drop the record if it is still the key's.
ReleaseRecord(r) ==
  /\ Goto(r, "release", "wake")
  /\ inFlight' =
       [inFlight EXCEPT ![key[r]] = IF @ = fill[r] THEN None ELSE @]
  /\ UNCHANGED <<origin, cache, once, closed, request, fill, ver, got, ghosts>>

\* releaseFill, closeOnce: wake whoever waits on the record.
WakeFollowers(r) ==
  /\ Goto(r, "wake", "done")
  /\ closed' = [closed EXCEPT ![fill[r]] = TRUE]
  /\ UNCHANGED <<origin, cache, inFlight, once, request, fill, ver, got, ghosts>>

-----------------------------------------------------------------------------
\* What the handler does by itself, and what it waits for upstream to do.
Handler(r) ==
  \/ Lookup(r) \/ Acquire(r)
  \/ AwaitDone(r) \/ AwaitTimeout(r)
  \/ Close(r) \/ Store(r) \/ ReleaseRecord(r) \/ WakeFollowers(r)

Upstream(r) == PassThrough(r) \/ Respond(r) \/ FetchEnds(r)

Client(r) == Arrive(r) \/ AwaitDisconnect(r)

Next ==
  \/ \E k \in Keys : Publish(k) \/ Vanish(k)
  \/ \E K \in SUBSET Keys \ {{}} : HandlePurgeRequest(K)
  \/ \E r \in Requests : Client(r) \/ Handler(r) \/ Upstream(r) \/ GiveUpCapture(r)

\* Go schedules a runnable goroutine and fires a timer; nothing makes the
\* origin answer.
Fairness == \A r \in Requests : WF_vars(Handler(r))

Spec == Init /\ [][Next]_vars /\ Fairness

\* A premise of the properties that need an origin that answers in the end.
OriginAnswers == \A r \in Requests : WF_vars(Upstream(r))

-----------------------------------------------------------------------------
(* Properties. *)

Maybe(S) == S \cup {None}

\* The types of the handler's state; requests name responses and records.
TypeOK ==
  /\ origin \in [Keys -> 0..MaxVersion]
  /\ cache \in [Keys -> SUBSET Requests]
  /\ inFlight \in [Keys -> Maybe(Requests)]
  /\ once \in [Requests -> {"unused", "busy", "used"}]
  /\ closed \in [Requests -> BOOLEAN]
  /\ pc \in [Requests -> PCs]
  /\ kind \in [Requests -> Kinds]
  /\ key \in [Requests -> Keys]
  /\ fill \in [Requests -> Maybe(Requests)]
  /\ ver \in [Requests -> 0..MaxVersion]
  /\ got \in [Requests -> Maybe(Requests)]
  /\ floor \in [Keys -> 0..MaxVersion]
  /\ since \in [Requests -> 0..MaxVersion]
  /\ overtaken \subseteq Requests

\* Whoever finds a record in the registry (acquireFill) finds one whose channel
\* is open and which some request has yet to release.
RegisteredIsOpen ==
  \A k \in Keys : inFlight[k] # None =>
    /\ ~closed[inFlight[k]]
    /\ \E q \in Requests : fill[q] = inFlight[k] /\ pc[q] \in Filling

\* A follower in awaitFill never waits on a record that everybody who could
\* close its channel has already left.
NoOrphanWait ==
  \A r \in Requests : pc[r] = "await" /\ ~closed[fill[r]] =>
    \E q \in Requests : fill[q] = fill[r] /\ pc[q] \in Holding

\* What a purge leaves out: a stored copy, or a response a client that arrived after
\* the purge was sent, is older than the content purged only if the origin had
\* rendered it before the purge and its store came after. Nothing else
\* survives a purge of its key.
StaleOnlyIfOvertaken ==
  /\ \A k \in Keys : \A q \in cache[k] : ver[q] < floor[k] => q \in overtaken
  /\ \A r \in Requests :
       got[r] # None /\ ver[got[r]] < since[r] => got[r] \in overtaken

\* A plain request left the record of f, which it shared: releaseFill does not
\* ask whether the caller is the leader.
LeftEarly(f) ==
  \E p \in Requests :
    kind[p] # "range" /\ fill[p] = f /\ pc[p] \in {"wake", "done"}

\* The point of request collapsing: two range requests read the whole object of
\* one key upstream at a time only if a plain request released the record of
\* the first one under it.
OneFullFetch ==
  \A q, r \in Requests :
    /\ q # r /\ key[q] = key[r]
    /\ {kind[q], kind[r]} = {"range"} /\ {pc[q], pc[r]} \subseteq Filling
    => LeftEarly(q) \/ LeftEarly(r)

\* inflightFill.done: "closed when the leader's fetch has completed and its result (if
\* any) has been stored". It is closed earlier only by such a request. The record is
\* named by its leader.
EarlyWakeOnlyBySharer ==
  \A f \in Requests : closed[f] => pc[f] \in {"wake", "done"} \/ LeftEarly(f)

\* A purge ends the life of what was published before it: whoever arrives after
\* the purge is not sent an older version.
FreshAfterPurge ==
  \A r \in Requests : got[r] # None => ver[got[r]] >= since[r]

\* releaseFill: a record leaves the registry by a release of one of its own
\* sharers; a late release of an earlier record cannot evict a newer one, and
\* no record replaces another.
OnlyOwnRelease ==
  [][\A k \in Keys : inFlight[k] # None /\ inFlight'[k] # inFlight[k] =>
       /\ inFlight'[k] = None
       /\ \E r \in Requests :
            fill[r] = inFlight[k] /\ pc[r] = "release" /\ pc'[r] = "wake"]_vars

\* awaitFill: a follower never blocks indefinitely, whatever the origin does to
\* its leader (Spec assumes nothing of the origin).
FollowerNeverBlocks ==
  \A r \in Requests : pc[r] = "await" ~> pc[r] # "await"

\* If the origin answers in the end, every request leaves the handler: neither
\* once, nor the registry, nor a purge keeps one inside.
AllAnswered ==
  OriginAnswers => \A r \in Requests : pc[r] # "idle" ~> pc[r] = "done"
=============================================================================
