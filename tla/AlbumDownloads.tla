---------------------------- MODULE AlbumDownloads ----------------------------
(***************************************************************************)
(* The albums the user asks for: the owner of their state with its queue of *)
(* attempts (lua/sync_download_state.lua), the requests it sends and the    *)
(* lists it gets through the one exchange of the catalog                    *)
(* (lua/sync_catalog.lua), what the runtime does with the answers and with  *)
(* its apply sessions (lua/sync_runtime.lua), and the companion's durable   *)
(* requests, which outlive a restart of the device.                         *)
(*                                                                         *)
(* The companion's side is not in the repository: it is any behaviour that  *)
(* the answers handled by the device allow.                                 *)
(***************************************************************************)
EXTENDS Integers, Sequences, SequencesExt, FiniteSets

CONSTANTS
    Albums,         \* keys of albums
    None,           \* nil
    Named,          \* do the items of the manifest say that they are tracks?
    Ambiguous,      \* false: a binding to an attempt with a rival
    MaxAttempts,    \* albums asked for by the user, at most
    MaxRequests,    \* durable requests on the companion, at most
    MaxSessions,    \* apply sessions, at most
    MaxFaults       \* requests given up, albums removed and restarts, at most

ASSUME DownloadAssumption ==
    /\ {None, Ambiguous} \cap (Albums \cup Int) = {} /\ None # Ambiguous
    /\ IsFiniteSet(Albums) /\ Albums # {}
    /\ Named \in BOOLEAN
    /\ {MaxAttempts, MaxRequests, MaxSessions, MaxFaults} \subseteq Nat
    /\ MaxRequests > 0

VARIABLES
    operations,     \* operations: the queue of attempts
    inflight,       \* dispatch_inflight: the attempt whose POST is unanswered
    shadows,        \* remote_attempt_shadows: requests that are not an attempt's
    downloaded,     \* albums whose record says downloaded
    failed,         \* albums whose record has a failure
    exchange,       \* sync_catalog: the POST or the list in flight
    optimistic,     \* optimistic_items of the runtime that are queued
    session,        \* sync_apply: the attempts its albums were bound to
    files,          \* how much of each album is on the card
    requests,       \* durable requests of the companion, in the order of creation
    attempts, sessions, faults      \* counts for the bounds

ownerVars == <<operations, inflight, shadows, downloaded, failed, exchange>>
deviceVars == <<ownerVars, optimistic, session>>
bounds == <<attempts, sessions, faults>>
vars == <<deviceVars, files, requests, bounds>>

-----------------------------------------------------------------------------
(* Records.  A request is known by its place in "requests"; the attempts of  *)
(* the device have other names.                                             *)

RequestIds == 1..MaxRequests
AttemptIds == (MaxRequests + 1)..(MaxRequests + MaxAttempts)
Ids == RequestIds \cup AttemptIds

Operations == [id : Ids, album : Albums, request : RequestIds \cup {None},
               dispatched : BOOLEAN, pending : BOOLEAN, confirmed : BOOLEAN,
               grace : BOOLEAN, conflict : BOOLEAN]

\* A mutation: an attempt is given a request's name when it is made.
AttemptNamed(id, album) ==
    [id |-> id, album |-> album, request |-> id, dispatched |-> FALSE,
     pending |-> FALSE, confirmed |-> FALSE, grace |-> FALSE, conflict |-> FALSE]

\* An attempt as request makes it.
Attempt(id, album) ==
    [id |-> id, album |-> album, request |-> None, dispatched |-> FALSE,
     pending |-> FALSE, confirmed |-> FALSE, grace |-> FALSE, conflict |-> FALSE]

Active == {"queued", "downloading"}
Requests == [album : Albums, state : Active \cup {"downloaded", "failed"}]

\* What is in flight.  A POST gets one of the answers, a list the requests of
\* the companion at the time.
Accepted(request) == [kind |-> "accepted", request |-> request]
Refused == [kind |-> "refused", request |-> None]
Answers == {Refused} \cup {Accepted(r) : r \in RequestIds \cup {None}}
Post(id, album) == [kind |-> "post", id |-> id, album |-> album, answer |-> None]
List == [kind |-> "list", answer |-> None]
Exchanges ==
    [kind : {"post"}, id : AttemptIds, album : Albums, answer : Answers \cup {None}]
    \cup [kind : {"list"}, answer : Seq(Requests) \cup {None}]

\* None is not the name of something in flight, nor of an answer.
ASSUME NoneAssumption == None \notin Exchanges \cup Answers \cup Seq(Requests)

IsPost(e) == e # None /\ e.kind = "post"
IsList(e) == e # None /\ e.kind = "list"

TypeOK ==
    /\ operations \in Seq(Operations)
    /\ inflight \in AttemptIds \cup {None}
    /\ shadows \subseteq RequestIds
    /\ downloaded \subseteq Albums /\ failed \subseteq Albums
    /\ exchange \in Exchanges \cup {None}
    /\ optimistic \subseteq Albums
    /\ \/ session = None
       \/ session \in UNION {[S -> Ids \cup {None, Ambiguous}] : S \in SUBSET Albums}
    /\ files \in [Albums -> {"none", "part", "all"}]
    /\ requests \in Seq(Requests) /\ Len(requests) <= MaxRequests
    /\ attempts \in 0..MaxAttempts /\ sessions \in 0..MaxSessions
    /\ faults \in 0..MaxFaults

Forgotten ==
    /\ operations = << >> /\ inflight = None /\ shadows = {}
    /\ downloaded = {} /\ failed = {} /\ exchange = None
    /\ optimistic = {} /\ session = None

\* What the bound MaxFaults counts.
Fault == faults < MaxFaults /\ faults' = faults + 1

\* The companion may hold a request from before the device was started.
Init ==
    /\ Forgotten
    /\ files = [k \in Albums |-> "none"]
    /\ requests \in {<< >>, <<[album |-> CHOOSE k \in Albums : TRUE, state |-> "queued"]>>}
    /\ attempts = 0 /\ sessions = 0 /\ faults = 0

-----------------------------------------------------------------------------
(* The owner.  Its functions call each other, and a handler of the runtime  *)
(* calls several: each is a function of the owner's state.                  *)

owner == [operations |-> operations, inflight |-> inflight, shadows |-> shadows,
          downloaded |-> downloaded, failed |-> failed, exchange |-> exchange]

Becomes(d) ==
    /\ operations' = d.operations /\ inflight' = d.inflight
    /\ shadows' = d.shadows /\ downloaded' = d.downloaded
    /\ failed' = d.failed /\ exchange' = d.exchange

AlbumsOf(ops) == {ops[i].album : i \in 1..Len(ops)}
Places(d, album) == {i \in 1..Len(d.operations) : d.operations[i].album = album}
IsHead(d, album) == d.operations # << >> /\ d.operations[1].album = album

\* operation_index_for_attempt
AttemptPlaces(d, ref) ==
    {i \in 1..Len(d.operations) :
        d.operations[i].id = ref \/ d.operations[i].request = ref}

\* A mutation: what is not the first is queued, even if it was accepted.
RebuildTail(d) ==
    [d EXCEPT !.operations = [i \in 1..Len(@) |->
                  [@[i] EXCEPT !.dispatched = i = 1 /\ d.operations[i].dispatched]],
              !.downloaded = @ \ AlbumsOf(d.operations)]

\* rebuild_operation_indexes: only the first can be downloading, the others are
\* dispatched if the companion has confirmed them.
Rebuild(d) ==
    [d EXCEPT !.operations = [i \in 1..Len(@) |->
                  [@[i] EXCEPT !.dispatched =
                      IF i = 1 THEN d.operations[i].dispatched
                      ELSE d.operations[i].confirmed]],
              !.downloaded = @ \ AlbumsOf(d.operations)]

\* The numbers of S up to n, in order.
InOrder(S, n) ==
    LET f[k \in 0..n] == IF k = 0 THEN << >>
                         ELSE IF k \in S THEN Append(f[k - 1], k) ELSE f[k - 1]
    IN  f[n]

\* What is at some places of a sequence.
At(s, places) == [i \in 1..Len(places) |-> s[places[i]]]

\* The attempts at the places of S.
Only(d, S) == At(d.operations, InOrder(S, Len(d.operations)))

Without(d, album) ==
    Rebuild([d EXCEPT !.operations =
                 Only(d, (1..Len(d.operations)) \ Places(d, album))])

\* A mutation: a shadow does not hold up the queue.
CanDispatchShadowed(d) ==
    /\ d.operations # << >>
    /\ ~d.operations[1].dispatched /\ ~d.operations[1].pending
    /\ d.inflight = None /\ d.exchange = None

\* The conditions of try_dispatch_head.
CanDispatch(d) ==
    /\ d.operations # << >>
    /\ ~d.operations[1].dispatched /\ ~d.operations[1].pending
    /\ d.inflight = None /\ d.shadows = {}
    /\ d.exchange = None

\* What becomes of a request that is to be posted: the transport takes it, it is
\* occupied by another of its users, or it refuses it.
Outcomes == {"taken", "busy", "refused"}

\* try_dispatch_head.  With the transport occupied the head waits for the next poll;
\* refused, one attempt after the other is dropped.
Dispatch(d, starts) ==
    IF ~CanDispatch(d) \/ starts = "busy" THEN d
    ELSE IF starts = "taken"
    THEN LET head == d.operations[1] IN
         [d EXCEPT !.inflight = head.id, !.operations[1].pending = TRUE,
                   !.exchange = Post(head.id, head.album)]
    ELSE LET ops == d.operations
             all == 1..Len(ops)
             dropped == {i \in all : \A j \in 1..i : ~ops[j].dispatched}
             lost == {ops[i].album : i \in dropped}
         IN  Rebuild([d EXCEPT !.operations = Only(d, all \ dropped),
                               !.downloaded = @ \ lost, !.failed = @ \cup lost])

\* complete, fail: the next attempt is promoted if the head is gone.
Complete(d, album, starts) ==
    LET e == [Without(d, album) EXCEPT !.downloaded = @ \cup {album},
                                       !.failed = @ \ {album}]
    IN  IF IsHead(d, album) THEN Dispatch(e, starts) ELSE e

Fail(d, album, starts) ==
    LET e == [Without(d, album) EXCEPT !.downloaded = @ \ {album},
                                       !.failed = @ \cup {album}]
    IN  IF IsHead(d, album) THEN Dispatch(e, starts) ELSE e

\* complete_attempt, fail_attempt: by the name of the attempt, never by its album.
EndAttempt(d, ref, completed, starts) ==
    IF AttemptPlaces(d, ref) # {}
    THEN LET album == d.operations[CHOOSE i \in AttemptPlaces(d, ref) : TRUE].album
         IN  IF completed THEN Complete(d, album, starts) ELSE Fail(d, album, starts)
    ELSE IF ref \in d.shadows
    THEN Dispatch([d EXCEPT !.shadows = @ \ {ref}], starts)
    ELSE d

CompleteAttempt(d, ref, starts) == EndAttempt(d, ref, TRUE, starts)
FailAttempt(d, ref, starts) == EndAttempt(d, ref, FALSE, starts)
HasAttempt(d, ref) == AttemptPlaces(d, ref) # {} \/ ref \in d.shadows

\* The public state of an album (reconcile_one).
Shown(d, album, have, loading, waiting) ==
    IF have[album] = "all" THEN "downloaded"
    ELSE IF Places(d, album) # {}
    THEN IF IsHead(d, album) /\ d.operations[1].dispatched
         THEN "downloading" ELSE "queued"
    ELSE IF album \in loading THEN "downloading"
    ELSE IF album \in waiting THEN "queued"
    ELSE IF album \in d.failed /\ album \notin d.downloaded THEN "failed"
    ELSE IF album \in d.downloaded /\ have[album] # "part" THEN "downloaded"
    ELSE IF have[album] = "part" THEN "partial"
    ELSE "server_only"

\* lookup of some albums, or reconcile of all: an album that is complete on the
\* card needs no attempt, and if it was the head the next one is promoted.
Reconcile(d, some, have, loading, waiting, starts) ==
    LET whole == {k \in some : have[k] = "all"}
        kept == {i \in 1..Len(d.operations) : d.operations[i].album \notin whole}
        f == IF kept = 1..Len(d.operations) THEN d
             ELSE Rebuild([d EXCEPT !.operations = Only(d, kept)])
        stays == {k \in some : Shown(f, k, have, loading, waiting) = "downloaded"}
        g == [f EXCEPT !.downloaded = (@ \ some) \cup stays, !.failed = @ \ stays]
    IN  IF \E k \in whole : IsHead(d, k) THEN Dispatch(g, starts) ELSE g

Loading == IF session = None THEN {} ELSE DOMAIN session

\* The public state as things are.
State(album) == Shown(owner, album, files, Loading, optimistic)

-----------------------------------------------------------------------------
(* The list of durable requests (finish_durable_requests).                  *)

\* Of several requests for one album only the latest counts.
Latest(seen) ==
    {r \in 1..Len(seen) :
        \A s \in 1..Len(seen) : seen[s].album = seen[r].album => s <= r}

\* The active ones: what is being downloaded, then what is queued.
ActiveRequests(seen) ==
    LET those(state) == {r \in Latest(seen) : seen[r].state = state}
    IN  InOrder(those("downloading"), Len(seen)) \o InOrder(those("queued"), Len(seen))

\* Requests that have ended end their attempts.
EndRequest(d, r, seen, starts) ==
    IF seen[r].state = "downloaded" THEN CompleteAttempt(d, r, starts)
    ELSE IF seen[r].state = "failed" THEN FailAttempt(d, r, starts)
    ELSE d

EndRequests(d, seen, starts) ==
    LET f[r \in 0..Len(seen)] ==
            IF r = 0 THEN d
            ELSE IF r \in Latest(seen) THEN EndRequest(f[r - 1], r, seen, starts)
            ELSE f[r - 1]
    IN  f[Len(seen)]

\* A mutation: an attempt for the same album under another name is not looked for.
AdoptAlways(d, r, seen) ==
    LET own == AttemptPlaces(d, r) IN
    IF own # {}
    THEN [d EXCEPT !.shadows = @ \ {r}]
    ELSE [d EXCEPT !.operations = Append(@,
             [Attempt(r, seen[r].album) EXCEPT !.request = r, !.dispatched = TRUE,
                                               !.confirmed = TRUE])]

\* reconcile_startup: an active request is that of an attempt, or becomes one; if
\* its album has an attempt of another name it is a shadow.
Adopt(d, r, seen) ==
    LET album == seen[r].album
        own == {i \in AttemptPlaces(d, r) : d.operations[i].album = album}
    IN  IF own # {}
        THEN [d EXCEPT !.operations = [i \in 1..Len(@) |->
                           IF i \in own THEN [@[i] EXCEPT !.request = r] ELSE @[i]],
                       !.shadows = @ \ {r}]
        ELSE IF Places(d, album) # {}
        THEN [d EXCEPT !.operations = [i \in 1..Len(@) |->
                           IF i \in Places(d, album) THEN [@[i] EXCEPT !.conflict = TRUE]
                           ELSE @[i]],
                       !.shadows = @ \cup {r}]
        ELSE [d EXCEPT !.operations = Append(@,
                 [Attempt(r, album) EXCEPT !.request = r, !.dispatched = TRUE,
                                           !.confirmed = TRUE])]

AdoptAll(d, seen) ==
    LET clear == [d EXCEPT !.operations =
                      [i \in 1..Len(@) |-> [@[i] EXCEPT !.conflict = FALSE]]]
        order == ActiveRequests(seen)
        f[n \in 0..Len(order)] == IF n = 0 THEN clear ELSE Adopt(f[n - 1], order[n], seen)
    IN  [f[Len(order)] EXCEPT !.shadows = @ \cap ToSet(order)]

\* What is seen of an attempt, and what is kept of it.
Observed(o, active) == o.id \in active \/ o.request \in active

\* A mutation: what was accepted once is never given up.
StillLocalAccepted(o, loading) == ~o.pending /\ (o.dispatched \/ o.album \in loading)

\* Not observed, but not to be given up yet: just accepted, overshadowed by
\* another request, or being loaded.
StillLocal(o, loading) ==
    /\ ~o.pending
    /\ o.grace \/ (o.conflict /\ o.dispatched) \/ (~o.conflict /\ o.album \in loading)

\* Goes back to the queue.
Unposted(o) == o.pending \/ ~o.dispatched

\* What the list makes of an attempt that is kept.
Reviewed(o, active, loading) ==
    IF Observed(o, active)
    THEN [o EXCEPT !.confirmed = TRUE, !.grace = FALSE, !.dispatched = TRUE,
                   !.pending = FALSE]
    ELSE IF StillLocal(o, loading)
    THEN [o EXCEPT !.confirmed = FALSE, !.grace = FALSE]
    ELSE [o EXCEPT !.confirmed = FALSE, !.dispatched = FALSE]

\* Attempts that are observed come first, in the order of the requests for their
\* albums, then what is still local, then what goes back to the queue.  The rest
\* has failed.
Sort(d, seen, loading) ==
    LET order == ActiveRequests(seen)
        active == ToSet(order)
        ops == d.operations
        all == 1..Len(ops)
        observed == {i \in all : Observed(ops[i], active)}
        local == {i \in all \ observed : StillLocal(ops[i], loading)}
        waiting == {i \in all \ (observed \cup local) : Unposted(ops[i])}
        lost == {ops[i].album : i \in all \ (observed \cup local \cup waiting)}
        of(r) == {i \in observed : ops[i].album = seen[r].album}
        asked == At(order, InOrder({n \in 1..Len(order) : of(order[n]) # {}}, Len(order)))
        first == [n \in 1..Len(asked) |-> CHOOSE i \in of(asked[n]) : TRUE]
        places == first \o InOrder(observed \ ToSet(first), Len(ops))
                  \o InOrder(local, Len(ops)) \o InOrder(waiting, Len(ops))
    IN  Rebuild([d EXCEPT
            !.operations = [n \in 1..Len(places) |->
                                Reviewed(ops[places[n]], active, loading)],
            !.inflight = IF \E i \in observed : ops[i].id = @ THEN None ELSE @,
            !.downloaded = @ \ lost,
            !.failed = @ \cup lost])

\* The companion is occupied by what is observed, by local work, by a shadow and
\* by the apply session.
Occupied(d, seen, loading) ==
    \/ d.shadows # {} \/ session # None
    \/ \E i \in 1..Len(d.operations) :
          LET o == d.operations[i] IN
          \/ Observed(o, ToSet(ActiveRequests(seen)))
          \/ StillLocal(o, loading)

ReconcileStartup(d, seen, loading, starts) ==
    LET e == AdoptAll(d, seen)
        f == Sort(e, seen, loading)
    IN  IF Occupied(e, seen, loading) THEN f ELSE Dispatch(f, starts)

\* Keys of the items the session still has to load, if they are those of albums.
ApplyKeys == IF Named THEN Loading ELSE {}

FinishList(seen, starts) ==
    LET d == Reconcile([owner EXCEPT !.exchange = None], Albums, files, Loading,
                       optimistic, starts)
        e == EndRequests(d, seen, starts)
        f == ReconcileStartup(e, seen, ApplyKeys, starts)
        ended == {seen[r].album : r \in
                     {q \in Latest(seen) : seen[q].state = "failed" /\ HasAttempt(d, q)}}
        observed == {seen[r].album : r \in ToSet(ActiveRequests(seen))}
    IN  /\ Becomes(f)
        /\ optimistic' = {k \in optimistic \ ended :
                             k \in observed \cup ApplyKeys \cup AlbumsOf(f.operations)}

-----------------------------------------------------------------------------
(* The user.                                                               *)

\* start_download of the Sync screen: request, which dispatches a first attempt,
\* and pump_dispatch.
Download(album) ==
    LET id == MaxRequests + attempts + 1
        d == Rebuild([owner EXCEPT !.operations = Append(@, Attempt(id, album)),
                                   !.failed = @ \ {album}])
    IN  /\ attempts < MaxAttempts
        /\ State(album) \in {"server_only", "partial", "failed"}
        /\ attempts' = attempts + 1
        /\ \E starts \in Outcomes : Becomes(Dispatch(d, starts))
        /\ UNCHANGED <<optimistic, session, files, requests, sessions, faults>>

\* A screen is drawn: every album is looked up.
Draw ==
    /\ \E starts \in Outcomes :
          Becomes(Reconcile(owner, Albums, files, Loading, optimistic, starts))
    /\ UNCHANGED <<optimistic, session, files, requests, bounds>>

\* "Remove from this Tangara".
RemoveAlbum(album) ==
    /\ Fault
    /\ files[album] # "none"
    /\ files' = [files EXCEPT ![album] = "none"]
    /\ UNCHANGED <<deviceVars, requests, attempts, sessions>>

Reboot ==
    /\ Fault
    /\ operations' = << >> /\ inflight' = None /\ shadows' = {}
    /\ downloaded' = {} /\ failed' = {} /\ exchange' = None
    /\ optimistic' = {} /\ session' = None
    /\ UNCHANGED <<files, requests, attempts, sessions>>

-----------------------------------------------------------------------------
(* The runtime.                                                            *)

\* pump_dispatch at the end of a poll.
Pump ==
    /\ session = None /\ CanDispatch(owner)
    /\ \E starts \in Outcomes : Becomes(Dispatch(owner, starts))
    /\ UNCHANGED <<optimistic, session, files, requests, bounds>>

\* The attempt an answer is for, by its name.
Answered(id) == {i \in 1..Len(operations) : operations[i].id = id}

\* A mutation: the dispatcher is freed by the attempt, if it is still there.
ReleasedByAttempt(id) ==
    [owner EXCEPT !.exchange = None,
                  !.inflight = IF Answered(id) = {} THEN @ ELSE None]
Released(id) ==
    [owner EXCEPT !.exchange = None, !.inflight = IF @ = id THEN None ELSE @]

\* resolve_dispatch of an attempt that is still there, then note_queued or
\* note_failed, which look the album up.
ResolveAttempt(id, album, answer, starts) ==
    LET d == Released(id)
        taken == [d EXCEPT
            !.operations = [i \in 1..Len(@) |->
                IF i \notin Answered(id) THEN @[i]
                ELSE [@[i] EXCEPT !.pending = FALSE, !.dispatched = TRUE,
                         !.confirmed = TRUE, !.grace = TRUE,
                         !.request = IF answer.request = None
                                     THEN operations[i].request
                                     ELSE answer.request]],
            !.failed = @ \ {album}]
        e == IF answer.kind = "accepted" THEN Rebuild(taken) ELSE Fail(d, album, starts)
        waiting == IF answer.kind = "accepted" THEN optimistic \cup {album}
                   ELSE optimistic \ {album}
    IN  /\ Becomes(Reconcile(e, {album}, files, Loading, waiting, starts))
        /\ optimistic' = waiting

\* A mutation: the answer is taken for the album, whatever its attempt.
ResolveAlways(id, album, answer, starts) ==
    ResolveAttempt(id, album, answer, starts)

\* The answer to a POST (dispatch_download's callback): for an attempt that is
\* gone it only frees the dispatcher.
Resolve(id, album, answer, starts) ==
    IF Answered(id) # {} THEN ResolveAttempt(id, album, answer, starts)
    ELSE Becomes(Released(id)) /\ UNCHANGED optimistic

FinishPost ==
    /\ IsPost(exchange) /\ exchange.answer # None
    /\ \E starts \in Outcomes :
          Resolve(exchange.id, exchange.album, exchange.answer, starts)
    /\ UNCHANGED <<session, files, requests, bounds>>

\* No answer in time, whatever the companion did.
TimeOutPost ==
    /\ IsPost(exchange)
    /\ Fault
    /\ \E starts \in Outcomes :
          Resolve(exchange.id, exchange.album, Refused, starts)
    /\ UNCHANGED <<session, files, requests, attempts, sessions>>

\* poll_shared_catalog
StartList ==
    /\ exchange = None
    /\ exchange' = List
    /\ UNCHANGED <<operations, inflight, shadows, downloaded, failed, optimistic,
                   session, files, requests, bounds>>

AnswerList ==
    /\ IsList(exchange) /\ exchange.answer # None
    /\ \E starts \in Outcomes : FinishList(exchange.answer, starts)
    /\ UNCHANGED <<session, files, requests, bounds>>

ListFails ==
    /\ IsList(exchange)
    /\ Fault
    /\ exchange' = None
    /\ UNCHANGED <<operations, inflight, shadows, downloaded, failed, optimistic,
                   session, files, requests, attempts, sessions>>

\* start_apply: the albums of the plan are bound to the attempts of the moment.
Binding(album) ==
    LET places == IF Named THEN Places(owner, album) ELSE {} IN
    IF places = {} THEN None
    ELSE LET o == operations[CHOOSE i \in places : TRUE] IN
         IF o.conflict THEN Ambiguous
         ELSE IF o.request # None THEN o.request ELSE o.id

StartApply(S) ==
    /\ session = None /\ exchange = None /\ S # {}
    /\ sessions < MaxSessions /\ sessions' = sessions + 1
    /\ \A k \in S : files[k] # "all"
    /\ session' = [k \in S |-> Binding(k)]
    /\ UNCHANGED <<ownerVars, optimistic, files, requests, attempts, faults>>

\* finish_apply.  The media items are those of the plan in its order.
ApplySucceeds(order, have) ==
    LET items == IF Named THEN order ELSE << >>
        rest == optimistic \ DOMAIN session
    IN
    /\ session # None /\ exchange = None
    /\ files' = have /\ session' = None /\ optimistic' = rest
    /\ \E starts \in Outcomes :
          LET f[n \in 0..Len(items)] ==
                  IF n = 0 THEN owner ELSE Complete(f[n - 1], items[n], starts)
          IN  Becomes(Reconcile(f[Len(items)], Albums, have, {}, rest, starts))
    /\ UNCHANGED <<requests, bounds>>

ApplyFails(album, have) ==
    LET ref == session[album]
        current == ref = None \/ (ref # Ambiguous /\ HasAttempt(owner, ref))
    IN
    /\ session # None /\ exchange = None /\ album \in DOMAIN session
    /\ files' = have /\ session' = None
    /\ IF ref \in {None, Ambiguous} THEN UNCHANGED ownerVars
       ELSE \E starts \in Outcomes : Becomes(FailAttempt(owner, ref, starts))
    /\ optimistic' = IF current THEN optimistic \ {album} ELSE optimistic
    /\ UNCHANGED <<requests, bounds>>

\* What has been loaded when a session ends: something of each album, or nothing.
Loaded(least) ==
    {have \in [Albums -> {"none", "part", "all"}] :
        \A k \in Albums : IF k \in Loading THEN have[k] \in least \cup {files[k]}
                          ELSE have[k] = files[k]}

EndApply ==
    /\ session # None
    /\ \/ \E order \in SetToSeqs(Loading), have \in Loaded({"part", "all"}) :
             /\ \A k \in Loading : have[k] # "none"
             /\ ApplySucceeds(order, have)
       \/ \E album \in Loading, have \in Loaded({"part", "all"}) :
             have[album] # "all" /\ ApplyFails(album, have)

-----------------------------------------------------------------------------
(* The companion.                                                          *)

\* A POST is refused, makes a request, or meets one for the same album, whose
\* name the answer may leave out ("already_downloaded_or_queued").
ReceivePost ==
    LET album == exchange.album
        known == {r \in 1..Len(requests) :
                     requests[r].album = album /\ requests[r].state # "failed"}
        Answer(a) == exchange' = [exchange EXCEPT !.answer = a]
    IN
    /\ IsPost(exchange) /\ exchange.answer = None
    /\ \/ Answer(Refused) /\ UNCHANGED requests
       \/ /\ known # {} /\ UNCHANGED requests
          /\ \E r \in known : Answer(Accepted(None)) \/ Answer(Accepted(r))
       \/ /\ Len(requests) < MaxRequests
          /\ requests' = Append(requests, [album |-> album, state |-> "queued"])
          /\ Answer(Accepted(Len(requests) + 1))
    /\ UNCHANGED <<operations, inflight, shadows, downloaded, failed, optimistic,
                   session, files, bounds>>

ServeList ==
    /\ IsList(exchange) /\ exchange.answer = None
    /\ exchange' = [exchange EXCEPT !.answer = requests]
    /\ UNCHANGED <<operations, inflight, shadows, downloaded, failed, optimistic,
                   session, files, requests, bounds>>

WorkOn(r) ==
    /\ r \in 1..Len(requests)
    /\ \/ requests[r].state = "queued" /\ requests' = [requests EXCEPT ![r].state = "downloading"]
       \/ /\ requests[r].state = "downloading"
          /\ \E state \in {"downloaded", "failed"} :
                requests' = [requests EXCEPT ![r].state = state]
    /\ UNCHANGED <<deviceVars, files, bounds>>

Next ==
    \/ \E k \in Albums : Download(k) \/ RemoveAlbum(k)
    \/ Draw \/ Reboot
    \/ Pump \/ FinishPost \/ TimeOutPost \/ StartList \/ AnswerList \/ ListFails
    \/ \E S \in SUBSET Albums : StartApply(S)
    \/ EndApply
    \/ ReceivePost \/ ServeList \/ \E r \in RequestIds : WorkOn(r)

(* Fairness.  The timer polls for ever and the companion answers in the end,   *)
(* MaxFaults times excepted.  Each conjunct is the fairness of the actions it  *)
(* names, said by what they bring about, again and again, as what they end is  *)
(* not begun again in the same step, but for the faults: TLC would try a whole *)
(* handler to tell whether its step is one of WF_vars.                         *)

\* StartList: a free exchange is taken.
ListWanted == []<>(exchange # None)

\* ReceivePost, ServeList
AnswersCome == []<>(exchange = None \/ exchange.answer # None)

\* FinishPost, AnswerList: the poll takes the answer.
AnswersTaken == []<>(exchange = None \/ exchange.answer = None)

\* WorkOn: the companion ends what it began.
RequestsEnd ==
    \A r \in RequestIds : []<>(r > Len(requests) \/ requests[r].state \notin Active)

\* EndApply: a session ends, and the polls between two exchanges see it.
SessionsEnd == []<>(session = None)

\* Pump: the polls between two exchanges try the head of the queue.
Pumped ==
    \/ <>[]~(session = None /\ CanDispatch(owner))
    \/ []<><<session = None /\ exchange = None
             /\ (IsPost(exchange') \/ operations' # operations)>>_vars

Spec ==
    /\ Init /\ [][Next]_vars
    /\ ListWanted /\ AnswersCome /\ AnswersTaken /\ RequestsEnd
    /\ SessionsEnd /\ Pumped

-----------------------------------------------------------------------------
(* Properties.                                                             *)

\* The dispatcher is held by the attempt whose POST is in flight, and by no other:
\* whatever becomes of the attempt meanwhile, the dispatcher is not left locked.
\* (dispatch_inflight, dispatch_pending)
LockIsPost ==
    /\ inflight # None => IsPost(exchange) /\ exchange.id = inflight
    /\ \A i \in 1..Len(operations) :
          operations[i].pending => operations[i].id = inflight

\* An album has one attempt, and a durable request is that of one attempt at most,
\* which is for the album the request was made for: through retries, restarts and
\* promotions.  (reconcile_startup, resolve_dispatch)
OneOwnerEach ==
    \A i \in 1..Len(operations) :
        LET o == operations[i] IN
        /\ Places(owner, o.album) = {i}
        /\ o.request # None => /\ AttemptPlaces(owner, o.request) = {i}
                               /\ requests[o.request].album = o.album

\* A new POST goes out.
Posts == IsPost(exchange') /\ ~(IsPost(exchange) /\ exchange.id = exchange'.id)

\* An attempt the companion has accepted is "never posted again", wherever the
\* lists put it in the queue, as long as its request is the companion's latest for
\* the album: one that a later request has superseded is not observed, loses its
\* place and may be.  (reconcile_startup, rebuild_operation_indexes)
AcceptedNeverReposted ==
    [][Posts => \A i \in 1..Len(operations) :
                    operations[i].id = exchange'.id
                        => operations[i].request \notin Latest(requests)]_vars

\* An album is not posted while the device knows that the companion is at another,
\* unless that one is already on the card.  The answer to a list is excepted: it
\* ends attempts, and so promotes the next, before it looks at the requests that
\* are still active.  (try_dispatch_head, finish_durable_requests)
OneAtATime ==
    [][Posts /\ ~IsList(exchange) =>
          /\ shadows' = {}
          /\ \A i \in 1..Len(operations') :
                operations'[i].dispatched => files'[operations'[i].album] = "all"]_vars

\* The answer to a POST whose attempt is gone leaves the other attempts, and a
\* retry of the same album, as they are: "no album-keyed runtime mutation is safe".
StaleAnswerIgnored ==
    [][IsPost(exchange) /\ AttemptPlaces(owner, exchange.id) = {}
       /\ (FinishPost \/ TimeOutPost)
          => UNCHANGED <<operations, shadows, downloaded, failed, optimistic>>]_vars

\* An album that the user is told is queued or downloading does not stay so: it is
\* downloaded, or can be asked for again.
Unlocks == \A k \in Albums : State(k) \in Active ~> State(k) \notin Active
=============================================================================
