--------------------------- MODULE OperationSync ---------------------------
(***************************************************************************)
(* Offline library edits, end to end: the device's persistent operation    *)
(* queue (lua/sync_operation_queue.lua), its upload                        *)
(* (lua/sync_operation_flush.lua over lua/sync_client.lua and the native   *)
(* HTTP slot), the companion server's replay table                         *)
(* (server/tangara-sync/library_sync.py) and the effects on Jellyfin.      *)
(*                                                                         *)
(* The queue file is one atomic cell here; module QueueStore models how it *)
(* is written.  An operation's id is its sequence number: the code's       *)
(* "op:<client>:<sequence>" with the one client id a queue file has.       *)
(***************************************************************************)
EXTENDS Integers, Sequences, FiniteSets

CONSTANTS
    MaximumOperations,  \* maximum_operations: the longest queue accepted
    BatchLimit,         \* operations uploaded by one request
    MaxSequence,        \* bound: edits the user makes
    MaxFaults,          \* bound: crashes, lost answers and failed calls
    Kinds,              \* kinds of edit the user makes, see AllKinds
    Requests,           \* bound: upload requests alive at the same time
    NoRequest,          \* not a request
    ExternalDeletes     \* may other Jellyfin clients delete playlists?

\* The seven operations of OPERATION_HANDLERS, "remove" and "move" being those
\* on a playlist's entries, and "bad", an edit the device queues and the
\* server's validation rejects (a name of more than 200 characters).
AllKinds ==
    {"create", "rename", "delete", "add", "remove", "move", "favorite", "bad"}

\* Handlers to which a 404 for the playlist is a failure. delete_playlist and
\* remove_playlist_item allow it, set_favorite asks for no playlist.
NeedsPlaylist == {"rename", "add", "move"}

\* Handlers that may answer with a failure that is not retriable.
Rejectable == {"bad", "move"}

ASSUME QueueAssumption ==
    /\ MaximumOperations \in Nat \ {0}
    /\ BatchLimit \in Nat \ {0}
    /\ MaxSequence \in Nat
    /\ MaxFaults \in Nat
    /\ Kinds \subseteq AllKinds
    /\ NoRequest \notin Requests
    /\ ExternalDeletes \in BOOLEAN

Ids == 1..MaxSequence

\* A playlist is <<n, k>>: the k-th playlist that creation n made on Jellyfin;
\* <<0, 0>> is one that was there before. An operation names it by "ref", the
\* local id of creation n, or 0 for the old one.
Playlists == (0..MaxSequence) \X Nat

Operations == [seq: Ids, kind: AllKinds, ref: 0..MaxSequence]

Results ==
    [seq: Ids, status: {"applied", "failed"}, retriable: BOOLEAN, playlist: Nat]

VARIABLES
    \* the device's queue file
    queue,         \* operations, oldest first
    nextSequence,  \* next_sequence
    failure,       \* failure noted on the head of the queue
    aliases,       \* playlist_aliases: local id -> Jellyfin playlist, 0 if none
    \* the device's memory
    batch,         \* active_batch, << >> when nil
    http,          \* the HTTP slot: "idle", "busy", or an answer to poll
    request,       \* the request the slot waits for
    response,      \* [ok, results] of the answer
    \* the companion server's database
    record,        \* device_operations.status, "none" when no row exists
    recorded,      \* playlist in device_operations.result_json
    serverAliases, \* playlist_aliases table
    \* the companion server's memory
    inbox,         \* operations of every request alive, << >> when none
    running,       \* the request that holds operation_lock
    position,      \* its current operation
    stage,         \* how far the current operation is
    results,       \* results so far
    made,          \* playlist in the result of the current operation
    \* Jellyfin
    live,          \* playlists that exist
    \* history and bounds
    submitted,     \* every operation ever queued
    effects,       \* how often an operation changed Jellyfin
    unrecorded,    \* operations whose effect was once not recorded
    faults         \* faults left

flash == <<queue, nextSequence, failure, aliases>>
memory == <<batch, http, request, response>>
database == <<record, recorded, serverAliases>>
worker == <<running, position, stage, results, made>>
history == <<submitted, effects, unrecorded>>
vars == <<flash, memory, database, worker, inbox, live, history, faults>>

Stages == {"idle", "prepare", "call", "alias", "save", "reject", "retry",
           "respond"}

NoResponse == [ok |-> FALSE, results |-> << >>]

TypeOK ==
    /\ queue \in Seq(Operations) /\ Len(queue) <= MaximumOperations
    /\ nextSequence \in 1..(MaxSequence + 1)
    /\ failure \in {"none", "retriable", "final"}
    /\ aliases \in [Ids -> Nat]
    /\ batch \in Seq(Operations)
    /\ http \in {"idle", "busy", "answered"}
    /\ request \in Requests \cup {NoRequest}
    /\ response \in [ok: BOOLEAN, results: Seq(Results)]
    /\ record \in [Ids -> {"none", "pending", "failed", "applied"}]
    /\ recorded \in [Ids -> Nat]
    /\ serverAliases \in [Ids -> Nat]
    /\ inbox \in [Requests -> Seq(Operations)]
    /\ running \in Requests \cup {NoRequest}
    /\ position \in Nat \ {0}
    /\ stage \in Stages
    /\ results \in Seq(Results)
    /\ made \in Nat
    /\ live \in SUBSET Playlists
    /\ submitted \in Seq(Operations)
    /\ effects \in [Ids -> Nat]
    /\ unrecorded \in SUBSET Ids
    /\ faults \in 0..MaxFaults

Init ==
    /\ queue = << >>
    /\ nextSequence = 1
    /\ failure = "none"
    /\ aliases = [s \in Ids |-> 0]
    /\ batch = << >>
    /\ http = "idle"
    /\ request = NoRequest
    /\ response = NoResponse
    /\ record = [s \in Ids |-> "none"]
    /\ recorded = [s \in Ids |-> 0]
    /\ serverAliases = [s \in Ids |-> 0]
    /\ inbox = [r \in Requests |-> << >>]
    /\ running = NoRequest
    /\ position = 1
    /\ stage = "idle"
    /\ results = << >>
    /\ made = 0
    /\ live = {<<0, 0>>}
    /\ submitted = << >>
    /\ effects = [s \in Ids |-> 0]
    /\ unrecorded = {}
    /\ faults = MaxFaults

Fault == faults > 0 /\ faults' = faults - 1

-----------------------------------------------------------------------------
(* The device: the user's edits and the queue file *)

\* The playlists the library view offers for an edit: the old one, and those
\* of earlier creations that no earlier deletion hides.
Offered ==
    {s \in 0..Len(submitted) :
        /\ s = 0 \/ submitted[s].kind = "create"
        /\ \A i \in 1..Len(submitted) :
               ~(submitted[i].kind = "delete" /\ submitted[i].ref = s)}

\* A mutation: the limit is checked after the operation is counted in.
EnqueueOverfull(kind, ref) ==
    /\ nextSequence <= MaxSequence
    /\ Len(queue) <= MaximumOperations
    /\ IF kind \in {"create", "favorite"} THEN ref = 0 ELSE ref \in Offered
    /\ LET operation == [seq |-> nextSequence, kind |-> kind, ref |-> ref]
       IN  /\ queue' = Append(queue, operation)
           /\ submitted' = Append(submitted, operation)
    /\ nextSequence' = nextSequence + 1
    /\ UNCHANGED <<failure, aliases, memory, database, worker, inbox, live,
                   effects, unrecorded, faults>>

\* enqueue: refused when the queue is full, saved before it is acknowledged.
Enqueue(kind, ref) ==
    /\ nextSequence <= MaxSequence
    /\ Len(queue) < MaximumOperations
    /\ IF kind \in {"create", "favorite"} THEN ref = 0 ELSE ref \in Offered
    /\ LET operation == [seq |-> nextSequence, kind |-> kind, ref |-> ref]
       IN  /\ queue' = Append(queue, operation)
           /\ submitted' = Append(submitted, operation)
    /\ nextSequence' = nextSequence + 1
    /\ UNCHANGED <<failure, aliases, memory, database, worker, inbox, live,
                   effects, unrecorded, faults>>

Blocked == queue # << >> /\ failure = "final"

Least(m, n) == IF m <= n THEN m ELSE n

\* batch: the oldest operations, at most BatchLimit of them.
Batch == SubSeq(queue, 1, Least(BatchLimit, Len(queue)))

\* A mutation: a retriable failure is never retried.
StartFlushOnce(r) ==
    /\ batch = << >> /\ http = "idle"
    /\ queue # << >> /\ failure = "none"
    /\ inbox[r] = << >>
    /\ batch' = Batch
    /\ inbox' = [inbox EXCEPT ![r] = Batch]
    /\ http' = "busy"
    /\ request' = r
    /\ UNCHANGED <<flash, response, database, worker, live, history, faults>>

\* sync_operation_flush.start: one upload at a time, never of a blocked queue.
StartFlush(r) ==
    /\ batch = << >> /\ http = "idle"
    /\ queue # << >> /\ ~Blocked
    /\ inbox[r] = << >>
    /\ batch' = Batch
    /\ inbox' = [inbox EXCEPT ![r] = Batch]
    /\ http' = "busy"
    /\ request' = r
    /\ UNCHANGED <<flash, response, database, worker, live, history, faults>>

NoAnswer ==
    /\ http' = "answered"
    /\ request' = NoRequest
    /\ response' = NoResponse
    /\ UNCHANGED <<flash, batch, database, worker, inbox, live, history>>

\* The native client gives up after 10 seconds. Expire: nobody works on the
\* request any more. GiveUp, a fault: the server still does, and goes on.
Expire ==
    /\ http = "busy" /\ inbox[request] = << >>
    /\ NoAnswer
    /\ UNCHANGED faults

GiveUp ==
    /\ http = "busy" /\ inbox[request] # << >>
    /\ NoAnswer
    /\ Fault

\* apply_results: result i is the answer to the operation that is
\* head of the queue once the i - 1 before it are removed.
Answers(i) ==
    /\ i <= Len(batch) /\ i <= Len(queue) /\ i <= Len(response.results)
    /\ queue[i].seq = batch[i].seq
    /\ response.results[i].seq = batch[i].seq

\* A mutation: any answer removes the operation.
AppliedIfAnswered(i) == Answers(i)

Applied(i) == Answers(i) /\ response.results[i].status = "applied"

\* applied_alias for each of the first n results. A creation comes before the
\* deletions that name it, so a deletion decides.
AliasesAfter(n) ==
    LET creates(i, s) == queue[i].kind = "create" /\ queue[i].seq = s
        deletes(i, s) == queue[i].kind = "delete" /\ queue[i].ref = s
    IN  [s \in Ids |->
            IF \E i \in 1..n : deletes(i, s) THEN 0
            ELSE IF \E i \in 1..n : creates(i, s)
                 THEN response.results[CHOOSE i \in 1..n : creates(i, s)].playlist
                 ELSE aliases[s]]

\* apply_results removes the operations before the first that is not answered
\* "applied", notes the failure of that one if it is answered "failed", and
\* saves once.
ApplyResults ==
    \E n \in 0..Len(queue) :
        /\ \A i \in 1..n : Applied(i)
        /\ ~Applied(n + 1)
        /\ queue' = SubSeq(queue, n + 1, Len(queue))
        /\ aliases' = AliasesAfter(n)
        /\ failure' =
               IF Answers(n + 1)
               THEN IF response.results[n + 1].retriable
                    THEN "retriable" ELSE "final"
               ELSE IF n > 0 THEN "none" ELSE failure

\* mark_failure on the batch's first operation, if it is still the head. Every
\* failed request the server can cause here is retriable (response_failure).
MarkFailure ==
    /\ failure' = IF queue # << >> /\ queue[1].seq = batch[1].seq
                  THEN "retriable" ELSE failure
    /\ UNCHANGED <<queue, aliases>>

\* sync_operation_flush.poll: the batch is over whatever the answer says.
EndBatch ==
    /\ http = "answered" /\ batch # << >>
    /\ batch' = << >>
    /\ http' = "idle"
    /\ request' = NoRequest
    /\ response' = NoResponse
    /\ UNCHANGED <<nextSequence, database, worker, inbox, live, history>>

PollAnswer ==
    /\ EndBatch
    /\ IF response.ok THEN ApplyResults ELSE MarkFailure
    /\ UNCHANGED faults

\* save_state fails: what poll learned is forgotten.
PollUnsaved ==
    /\ EndBatch
    /\ Fault
    /\ UNCHANGED <<queue, failure, aliases>>

\* The device restarts: only the queue file survives.
Reboot ==
    /\ Fault
    /\ batch' = << >>
    /\ http' = "idle"
    /\ request' = NoRequest
    /\ response' = NoResponse
    /\ UNCHANGED <<flash, database, worker, inbox, live, history>>

-----------------------------------------------------------------------------
(* The companion server: one thread per request, operation_lock around the   *)
(* whole batch                                                               *)

Current == inbox[running][position]

\* Where resolve_playlist_id sends the current operation.
Target == <<Current.ref, IF Current.ref = 0 THEN 0
                         ELSE serverAliases[Current.ref]>>

AcquireLock(r) ==
    /\ running = NoRequest
    /\ inbox[r] # << >>
    /\ running' = r
    /\ position' = 1
    /\ stage' = "prepare"
    /\ results' = << >>
    /\ UNCHANGED <<flash, memory, database, made, inbox, live, history, faults>>

\* Report the current operation applied and go on with the next one.
Report(playlist) ==
    /\ results' = Append(results, [seq |-> Current.seq, status |-> "applied",
                                   retriable |-> FALSE, playlist |-> playlist])
    /\ position' = position + 1
    /\ stage' = IF position = Len(inbox[running]) THEN "respond" ELSE "prepare"

\* prepare_operation_record finds the operation applied: its result is replayed.
Replay ==
    /\ stage = "prepare"
    /\ record[Current.seq] = "applied"
    /\ Report(recorded[Current.seq])
    /\ UNCHANGED <<flash, memory, database, running, made, inbox, live, history,
                   faults>>

\* A mutation: the row's status is not looked at.
PrepareAlways ==
    /\ stage = "prepare"
    /\ record' = [record EXCEPT ![Current.seq] =
                     IF @ = "none" THEN "pending" ELSE @]
    /\ stage' = "call"
    /\ UNCHANGED <<flash, memory, recorded, serverAliases, running, position,
                   results, made, inbox, live, history, faults>>

\* prepare_operation_record inserts a pending row, or finds one not applied.
Prepare ==
    /\ stage = "prepare"
    /\ record[Current.seq] # "applied"
    /\ record' = [record EXCEPT ![Current.seq] =
                     IF @ = "none" THEN "pending" ELSE @]
    /\ stage' = "call"
    /\ UNCHANGED <<flash, memory, recorded, serverAliases, running, position,
                   results, made, inbox, live, history, faults>>

\* How often the call changes Jellyfin. A 404 for the playlist to delete or to
\* remove from is accepted; an entry may be gone or in its place already.
Changes ==
    CASE Current.kind = "delete" -> {IF Target \in live THEN 1 ELSE 0}
      [] Current.kind \in {"remove", "move"} ->
             IF Target \in live THEN {0, 1} ELSE {0}
      [] OTHER -> {1}

\* Jellyfin carries the current operation out.
Effect ==
    LET s == Current.seq
    IN  \E change \in Changes :
            /\ effects' = [effects EXCEPT ![s] = @ + change]
            /\ made' = IF Current.kind = "create" THEN effects[s] + 1
                       ELSE Target[2]
            /\ live' = CASE Current.kind = "create" ->
                               live \cup {<<s, effects[s] + 1>>}
                         [] Current.kind = "delete" -> live \ {Target}
                         [] OTHER -> live

\* The handler's request to Jellyfin can be carried out.
Possible == Current.kind \in NeedsPlaylist => Target \in live

\* A mutation: the alias of a created playlist is not stored.
CallWithoutAlias ==
    /\ stage = "call"
    /\ Current.kind # "bad" /\ Possible
    /\ Effect
    /\ stage' = "save"
    /\ UNCHANGED <<flash, memory, database, running, position, results, inbox,
                   submitted, unrecorded, faults>>

\* Jellyfin carries the operation out and says so.
Call ==
    /\ stage = "call"
    /\ Current.kind # "bad" /\ Possible
    /\ Effect
    /\ stage' = IF Current.kind \in {"create", "delete"}
                THEN "alias" ELSE "save"
    /\ UNCHANGED <<flash, memory, database, running, position, results, inbox,
                   submitted, unrecorded, faults>>

\* Jellyfin does it, but the handler sees a timeout, an answer without an id,
\* or (add) a playlist that does not show the new entry yet.
CallUnconfirmed ==
    /\ stage = "call"
    /\ Current.kind # "bad" /\ Possible
    /\ Fault
    /\ Effect
    /\ stage' = "retry"
    /\ unrecorded' = unrecorded \cup {Current.seq}
    /\ UNCHANGED <<flash, memory, database, running, position, results, inbox,
                   submitted>>

\* Jellyfin cannot be reached or answers 5xx before it did anything.
CallFails ==
    /\ stage = "call"
    /\ Current.kind # "bad"
    /\ Fault
    /\ stage' = "retry"
    /\ UNCHANGED <<flash, memory, database, running, position, results, made,
                   inbox, live, history>>

\* A mutation: the 404 counts as a rejection.
CallMissingRejected ==
    /\ stage = "call"
    /\ Current.kind # "bad" /\ ~Possible
    /\ stage' = "reject"
    /\ UNCHANGED <<flash, memory, database, running, position, results, made,
                   inbox, live, history, faults>>

\* The playlist is gone: raise_for_status makes a RequestException of the 404,
\* which apply_operation calls retriable.
CallMissing ==
    /\ stage = "call"
    /\ Current.kind # "bad" /\ ~Possible
    /\ stage' = "retry"
    /\ UNCHANGED <<flash, memory, database, running, position, results, made,
                   inbox, live, history, faults>>

\* The handler rejects the operation: its validation does, or the playlist does
\* not have the entry to move, or is not that long.
CallRejected ==
    /\ stage = "call"
    /\ Current.kind \in Rejectable
    /\ Current.kind = "move" => Target \in live
    /\ stage' = "reject"
    /\ UNCHANGED <<flash, memory, database, running, position, results, made,
                   inbox, live, history, faults>>

\* A mutation: ON CONFLICT DO NOTHING.
SaveAliasOnce ==
    /\ stage = "alias"
    /\ serverAliases' =
           IF Current.kind = "create"
           THEN [serverAliases EXCEPT ![Current.seq] = IF @ = 0 THEN made ELSE @]
           ELSE [s \in Ids |-> IF s = Current.ref THEN 0 ELSE serverAliases[s]]
    /\ stage' = "save"
    /\ UNCHANGED <<flash, memory, record, recorded, running, position, results,
                   made, inbox, live, history, faults>>

\* save_playlist_alias or remove_playlist_state, a transaction of its own.
SaveAlias ==
    /\ stage = "alias"
    /\ serverAliases' =
           IF Current.kind = "create"
           THEN [serverAliases EXCEPT ![Current.seq] = made]
           ELSE [s \in Ids |-> IF s = Current.ref THEN 0 ELSE serverAliases[s]]
    /\ stage' = "save"
    /\ UNCHANGED <<flash, memory, record, recorded, running, position, results,
                   made, inbox, live, history, faults>>

SaveApplied ==
    /\ stage = "save"
    /\ record' = [record EXCEPT ![Current.seq] = "applied"]
    /\ recorded' = [recorded EXCEPT ![Current.seq] = made]
    /\ Report(made)
    /\ UNCHANGED <<flash, memory, serverAliases, running, made, inbox, live,
                   history, faults>>

\* A mutation: the batch goes on behind a failed operation.
SaveFailedGoesOn ==
    /\ stage \in {"reject", "retry"}
    /\ record' = [record EXCEPT ![Current.seq] = "failed"]
    /\ results' = Append(results, [seq |-> Current.seq, status |-> "failed",
                                   retriable |-> stage = "retry",
                                   playlist |-> 0])
    /\ position' = position + 1
    /\ stage' = IF position = Len(inbox[running]) THEN "respond" ELSE "prepare"
    /\ UNCHANGED <<flash, memory, recorded, serverAliases, running, made, inbox,
                   live, history, faults>>

\* save_operation_failed; the batch stops at the first operation not applied.
SaveFailed ==
    /\ stage \in {"reject", "retry"}
    /\ record' = [record EXCEPT ![Current.seq] = "failed"]
    /\ results' = Append(results, [seq |-> Current.seq, status |-> "failed",
                                   retriable |-> stage = "retry",
                                   playlist |-> 0])
    /\ stage' = "respond"
    /\ UNCHANGED <<flash, memory, recorded, serverAliases, running, position,
                   made, inbox, live, history, faults>>

\* The answer goes out, to nobody when the device gave up, restarted or posted
\* another request since.
Respond ==
    /\ stage = "respond"
    /\ stage' = "idle"
    /\ inbox' = [inbox EXCEPT ![running] = << >>]
    /\ running' = NoRequest
    /\ IF http = "busy" /\ request = running
       THEN /\ http' = "answered"
            /\ response' = [ok |-> TRUE, results |-> results]
       ELSE UNCHANGED <<http, response>>
    /\ UNCHANGED <<flash, batch, request, database, position, results, made,
                   live, history, faults>>

\* A request is lost on its way, or rejected before the lock (no link to a
\* Jellyfin account).
LoseRequest(r) ==
    /\ inbox[r] # << >> /\ running # r
    /\ Fault
    /\ inbox' = [inbox EXCEPT ![r] = << >>]
    /\ UNCHANGED <<flash, memory, database, worker, live, history>>

\* The server process dies: its requests with it, the database stays.
ServerCrash ==
    /\ Fault
    /\ inbox' = [r \in Requests |-> << >>]
    /\ running' = NoRequest
    /\ stage' = "idle"
    /\ unrecorded' = IF stage \in {"alias", "save"}
                     THEN unrecorded \cup {Current.seq} ELSE unrecorded
    /\ UNCHANGED <<flash, memory, database, position, results, made, live,
                   submitted, effects>>

\* Another Jellyfin client deletes a playlist.
ExternalDelete ==
    /\ ExternalDeletes
    /\ \E playlist \in live : live' = live \ {playlist}
    /\ UNCHANGED <<flash, memory, database, worker, inbox, history, faults>>

-----------------------------------------------------------------------------
Device ==
    \/ \E kind \in Kinds, ref \in 0..MaxSequence : Enqueue(kind, ref)
    \/ \E r \in Requests : StartFlush(r)
    \/ Expire
    \/ GiveUp
    \/ PollAnswer
    \/ PollUnsaved
    \/ Reboot

Handle ==
    \/ Replay \/ Prepare
    \/ Call \/ CallUnconfirmed \/ CallFails \/ CallMissing \/ CallRejected
    \/ SaveAlias \/ SaveApplied \/ SaveFailed
    \/ Respond

Server ==
    \/ \E r \in Requests : AcquireLock(r)
    \/ Handle
    \/ \E r \in Requests : LoseRequest(r)
    \/ ServerCrash

Next == Device \/ Server \/ ExternalDelete

\* The runtime's timer starts and polls uploads as long as the queue is not
\* blocked, the native client times out, and a live server works on.
Fairness ==
    /\ WF_vars(\E r \in Requests : StartFlush(r))
    /\ WF_vars(Expire)
    /\ WF_vars(PollAnswer)
    /\ WF_vars(\E r \in Requests : AcquireLock(r))
    /\ WF_vars(Handle)

Spec == Init /\ [][Next]_vars

FairSpec == Spec /\ Fairness

-----------------------------------------------------------------------------
(* Safety *)

Known == 1..(nextSequence - 1)

Queued(s) == \E i \in 1..Len(queue) : queue[i].seq = s

\* The server starts on an edit only when every earlier one is applied, whatever
\* requests overlap, get lost or arrive late: "ordered" in server/README.md.
ServerInOrder ==
    \A s, t \in Ids : s < t /\ record[t] # "none" => record[s] = "applied"

\* An edit leaves the device's queue only once the server has it on record as
\* applied; no crash, lost answer or failed save drops one.
NoEditDropped ==
    \A s \in Known : Queued(s) \/ record[s] = "applied"

\* However often a batch is posted, an edit changes Jellyfin once, unless the
\* server did not get to record that it had.
RepeatsOnlyUnrecorded ==
    \A s \in Ids \ unrecorded : effects[s] <= 1

\* The device resolves a local playlist as the server does, until the server
\* has begun to delete it and the device has not
\* heard yet: replays and repeated creations do not split them.
AliasesAgree ==
    \A s \in Ids :
        aliases[s] # 0 /\ aliases[s] # serverAliases[s] =>
            \E d \in Known : /\ submitted[d].kind = "delete"
                             /\ submitted[d].ref = s
                             /\ record[d] # "none"
                             /\ Queued(d)

\* When the server calls Jellyfin about a playlist the device made offline, the
\* alias is there and names a playlist that exists.
EditFindsItsPlaylist ==
    stage = "call" /\ Current.kind \in NeedsPlaylist \cup {"remove"}
                   /\ ~ExternalDeletes =>
        Current.ref = 0 \/ Target \in live

\* Once on record as applied an edit stays so and never touches Jellyfin again:
\* "Replaying an applied operation returns its original result".
AppliedIsFinal ==
    [][\A s \in Ids : record[s] = "applied" =>
          record'[s] = "applied" /\ effects'[s] = effects[s]
                                /\ recorded'[s] = recorded[s]]_vars

\* The head of the queue cannot do without a playlist that another client
\* deleted.
HeadMissing ==
    /\ queue # << >> /\ queue[1].kind \in NeedsPlaylist
    /\ record[queue[1].seq] = "failed"
    /\ <<queue[1].ref, IF queue[1].ref = 0 THEN 0
                       ELSE serverAliases[queue[1].ref]>> \notin live
    /\ stage \notin {"alias", "save"}

\* A rename, an addition or a move whose playlist is gone is never given up: its
\* 404 is called retriable, so it stays the head and everything behind it waits
\* for ever. Nor is it reported as blocked, but for a move that was rejected
\* while its playlist was still there.
StuckBehindMissing ==
    [][HeadMissing => /\ HeadMissing'
                      /\ queue'[1] = queue[1]
                      /\ queue[1].kind # "move" => ~Blocked']_vars

\* The whole system implements the log of edits that the user is promised.
Log == INSTANCE EditLog WITH
    made <- Known,
    applied <- {s \in Ids : record[s] = "applied"},
    forgotten <- {s \in Known : ~Queued(s)}

ImplementsEditLog == Log!Spec

-----------------------------------------------------------------------------
(* Liveness *)

\* With finitely many faults the queue is uploaded to the end, up to an edit the
\* server rejects, or up to one whose playlist another client deleted.
Drains == queue # << >> ~> queue = << >> \/ Blocked \/ HeadMissing
=============================================================================
