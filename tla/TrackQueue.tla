------------------------------ MODULE TrackQueue ------------------------------
(***************************************************************************)
(* The queue of tracks (src/tangara/audio/track_queue.cpp, playlist.cpp)    *)
(* and what Lua does with it (src/tangara/lua/lua_queue.cpp).  The user's   *)
(* task changes it directly; additions are made by the background workers,  *)
(* the long ones track by track.  An action is what runs between two places *)
(* where another task can get in: a section under mutex_, or a test of one  *)
(* of the atomic flags.                                                     *)
(***************************************************************************)
EXTENDS Integers, Sequences, SequencesExt, FiniteSets

CONSTANTS
    Tracks,         \* paths of tracks
    NoTrack,        \* the empty path
    Playlists,      \* contents of the playlist files the user opens
    Additions,      \* what the user adds at once: a track, or those of an iterator
    WorkerCount,    \* tasks of the background pool
    Seeds,          \* seeds of the shuffle
    MillerShuffle,  \* MillerShuffle[seed][size][n]: index at n in the shuffle,
                    \* for two cycles, which the later ones repeat
    ManyTracks,     \* tracks loaded before a shuffled queue starts: 100 in the code
    MaxInputs,      \* things the user does, at most
    MaxTracks,      \* tracks in the queue, at most: room for all the inputs add
    SizeModulus     \* size_t wraps here: 2^32 on the device

\* MillerShuffle "behaves well with pos > size, returning different permutations
\* each cycle".  A size_t does not wrap for as many tracks and inputs as there are.
ASSUME QueueAssumption ==
    /\ NoTrack \notin Tracks
    /\ Playlists \subseteq Seq(Tracks)
    /\ Additions \subseteq Seq(Tracks \cup {NoTrack})
    /\ MaxInputs \in Nat /\ MaxTracks \in Nat
    /\ SizeModulus \in Nat /\ MaxTracks + MaxInputs + 1 < SizeModulus
    /\ ManyTracks \in Nat /\ WorkerCount \in Nat
    /\ \A seed \in Seeds, size \in 1..MaxTracks :
          \A n \in 0..(2 * size - 1) : MillerShuffle[seed][size][n] \in 0..(size - 1)

Workers == 1..WorkerCount

VARIABLES
    main,           \* playlist_, the file of the queue
    value,          \* its current_value_
    opened,         \* opened_playlist_, empty if there is none
    openedValue,    \* its current_value_
    position,       \* position_
    shuffle,        \* shuffle_: is it on, its seed_, pos_ and size_
    repeat,         \* repeatMode_
    ready,          \* ready_
    loading,        \* loading_
    appending,      \* appending_async_
    cancel,         \* cancel_appending_async_
    iterators,      \* pending_async_iterators_
    jobs,           \* queue of the background pool
    running,        \* what each of its workers is doing
    ui,             \* where the user's task is
    inputs,         \* things the user did (bound)
    updates         \* QueueUpdates on their way to the audio state machine

lists == <<main, opened>>
current == <<value, openedValue, position>>
modes == <<shuffle, repeat>>
flags == <<ready, loading, appending, cancel>>
pool == <<jobs, running>>
queueVars == <<lists, current, modes, flags, iterators, pool, ui, inputs, updates>>

\* QueueUpdate, and DecodingFinished of a track, which goes the same way.
Reasons == {"explicit", "repeating", "finished", "bulk", "decoded"}
Update(changed, reason) == [changed |-> changed, reason |-> reason, track |-> NoTrack]
Updates == [changed : BOOLEAN, reason : Reasons, track : Tracks \cup {NoTrack}]

\* A job: where it is, the tracks it still has to do with, and whether the
\* queue's current track changes with it (was_queue_empty, update_current).
Job(step, items, changes) == [step |-> step, items |-> items, changes |-> changes]
Idle == Job("idle", << >>, FALSE)
AppendSteps == {"check", "checkAll", "add", "addAll", "start", "load", "report"}
Jobs == [step : AppendSteps \cup {"idle", "open", "compare", "finish"},
         items : Seq(Tracks \cup {NoTrack}), changes : BOOLEAN]

Total == Len(opened) + Len(main)

\* TrackQueue::current
Current == IF ~ready THEN NoTrack
           ELSE IF position < Len(opened) THEN openedValue ELSE value

QueueTypeOK ==
    /\ main \in Seq(Tracks) /\ opened \in Seq(Tracks)
    /\ value \in Tracks \cup {NoTrack} /\ openedValue \in Tracks \cup {NoTrack}
    /\ position \in 0..(SizeModulus - 1)
    /\ shuffle \in [on : BOOLEAN, seed : Seeds, pos : Nat, size : Nat]
    /\ repeat \in {"off", "track", "queue"}
    /\ ready \in BOOLEAN /\ loading \in BOOLEAN
    /\ appending \in BOOLEAN /\ cancel \in BOOLEAN
    /\ iterators \in Seq(Seq(Tracks \cup {NoTrack}))
    /\ jobs \in Seq(Jobs)
    /\ running \in [Workers -> Jobs]
    /\ ui \in [step : {"idle", "cancel", "wait", "clear", "then"},
               then : {"nothing", "open", "play"},
               items : Seq(Tracks)]
    /\ inputs \in 0..MaxInputs
    /\ updates \in Seq(Updates)

Resting == [step |-> "idle", then |-> "nothing", items |-> << >>]

QueueInit ==
    /\ main = << >> /\ value = NoTrack
    /\ opened = << >> /\ openedValue = NoTrack
    /\ position = 0
    /\ shuffle \in [on : {FALSE}, seed : Seeds, pos : {0}, size : {0}]
    /\ repeat = "off"
    /\ ready = TRUE /\ loading = FALSE /\ appending = FALSE /\ cancel = FALSE
    /\ iterators = << >> /\ jobs = << >>
    /\ running = [w \in Workers |-> Idle]
    /\ ui = Resting /\ inputs = 0
    /\ updates = << >>

-----------------------------------------------------------------------------
(* Helpers.                                                                *)

\* The bound on the tracks in the queue.
Fits(list) == Total + Len(list) <= MaxTracks

NotifyChanged(changed, reason) ==
    updates' = Append(updates, Update(changed, reason))

\* goTo, forgetting that a playlist may be open.
GoToOwnList(p, v) ==
    /\ position' = p
    /\ value' = IF p < Len(main') THEN main'[p + 1] ELSE v
    /\ UNCHANGED openedValue

\* goTo.  A position past the end of a playlist leaves its current track as it
\* was; v is the current track of playlist_ so far.
GoTo(p, v) ==
    /\ position' = p
    /\ openedValue' = IF p < Len(opened') THEN opened'[p + 1] ELSE openedValue
    /\ value' = IF p >= Len(opened') /\ p < Len(opened') + Len(main')
                THEN main'[p - Len(opened') + 1] ELSE v

Stay(v) == value' = v /\ UNCHANGED <<openedValue, position>>

\* RandomIterator::at
At(s, n) == IF s.size = 0 THEN 0
            ELSE MillerShuffle[s.seed][s.size][n % (2 * s.size)]

Resized(s, size) == [s EXCEPT !.size = size, !.pos = 0]

\* updateShuffler
UpdateShuffler(andPosition, v) ==
    IF ~shuffle.on THEN Stay(v) /\ UNCHANGED shuffle
    ELSE /\ shuffle' = Resized(shuffle, Len(opened') + Len(main'))
         /\ IF andPosition THEN GoTo(At(shuffle', 0), v) ELSE Stay(v)

\* MutablePlaylist::append; a track whose path is gone is left out.
FirstOf(items) == IF value = NoTrack /\ items # << >> THEN items[1] ELSE value
FoundAlways(track) == <<track>>
Found(track) == IF track = NoTrack THEN << >> ELSE <<track>>

\* RandomIterator::next: the number it ends up at.  An empty shuffle has no end,
\* since size_ - 1 wraps.
ShuffleGoesOn == shuffle.pos < (shuffle.size - 1) % SizeModulus \/ repeat = "queue"

PlaybackOrderAgain ==
    IF position >= Total THEN << >>
    ELSE IF shuffle.on
         THEN <<position>> \o [i \in 1..(shuffle.size - shuffle.pos - 1) |->
                                  At(shuffle, shuffle.pos + i - 1)]
         ELSE [i \in 1..(Total - position) |-> position + i - 1]

\* playbackOrder
PlaybackOrder ==
    IF position >= Total THEN << >>
    ELSE IF shuffle.on
         THEN <<position>> \o [i \in 1..(shuffle.size - shuffle.pos - 1) |->
                                  At(shuffle, shuffle.pos + i)]
         ELSE [i \in 1..(Total - position) |-> position + i - 1]

-----------------------------------------------------------------------------
(* The current track.                                                      *)

\* next(Reason)
ShuffledNext(reason) ==
    /\ shuffle.on
    /\ shuffle' = IF ShuffleGoesOn THEN [shuffle EXCEPT !.pos = @ + 1] ELSE shuffle
    /\ GoTo(At(shuffle', shuffle'.pos), value)
    /\ NotifyChanged(ShuffleGoesOn, reason)

LinearNext(reason) ==
    LET following == (position + 1) % SizeModulus IN
    /\ ~shuffle.on
    /\ UNCHANGED shuffle
    /\ IF following < Total
       THEN GoTo(following, value) /\ NotifyChanged(TRUE, reason)
       ELSE IF repeat = "queue"
            THEN GoTo(0, value) /\ NotifyChanged(TRUE, reason)
            ELSE GoTo(position, value) /\ NotifyChanged(FALSE, reason)

NextTrack(reason) ==
    /\ UNCHANGED lists
    /\ ShuffledNext(reason) \/ LinearNext(reason)

\* finish
FinishTrack ==
    \/ /\ repeat = "track"
       /\ NotifyChanged(TRUE, "repeating")
       /\ UNCHANGED <<lists, current, shuffle>>
    \/ /\ repeat # "track"
       /\ NextTrack("finished")

\* previous
PreviousTrack ==
    /\ UNCHANGED lists
    /\ IF shuffle.on
       THEN /\ shuffle' = [shuffle EXCEPT !.pos = IF @ > 0 THEN @ - 1 ELSE 0]
            /\ GoTo(At(shuffle', shuffle'.pos), value)
       ELSE /\ UNCHANGED shuffle
            /\ IF position > 0 THEN GoTo(position - 1, value)
               ELSE IF repeat = "queue" THEN GoTo((Total - 1) % SizeModulus, value)
               ELSE GoTo(position, value)
    /\ NotifyChanged(TRUE, "explicit")

-----------------------------------------------------------------------------
(* The user's task.  Each input is counted.                                *)

Input == /\ ui.step = "idle" /\ inputs < MaxInputs
         /\ inputs' = inputs + 1

\* queue.add: left to the background workers.
AddTracks(items, step) ==
    /\ Input
    /\ jobs' = Append(jobs, Job(step, items, FALSE))
    /\ UNCHANGED <<lists, current, modes, flags, iterators, running, ui, updates>>

UserNext ==
    /\ Input
    /\ NextTrack("explicit")
    /\ UNCHANGED <<repeat, flags, iterators, pool, ui>>

UserPrevious ==
    /\ Input
    /\ PreviousTrack
    /\ UNCHANGED <<repeat, flags, iterators, pool, ui>>

\* currentPosition(size_t)
UserPosition ==
    /\ Input
    /\ \E p \in 0..(Total - 1) :
          /\ UNCHANGED lists
          /\ GoTo(p, value)
    /\ NotifyChanged(TRUE, "explicit")
    /\ UNCHANGED <<modes, flags, iterators, pool, ui>>

\* random(bool)
UserRandom ==
    /\ Input
    /\ \/ /\ \E seed \in Seeds :
                shuffle' = [on |-> TRUE, seed |-> seed, pos |-> 0, size |-> Total]
       \/ shuffle' = [shuffle EXCEPT !.on = FALSE, !.pos = 0, !.size = 0]
    /\ NotifyChanged(FALSE, "explicit")
    /\ UNCHANGED <<lists, current, repeat, flags, iterators, pool, ui>>

\* repeatMode(RepeatMode)
UserRepeat ==
    /\ Input
    /\ repeat' \in {"off", "track", "queue"} \ {repeat}
    /\ NotifyChanged(FALSE, "explicit")
    /\ UNCHANGED <<lists, current, shuffle, flags, iterators, pool, ui>>

\* clear, alone or at the start of open_playlist and play_from.
StartClear(then, items) ==
    /\ Input
    /\ ui' = [step |-> IF appending THEN "cancel" ELSE "clear",
              then |-> then, items |-> items]
    /\ UNCHANGED <<lists, current, modes, flags, iterators, pool, updates>>

CancelAppending ==
    /\ ui.step = "cancel"
    /\ cancel' = TRUE
    /\ ui' = [ui EXCEPT !.step = "wait"]
    /\ UNCHANGED <<lists, current, modes, ready, loading, appending, iterators,
                   pool, inputs, updates>>

AwaitAppending ==
    /\ ui.step = "wait" /\ ~appending
    /\ ui' = [ui EXCEPT !.step = "clear"]
    /\ UNCHANGED <<lists, current, modes, flags, iterators, pool, inputs, updates>>

ClearQueue ==
    /\ ui.step = "clear"
    /\ main' = << >> /\ value' = NoTrack
    /\ opened' = << >> /\ openedValue' = NoTrack
    /\ position' = 0
    /\ shuffle' = Resized(shuffle, 0)
    /\ ready' = FALSE /\ loading' = FALSE
    /\ iterators' = << >>
    /\ NotifyChanged(FALSE, "finished")
    /\ ui' = IF ui.then = "nothing" THEN Resting ELSE [ui EXCEPT !.step = "then"]
    /\ UNCHANGED <<repeat, appending, cancel, pool, inputs>>

\* openPlaylist.  A file that does not open leaves the queue as clear left it.
OpenPlaylist ==
    /\ ui.step = "then" /\ ui.then = "open"
    /\ \/ /\ Fits(ui.items)
          /\ opened' = ui.items
          /\ main' = main
          /\ ready' = TRUE
          /\ IF shuffle.on
             THEN /\ shuffle' = Resized(shuffle, Len(opened') + Len(main'))
                  /\ GoTo(At(shuffle', 0), value)
             ELSE /\ openedValue' = IF ui.items = << >> THEN NoTrack ELSE ui.items[1]
                  /\ UNCHANGED <<shuffle, position, value>>
          /\ NotifyChanged(TRUE, "explicit")
       \/ UNCHANGED <<lists, current, shuffle, ready, updates>>
    /\ ui' = Resting
    /\ UNCHANGED <<repeat, loading, appending, cancel, iterators, pool, inputs>>

\* playFromPosition, after clear.
PlayFrom ==
    /\ ui.step = "then" /\ ui.then = "play"
    /\ Fits(ui.items)
    /\ main' = main \o ui.items /\ opened' = opened
    /\ ready' = TRUE
    /\ UpdateShuffler(TRUE, FirstOf(ui.items))
    /\ NotifyChanged(TRUE, "explicit")
    /\ ui' = Resting
    /\ UNCHANGED <<repeat, loading, appending, cancel, iterators, pool, inputs>>

User ==
    \/ \E items \in Additions :
          AddTracks(items, IF Len(items) = 1 THEN "check" ELSE "checkAll")
    \/ UserNext \/ UserPrevious \/ UserPosition \/ UserRandom \/ UserRepeat
    \/ StartClear("nothing", << >>)
    \/ \E items \in Playlists : StartClear("open", items)
    \/ \E track \in Tracks : <<track>> \in Additions /\ StartClear("play", <<track>>)

Clearing == CancelAppending \/ AwaitAppending \/ ClearQueue \/ OpenPlaylist \/ PlayFrom

-----------------------------------------------------------------------------
(* The background workers.                                                 *)

\* The workers are alike: the first idle one takes the job.
TakeJob(w) ==
    /\ running[w] = Idle /\ \A v \in 1..(w - 1) : running[v] # Idle
    /\ jobs # << >>
    /\ running' = [running EXCEPT ![w] = Head(jobs)]
    /\ jobs' = Tail(jobs)
    /\ UNCHANGED <<lists, current, modes, flags, iterators, ui, inputs, updates>>

StepIs(w, step) == running[w].step = step
GoesTo(w, step) == running' = [running EXCEPT ![w].step = step]
Ends(w) == running' = [running EXCEPT ![w] = Idle]

\* append: is the queue empty?
CheckEmpty(w) ==
    /\ running[w].step \in {"check", "checkAll"}
    /\ running' = [running EXCEPT
          ![w] = Job(IF StepIs(w, "check") THEN "add" ELSE "addAll", @.items,
                     position >= Total)]
    /\ UNCHANGED <<lists, current, modes, flags, iterators, jobs, ui, inputs, updates>>

\* append: a single track.
AddTrack(w) ==
    LET found == Found(Head(running[w].items)) IN
    /\ StepIs(w, "add")
    /\ Fits(found)
    /\ main' = main \o found /\ opened' = opened
    /\ ready' = TRUE
    /\ UpdateShuffler(running[w].changes, FirstOf(found))
    /\ NotifyChanged(running[w].changes, "explicit")
    /\ Ends(w)
    /\ UNCHANGED <<repeat, loading, appending, cancel, iterators, jobs, ui, inputs>>

\* appendAsync: an iterator, behind the one being read or in a job of its own.
AddIterator(w) ==
    /\ StepIs(w, "addAll")
    /\ IF appending
       THEN /\ iterators' = Append(iterators, running[w].items)
            /\ UNCHANGED <<appending, cancel, jobs>>
       ELSE /\ appending' = TRUE /\ cancel' = FALSE
            /\ jobs' = Append(jobs, Job("start", running[w].items, running[w].changes))
            /\ UNCHANGED iterators
    /\ Ends(w)
    /\ UNCHANGED <<lists, current, modes, ready, loading, ui, inputs, updates>>

StartAppending(w) ==
    /\ StepIs(w, "start")
    /\ ready' = (ready /\ ~running[w].changes)
    /\ loading' = TRUE
    /\ GoesTo(w, "load")
    /\ UNCHANGED <<lists, current, modes, appending, cancel, iterators, jobs, ui,
                   inputs, updates>>

StopWithoutReset(w) ==
    /\ StepIs(w, "load") /\ cancel
    /\ Ends(w)
    /\ UNCHANGED <<lists, current, modes, flags, iterators, jobs, ui, inputs,
                   updates>>

StopAppending(w) ==
    /\ StepIs(w, "load") /\ cancel
    /\ appending' = FALSE
    /\ Ends(w)
    /\ UNCHANGED <<lists, current, modes, ready, loading, cancel, iterators, jobs,
                   ui, inputs, updates>>

LoadTrack(w) ==
    LET found == Found(Head(running[w].items)) IN
    /\ StepIs(w, "load") /\ ~cancel /\ running[w].items # << >>
    /\ Fits(found)
    /\ main' = main \o found
    /\ value' = FirstOf(found)
    /\ \E step \in {"load", "report"} :
          running' = [running EXCEPT ![w].items = Tail(@), ![w].step = step]
    /\ UNCHANGED <<opened, openedValue, position, modes, flags, iterators, jobs, ui,
                   inputs, updates>>

\* A periodic update, outside the lock.  An empty queue starts to play here.
ReportLoading(w) ==
    LET enough == IF shuffle.on THEN Len(main) >= ManyTracks ELSE Len(main) > 0
        starts == running[w].changes /\ enough
    IN
    /\ StepIs(w, "report")
    /\ UNCHANGED lists
    /\ updates' = updates \o <<Update(FALSE, "bulk")>>
                        \o (IF starts THEN <<Update(TRUE, "explicit")>> ELSE << >>)
    /\ ready' = (ready \/ starts)
    /\ IF starts \/ ~running[w].changes
       THEN UpdateShuffler(starts, value)
       ELSE Stay(value) /\ UNCHANGED shuffle
    /\ running' = [running EXCEPT ![w].step = "load", ![w].changes = @ /\ ~starts]
    /\ UNCHANGED <<repeat, loading, appending, cancel, iterators, jobs, ui, inputs>>

NextIterator(w) ==
    /\ StepIs(w, "load") /\ ~cancel /\ running[w].items = << >>
    /\ iterators # << >>
    /\ running' = [running EXCEPT ![w].items = Head(iterators)]
    /\ iterators' = Tail(iterators)
    /\ UNCHANGED <<lists, current, modes, flags, jobs, ui, inputs, updates>>

FinishAppending(w) ==
    /\ StepIs(w, "load") /\ ~cancel /\ running[w].items = << >>
    /\ iterators = << >>
    /\ UNCHANGED lists
    /\ UpdateShuffler(running[w].changes, value)
    /\ loading' = FALSE /\ ready' = TRUE /\ appending' = FALSE
    /\ NotifyChanged(running[w].changes, "explicit")
    /\ Ends(w)
    /\ UNCHANGED <<repeat, cancel, iterators, jobs, ui, inputs>>

AppendJob(w) ==
    \/ CheckEmpty(w) \/ AddTrack(w) \/ AddIterator(w) \/ StartAppending(w)
    \/ StopAppending(w) \/ LoadTrack(w) \/ ReportLoading(w) \/ NextIterator(w)
    \/ FinishAppending(w)

-----------------------------------------------------------------------------
(* Properties of the queue alone.                                          *)

\* "Remaining entries are then emitted in the exact order RandomIterator will use
\* for next()." (playbackOrder)
OrderIsNext ==
    [][UserNext /\ Len(PlaybackOrder) > 1 => position' = PlaybackOrder[2]]_queueVars

\* A job is at work, or waits for a worker, that resets appending_async_, as long
\* as clear() may wait for it; and there is never a second one.
AppendingSteps == {"start", "load", "report"}
AppendingHasJob ==
    LET queued == {i \in 1..Len(jobs) : jobs[i].step \in AppendingSteps}
        working == {w \in Workers : running[w].step \in AppendingSteps}
    IN  Cardinality(queued) + Cardinality(working) = IF appending THEN 1 ELSE 0

\* "Changing size will yield a different current position anyway, so reset pos to
\* ensure we yield a full sweep of both new and old indexes." (resize): from the
\* current track on, every track comes.
FullSweep ==
    [][shuffle.on /\ shuffle'.on /\ shuffle'.size # shuffle.size
          => Range(PlaybackOrder') = 0..(Total' - 1)]_queueVars
=============================================================================
