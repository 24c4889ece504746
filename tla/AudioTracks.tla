----------------------------- MODULE AudioTracks -----------------------------
(***************************************************************************)
(* Which track is played: the queue of tracks together with the audio       *)
(* state machine that hears of its changes (audio_fsm.cpp), the background   *)
(* jobs that open streams and advance the queue, and the decoder, of which   *)
(* only the track it is on is kept (SamplePipeline has the rest).            *)
(***************************************************************************)
EXTENDS TrackQueue

CONSTANTS
    MaxEndings      \* tracks that end, or cannot be opened or decoded, at most

ASSUME AudioAssumption == MaxEndings \in Nat

VARIABLES
    deck,           \* the track being decoded, or NoTrack
    endings,        \* tracks that did not go on (bound)
    halted,         \* history: playback came to an end, or a track was refused
    astray          \* history: one of the mishaps below has happened

audioVars == <<deck, endings, halted>>
vars == <<queueVars, audioVars, astray>>

AudioTypeOK ==
    /\ QueueTypeOK
    /\ deck \in Tracks \cup {NoTrack}
    /\ endings \in 0..MaxEndings
    /\ halted \in BOOLEAN /\ astray \in BOOLEAN

Init ==
    /\ QueueInit
    /\ deck = NoTrack /\ endings = 0
    /\ halted = FALSE /\ astray = FALSE

Quiet == /\ ui.step = "idle" /\ updates = << >> /\ jobs = << >>
         /\ \A w \in Workers : running[w] = Idle

-----------------------------------------------------------------------------
(* The audio state machine.                                                *)

Dispatch(step, track) == jobs' = Append(jobs, Job(step, <<track>>, FALSE))

\* react(SetTrack): nothing to play stops the decoder; a track is opened by a job.
SetTrack(track) ==
    IF track = NoTrack
    THEN deck' = NoTrack /\ halted' = TRUE /\ UNCHANGED jobs
    ELSE Dispatch("open", track) /\ UNCHANGED <<deck, halted>>

\* react(QueueUpdate): which updates are about the track, and what to play then.
\* The track is read now, not when the update was made.
IsOrderOnChange(update) == update.reason # "bulk" /\ update.changed
IsOrder(update) == \/ update.reason \in {"repeating", "finished"}
                   \/ update.reason = "explicit" /\ update.changed
Wanted(update) == IF update.reason = "finished" /\ ~update.changed
                  THEN NoTrack ELSE Current

ReactQueueUpdate ==
    /\ updates # << >> /\ Head(updates).reason # "decoded"
    /\ updates' = Tail(updates)
    /\ IF IsOrder(Head(updates)) THEN SetTrack(Wanted(Head(updates)))
       ELSE UNCHANGED <<deck, halted, jobs>>
    /\ UNCHANGED <<lists, current, modes, flags, iterators, running, ui, inputs,
                   endings>>

\* react(DecodingFinished)
ReactDecodingFinished ==
    /\ updates # << >> /\ Head(updates).reason = "decoded"
    /\ updates' = Tail(updates)
    /\ Dispatch("compare", Head(updates).track)
    /\ UNCHANGED <<lists, current, modes, flags, iterators, running, ui, inputs,
                   audioVars>>

\* The decoder comes to the end of the track (finishDecode(false)).
DecodingFinishes ==
    /\ deck # NoTrack /\ endings < MaxEndings
    /\ endings' = endings + 1
    /\ deck' = NoTrack
    /\ updates' = Append(updates, [Update(FALSE, "decoded") EXCEPT !.track = deck])
    /\ UNCHANGED <<lists, current, modes, flags, iterators, pool, ui, inputs,
                   halted>>

-----------------------------------------------------------------------------
(* The background jobs.                                                    *)

\* SetTrack's job gives the decoder a stream.  A decoder that cannot start on it
\* says so (DecodingFailedToStart), but nobody listens.
OpenStream(w) ==
    /\ StepIs(w, "open")
    /\ \/ deck' = running[w].items[1] /\ halted' = FALSE /\ UNCHANGED endings
       \/ deck' = NoTrack /\ halted' = TRUE
          /\ endings < MaxEndings /\ endings' = endings + 1
    /\ Ends(w)
    /\ UNCHANGED <<lists, current, modes, flags, iterators, jobs, ui, inputs, updates>>

\* ... or nothing, if the file cannot be opened.
OpenFails(w) ==
    /\ StepIs(w, "open")
    /\ endings < MaxEndings /\ endings' = endings + 1
    /\ deck' = NoTrack
    /\ GoesTo(w, "compare")
    /\ UNCHANGED <<lists, current, modes, flags, iterators, jobs, ui, inputs, updates,
                   halted>>

\* Is the track that ended, or that failed to open, the current one?
CompareCurrent(w) ==
    /\ StepIs(w, "compare")
    /\ IF running[w].items[1] = Current THEN GoesTo(w, "finish") ELSE Ends(w)
    /\ UNCHANGED <<lists, current, modes, flags, iterators, jobs, ui, inputs, updates,
                   audioVars>>

\* Then the queue advances.
FinishCurrent(w) ==
    /\ StepIs(w, "finish")
    /\ FinishTrack
    /\ Ends(w)
    /\ UNCHANGED <<repeat, flags, iterators, jobs, ui, inputs, audioVars>>

AudioJob(w) == OpenStream(w) \/ OpenFails(w) \/ CompareCurrent(w) \/ FinishCurrent(w)

-----------------------------------------------------------------------------
(* How player and queue can get out of step.                              *)

Opening == \/ \E i \in 1..Len(jobs) : jobs[i].step = "open"
           \/ \E w \in Workers : running[w].step = "open"

\* An order to play or to stop is given while a stream is still being opened:
\* the jobs may come to the decoder in the other order, or after the stop.
OrdersOverlap == Opening /\ IsOrder(Head(updates))

\* The queue moves on from a track that is no longer the current one.
FinishesAnother(w) == StepIs(w, "finish") /\ running[w].items[1] # Current

\* Tracks are added to a queue that was emptied, or filled, since it was looked at.
EmptinessStale(w) ==
    /\ running[w].step \in {"add", "addAll", "start"}
    /\ running[w].changes # (position >= Total)

\* The queue moved on between its clearing and the opening of a playlist.
OpensElsewhere == ui.step = "then" /\ ui.then = "open" /\ position # 0

\* The last step of a shuffle brings back its track, if another one was chosen
\* since, and says that nothing changed.
MovesSilently ==
    /\ ui.step = "idle" /\ updates' # updates
    /\ ~Last(updates').changed /\ position' # position

UserStep ==
    /\ User
    /\ astray' = (astray \/ MovesSilently)
    /\ UNCHANGED audioVars

ClearingStep ==
    /\ Clearing
    /\ astray' = (astray \/ OpensElsewhere)
    /\ UNCHANGED audioVars

WorkerStep(w) ==
    /\ \/ (TakeJob(w) \/ AppendJob(w)) /\ UNCHANGED audioVars
       \/ AudioJob(w)
    /\ astray' = (astray \/ FinishesAnother(w) \/ EmptinessStale(w))

AudioStep ==
    \/ ReactQueueUpdate /\ astray' = (astray \/ OrdersOverlap)
    \/ (ReactDecodingFinished \/ DecodingFinishes) /\ UNCHANGED astray

Next ==
    \/ UserStep \/ ClearingStep \/ AudioStep
    \/ \E w \in Workers : WorkerStep(w)

Spec == Init /\ [][Next]_vars

-----------------------------------------------------------------------------
\* Until one of the five mishaps above has happened, after which nothing is said:
\* what plays is the queue's current track, unless playback came to an end or the
\* decoder refused the track.
PlaysCurrent ==
    Quiet /\ ~astray => deck = Current \/ (deck = NoTrack /\ halted)

\* Until one of the five mishaps has happened, after which nothing is said: the
\* queue's current track is the one at its position.  The two are kept apart, and
\* every operation that moves or changes a list has to keep them together.
CurrentIsAtPosition ==
    position < Total /\ ~astray =>
        IF position < Len(opened) THEN openedValue = opened[position + 1]
        ELSE value = main[position - Len(opened) + 1]
=============================================================================
