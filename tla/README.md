# A formal model of the Tangara Jellyfin player

Tangara is a portable music player (ESP32 firmware in `src/`, applications in
Lua in `lua/`). This fork synchronises it with a Jellyfin media server through
a companion service (`server/tangara-sync/`). The specifications here model
that synchronisation (what happens to edits made offline, to the files that
store them, to the albums asked for, to the files on the card and their inventory,
and to the two network transports that everything shares) and the player itself: the queue of tracks, and the way of their samples to the output.
TLC checks them on small instances, TLAPS proves the main ones for every instance.

## Inventory

The parts of the system, the state each keeps and what can go wrong with it.
`PROJECT.json` lists the same parts with their files, and under `hazards` every
hard place with its line.

| Part | State | Operations | Talks to | Hard because | Correct when |
|---|---|---|---|---|---|
| Edit queue (`sync_operation_queue`) | queue file: operations, next number, failure of the head, aliases of playlists made offline | enqueue, batch, apply_results, mark_failure | file system, library view | repeated answers, restarts, full queue | no acknowledged edit is lost, numbers are never reused |
| Its storage (`save_state`, `load_state`) | three files on a FAT card | write, rename, remove, recover | card | power cuts and failures between file operations | the last acknowledged state survives |
| Upload (`sync_operation_flush`) | active batch | start, poll | HTTP slot, queue | timeouts overlap with late answers | only what the server applied leaves the queue |
| Edits on the server (`library_sync.py`) | replay table, aliases (SQLite) | one locked loop per request | Jellyfin | crash between effect and record, concurrent requests | in order, replays harmless |
| Runtime (`sync_runtime`) | timers, refresh generations, flags of the operation on show | a 500 ms poll with a fixed order of branches, completions of each kind of work | all that follow | starvation, forgotten flags, interleaving with screens | comes to rest, what is asked for happens |
| HTTP slot (`sync_client`, `lua_http.cpp`) | busy, result, owner | start, poll | seven users | one slot, polled by several timers | every answer reaches who asked |
| Download slot (`sync_download`, `lua_download.cpp`) | busy, result | start, poll | apply, library covers, artwork cache | no owner is kept | every session gets its own result |
| Screens (`jellyfin_sync_ui`, `jellyfin_settings`) | the mounted screen, its timer | show, hide, poll | catalog, link, artwork cache | left with a request in flight | never block the runtime |
| Managed files (`sync_reconcile`, `sync_managed_paths`, `sync_manifest*`) | inventory of files, cached manifest, plan | plan, promote, remove | card, server | crash between file and inventory or in a save, local removal while loading | a save leaves the old inventory or the new one, no loaded file is forgotten, everything listed gets on the card |
| Album downloads (`sync_download_state`) | FIFO of attempts, the one whose POST is in flight, remote shadows, records per album | request, dispatch, resolve, complete, fail, reconcile with the card and with the companion's list | runtime, screens, card, companion | answers and lists about replaced attempts, restarts, several calls of the owner in one callback | every request has one owner, nothing accepted is posted again, no album stays queued |
| Linking (`device_links.py`, `sync_link`) | Quick Connect session, token | start, status, force | Jellyfin | expiry, replacement | a device is linked to what the user approved last |
| Preferences and requests (`app.py`, `sync_preferences.py`) | selections, durable requests | PUT, POST, reports | device | idempotency keys, partial reports | a request ends when its files are reported |
| Playback queue (`track_queue.cpp`, `playlist.cpp`, `lua_queue.cpp`) | two lists of tracks with the current track of each, position, shuffle, repeat, atomic flags of loading | add, add many, clear, open, play from, next, previous, go to, shuffle, repeat, finish | user's task, background workers, audio FSM | additions run in workers between the user's commands; `clear` waits for one | position and current track agree, the next track is the announced one |
| Audio state machine (`audio_fsm.cpp`) | standby or playback, pause, cues, events | reactions to queue updates, streams, heartbeat, play/pause | queue, workers, decoder, processor | reacts to events with state that has moved on | what plays is the queue's current track |
| Samples (`audio_decoder.cpp`, `processor.cpp`, `pcm_buffer.cpp`, `stream_cues.cpp`) | decoder with leftover samples, command queue, stream buffer, work buffers, PCM buffer, two wrapping counters | open, decode, announce, cancel, process, send, receive | four tasks of different priority | a skip with samples and commands everywhere, full buffers | gapless, in order, nothing of a skipped track heard, the track on show is the one heard |
| Database (`src/tangara/database`) | LevelDB records and indexes | index run, queries | card | crash in an index run | indexes agree with tracks |
| System, drivers, UI, input, codecs, tools | hardware state, widgets | | | | not modelled |

The synchronisation on the device is single threaded: all Lua timers and
callbacks run in one thread, so a timer's call is one step of the model. The
native transfers, the server's worker threads, other Jellyfin clients, the
user, and power go on between any two steps. The player is not: the user's task,
four background workers, the audio state machine, the decoder, the sample
processor and the output's interrupt share it, and a step of its models is what
runs between two places where another of them can get in.

## Modules

| Module | Role |
|---|---|
| `EditLog` | abstract specification: edits are numbered, applied in that order without gaps, and forgotten only after they are applied |
| `OperationSync` | queue, upload, server and Jellyfin together, shown to implement `EditLog` |
| `OperationSync_proofs` | its inductive invariant and theorems |
| `QueueStore` | the three-file storage of the queue, one file operation per step |
| `AlbumDownloads` | the albums asked for: the owner of their state, its POSTs and lists, apply sessions and the companion's requests |
| `AlbumDownloads_proofs` | what each function of the owner keeps, the inductive invariant and its theorems |
| `ManagedFiles` | what is missing on the card, its loading, the inventory of managed files, removals and power cuts |
| `ManagedFiles_proofs` | its inductive invariant and theorems |
| `SyncRuntime` | the runtime's poll, the users of both slots and the screens |
| `SyncRuntime_proofs` | its inductive invariant and theorems |
| `QueueStore_proofs` | the inductive invariant of the storage and its theorems |
| `TrackQueue` | the playback queue with the user's commands and the workers' additions |
| `AudioTracks` | `TrackQueue` composed with the state machine, the jobs that open and finish tracks, and the decoder's track |
| `AudioTracks_proofs` | the jobs that load tracks, the flag `clear` waits for, the track at the position, that it is the one that plays, and the order that is shown |
| `SamplePipeline` | samples from the decoder to the output, and what the screen says is heard |
| `SamplePipeline_proofs` | its types, lemmas on what each action does to the buffers, and that what is played is gapless |
| `SampleAccounts_proofs` | that the commands on their way account for the units in the stream buffer, and what follows for the resampler |
| `MCOperationSync`, `MCQueueStore`, `MCSyncRuntime`, `MCAlbumDownloads`, `MCManagedFiles`, `MCAudioTracks`, `MCSamplePipeline` | instances for TLC |

### OperationSync

*Device.* `queue`, `nextSequence`, `failure` and `aliases` are the fields of the
queue file, which is one atomic cell here. `batch` is `active_batch`; `http`,
`request` and `response` are the HTTP slot with the request it waits for. One
action per operation: `Enqueue` (with the edits the library view offers:
`Offered`), `StartFlush` (`batch`, then the POST), `PollAnswer` and
`PollUnsaved` (`sync_operation_flush.poll`, the second with the failing save of
`apply_results`), `Expire` (the transport's timeout), `GiveUp` (a refused or
broken connection), `Reboot`.

*Server.* The requests in flight are in `inbox`; the one that holds
`operation_lock` is `running`, its loop is at `position`, and `stage` says where
`apply_operation` is. Every statement that commits to the database or calls
Jellyfin is an action of its own: `Replay`, `Prepare`, `Call` and its failures
(`CallUnconfirmed`: changed but the confirmation was lost; `CallFails`,
`CallMissing`, `CallRejected`), `SaveAlias`, `SaveApplied`, `SaveFailed`,
`Respond`. `ServerCrash` and `LoseRequest` may come between any two.

*Jellyfin* is external: the playlists that exist (`live`), how often each edit
changed something (`effects`).

An operation's id is its sequence number, as the client id of a queue file is
fixed. The kinds are the seven handlers of the server, which differ in what a
missing playlist means to them: `delete_playlist` and `remove_playlist_item`
accept the 404, `set_favorite` asks for no playlist, the others fail and may be
retried. Only a move may be refused for good (`playlist_entry_not_found`) besides
"bad", an edit whose name the server rejects. Entries and items are not
modelled: a removal or a move may find nothing to change, a move may be refused,
and the items that edits name exist.

### QueueStore

`path`, `temporary` and `backup` hold the number of the save whose state they
contain, or `Absent`, or `Torn`. `step` is the next file operation of
`save_state`. `Update` is any caller that loads, changes and stores;
`Recover` is `load_state` falling back on another file. Each file operation may
fail, `FlushFails` being a failure the code does not look at, and `PowerCut` may
happen between any two. Renaming onto an existing file fails, as on FAT. A file
that cannot be opened for reading is taken for one that is not there: a load
(`Loaded`) is made with a set of files it does not see, which counts as one
failure, and so may end in the backup or in an empty queue; `BackUpBlind` is the
same failure in `save_state`. `misread` notes that a save followed a load which
passed over a stored state.

### ManagedFiles

The card is `files` (paths with a complete file), `current` and `backup` (the two
files of the inventory) and `cached` (the manifest). `Stored` is what a load
finds. A save is one action per file operation, `DropBackup`, `MoveCurrent`,
`Promote` and `Saved`, with `SaveFails` at each; `lua` says which is next and what
the save is for. A file that cannot be opened is taken for one that does not
exist, everywhere in this code (`file_exists`, `default_file_exists`,
`file_size`). So a load may find the backup or nothing at all, and the save after
it overwrites the rest (`lua.blind`); a file on the card may be planned as missing
(`unopened`); and a removal may pass over a file and drop it from the inventory
all the same (`RemoveMissesFile`, `lua.missed`). Each of these counts as a fault
and happens in the run. The properties name them as the exceptions they are, since
the code has nothing against them: that such a file is forgotten by the inventory
or planned again is what the code does.

`plan` is `active_plan.actions`: `Missing(manifest)` when it was made, and at most one
path that could not be opened then.
`session` is the set of actions left with the current one, media first; `download`
is the native transfer, or its result until `PollLoaded` or `PollFailed` takes it.
`Finish` is `finish`, `finish_apply` and `update_plan` in one, as in the code;
`Refresh` is an answer of the server, with the plan and the start of a session.
`Remove` to `RemovedAll` are the clean-ups of the storage screen, one
`os.remove` per step. `PowerCut` is a restart with the cached manifest, whose plan
is not authoritative and so is not carried out. Downloads have the slot for
themselves here; that they do not in the code is the finding of
*sync_runtime_stolen*.

### SyncRuntime

`RuntimePoll` is one tick of `poll` in `lua/sync_runtime.lua`: the conditions
`PastCatalog`, `PastCache`, ... say that the branches before were not taken, so
exactly one branch is enabled at a time, in the order of the code.
Each `Runtime...` action is the branch with everything the call does, down to
the component's own poll; each `Start...` action is one of the starts at the
end. `SyncScreenPoll` and `SettingsPoll` are the timers of the two screens that
touch the slots. `HttpDone` and `DownloadDone` are the native tasks.

Times are replaced by the set `due` of timers that have elapsed: setting a time
to zero or to now adds a timer, setting it to a later time removes it, `Expire`
lets one elapse. The generation counters of the refresh become `refresh` ("none",
"wanted", "asked", "askedAgain"). Sessions are the number of jobs they have left.
The album download is its head, whose end is any moment the code may find.
What the favourites and playlists list is `selection`, a signature: it may change
with the library of the server, the user's edits, and their upload
(`LibraryMayChange`, as `sync_library_view.current` lays the queue over the cache).
The bootstrap is due for each selection that is not in `completed`, so the loop
bootstrap, refresh, apply, library starts over when the library lists something
new. It ends, and `Settles` holds, as a signature is completed once in a run of the
device and the run's selections are finitely many. What an album download or
the status bar does with `initial_sync_active` is not modelled.
Wi-Fi is connected: losing it shows as requests that fail.

### AlbumDownloads

`operations`, `inflight` and `shadows` are the variables of
`sync_download_state.lua` of that name (`dispatch_inflight`,
`remote_attempt_shadows`); of the records per album the model keeps which say
"downloaded" (`downloaded`) and which have a failure (`failed`), as the rest
follows (`Shown`, which is `reconcile_one`). `optimistic` is the part of the
runtime's `optimistic_items` that counts as queued. `exchange` is the POST or the
list the catalog is waiting for, with the answer once it has come; `session` is
`sync_apply` with the attempts its albums were bound to; `files` says how much
of each album is on the card.

The functions of the owner call each other, and a callback of the runtime calls
several one after another, so each is an operator from an owner's state to the
next (`Dispatch`, `Complete`, `Fail`, `Reconcile`, `Adopt`, `Sort`), and an
action composes them as the callback does: `FinishPost` is the callback of
`dispatch_download`, `AnswerList` is `finish_durable_requests` from the first
reconciliation with the card to the clearing of optimistic items, `EndApply`
is `finish_apply`. `starts` says whether the transport took the request: if not,
the attempt is dropped and the next is tried, in the same call.

A request is known by its place in `requests`, an attempt made on the device by
a larger number; an attempt adopted from the list after a restart has the
request's name. The companion is external, as the repository holds only the
device's side of these endpoints: it may refuse a POST, make a request, or answer with
one it has for the album, with or without its name, and it ends requests as it
likes. The manifest's items are albums if the server says so (`Named`); the
one in the repository leaves `kind` out (`manifest_item` in `app.py`), so
apply sessions do not find the attempts of the albums they load (`Binding`,
`ApplyKeys`), and an attempt ends by the list or the card. With `Named` an
attempt that is being loaded moves ahead of accepted ones, and `OneAtATime`
would not hold.

### TrackQueue and AudioTracks

`main` and `opened` are the contents of `playlist_` and `opened_playlist_`, whose
`current_value_` are `value` and `openedValue`: `goTo` moves the second pair to
follow the first, and a position past the end leaves them (`GoTo`). `position`
is a `size_t` and wraps. `shuffle` holds the fields of `RandomIterator`;
`MillerShuffle` is a constant, assumed only to give an index. The atomic flags
are variables, and every test of one of them is a step of its own.

The user's commands run on the user's task: `UserNext`, `UserPrevious`,
`UserPosition`, `UserRandom`, `UserRepeat` are sections under the mutex; `clear`
is three steps (`CancelAppending`, `AwaitAppending`, `ClearQueue`), followed by
`OpenPlaylist` or `PlayFrom` for the Lua calls that begin with it. Additions are
jobs of the background pool: `append` looks whether the queue is empty in one
section (`CheckEmpty`) and adds in another (`AddTrack`, `AddIterator`); a long
addition goes track by track (`StartAppending`, `LoadTrack`, `ReportLoading`,
`NextIterator`, `FinishAppending`, `StopAppending`). The report made every ten to
twenty tracks may come after any of them.

`AudioTracks` adds the audio state machine: `ReactQueueUpdate` is
`react(QueueUpdate)` with the `react(SetTrack)` it dispatches at once,
`OpenStream` and `OpenFails` the job that opens a stream, `CompareCurrent` and
`FinishCurrent` the two steps in which a job finishes the current track if it is
the one that ended or that cannot be opened. Of the decoder only `deck`, the track
it is on, is kept. `updates` is the queue of events, which the code does not bound.

`astray` is history: it records that one of five races has happened after
which queue and player rightly differ, because the code has nothing against them.
`OrdersOverlap`: an order to play or stop comes while a worker still opens an
earlier stream. `FinishesAnother`: the user moved on between comparison and finish.
`EmptinessStale`: the queue was emptied or filled between the two sections of
`append`. `OpensElsewhere`: a worker moved the position between `clear` and
`openPlaylist`. `MovesSilently`: `next` at the end of a shuffle goes back to the
shuffle's track without saying so. Each of them is a state of the code, not an
assumption about it. `PlaysCurrent` and `CurrentIsAtPosition` say that there is no
sixth, and no more: from the first of the five on they say nothing, so neither
would notice if one of the five did worse than it does.

### SamplePipeline

Streams are numbered as they are opened; a unit of samples is a stream and a
number in it, so that what is in the buffers tells what was lost or mixed up.
`commands`, `pending`, `source`, `unprocessed`, `output` and `sink` are the
variables of the code of that name; `input_buffer_` and `resampled_buffer_` are
`work`. A unit is a frame of its stream, and its conversion is not modelled, only
what the resampler is set up for: `formats` has the rate, channels and length of
each stream, and `resampler` the rate and channels of `resampler_`, which the code
keeps for a stream of the same rate whatever its channels (`ResamplerFor`). Behind
a stereo stream a mono one of the same rate is then taken two units at a time
(`Frame`), and nothing is taken of a single one: `processSamples` goes round for
ever, which is a `ProcessSamples` that changes nothing. The decoder is `TakeStream` to
`EndDecode`, one action per place where it may wait on a queue or buffer
(`dstep`); the processor is one action per branch of its loop (`pstep`);
`Receive` is the interrupt. `cues` has the fields of `StreamCues`, `sent` and
`received` are what the counters count, taken modulo `Modulus` (2^32 in the code)
wherever the code compares them. `playing` is the state machine's state, and
`LeavePlayback` its way to standby when the headphones, the Bluetooth device or the
card are gone (`silenced`).

## Runs

| Run | What it asks | Result |
|---|---|---|
| `operation_sync` | Are edits ordered, complete, replayed harmlessly; do the aliases of both sides agree; is `EditLog` implemented? | holds |
| `operation_sync_deletes` | With playlists deleted by others and operations that answer that differently: is a rename, addition or move of a deleted playlist stuck? Is the queue otherwise uploaded to its end or up to a rejected edit? | holds: it is stuck for ever and, but for a move refused before, unreported; removals, favourites and deletions go on |
| `queue_store` | What survives power cuts and failing file operations | holds, see below |
| `album_downloads` | Has every request one owner through retries, late answers, lists and restarts; is nothing accepted posted again, nothing posted while the companion is known to be at another; does no album stay queued? | holds |
| `managed_files` | Is the inventory whole through power cuts and failures; is a loaded file ever forgotten; is anything loaded where a file is; does everything listed get on the card? | holds; a file that cannot be opened is the exception to each |
| `sync_runtime` | Slots against sessions and flags; rest and refreshes, with fairness | holds |
| `sync_runtime_screens` | With both screens: is an answer asked for by a screen ever taken by the runtime? | holds |
| `sync_runtime_stolen` | Does a download's result reach the session that waits for it? | violated by the artwork cache |
| `sync_runtime_abandoned` | Is the answer to a screen always consumed? | violated when the screen is left |
| `sample_pipeline` | Do the accounts of samples agree; is playback gapless and converted as what it is; is what is shown heard; does what is buffered get heard? | holds |
| `audio_tracks` | Does what plays follow the queue, but for the five races; do position and current track agree; does `clear` wait for a job that answers; is the announced order the played one? | holds |
| `track_queue_sweep` | Does a shuffle that grows still play every track? | violated: one is skipped |

Each violated run is a finding in `PROJECT.json`, with the line of the
repository it contradicts.

### Bounds

*operation_sync*: three edits, a queue and batches of two, two requests, two
faults. Two requests are needed for a late request to overlap its repetition;
with three edits one arrives while the other two are under way and the queue is
full once; two faults allow a crash in the handling of a repetition that a
first fault caused. Playlists are created, added to, re-ordered and deleted, and
edits rejected; the other kinds are in *operation_sync_deletes*, where a rename
stands for the addition, which the server handles alike, and a move for what is
rejected. Two edits are enough there: one behind another. The two
request slots are interchangeable (symmetry), except in that run, which has
liveness properties.

That a crash between Jellyfin's effect and its record repeats a creation or an
addition is part of the model: `RepeatsOnlyUnrecorded` says that nothing else
does, although `server/README.md` calls the edits idempotent.

*queue_store*: four saves and three cuts let a cut hit a save, its recovery and
the recovery's recovery, with an update before and after; two errors are one more
than `NeverStale` tolerates. `CutLosesNothing` speaks of at most two
cuts and no errors because the code does no better: recovery drops the backup
(`sync_operation_queue.lua:327`) before the copy it restored is in place, so a
cut there, and another while the next recovery has reopened that copy for
writing, lose the last one; and so can a cut and a failing rename. `NeverStale`
exempts one kind of failure: after a load that could not open the newest file
(`read_file`, `sync_operation_queue.lua:126`), the next save is made from the
backup or from an empty queue and replaces the edits that file held. That is what
the code does; no cut or second failure is needed. `RefusedMeansUnchanged` holds
even then.

*sync_runtime*: one media file, one artwork file, two pages, two covers, two
failures, two elapsed intervals, one input and two selections of tracks that the
favourites and playlists may list, or none: a session has a first, a next
and a last job, each retry interval may elapse after a failure, and the bootstrap
may be done for one selection and due for another. The screens
are closed: they share the download slot without a guard, which
*sync_runtime_stolen* shows. *sync_runtime_screens* opens them with three
inputs (enter, ask, leave or ask again), smaller sessions and no liveness. The
server lacks the artwork it lists there. With that, and with all the time it
wants, the runtime does not rest: each successful apply makes the next one due at
once (`finish_apply`) and finds the same file missing, which is why `Settles` is
checked where the server has what it lists.

*album_downloads*: two albums, two attempts, two requests (one may be there
from before), one session and one fault, which is a request given up, an album
removed or a restart. A retry of an album while its first request is alive takes
two attempts and two requests; a promotion takes two albums; a late answer
takes one request given up. What two faults could do in sequence is not searched.

*audio_tracks*: two tracks, a playlist file with both, additions of one track and
of an iterator whose first track is gone from the database; three inputs, two
endings or failures, two workers of the four, as no property needs three jobs
at once. Three inputs let a queue be opened, added to and changed while workers
add to it. `MaxTracks` bounds the queue as a whole (`Fits`, a guard of every action
that adds), and is assumed to be so far below `SizeModulus`, 2^32 in the code, that no
position a user can reach wraps into the list. `ManyTracks` is 2 instead of 100 and the shuffle repeats itself after two
cycles. A larger instance (four inputs) was searched to ten million states.

*sample_pipeline*: two streams (a skip with both in flight, and one track after
another), one stop, one press of pause. Of the two playlists one has both streams
of one rate, stereo before mono, so that the resampler is kept and the two units of
the mono stream may be announced together, as one frame, or one by one; the other
brings a stream of the output's rate, with no resampler, behind a longer one of
another. Every buffer holds two units: a third waits in the one before. `commands_`
has its length of the code, 2, and the counters wrap at 3, which the longer
playlist passes. `ShownIsHeard` and `EverythingHeard` are stated up to the wrap:
after it, a cue that was handled late waits for the next lap
(`stream_cues.cpp:28`), which takes twelve hours of sound.

*managed_files*: two media and one artwork (so that a session has an order, a
next action and a failure that ends it or does not), one change of the manifest,
one removal of any files, and two faults: one may cut or fail a save or leave a
backup behind, and the other hit the recovery from it, or leave a file unopened. Any
of the media may be on the card at first.

Deadlock checking is off but in *managed_files*, where the timer refreshes for
ever: with the bounded inputs, faults and intervals used up, the other systems
rightly stop.

### Fairness

`OperationSync`: the runtime's timer starts and polls uploads
(`lua/sync_runtime.lua` polls for ever), the native client has a timeout
(`lua_http.cpp`), a server that is up works on what it has. Nothing is assumed
of users, faults or crashes. `SyncRuntime`: the native transfers end (both have
timeouts), the runtime's timer goes on, and so does the timer of a screen that
is shown; weak fairness of `RuntimePoll` as a whole, not of its branches, as the
code tries them in a fixed order. `AlbumDownloads`: a free exchange is used
for a list in the end (`ListWanted`: the list is due at intervals), the
companion or the timeout answers (`AnswersCome`), the poll takes the answer
(`AnswersTaken`), requests and sessions end (`RequestsEnd`, `SessionsEnd`), and
the head of the queue is tried between two exchanges (`Pumped`). They are written
out as what the steps bring about again and again, as TLC would otherwise evaluate
whole handlers to decide whether a step is one of theirs. In both, the user, elapsing intervals and failures are
free, and finite by their bounds. `SamplePipeline`: the output's
interrupt asks for samples as long as playback is not suspended, and the state
machine handles its events; one weak fairness condition for each. Nothing is asked
of the decoder, the processor and the heartbeat: that what has reached the PCM
buffer is heard does not depend on them. Nobody has to open streams or press
buttons. `ManagedFiles`: Lua goes on with what it is in the middle of, the timer
polls the session and refreshes at intervals, and a download ends, as it has a
timeout; changes, removals, faults and power cuts are free, and finite by their bounds.
`AudioTracks` has no liveness properties, hence no fairness.

## Proofs

`OperationSync_proofs` proves, for all values of the constants (any queue and
batch limit, any number of edits, faults and requests, any kinds):

| Theorem | Statement |
|---|---|
| `TypeCorrect` | `Spec => []TypeOK` |
| `ServerKeepsOrder` | `Spec => []ServerInOrder` |
| `NothingDropped` | `Spec => []NoEditDropped` |
| `ReplayHarmless` | `Spec => AppliedIsFinal` |
| `RepeatsHarmless` | `Spec => []RepeatsOnlyUnrecorded` |
| `EditsFindTheirPlaylist` | `Spec => []EditFindsItsPlaylist` |
| `AliasesAlwaysAgree` | `Spec => []AliasesAgree` |
| `StuckForEver` | `Spec => StuckBehindMissing` |
| `Implements` | `Spec => ImplementsEditLog` |

The only assumption is `QueueAssumption`, the types of the constants. The
argument is the inductive invariant `IInv` (theorem `InductiveInvariant`).
`ServerInOrder` is not inductive: a late request could start an edit whose
predecessor is missing, unless one knows that
every request alive is a stretch of the user's edits that begins no later than
the device's oldest edit (`InboxIsStretch`), that the queue is the end of these
edits (`QueueIsTail`), that what left the queue is on record (`RemovedApplied`),
that "applied" in an answer is the truth, now and when it arrives late
(`AnswersTrue`, which needs that a record never leaves "applied"), and that the
holder of the lock has every earlier edit of its request on record
(`WorkerSound`). Each conjunct has a lemma with one step per
action that touches it. `NothingDropped` follows from `RemovedApplied` and
`QueueIsTail`. `RepeatsHarmless` needs one invariant more, `Tallied`: an edit that
was recorded every time has changed Jellyfin at most once, and is then on record or
between the call and its record, which only its own request can leave.

The two theorems on aliases need to follow a playlist from its creation to its
deletion, through two databases and the answers between them (`Addressed`): an edit
names an earlier creation that no earlier edit deletes (`WellReferenced`); what the
server recorded of a creation is what its alias says, and the playlist exists, as long
as the deletion has no row yet (`Resolved`); between Jellyfin's answer and the record
the new playlist is in the worker's hands (`InHand`); an answer, made or under way,
names the playlist on record (`Original`); and an alias of the device is that playlist,
of an edit that left the queue and whose deletion has not (`LocalAliases`). An edit
being carried out then finds its alias: were the deletion begun, the order of the
server would have the edit applied before. And where the sides differ the server has
begun a deletion which the device still has in its queue. `StuckForEver` needs to know that
only a "bad" edit or a move is answered as final (`OnlyRejectable`, through
worker, answers and queue file), and that the operation at hand is the head whenever
the head's record is "failed" (`MissingIsNotCalled`): so no call is possible, and no
answer moves the queue. For
`Implements`, `ForgottenIsPrefix` identifies what the
device forgot with the edits before its oldest one, and `StepImplements` maps
every step to `Make`, `Apply`, `Forget` or a stutter.

`SyncRuntime_proofs` proves, for all values of the constants (any number of
files, pages, covers, inputs and faults, either screen, artwork the server has
or lacks):

| Theorem | Statement |
|---|---|
| `RuntimeTypeCorrect` | `Spec => []TypeOK` |
| `AnswersHeard` | `Spec => []AnswerHasListener` |
| `FinalizationEndable` | `Spec => []FinalizationCanEnd` |
| `ScreensAnswered` | `Spec => ScreenKeepsAnswer` |

The only assumption is `RuntimeAssumption`, the types of the constants. The
invariant is `TypeOK`, the two properties and `Bounded`, which `TypeOK` needs:
an apply session has no more actions than files are lacking (otherwise storing a
file would make the number lacking negative), a flush has no more edits than the
queue, and what is queued and what the user may still ask for stay within
`MaxInputs` together. `TypeOK` is proved in three parts (`Flags`, `Names`,
`Numbers`), each inductive; `Listeners` spells `AnswerHasListener` out owner by
owner. Each part has a lemma `...Step` with one step per action.
`ScreensAnswered` needs no invariant: it follows from the guards of the runtime's
branches. `DownloadHasListener` has no theorem, for it is false once the Sync
screen is shown.

`QueueStore_proofs` proves, for any number of saves, power cuts and errors:

| Theorem | Statement |
|---|---|
| `StoreTypeCorrect` | `Spec => []TypeOK` |
| `CutsLoseNothing` | `Spec => []CutLosesNothing` |
| `NothingStale` | `Spec => []NeverStale` |
| `RefusalsChangeNothing` | `Spec => []RefusedMeansUnchanged` |

The only assumption is the type of the bounds. The invariant (`StoreInvariant`) numbers
the saves (`Numbered`: no file holds a save that was not made), places them by
the step the save has come to (`Placed`), says which of them are new enough
(`Fresh`), how many copies there still are for the cuts suffered so far (`Safe`),
and what a refusal leaves (`Unchanged`); a lemma `...Step` for each has one step per
file operation, with its failure.

`ManagedFiles_proofs` proves, for any files, changes, removals and faults:

| Theorem | Statement |
|---|---|
| `FilesTypeCorrect` | `Spec => []TypeOK` |
| `PlacesFree` | `Spec => []FreePlace` |
| `InventoryNeverTorn` | `Spec => InventoryAtomic` |
| `LoadedFilesKept` | `Spec => NoneForgotten` |

The only assumption is `FilesAssumption`: no path is both a medium and an artwork,
and nil is neither a path nor a set of them. The invariant (`FilesInvariant`) says
where the two files of the inventory are at each step of a save, and that the list
being saved is the stored one with the change it is for (`Placed`); who waits for
whom between session, download and save (`Turns`); that what is planned or
left in a session has no file, except the one in hand and one that could not be
opened when the plan was made (`Planned`, of which
`FreePlace` is a consequence: alone it is not inductive, as a session starts from
a plan made earlier); and that what the user removed is gone, could not be opened, or has been
loaded again and is in hand (`Removed`, without which a removal could drop a file
loaded meanwhile from the inventory). There is one lemma per action.

`AudioTracks_proofs` proves, for any tracks, any number of workers and any
length of the queues:

| Theorem | Statement |
|---|---|
| `ClearIsAnswered` | `Spec => []AppendingHasJob` |
| `AudioTypes` | `Spec => []AudioTypeOK` |
| `AlwaysAtPosition` | `Spec => []CurrentIsAtPosition`, until one of the five races |
| `AlwaysPlaysCurrent` | `Spec => []PlaysCurrent`, until one of the five races |
| `NextIsShown` | `Spec => OrderIsNext` |

For the first the invariant `PoolInv` is stronger: of the jobs waiting and those a
worker has in hand, exactly one loads tracks while `appending_async_` is set, and none
otherwise (`OneAppender`). Without "exactly one", the end of one such job could reset
the flag while another goes on. One lemma says what each way of changing the jobs does
to it (queued, taken, going on, ended, started, untouched), one per group of actions
applies them.

The position is the harder part, since it is a `size_t`: `Placed` says that it is in
the list, or 0 in an empty one, or so far behind the end as only `previous` in an
empty, repeating queue can bring it, which steps below 0 once per input
(`position + inputs >= SizeModulus`); and that the current track of the right one of
the two lists is the one there. A shuffle must not lead out of the list, so its
size, too, is at most that of the queue (`Listed`), which one knows only because
`Rebuild` of the iterator follows every change; an addition between the two is what
`ShufflerInPlace` is about. `Placed` holds until a race that the model names has
happened (`astray`); `Listed` and the types always.

`NextIsShown` needs `Listed` only: whoever sees at least two entries of the order is
before the end of the cycle or of the list, so that neither the wrapping
subtraction of `ShuffleGoesOn` nor that of the next position wraps there.

`PlaysCurrent` speaks of moments without an order, a job or a change under way, and
is far from inductive. The invariant (`Follows`) says of every moment that the decoder
is on the current track, or nothing plays because a track could not be opened, or an
order is promised (waiting in the state machine's events, or certain to come from a
clear or a first load), or a job or event is under way for the current track itself;
that a job only opens what is current, unless an order is promised; and that a queue that
nobody has reported ready, or that more is being loaded into while it is empty, still
has an order coming. One lemma per group of actions; where an action would break
it, it is one of the five races and sets `astray`.

The assumption is `QueueAssumption`: types, that the shuffle gives an index, and that
the bounds are below `SizeModulus`.

`SamplePipeline_proofs` and `SampleAccounts_proofs` prove, for any number of streams, units, stops and toggles, any capacities and any modulus:

| Theorem | Statement |
|---|---|
| `PipelineTypeCorrect` | `Spec => []TypeOK` |
| `PlayedGapless` | `Spec => []Gapless` |
| `AccountsAlwaysAgree` | `Spec => []AccountsAgree` |
| `AlwaysConvertedAsItself` | `Spec => []ConvertedAsItself` |

The only assumption is `PipelineAssumption`, the types of the constants; the
playlists may hold any rates, one or two channels and any lengths. `TypeOK`
needs `AtWork`: the decoder is at a step only with a stream, and announces a
number of units that is not 0; the processor finishes a stream only while its end
is set aside. `Gapless` is not inductive: a pass of the codec puts units behind the
line, and one has to know what the line ends with. `WhereItGoesOn` says so: with the
last unit decoded if the stream has begun, with units of earlier streams if not;
and what waits in the mailbox, or for the end of a cancelled stream, is later than
all on its way. The actions fall into those that leave the line as it is, those
that move units along it (`CutUnits`, `SendTyped` and `TurnTyped` say that
what leaves one buffer enters the next), those that take a front off (the
output and a cancelled stream), the one that drops its end (`CancelDecode` drops the
leftover samples) and `DecodePass`. Were the leftover kept, units of the cancelled
stream would go in behind the first ones of the next: the proof of `CancelInOrder`
is where this shows.

The accounts are about a sum over a queue of commands. `Announced` is a recursive
function on the places of the queue, and `AnnouncedTotal` says what it is for any
queue for which running totals can be shown; it rests on induction over the numbers
(`NatInduct`, which follows from the library's theorem on well-founded relations by
taking a set instead of a predicate). The invariant `Accounted` says that the
commands, set aside or on their way, come in turn (`InTurn`: a stream begins, is
announced, ends or is cancelled, and then the next begins), and that the units in the
stream buffer can be cut by the running totals so that each command's stretch
belongs to its stream (`Allotted`), the first to the stream being converted, the last
not announced yet. That is more than that the totals agree, and needed: what is
dropped for a cancelled stream must be that stream's. The first half of
`ConvertedAsItself`, that all units before the resampler are of the stream begun last,
is the first of these stretches. The other half, that the resampler is none or one
for that stream's rate, is `Equipped`, which only the beginning of a stream can
disturb (`EquippedStep`, `ResamplerStays`): it also says that there is no resampler
before the first stream, as a kept one is right only if it was set up for a stream.

The type invariants of `SyncRuntime`, `QueueStore` and `ManagedFiles` are proved,
so no run repeats them.

`AlbumDownloads_proofs` proves, for any number of albums, attempts, requests, sessions
and faults, whether the manifest names its albums or not:

| Theorem | Statement |
|---|---|
| `AlbumTypes` | `Spec => []TypeOK` |
| `AlwaysLockIsPost` | `Spec => []LockIsPost` |
| `AlwaysOneOwnerEach` | `Spec => []OneOwnerEach` |
| `NeverReposted` | `Spec => AcceptedNeverReposted` |
| `StaleAnswersIgnored` | `Spec => StaleAnswerIgnored` |

The assumptions are `DownloadAssumption` (the types of the constants, finitely many
albums and at least one, room for one request) and `NoneAssumption` (nil is no
exchange, answer or list). The companion may do all that its actions allow.

Most of the argument is about the owner's functions and not about actions, since
one handler calls several. `Sane` is what each of them needs and leaves: attempts have
names and albums of their own (`Distinct`); the request of an attempt is one for its
album, and as long as it is the companion's latest for it the attempt is dispatched and
confirmed (`Owned`); only the attempt whose POST is in flight is pending, and it holds
the dispatcher (`Locked`); and what is in flight is for that attempt's album, with an
answer that names a request for it, while no attempt adopted from a list is for that
album (`Posting`). `OneOwnerEach` is not inductive without `Posting`: an answer that
names another album's request would give that request two attempts; and the companion,
on receiving the POST, makes a request that is newer than the one an adopted attempt
was made of.

`Works` says that a function leaves `Sane` true, makes no attempt (`Kept`) and posts
at most once, for an attempt that has no latest request (`Sent`). It composes
(`WorksTwice`), so `Dispatch`, `Without`, `EndAttempt` and `Reconcile` get one lemma
each, and the loops over requests and items (`EndRequestsWorks`, `AdoptAllWorks`,
`CompletesWorks`) rest on `FoldExists` and `FoldKeeps`. `Redrawn` is the lemma under
them: any owner whose attempts are drawn from another's, each from one of its own,
is `Sane` if what has a latest request is dispatched and confirmed. For the answer to
a list that condition is what its order in the code gives: the requests that have
ended end their attempts first (`Unended`), hence whoever still has a latest request
is observed (`UnendedObserved`), and `Sort` confirms what it observes. And there the
attempt that may just have been posted (by the first reconciliation) must not be
taken for another request's: `Carried` says that it is still in the queue when the
active requests are adopted, so that a request for its album becomes a shadow and not
a second attempt.

`NeverReposts` is `AcceptedNeverReposted` for one step; `NextMoves` shows it together
with the invariant, one lemma per action. `StaleAnswersIgnored` needs no invariant.

Only model-checked: of `AlbumDownloads` `OneAtATime`, which depends on the manifest
not naming its albums; of the player the action property `ShownIsHeard`; and every
liveness property (the prover does not do liveness under fairness).

## Not modelled

Whatever the inventory marks so: screens beyond their pollers, drivers, codecs,
the database, the desktop simulator (which stands in for the firmware in tests:
where it differs from the firmware, as in `download.busy()`, the firmware is
modelled). Payload sizes: a batch over 64 KB is refused by the native client on
every attempt, a hazard without a property. The contents of manifests and
catalog pages.

Of the managed files: the text of manifests and why one is refused (a plan that
cannot be made is a fault), the temporary files (`.tmp`, and `.part`, which stay
behind after a power cut and which nothing ever removes), and the save of the
cached manifest, whose steps are those of the inventory. The request for the
manifest is one step with its answer: an older answer is one to which a change
of the server has been added. Paths to be deleted are computed by
`sync_reconcile.plan` and never deleted (`plan.delete` has no reader), so a file
that is no longer listed stays on the card. A file that is on the card but in no
inventory, after a power cut or copied by the user, is never entered. Today that
costs nothing, as the inventory is read only for `plan.delete` and by the clean-ups
that change it; it will once stale files are deleted. A medium that the user removes
is loaded again by the next refresh as long as the server lists it.

Of the album downloads: progress, placeholders and subscriptions of the screens,
the dates of downloads, and other users of the HTTP slot. A dispatch that meets
one of them leaves the head as it is for a later poll ("busy" in `Outcomes`); a list
that does is one that starts later. `SyncRuntime` has the slot and all its users. An
album removed from the device stays "downloaded" for the owner, as nothing tells
it (`jellyfin_storage.lua:373`), and cannot be asked for again until a restart:
`Unlocks` counts it as ended. The answer to a list ends attempts, and so promotes
and posts the next one, before it looks at the requests that are still active;
`OneAtATime` excepts this case. Of several requests for one album the runtime looks at
the latest only (`latest_by_key`): an attempt accepted under an older one is not
observed, and behind an observed attempt it loses `dispatched`
(`rebuild_operation_indexes`) and is posted again once it is the head. It takes a
companion that makes a second request for an album and answers with the first, and
three requests; `AcceptedNeverReposted` excepts it.

Of the player: outputs and their formats, volume, text to speech (a second
PCM buffer), seeking, what the resampler computes (the ratio of frames in and out,
the doubling of mono for the output, and the filter's memory, which survives a skip
and is not flushed at the end of a stream: a few samples of one track are heard in
the next), and saving and restoring the queue at shutdown and boot. The database is external to
`TrackQueue`: an iterator is the tracks it will give, one that is gone gives none.
`currentPosition(size_t)` and the report of a loading queue change the queue
without its lock, or with the shared one; they are single steps here, as
what two unsynchronised writers of a `std::string` may do to each other has no
outcome one could enumerate. `DecodingFailedToStart` has no handler: the queue stays
on a track that does not play (`halted`). `next` and `previous` let go of the lock
before they tell the audio task (`track_queue.cpp:437`, `458`); both are one step
here. The event says only that the queue changed, and its handler reads the current
track when it comes, so the order of two such events matters in one case only: a
worker ends the queue at its last track, the user goes back before the worker has
said so, and the stop comes after the order to play. Nothing then plays though a track
is current, which `PlaysCurrent` would not call wrong either (`halted`). Events and
jobs are queues without end, as in the code, or with one that only makes their
senders wait (8 jobs).

## Plan

What is left, in order; each with an MC module, runs and proofs.

1. `ManagedFiles` composed with the apply session of `SyncRuntime`: a result that the
   artwork cache takes (*sync_runtime_stolen*) is a loaded file that nobody enters in
   the inventory.
2. `AlbumDownloads` with a manifest that names its albums, where sessions
   find their attempts, as a run of its own; `OneAtATime` proved for one that does not.
3. `DeviceLinks`: Quick Connect sessions on the server with `sync_link`.
4. Theorems: `ShownIsHeard`.
