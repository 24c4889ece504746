--------------------------- MODULE SamplePipeline ---------------------------
(***************************************************************************)
(* The way of a track's samples through the player, from the decoder to    *)
(* the output (src/tangara/audio/audio_decoder.cpp, processor.cpp,         *)
(* stream_cues.cpp, drivers/pcm_buffer.cpp), and the part of audio_fsm.cpp *)
(* that shows which track is heard.  Four tasks share it: the decoder, the *)
(* sample processor, the output's interrupt and the audio state machine.   *)
(*                                                                         *)
(* Streams are numbered in the order in which they are opened; a unit of   *)
(* samples is the number of its stream and its own within the stream.      *)
(***************************************************************************)
EXTENDS Integers, Sequences, FiniteSets, SequencesExt, FiniteSetsExt

CONSTANTS
    MaxStreams,     \* streams opened, at most
    MaxUnits,       \* units in a stream, at most
    MaxStops,       \* times playback is stopped, at most
    MaxToggles,     \* times play/pause is pressed, at most
    DecodeSize,     \* units the codec writes in one pass, at most
    CommandSlots,   \* length of the queue commands_
    SourceSlots,    \* capacity of the stream buffer source_
    WorkSlots,      \* capacity of input_buffer_ and resampled_buffer_ together
    SinkSlots,      \* capacity of the PCM buffer
    Modulus,        \* the sample counters wrap here: 2^32 in the code
    TargetRate,     \* sample rate of the output
    Playlists       \* what may be opened: format and length of each stream

ASSUME PipelineAssumption ==
    /\ MaxStreams \in Nat /\ MaxUnits \in Nat /\ MaxStops \in Nat
    /\ MaxToggles \in Nat
    /\ DecodeSize \in Nat \ {0}
    /\ CommandSlots \in Nat \ {0} /\ SourceSlots \in Nat \ {0}
    /\ WorkSlots \in Nat \ {0} /\ SinkSlots \in Nat \ {0}
    /\ Modulus \in Nat \ {0}
    /\ Playlists \subseteq
          [1..MaxStreams -> [rate : Nat \ {0}, channels : {1, 2}, units : 1..MaxUnits]]

VARIABLES
    formats,        \* those of the streams opened and still to be opened
    mailbox,        \* Decoder::next_stream_: a stream, or 0 for "stop"
    opened, stops, toggles,     \* how often that happened (bounds)
    stream,         \* stream the decoder is working on, or 0
    codec,          \* has it still a codec?
    decoded,        \* units it has decoded
    leftover,       \* decoded units that source_ had no room for
    dstep,          \* where the decoder is
    unannounced,    \* units in source_ whose command is not sent yet
    next,           \* stream to prepare once the current one is cancelled
    commands,       \* SampleProcessor::commands_
    pending,        \* SampleProcessor::pending_commands_
    source,         \* the stream buffer from the decoder to the processor
    unprocessed,    \* units of it that the processor knows of
    work, output,   \* its buffers
    format,         \* stream begun last, whose units the processor takes in
    resampler,      \* source rate and channels of its resampler, if it has one
    pstep,          \* where the processor is
    sink,           \* the PCM buffer
    sent, received, \* units put into and taken out of it, ever
    events,         \* the audio state machine's queue
    cues,           \* StreamCues: now_, current_, upcoming_
    paused, playing,    \* sIsPaused; is the state Playback?
    silenced        \* was Playback left for want of an output or a card?

decoder == <<stream, codec, decoded, leftover, dstep, unannounced, next>>
processor == <<pending, unprocessed, work, output, format, resampler,
              pstep>>
counters == <<sent, received>>
player == <<cues, paused, playing, silenced>>
user == <<formats, opened, stops, toggles>>
vars == <<mailbox, user, decoder, commands, processor, source, sink, counters,
          events, player>>

Streams == 1..MaxStreams
Units == Streams \X (1..MaxUnits)
NoStream == 0
NoResampler == [rate |-> 0, channels |-> 0]

Commands ==
    [kind : {"begin"}, stream : Streams, units : {0}]
        \cup [kind : {"samples"}, stream : Streams, units : 1..DecodeSize]
        \cup [kind : {"end", "cancel"}, stream : Streams, units : {0}]
Events ==
    [kind : {"started"}, stream : Streams, cue : 0..(Modulus - 1)]
        \cup [kind : {"ended"}, stream : {NoStream}, cue : 0..(Modulus - 1)]
Cues == [stream : Streams \cup {NoStream}, start : 0..(Modulus - 1)]

Flags == /\ codec \in BOOLEAN
         /\ paused \in BOOLEAN /\ playing \in BOOLEAN /\ silenced \in BOOLEAN

DecoderTypes ==
    /\ formats \in Playlists
    /\ mailbox \in Seq(Streams \cup {NoStream}) /\ Len(mailbox) <= 1
    /\ opened \in 0..MaxStreams
    /\ stops \in 0..MaxStops
    /\ toggles \in 0..MaxToggles
    /\ stream \in Streams \cup {NoStream}
    /\ decoded \in 0..MaxUnits
    /\ leftover \in Seq(Units) /\ Len(leftover) <= DecodeSize
    /\ dstep \in {"poll", "begin", "announce", "announceLast", "end", "cancel"}
    /\ unannounced \in 0..DecodeSize
    /\ next \in Streams \cup {NoStream}

BufferTypes ==
    /\ commands \in Seq(Commands) /\ Len(commands) <= CommandSlots
    /\ source \in Seq(Units) /\ Len(source) <= SourceSlots
    /\ sink \in Seq(Units) /\ Len(sink) <= SinkSlots
    /\ sent \in Nat /\ received \in Nat

ProcessorTypes ==
    /\ pending \in Seq(Commands)
    /\ unprocessed \in Nat
    /\ work \in Seq(Units) /\ Len(work) <= WorkSlots
    /\ output \in Seq(Units) /\ Len(output) <= 2
    /\ format \in Streams \cup {NoStream}
    /\ resampler \in [rate : Nat, channels : 0..2]
    /\ pstep \in {"receive", "flush", "process", "handle", "finish"}

PlayerTypes ==
    /\ events \in Seq(Events)
    /\ cues \in [now : 0..(Modulus - 1), current : Cues, upcoming : Seq(Cues)]

TypeOK == Flags /\ DecoderTypes /\ BufferTypes /\ ProcessorTypes /\ PlayerTypes

Init ==
    /\ formats \in Playlists
    /\ mailbox = << >>
    /\ opened = 0 /\ stops = 0 /\ toggles = 0
    /\ stream = NoStream /\ codec = FALSE /\ decoded = 0 /\ leftover = << >>
    /\ dstep = "poll" /\ unannounced = 0 /\ next = NoStream
    /\ commands = << >> /\ pending = << >> /\ source = << >> /\ unprocessed = 0
    /\ work = << >> /\ output = << >> /\ format = NoStream
    /\ resampler = NoResampler /\ pstep = "receive"
    /\ sink = << >> /\ sent = 0 /\ received = 0
    /\ events = << >>
    /\ cues = [now |-> 0, current |-> [stream |-> NoStream, start |-> 0],
               upcoming |-> << >>]
    /\ paused = TRUE /\ playing = FALSE /\ silenced = FALSE

-----------------------------------------------------------------------------
(* The audio task and the background workers: open a stream, or stop.      *)

Open ==
    /\ opened < MaxStreams
    /\ Len(mailbox) < 1
    /\ opened' = opened + 1
    /\ mailbox' = <<opened + 1>>
    /\ UNCHANGED <<formats, stops, toggles, decoder, commands, processor, source,
                   sink, counters, events, player>>

Stop ==
    /\ stops < MaxStops
    /\ Len(mailbox) < 1
    /\ stops' = stops + 1
    /\ mailbox' = <<NoStream>>
    /\ UNCHANGED <<formats, opened, toggles, decoder, commands, processor, source,
                   sink, counters, events, player>>

-----------------------------------------------------------------------------
(* The decoder.                                                            *)

SendCommand(kind, units) ==
    /\ Len(commands) < CommandSlots
    /\ commands' = Append(commands,
                          [kind |-> kind, stream |-> stream, units |-> units])

\* prepareDecode: a stream that no codec can open leaves the decoder without one.
Prepare(s) ==
    \/ /\ s # NoStream
       /\ stream' = s /\ codec' = TRUE /\ decoded' = 0 /\ dstep' = "begin"
    \/ stream' = NoStream /\ codec' = FALSE /\ decoded' = 0 /\ dstep' = "poll"

\* A new stream, or the order to stop, arrives.  A stream still being decoded is
\* cancelled first.
TakeStream ==
    /\ dstep = "poll"
    /\ mailbox # << >>
    /\ mailbox' = << >>
    /\ IF stream # NoStream
       THEN /\ next' = Head(mailbox) /\ dstep' = "cancel"
            /\ UNCHANGED <<stream, codec, decoded>>
       ELSE Prepare(Head(mailbox)) /\ UNCHANGED next
    /\ UNCHANGED <<user, leftover, unannounced, commands, processor, source,
                   sink, counters, events, player>>

CancelKeepingLeftover ==
    /\ dstep = "cancel"
    /\ SendCommand("cancel", 0)
    /\ Prepare(next)
    /\ next' = NoStream
    /\ UNCHANGED <<mailbox, user, leftover, unannounced, processor, source, sink,
                   counters, events, player>>

\* finishDecode(true), then prepareDecode of what was waiting.
CancelDecode ==
    /\ dstep = "cancel"
    /\ SendCommand("cancel", 0)
    /\ leftover' = << >>
    /\ Prepare(next)
    /\ next' = NoStream
    /\ UNCHANGED <<mailbox, user, unannounced, processor, source, sink, counters,
                   events, player>>

BeginStream ==
    /\ dstep = "begin"
    /\ SendCommand("begin", 0)
    /\ dstep' = "poll"
    /\ UNCHANGED <<mailbox, user, stream, codec, decoded, leftover, unannounced,
                   next, processor, source, sink, counters, events, player>>

Room == SourceSlots - Len(source)
FittingUnbounded(units) == Len(units)
Fitting(units) == Min({Len(units), Room})

\* continueStream, first half: as many units as fit go to the stream buffer.
Buffer(units) ==
    /\ source' = source \o SubSeq(units, 1, Fitting(units))
    /\ unannounced' = Fitting(units)
    /\ leftover' = SubSeq(units, Fitting(units) + 1, Len(units))

\* continueDecode with samples left over from an earlier pass.
ContinueLeftover ==
    /\ dstep = "poll" /\ mailbox = << >> /\ stream # NoStream
    /\ leftover # << >>
    /\ Room > 0
    /\ Buffer(leftover)
    /\ dstep' = "announce"
    /\ UNCHANGED <<mailbox, user, stream, codec, decoded, next, commands,
                   processor, sink, counters, events, player>>

\* continueDecode with a pass of the codec, which may have been the last one.
DecodePass ==
    /\ dstep = "poll" /\ mailbox = << >> /\ stream # NoStream
    /\ leftover = << >> /\ codec
    /\ \E units \in 1..Min({DecodeSize, formats[stream].units - decoded}), last \in BOOLEAN :
          /\ decoded' = decoded + units
          /\ codec' = ~last
          /\ Buffer([i \in 1..units |-> <<stream, decoded + i>>])
          /\ dstep' = IF unannounced' > 0
                      THEN IF last THEN "announceLast" ELSE "announce"
                      ELSE "poll"
    /\ UNCHANGED <<mailbox, user, stream, next, commands, processor, sink,
                   counters, events, player>>

\* The codec failed, wrote nothing more, or has finished before.
DecodeOver ==
    /\ dstep = "poll" /\ mailbox = << >> /\ stream # NoStream
    /\ leftover = << >>
    /\ dstep' = "end"
    /\ UNCHANGED <<mailbox, user, stream, codec, decoded, leftover, unannounced,
                   next, commands, processor, source, sink, counters, events,
                   player>>

\* continueStream, second half: the processor is told of the units.
Announce ==
    /\ dstep \in {"announce", "announceLast"}
    /\ SendCommand("samples", unannounced)
    /\ unannounced' = 0
    /\ dstep' = IF dstep = "announceLast" /\ leftover = << >> THEN "end" ELSE "poll"
    /\ UNCHANGED <<mailbox, user, stream, codec, decoded, leftover, next,
                   processor, source, sink, counters, events, player>>

\* finishDecode(false).
EndDecode ==
    /\ dstep = "end"
    /\ SendCommand("end", 0)
    /\ stream' = NoStream /\ codec' = FALSE /\ decoded' = 0 /\ dstep' = "poll"
    /\ UNCHANGED <<mailbox, user, leftover, unannounced, next, processor, source,
                   sink, counters, events, player>>

Decoder ==
    \/ TakeStream \/ CancelDecode \/ BeginStream \/ ContinueLeftover
    \/ DecodePass \/ DecodeOver \/ Announce \/ EndDecode

-----------------------------------------------------------------------------
(* The sample processor.                                                   *)

Dispatch(event) == events' = Append(events, event)

\* Units that the commands in a queue announce.
Announced(queue) ==
    LET sum[i \in 0..Len(queue)] ==
            IF i = 0 THEN 0 ELSE sum[i - 1] + queue[i].units
    IN  sum[Len(queue)]

PendingWork == pending # << >> \/ unprocessed > 0 \/ work # << >> \/ output # << >>

\* Main, top of the loop: a command is set aside until its turn comes.
SetAside ==
    /\ pstep = "receive"
    /\ commands # << >> /\ Head(commands).kind # "cancel"
    /\ pending' = Append(pending, Head(commands))
    /\ commands' = Tail(commands)
    /\ pstep' = "flush"
    /\ UNCHANGED <<mailbox, user, decoder, unprocessed, work, output, format,
                   resampler, source, sink, counters, events, player>>

\* The units the processor was told of, once it drops the commands set aside.
DiscardedForgotten == unprocessed
Discarded == unprocessed + Announced(pending)

\* A cancelled stream: every buffer is emptied, and as much of the stream buffer
\* as the processor has been told of.
ClearBuffers ==
    /\ pstep = "receive"
    /\ commands # << >> /\ Head(commands).kind = "cancel"
    /\ \E told \in 0..Len(source) :
          /\ told = Discarded
          /\ source' = SubSeq(source, told + 1, Len(source))
    /\ commands' = Tail(commands)
    /\ pending' = << >> /\ unprocessed' = 0 /\ work' = << >> /\ output' = << >>
    /\ sink' = << >>
    /\ received' = received + Len(sink)
    /\ Dispatch([kind |-> "ended", stream |-> NoStream, cue |-> sent % Modulus])
    /\ pstep' = "flush"
    /\ UNCHANGED <<mailbox, user, decoder, format, resampler, sent, player>>

\* No command, but work to go on with.
GoOn ==
    /\ pstep = "receive"
    /\ commands = << >> /\ PendingWork
    /\ pstep' = "flush"
    /\ UNCHANGED <<mailbox, user, decoder, commands, pending, unprocessed, work,
                   output, format, resampler, source, sink, counters, events,
                   player>>

\* send: the PCM buffer takes all of a buffer or, after a wait, nothing of it.
Send(units) ==
    IF Len(units) <= SinkSlots - Len(sink)
    THEN /\ sink' = sink \o units /\ sent' = sent + Len(units)
         /\ output' = << >>
    ELSE /\ output' = units
         /\ UNCHANGED <<sink, sent>>

\* flushOutputBuffer, as the main loop calls it.
FlushFirst ==
    /\ pstep = "flush"
    /\ Send(output)
    /\ pstep' = IF output # << >> /\ output' = << >> THEN "receive"
                ELSE IF unprocessed > 0 THEN "process" ELSE "handle"
    /\ UNCHANGED <<mailbox, user, decoder, commands, pending, unprocessed, work,
                   format, resampler, source, received, events, player>>

\* writeAcquire, writeCommit: samples are written behind those already there.
Filled(taken) == work \o SubSeq(source, 1, taken)

\* A unit is one frame of its stream.  A resampler with more channels than the
\* stream takes two of them for one of its frames, and nothing of a single one.
Frame == IF resampler # NoResampler
            /\ resampler.channels > formats[format].channels THEN 2 ELSE 1

\* The output buffer has room for a frame once the last one is sent.
MovableAlways(filled) == Len(filled) >= Frame
Movable(filled) == output = << >> /\ Len(filled) >= Frame

\* One turn of the loop in processSamples.  A turn that can move nothing, because
\* what is left is less than a frame, is followed by another such turn, for ever.
ProcessSamples ==
    /\ pstep \in {"process", "finish"}
    /\ LET taken == Min({unprocessed, WorkSlots - Len(work), Len(source)})
           filled == Filled(taken)
           moved == Movable(filled)
           outOfWork == unprocessed = 0 /\ filled = << >>
       IN  /\ unprocessed' = unprocessed - taken
           /\ source' = SubSeq(source, taken + 1, Len(source))
           /\ work' = IF moved THEN SubSeq(filled, Frame + 1, Len(filled))
                      ELSE filled
           /\ Send(IF moved THEN SubSeq(filled, 1, Frame) ELSE output)
           /\ IF output' = << >> /\ outOfWork
              THEN /\ pstep' = "handle"
                   /\ IF pstep = "finish"
                      THEN /\ pending' = Tail(pending)
                           /\ Dispatch([kind |-> "ended", stream |-> NoStream,
                                        cue |-> sent' % Modulus])
                      ELSE UNCHANGED <<pending, events>>
              ELSE /\ pstep' = IF output' = << >> THEN pstep ELSE "receive"
                   /\ UNCHANGED <<pending, events>>
    /\ UNCHANGED <<mailbox, user, decoder, commands, format, resampler, received,
                   player>>

NewResampler(s) == [rate |-> formats[s].rate, channels |-> formats[s].channels]

\* The resampler for a stream: none if it has the output's rate; the one there is
\* if it is for the stream's rate, whatever its channels.
ResamplerKept(s) ==
    IF resampler.rate = formats[s].rate \/ formats[s].rate = TargetRate
    THEN resampler ELSE NewResampler(s)
ResamplerFor(s) ==
    IF formats[s].rate = TargetRate THEN NoResampler
    ELSE IF resampler.rate = formats[s].rate THEN resampler ELSE NewResampler(s)

\* The commands set aside.  The end of a stream waits until all of it is sent.
HandleBegin ==
    /\ pstep = "handle"
    /\ pending # << >> /\ Head(pending).kind = "begin"
    /\ format' = Head(pending).stream
    /\ resampler' = ResamplerFor(Head(pending).stream)
    /\ Dispatch([kind |-> "started", stream |-> Head(pending).stream,
                 cue |-> sent % Modulus])
    /\ pending' = Tail(pending)
    /\ UNCHANGED <<mailbox, user, decoder, commands, unprocessed, work, output,
                   pstep, source, sink, counters, player>>

HandleSamples ==
    /\ pstep = "handle"
    /\ pending # << >> /\ Head(pending).kind = "samples"
    /\ unprocessed' = unprocessed + Head(pending).units
    /\ pending' = Tail(pending)
    /\ UNCHANGED <<mailbox, user, decoder, commands, work, output, format,
                   resampler, pstep, source, sink, counters, events, player>>

HandleEnd ==
    /\ pstep = "handle"
    /\ \/ pending = << >> /\ pstep' = "receive"
       \/ pending # << >> /\ Head(pending).kind = "end" /\ pstep' = "finish"
    /\ UNCHANGED <<mailbox, user, decoder, commands, pending, unprocessed, work,
                   output, format, resampler, source, sink, counters, events,
                   player>>

Processor ==
    \/ SetAside \/ ClearBuffers \/ GoOn \/ FlushFirst \/ ProcessSamples
    \/ HandleBegin \/ HandleSamples \/ HandleEnd

\* The output's interrupt takes samples, unless the buffer is suspended.
Receive ==
    /\ playing
    /\ sink # << >>
    /\ sink' = Tail(sink)
    /\ received' = received + 1
    /\ UNCHANGED <<mailbox, user, decoder, commands, processor, source, sent,
                   events, player>>

-----------------------------------------------------------------------------
(* The audio state machine: what is heard, and is anything?                *)

\* The cues at the front of upcoming_ that lie in a range of samples are passed.
Pass(c, range) ==
    LET n == Cardinality({k \in 1..Len(c.upcoming) :
                             \A i \in 1..k : c.upcoming[i].start \in range})
    IN  IF n = 0 THEN c
        ELSE [c EXCEPT !.current = c.upcoming[n],
                       !.upcoming = SubSeq(@, n + 1, Len(@))]

UpdateLate(c, sample) ==
    LET unwrapped == IF sample < c.now THEN Pass(c, (c.now + 1)..(Modulus - 1))
                     ELSE c
    IN  [Pass(unwrapped, 0..(sample - 1)) EXCEPT !.now = sample]

\* StreamCues::update.  A counter behind the last one has wrapped.
Update(c, sample) ==
    LET unwrapped == IF sample < c.now THEN Pass(c, (c.now + 1)..(Modulus - 1))
                     ELSE c
    IN  [Pass(unwrapped, 0..sample) EXCEPT !.now = sample]

\* StreamCues::addCue.
AddCue(c, s, sample) ==
    IF sample = c.now
    THEN [c EXCEPT !.current = [stream |-> s, start |-> sample]]
    ELSE [c EXCEPT !.upcoming = Append(@, [stream |-> s, start |-> sample])]

HasStream(c) == c.current.stream # NoStream \/ c.upcoming # << >>
Heard == received % Modulus

StartedInStandby ==
    /\ events # << >> /\ Head(events).kind = "started"
    /\ cues' = Update(AddCue(cues, Head(events).stream, Head(events).cue), Heard)
    /\ events' = Tail(events)
    /\ UNCHANGED <<mailbox, user, decoder, commands, processor, source, sink,
                   counters, paused, playing, silenced>>

StreamStarted ==
    /\ events # << >> /\ Head(events).kind = "started"
    /\ cues' = Update(AddCue(cues, Head(events).stream, Head(events).cue), Heard)
    /\ playing' = (playing \/ ~paused)
    /\ silenced' = (silenced /\ ~playing')
    /\ events' = Tail(events)
    /\ UNCHANGED <<mailbox, user, decoder, commands, processor, source, sink,
                   counters, paused>>

StreamEnded ==
    /\ events # << >> /\ Head(events).kind = "ended"
    /\ cues' = AddCue(cues, NoStream, Head(events).cue)
    /\ events' = Tail(events)
    /\ UNCHANGED <<mailbox, user, decoder, commands, processor, source, sink,
                   counters, paused, playing, silenced>>

StreamHeartbeat ==
    /\ playing
    /\ cues' = Update(cues, Heard)
    /\ playing' = HasStream(cues')
    /\ UNCHANGED <<mailbox, user, decoder, commands, processor, source, sink,
                   counters, events, paused, silenced>>

\* The button, which toggles, and the orders to play and to pause.
TogglePlayPause ==
    /\ toggles < MaxToggles
    /\ toggles' = toggles + 1
    /\ paused' \in BOOLEAN
    /\ playing' = (~paused' /\ (playing \/ cues.current.stream # NoStream))
    /\ silenced' = (silenced /\ ~playing')
    /\ UNCHANGED <<mailbox, formats, opened, stops, decoder, commands, processor,
                   source, sink, counters, events, cues>>

\* The headphones are pulled out, the Bluetooth device is gone or the card is.
LeavePlayback ==
    /\ playing
    /\ playing' = FALSE /\ silenced' = TRUE
    /\ UNCHANGED <<mailbox, user, decoder, commands, processor, source, sink,
                   counters, events, cues, paused>>

EventHandler == StreamStarted \/ StreamEnded

Next ==
    \/ Open \/ Stop \/ Decoder \/ Processor \/ Receive
    \/ EventHandler \/ StreamHeartbeat \/ TogglePlayPause \/ LeavePlayback

Spec == Init /\ [][Next]_vars

\* The output asks for samples as long as it plays, and the audio task handles its
\* events.  Nothing is asked of the tasks that bring samples, of the heartbeat or
\* of whoever opens tracks and presses buttons.
FairSpec == Spec /\ WF_vars(Receive) /\ WF_vars(EventHandler)

-----------------------------------------------------------------------------
(* Safety.                                                                 *)

\* The processor is told of exactly the units that are in the stream buffer,
\* now or by a command on its way, so that emptying it for a cancelled stream
\* takes what belongs to that stream and leaves nothing of it.
AccountsAgree ==
    Len(source) = unprocessed + Announced(pending) + Announced(commands) + unannounced

\* A resampler that fits a stream: none if the stream has the output's rate, and
\* otherwise one for its rate, set up for it or for another stream of that rate.
Fits(s) ==
    IF formats[s].rate = TargetRate THEN resampler = NoResampler
    ELSE /\ resampler.rate = formats[s].rate
         /\ \E other \in Streams : resampler = NewResampler(other)

\* Whatever is skipped, units are converted as those of the stream they belong to:
\* all that is before the resampler is of the stream begun last, and the resampler
\* fits it.
ConvertedAsItself ==
    /\ \A u \in Range(work \o SubSeq(source, 1, unprocessed)) : u[1] = format
    /\ format # NoStream => Fits(format)

Line == sink \o output \o work \o source \o leftover

\* What is decoded is heard gaplessly, in order and once: in all that is between
\* the decoder and the output a unit is followed by the next one of its stream,
\* or by the first one of a later stream.
Follows(u, v) == \/ v[1] = u[1] /\ v[2] = u[2] + 1
                 \/ v[1] > u[1] /\ v[2] = 1
Gapless == \A i \in 1..(Len(Line) - 1) : Follows(Line[i], Line[i + 1])

\* What the screen says at a heartbeat is the stream whose samples come out
\* next, until the sample counters wrap.
ShownIsHeard ==
    [][StreamHeartbeat /\ events = << >> /\ sink # << >> /\ sent < Modulus
          => cues'.current.stream = Head(sink)[1]]_vars

-----------------------------------------------------------------------------
(* Liveness.                                                               *)

\* What is in the PCM buffer is heard or thrown away, unless playback pauses or
\* is left because there is nothing to play on or from.
EverythingHeard ==
    sink # << >> ~> (sink = << >> \/ paused \/ silenced \/ sent >= Modulus)

=============================================================================
