------------------------ MODULE SamplePipeline_proofs ------------------------
(***************************************************************************)
(* For any number of streams and units, any sizes of buffers and queues and *)
(* any modulus of the counters: SamplePipeline is type correct, and all     *)
(* that lies between the decoder and the output is without gaps.            *)
(***************************************************************************)
EXTENDS SamplePipeline, SequenceTheorems, FiniteSetTheorems, TLAPS

-----------------------------------------------------------------------------
(* Helpers.                                                                *)

LEMMA MinOfTwo ==
    ASSUME NEW a \in Int, NEW b \in Int
    PROVE  /\ Min({a, b}) \in {a, b}
           /\ Min({a, b}) <= a /\ Min({a, b}) <= b
  <1>1. \E m \in {a, b} : \A y \in {a, b} : m <= y
    <2>1. CASE a <= b
      BY <2>1
    <2>2. CASE b <= a
      BY <2>2
    <2> QED
      BY <2>1, <2>2
  <1> QED
    BY <1>1 DEF Min

LEMMA MinOfThree ==
    ASSUME NEW a \in Int, NEW b \in Int, NEW c \in Int
    PROVE  /\ Min({a, b, c}) \in {a, b, c}
           /\ Min({a, b, c}) <= a /\ Min({a, b, c}) <= b /\ Min({a, b, c}) <= c
  <1>1. \E m \in {a, b, c} : \A y \in {a, b, c} : m <= y
    <2>1. CASE a <= b /\ a <= c
      BY <2>1
    <2>2. CASE b <= a /\ b <= c
      BY <2>2
    <2>3. CASE c <= a /\ c <= b
      BY <2>3
    <2> QED
      BY <2>1, <2>2, <2>3
  <1> QED
    BY <1>1 DEF Min

\* A sequence, cut in two.
LEMMA CutInTwo ==
    ASSUME NEW S, NEW s \in Seq(S), NEW n \in 0..Len(s)
    PROVE  /\ SubSeq(s, 1, n) \in Seq(S) /\ Len(SubSeq(s, 1, n)) = n
           /\ SubSeq(s, n + 1, Len(s)) \in Seq(S)
           /\ Len(SubSeq(s, n + 1, Len(s))) = Len(s) - n
           /\ SubSeq(s, 1, n) \o SubSeq(s, n + 1, Len(s)) = s
  <1>1. Len(s) \in Nat /\ \A i \in 1..Len(s) : s[i] \in S
    BY LenProperties, ElementOfSeq
  <1>2. SubSeq(s, 1, n) \in Seq(S) /\ Len(SubSeq(s, 1, n)) = n
    BY <1>1, SubSeqProperties
  <1>3. /\ SubSeq(s, n + 1, Len(s)) \in Seq(S)
        /\ Len(SubSeq(s, n + 1, Len(s))) = Len(s) - n
    BY <1>1, SubSeqProperties
  <1>4. SubSeq(s, 1, n) \o SubSeq(s, n + 1, Len(s)) = SubSeq(s, 1, Len(s))
    <2>1. /\ 1 \in 1..(Len(s) + 1) /\ n \in (1 - 1)..Len(s)
          /\ Len(s) \in n..Len(s)
      BY <1>1
    <2> QED
      BY <2>1, ConcatAdjacentSubSeq
  <1> QED
    BY <1>2, <1>3, <1>4, SubSeqFull

-----------------------------------------------------------------------------
(* Types.                                                                  *)

\* What the types need: the decoder is at something only with a stream, it only
\* announces units it has buffered, and the end of a stream is still set aside
\* while it is waited for.
AtWork ==
    /\ dstep # "poll" => stream # NoStream
    /\ dstep \in {"announce", "announceLast"} => unannounced # 0
    /\ pstep = "finish" => pending # << >>

Typed == TypeOK /\ AtWork

LEMMA Regroup ==
    \A s, t, u \in Seq(Units) : (s \o t) \o u = s \o (t \o u)
  BY ConcatAssociative

LEMMA CutUnits ==
    ASSUME source \in Seq(Units), Len(source) <= SourceSlots, SourceSlots \in Nat,
           NEW units \in Seq(Units), Buffer(units)
    PROVE  /\ source' \in Seq(Units) /\ Len(source') <= SourceSlots
           /\ leftover' \in Seq(Units) /\ Len(leftover') <= Len(units)
           /\ unannounced' \in 0..Len(units)
           /\ units # << >> /\ Room > 0 => unannounced' # 0
           /\ source' \o leftover' = source \o units
  <1>1. Len(source) \in Nat /\ Len(units) \in Nat /\ Room \in Nat
    BY DEF Room
  <1>2. /\ Fitting(units) \in 0..Len(units) /\ Fitting(units) <= Room
        /\ Fitting(units) \in {Len(units), Room}
    <2>1. Len(units) \in Int /\ Room \in Int
      BY <1>1
    <2>2. /\ Fitting(units) \in {Len(units), Room}
          /\ Fitting(units) <= Len(units) /\ Fitting(units) <= Room
      BY <2>1, MinOfTwo DEF Fitting
    <2> QED
      BY <1>1, <2>2
  <1>3. PICK front \in Seq(Units), rest \in Seq(Units) :
           /\ Len(front) = Fitting(units) /\ Len(rest) = Len(units) - Fitting(units)
           /\ front \o rest = units
           /\ source' = source \o front /\ leftover' = rest
    <2>1. Fitting(units) \in 0..Len(units)
      BY <1>2
    <2>2. /\ SubSeq(units, 1, Fitting(units)) \in Seq(Units)
          /\ Len(SubSeq(units, 1, Fitting(units))) = Fitting(units)
          /\ SubSeq(units, Fitting(units) + 1, Len(units)) \in Seq(Units)
          /\ Len(SubSeq(units, Fitting(units) + 1, Len(units)))
                 = Len(units) - Fitting(units)
          /\ SubSeq(units, 1, Fitting(units))
                 \o SubSeq(units, Fitting(units) + 1, Len(units)) = units
      BY <2>1, CutInTwo
    <2> QED
      BY <2>2 DEF Buffer
  <1>4. unannounced' = Fitting(units)
    BY DEF Buffer
  <1>5. source' \in Seq(Units) /\ Len(source') = Len(source) + Fitting(units)
    BY <1>3, ConcatProperties
  <1>6. (source \o front) \o rest = source \o units
    BY <1>3, Regroup, Zenon
  <1>7. units # << >> => Len(units) # 0
    BY EmptySeq
  <1>8. Len(source') <= SourceSlots /\ Len(leftover') <= Len(units)
    BY <1>1, <1>2, <1>3, <1>5 DEF Room
  <1>9. unannounced' \in 0..Len(units)
    BY <1>1, <1>2, <1>4
  <1>10. units # << >> /\ Room > 0 => unannounced' # 0
    BY <1>1, <1>2, <1>4, <1>7
  <1> QED
    BY <1>3, <1>5, <1>6, <1>8, <1>9, <1>10

LEMMA PassTyped ==
    ASSUME NEW units \in Nat, decoded \in Nat, decoded + units <= MaxUnits,
           MaxUnits \in Nat, stream \in Streams
    PROVE  LET new == [i \in 1..units |-> <<stream, decoded + i>>]
           IN  new \in Seq(Units) /\ Len(new) = units
  <1>1. \A i \in 1..units : <<stream, decoded + i>> \in Units
    BY DEF Units
  <1> QED
    BY <1>1

\* The formats, and what a pass of the codec may add.
LEMMA FormatsTyped ==
    ASSUME Typed, NEW s \in Streams
    PROVE  /\ formats[s].rate \in Nat \ {0} /\ formats[s].channels \in {1, 2}
           /\ formats[s].units \in 1..MaxUnits
  <1>1. formats \in [1..MaxStreams ->
                        [rate : Nat \ {0}, channels : {1, 2}, units : 1..MaxUnits]]
    BY PipelineAssumption DEF Typed, TypeOK, DecoderTypes
  <1> QED
    BY <1>1 DEF Streams

LEMMA PassFits ==
    ASSUME Typed, stream \in Streams,
           NEW units \in 1..Min({DecodeSize, formats[stream].units - decoded})
    PROVE  /\ units \in 1..DecodeSize /\ decoded + units <= MaxUnits
           /\ decoded \in Nat /\ MaxUnits \in Nat
  <1> DEFINE most == Min({DecodeSize, formats[stream].units - decoded})
  <1>1. /\ formats[stream].units \in 1..MaxUnits /\ decoded \in Nat
        /\ DecodeSize \in Int /\ MaxUnits \in Nat
    BY FormatsTyped, PipelineAssumption DEF Typed, TypeOK, DecoderTypes
  <1>2. formats[stream].units - decoded \in Int
    BY <1>1
  <1>3. /\ most \in Int /\ most <= DecodeSize
        /\ most <= formats[stream].units - decoded
    BY <1>1, <1>2, MinOfTwo
  <1>4. units \in 1..most
    OBVIOUS
  <1> HIDE DEF most
  <1> QED
    BY <1>1, <1>3, <1>4

LEMMA PrepareTyped ==
    ASSUME NEW s \in Streams \cup {NoStream}, Prepare(s), MaxUnits \in Nat
    PROVE  /\ stream' \in Streams \cup {NoStream}
           /\ decoded' \in 0..MaxUnits /\ dstep' \in {"poll", "begin"}
           /\ dstep' # "poll" => stream' # NoStream
  BY DEF Prepare

LEMMA CommandTyped ==
    ASSUME commands \in Seq(Commands), CommandSlots \in Nat, stream \in Streams,
           NEW kind, NEW units, SendCommand(kind, units),
           \/ kind = "samples" /\ units \in 1..DecodeSize
           \/ kind \in {"begin", "end", "cancel"} /\ units = 0
    PROVE  commands' \in Seq(Commands) /\ Len(commands') <= CommandSlots
  <1>1. [kind |-> kind, stream |-> stream, units |-> units] \in Commands
    BY DEF Commands
  <1> QED
    BY <1>1 DEF SendCommand

LEMMA FlagsStep ==
    ASSUME Flags, [Next]_vars
    PROVE  Flags'
  <1> USE DEF decoder, processor, counters, player, user, Flags
  <1>1. CASE TakeStream \/ CancelDecode
    BY <1>1, Zenon DEF TakeStream, CancelDecode, Prepare
  <1>2. CASE BeginStream \/ ContinueLeftover \/ DecodeOver \/ Announce
    BY <1>2, Zenon DEF BeginStream, ContinueLeftover, DecodeOver, Announce
  <1>3. CASE DecodePass \/ EndDecode
    BY <1>3, Zenon DEF DecodePass, EndDecode
  <1>4. CASE Open \/ Stop \/ Receive
    BY <1>4, Zenon DEF Open, Stop, Receive
  <1>5. CASE SetAside \/ ClearBuffers \/ GoOn \/ FlushFirst \/ ProcessSamples
    BY <1>5, Zenon DEF SetAside, ClearBuffers, GoOn, FlushFirst, ProcessSamples
  <1>6. CASE HandleBegin \/ HandleSamples \/ HandleEnd
    BY <1>6, Zenon DEF HandleBegin, HandleSamples, HandleEnd
  <1>7. CASE StreamStarted \/ StreamEnded
    BY <1>7, Zenon DEF StreamStarted, StreamEnded
  <1>8. CASE StreamHeartbeat \/ TogglePlayPause \/ LeavePlayback
    BY <1>8, Zenon DEF StreamHeartbeat, TogglePlayPause, LeavePlayback, HasStream
  <1>9. CASE UNCHANGED vars
    BY <1>9, Zenon DEF vars
  <1> QED
    BY <1>1, <1>2, <1>3, <1>4, <1>5, <1>6, <1>7, <1>8, <1>9
       DEF Next, Decoder, Processor, EventHandler

LEMMA DecoderTyped ==
    ASSUME Typed, Decoder
    PROVE  DecoderTypes' /\ BufferTypes' /\ AtWork'
  <1> USE DEF decoder, processor, counters, player, user
  <1>0. /\ DecoderTypes /\ BufferTypes /\ AtWork
        /\ MaxUnits \in Nat /\ CommandSlots \in Nat /\ SourceSlots \in Nat
        /\ DecodeSize \in Nat \ {0}
    BY PipelineAssumption DEF Typed, TypeOK
  <1> USE DEF DecoderTypes, BufferTypes, AtWork
  <1>1. CASE TakeStream
    <2>1. Head(mailbox) \in Streams \cup {NoStream} /\ Len(mailbox') <= 1
          /\ mailbox' \in Seq(Streams \cup {NoStream})
      BY <1>0, <1>1 DEF TakeStream
    <2>2. CASE stream # NoStream
      BY <1>0, <1>1, <2>1, <2>2 DEF TakeStream
    <2>3. CASE stream = NoStream
      <3>1. Prepare(Head(mailbox)) /\ next' = next
        BY <1>1, <2>3 DEF TakeStream
      <3> QED
        BY <1>0, <1>1, <2>1, <3>1, PrepareTyped DEF TakeStream
    <2> QED
      BY <2>2, <2>3
  <1>2. CASE CancelDecode
    <2>1. Prepare(next) /\ next \in Streams \cup {NoStream} /\ stream \in Streams
      BY <1>0, <1>2 DEF CancelDecode
    <2>2. commands' \in Seq(Commands) /\ Len(commands') <= CommandSlots
      BY <1>0, <1>2, <2>1, CommandTyped DEF CancelDecode
    <2> QED
      BY <1>0, <1>2, <2>1, <2>2, PrepareTyped DEF CancelDecode
  <1>3. CASE BeginStream
    <2>1. commands' \in Seq(Commands) /\ Len(commands') <= CommandSlots
      BY <1>0, <1>3, CommandTyped DEF BeginStream
    <2> QED
      BY <1>0, <1>3, <2>1 DEF BeginStream
  <1>4. CASE ContinueLeftover
    <2>1. /\ source' \in Seq(Units) /\ Len(source') <= SourceSlots
          /\ leftover' \in Seq(Units) /\ Len(leftover') <= Len(leftover)
          /\ unannounced' \in 0..Len(leftover) /\ unannounced' # 0
      BY <1>0, <1>4, CutUnits DEF ContinueLeftover
    <2> QED
      BY <1>0, <1>4, <2>1 DEF ContinueLeftover
  <1>5. CASE DecodePass
    <2>1. PICK units \in 1..Min({DecodeSize, formats[stream].units - decoded}) :
             /\ decoded' = decoded + units
             /\ Buffer([i \in 1..units |-> <<stream, decoded + i>>])
             /\ dstep' \in IF unannounced' > 0 THEN {"announceLast", "announce"}
                          ELSE {"poll"}
      BY <1>5 DEF DecodePass
    <2>3. stream \in Streams
      BY <1>0, <1>5 DEF DecodePass
    <2>2. units \in 1..DecodeSize /\ decoded + units <= MaxUnits /\ decoded \in Nat
      BY <2>1, <2>3, PassFits
    <2>4. PICK new \in Seq(Units) : Len(new) = units /\ Buffer(new)
      <3> DEFINE new == [i \in 1..units |-> <<stream, decoded + i>>]
      <3>0. /\ units \in Nat /\ decoded \in Nat /\ decoded + units <= MaxUnits
            /\ MaxUnits \in Nat /\ stream \in Streams
        BY <1>0, <2>2, <2>3
      <3>1. new \in Seq(Units) /\ Len(new) = units
        BY <3>0, PassTyped
      <3>2. Buffer(new)
        BY <2>1
      <3> HIDE DEF new
      <3> QED
        BY <3>1, <3>2
    <2>5. /\ source' \in Seq(Units) /\ Len(source') <= SourceSlots
          /\ leftover' \in Seq(Units) /\ Len(leftover') <= units
          /\ unannounced' \in 0..units
      BY <1>0, <2>4, CutUnits
    <2>6. /\ decoded' \in 0..MaxUnits /\ Len(leftover') <= DecodeSize
          /\ unannounced' \in 0..DecodeSize
      <3>1. /\ units \in 1..DecodeSize /\ DecodeSize \in Nat /\ MaxUnits \in Nat
            /\ decoded + units <= MaxUnits /\ decoded \in Nat
            /\ decoded' = decoded + units
        BY <1>0, <2>1, <2>2
      <3>2. /\ Len(leftover') \in Nat /\ Len(leftover') <= units
            /\ unannounced' \in 0..units
        BY <2>5, LenProperties
      <3> QED
        BY <3>1, <3>2
    <2>7. dstep' \in {"announce", "announceLast"} => unannounced' # 0
      BY <2>1
    <2>8. UNCHANGED <<formats, mailbox, opened, stops, toggles, stream, next,
                      commands, sink, counters>>
      BY <1>5 DEF DecodePass
    <2>9. dstep' \in {"poll", "announce", "announceLast"} /\ pstep' = pstep
          /\ pending' = pending /\ stream # NoStream
      BY <1>5, <2>1 DEF DecodePass
    <2>10. DecoderTypes'
      BY <1>0, <2>3, <2>5, <2>6, <2>8, <2>9
    <2>11. BufferTypes'
      BY <1>0, <2>5, <2>8
    <2>12. AtWork'
      BY <1>0, <2>3, <2>7, <2>8, <2>9
    <2> QED
      BY <2>10, <2>11, <2>12
  <1>6. CASE DecodeOver
    BY <1>0, <1>6 DEF DecodeOver
  <1>7. CASE Announce
    <2>1. unannounced \in 1..DecodeSize /\ stream \in Streams
      BY <1>0, <1>7 DEF Announce
    <2>2. commands' \in Seq(Commands) /\ Len(commands') <= CommandSlots
      BY <1>0, <1>7, <2>1, CommandTyped DEF Announce
    <2> QED
      BY <1>0, <1>7, <2>1, <2>2 DEF Announce
  <1>8. CASE EndDecode
    <2>1. commands' \in Seq(Commands) /\ Len(commands') <= CommandSlots
      BY <1>0, <1>8, CommandTyped DEF EndDecode
    <2> QED
      BY <1>0, <1>8, <2>1 DEF EndDecode
  <1> QED
    BY <1>1, <1>2, <1>3, <1>4, <1>5, <1>6, <1>7, <1>8 DEF Decoder

\* What the processor's buffers become, and the units in them.
LEMMA SendTyped ==
    ASSUME sink \in Seq(Units), Len(sink) <= SinkSlots, SinkSlots \in Nat,
           sent \in Nat, NEW units \in Seq(Units), Len(units) <= 2, Send(units)
    PROVE  /\ sink' \in Seq(Units) /\ Len(sink') <= SinkSlots /\ sent' \in Nat
           /\ output' \in Seq(Units) /\ Len(output') <= 2
           /\ sink' \o output' = sink \o units
  <1>1. CASE Len(units) <= SinkSlots - Len(sink)
    <2>1. sink' = sink \o units /\ sent' = sent + Len(units) /\ output' = << >>
      BY <1>1 DEF Send
    <2>2. /\ sink \o units \in Seq(Units)
          /\ Len(sink \o units) = Len(sink) + Len(units)
          /\ (sink \o units) \o << >> = sink \o units
      BY ConcatProperties, ConcatEmptySeq
    <2> QED
      BY <1>1, <2>1, <2>2
  <1>2. CASE ~(Len(units) <= SinkSlots - Len(sink))
    BY <1>2 DEF Send
  <1> QED
    BY <1>1, <1>2

\* The turn of processSamples: what is taken, what is moved on.
LEMMA TurnTyped ==
    ASSUME Typed, ProcessSamples
    PROVE  /\ unprocessed' \in Nat
           /\ source' \in Seq(Units) /\ Len(source') <= Len(source)
           /\ work' \in Seq(Units) /\ Len(work') <= WorkSlots
           /\ \E units \in Seq(Units) :
                 /\ Len(units) <= 2 /\ Send(units)
                 /\ units \o (work' \o source') = output \o (work \o source)
  <1> DEFINE taken == Min({unprocessed, WorkSlots - Len(work), Len(source)})
             filled == Filled(taken)
  <1>0. /\ source \in Seq(Units) /\ work \in Seq(Units) /\ Len(work) <= WorkSlots
        /\ output \in Seq(Units) /\ Len(output) <= 2
        /\ unprocessed \in Nat /\ WorkSlots \in Nat
        /\ Len(source) \in Nat /\ Len(work) \in Nat
    BY PipelineAssumption DEF Typed, TypeOK, BufferTypes, ProcessorTypes
  <1>1. /\ taken \in 0..Len(source) /\ unprocessed - taken \in Nat
        /\ Len(work) + taken <= WorkSlots
    <2>1. /\ unprocessed \in Int /\ WorkSlots - Len(work) \in Int
          /\ Len(source) \in Int
      BY <1>0
    <2>2. /\ taken \in {unprocessed, WorkSlots - Len(work), Len(source)}
          /\ taken <= unprocessed /\ taken <= WorkSlots - Len(work)
          /\ taken <= Len(source)
      BY <2>1, MinOfThree
    <2> HIDE DEF taken
    <2> QED
      BY <1>0, <2>2
  <1>2. /\ unprocessed' = unprocessed - taken
        /\ source' = SubSeq(source, taken + 1, Len(source))
        /\ work' = IF Movable(filled) THEN SubSeq(filled, Frame + 1, Len(filled))
                   ELSE filled
        /\ Send(IF Movable(filled) THEN SubSeq(filled, 1, Frame) ELSE output)
    BY DEF ProcessSamples
  <1>3. filled = work \o SubSeq(source, 1, taken)
    BY DEF Filled
  <1> HIDE DEF taken, filled
  <1>4. PICK front \in Seq(Units) :
           /\ SubSeq(source, 1, taken) = front /\ Len(front) = taken
           /\ source' \in Seq(Units) /\ Len(source') = Len(source) - taken
           /\ front \o source' = source
    BY <1>0, <1>1, <1>2, CutInTwo
  <1>5. filled \in Seq(Units) /\ Len(filled) = Len(work) + taken
    BY <1>0, <1>3, <1>4, ConcatProperties
  <1>6. filled \o source' = work \o source
    <2>1. work \in Seq(Units) /\ source' \in Seq(Units)
          /\ filled = work \o front /\ front \o source' = source
      BY <1>0, <1>3, <1>4
    <2> QED
      BY <2>1, Regroup, Zenon
  <1>7. CASE ~Movable(filled)
    <2>1. work' = filled /\ Send(output)
      BY <1>2, <1>7
    <2>2. output \o (work' \o source') = output \o (work \o source)
      BY <1>6, <2>1, Zenon
    <2>3. Len(work') <= WorkSlots /\ Len(source') <= Len(source)
      BY <1>0, <1>1, <1>4, <1>5, <2>1
    <2>4. unprocessed' \in Nat /\ source' \in Seq(Units) /\ work' \in Seq(Units)
      BY <1>1, <1>2, <1>4, <1>5, <2>1
    <2> QED
      BY <1>0, <2>1, <2>2, <2>3, <2>4, Zenon
  <1>8. CASE Movable(filled)
    <2> DEFINE moved == SubSeq(filled, 1, Frame)
    <2>1. output = << >> /\ Frame \in 1..Len(filled) /\ Frame \in {1, 2}
      BY <1>5, <1>8 DEF Movable, Frame
    <2>2. work' = SubSeq(filled, Frame + 1, Len(filled)) /\ Send(moved)
      BY <1>2, <1>8
    <2>3. /\ moved \in Seq(Units) /\ Len(moved) = Frame /\ work' \in Seq(Units)
          /\ Len(work') = Len(filled) - Frame /\ moved \o work' = filled
      <3>1. Frame \in 0..Len(filled)
        BY <2>1
      <3> QED
        BY <1>5, <2>2, <3>1, CutInTwo
    <2> HIDE DEF moved
    <2>4. moved \o (work' \o source') = output \o (work \o source)
      <3>1. (moved \o work') \o source' = moved \o (work' \o source')
        BY <1>4, <2>3, Regroup, Zenon
      <3>2. << >> \o (work \o source) = work \o source
        BY <1>0, ConcatProperties, ConcatEmptySeq
      <3> QED
        BY <1>6, <2>1, <2>3, <3>1, <3>2, Zenon
    <2>5. Len(work') <= WorkSlots /\ Len(source') <= Len(source) /\ Len(moved) <= 2
      BY <1>0, <1>1, <1>4, <1>5, <2>1, <2>3
    <2>6. unprocessed' \in Nat /\ source' \in Seq(Units)
      BY <1>1, <1>2, <1>4
    <2> QED
      BY <2>2, <2>3, <2>4, <2>5, <2>6, Zenon
  <1> QED
    BY <1>7, <1>8

LEMMA CounterTyped ==
    \A n \in Nat : n % Modulus \in 0..(Modulus - 1)
  BY PipelineAssumption

LEMMA ProcessorTyped ==
    ASSUME Typed, Processor \/ Receive
    PROVE  /\ DecoderTypes' /\ BufferTypes' /\ ProcessorTypes' /\ AtWork'
           /\ events' \in Seq(Events)
  <1> USE DEF decoder, processor, counters, player, user
  <1>0. /\ DecoderTypes /\ BufferTypes /\ ProcessorTypes /\ AtWork
        /\ events \in Seq(Events)
        /\ SourceSlots \in Nat /\ SinkSlots \in Nat /\ WorkSlots \in Nat
        /\ sent % Modulus \in 0..(Modulus - 1)
    BY PipelineAssumption, CounterTyped DEF Typed, TypeOK, PlayerTypes, BufferTypes
  <1> USE DEF DecoderTypes, BufferTypes, ProcessorTypes, AtWork
  <1>1. CASE SetAside
    <2>1. commands \in Seq(Commands) /\ commands # << >>
      BY <1>0, <1>1 DEF SetAside
    <2>2. /\ Head(commands) \in Commands /\ Tail(commands) \in Seq(Commands)
          /\ Len(Tail(commands)) = Len(commands) - 1
      BY <2>1, HeadTailProperties
    <2>3. pending' \in Seq(Commands)
      BY <1>0, <1>1, <2>2, AppendProperties DEF SetAside
    <2>4. commands' \in Seq(Commands) /\ Len(commands') <= CommandSlots
      BY <1>0, <1>1, <2>1, <2>2, PipelineAssumption DEF SetAside
    <2> QED
      BY <1>0, <1>1, <2>3, <2>4 DEF SetAside
  <1>2. CASE ClearBuffers
    <2>1. PICK told \in 0..Len(source) : source' = SubSeq(source, told + 1, Len(source))
      BY <1>2 DEF ClearBuffers
    <2>2. source' \in Seq(Units) /\ Len(source') = Len(source) - told
      BY <1>0, <2>1, CutInTwo
    <2>3. [kind |-> "ended", stream |-> NoStream, cue |-> sent % Modulus] \in Events
      BY <1>0 DEF Events
    <2>4. /\ received' \in Nat /\ Len(source') <= SourceSlots
          /\ sink' \in Seq(Units) /\ Len(sink') <= SinkSlots
      <3>1. received' = received + Len(sink) /\ sink' = << >>
        BY <1>2 DEF ClearBuffers
      <3>2. sink \in Seq(Units) /\ source \in Seq(Units)
        BY <1>0
      <3>3. Len(sink) \in Nat /\ Len(source) \in Nat
        BY <3>2, LenProperties
      <3>4. sink' \in Seq(Units) /\ Len(sink') = 0
        BY <3>1, EmptySeq
      <3>5. received' \in Nat
        <4>1. received \in Nat
          BY <1>0
        <4> QED
          BY <3>1, <3>3, <4>1
      <3>6. Len(source') <= SourceSlots
        BY <1>0, <2>2, <3>3
      <3> QED
        BY <1>0, <3>4, <3>5, <3>6
    <2>5. commands' \in Seq(Commands) /\ Len(commands') <= CommandSlots
      <3>1. commands \in Seq(Commands) /\ commands # << >>
        BY <1>0, <1>2 DEF ClearBuffers
      <3>2. /\ Tail(commands) \in Seq(Commands)
            /\ Len(Tail(commands)) = Len(commands) - 1
        BY <3>1, HeadTailProperties
      <3> QED
        BY <1>0, <1>2, <3>1, <3>2, PipelineAssumption DEF ClearBuffers
    <2> QED
      BY <1>0, <1>2, <2>2, <2>3, <2>4, <2>5 DEF ClearBuffers, Dispatch
  <1>3. CASE GoOn
    BY <1>0, <1>3 DEF GoOn
  <1>4. CASE FlushFirst
    <2>1. Send(output)
      BY <1>4 DEF FlushFirst
    <2>2. /\ sink' \in Seq(Units) /\ Len(sink') <= SinkSlots /\ sent' \in Nat
          /\ output' \in Seq(Units) /\ Len(output') <= 2
      BY <1>0, <2>1, SendTyped
    <2>3. pstep' \in {"receive", "process", "handle"}
      BY <1>4 DEF FlushFirst
    <2> QED
      BY <1>0, <1>4, <2>2, <2>3 DEF FlushFirst
  <1>5. CASE ProcessSamples
    <2>1. PICK units \in Seq(Units) : Len(units) <= 2 /\ Send(units)
      BY <1>5, TurnTyped
    <2>2. /\ sink' \in Seq(Units) /\ Len(sink') <= SinkSlots /\ sent' \in Nat
          /\ output' \in Seq(Units) /\ Len(output') <= 2
      BY <1>0, <2>1, SendTyped
    <2>3. /\ unprocessed' \in Nat
          /\ source' \in Seq(Units) /\ Len(source') <= Len(source)
          /\ work' \in Seq(Units) /\ Len(work') <= WorkSlots
      BY <1>5, TurnTyped
    <2>4. [kind |-> "ended", stream |-> NoStream, cue |-> sent' % Modulus] \in Events
      BY <2>2, CounterTyped DEF Events
    <2>5. /\ pending' \in Seq(Commands) /\ events' \in Seq(Events)
          /\ pstep' \in {"receive", "process", "handle", "finish"}
          /\ pstep' = "finish" => pending' # << >>
      <3>1. /\ pstep \in {"process", "finish"}
            /\ \/ /\ pstep' = "handle"
                  /\ pstep = "finish"
                  /\ pending' = Tail(pending)
                  /\ Dispatch([kind |-> "ended", stream |-> NoStream,
                               cue |-> sent' % Modulus])
               \/ /\ pstep' \in {"handle", pstep, "receive"}
                  /\ UNCHANGED <<pending, events>>
        BY <1>5 DEF ProcessSamples
      <3>2. CASE /\ pstep' = "handle"
                 /\ pstep = "finish"
                 /\ pending' = Tail(pending)
                 /\ Dispatch([kind |-> "ended", stream |-> NoStream,
                             cue |-> sent' % Modulus])
        <4>1. pending \in Seq(Commands) /\ pending # << >>
          BY <1>0, <3>2
        <4>2. pending' \in Seq(Commands)
          BY <3>2, <4>1, HeadTailProperties
        <4>3. events' \in Seq(Events)
          BY <1>0, <2>4, <3>2, AppendProperties DEF Dispatch
        <4> QED
          BY <3>2, <4>2, <4>3
      <3>3. CASE /\ pstep' \in {"handle", pstep, "receive"}
                 /\ UNCHANGED <<pending, events>>
        BY <1>0, <3>1, <3>3
      <3> QED
        BY <3>1, <3>2, <3>3
    <2>6. Len(source') <= SourceSlots
      BY <1>0, <2>3
    <2> QED
      BY <1>0, <1>5, <2>2, <2>3, <2>5, <2>6 DEF ProcessSamples
  <1>6. CASE HandleBegin
    <2>0. pending \in Seq(Commands) /\ pending # << >>
      BY <1>0, <1>6 DEF HandleBegin
    <2>1. Head(pending) \in Commands /\ Tail(pending) \in Seq(Commands)
      BY <2>0, HeadTailProperties
    <2>2. Head(pending).stream \in Streams
      BY <2>1 DEF Commands
    <2>3. [kind |-> "started", stream |-> Head(pending).stream,
           cue |-> sent % Modulus] \in Events
      BY <1>0, <2>2 DEF Events
    <2>4. /\ pending' \in Seq(Commands) /\ format' \in Streams /\ pstep' = "handle"
          /\ UNCHANGED <<unprocessed, work, output>>
          /\ resampler' = ResamplerFor(Head(pending).stream)
      BY <1>6, <2>1, <2>2 DEF HandleBegin
    <2>8. resampler' \in [rate : Nat, channels : 0..2]
      <3>1. /\ formats[Head(pending).stream].rate \in Nat
            /\ formats[Head(pending).stream].channels \in 0..2
        BY <2>2, FormatsTyped
      <3>2. NewResampler(Head(pending).stream) \in [rate : Nat, channels : 0..2]
        BY <3>1 DEF NewResampler
      <3>3. resampler \in [rate : Nat, channels : 0..2]
        BY <1>0
      <3> QED
        BY <2>4, <3>2, <3>3 DEF ResamplerFor, NoResampler
    <2>5. events' \in Seq(Events)
      BY <1>0, <1>6, <2>3, AppendProperties DEF HandleBegin, Dispatch
    <2>6. DecoderTypes' /\ BufferTypes'
      BY <1>0, <1>6 DEF HandleBegin
    <2>7. ProcessorTypes'
      BY <1>0, <2>4, <2>8
    <2> QED
      BY <1>0, <1>6, <2>4, <2>5, <2>6, <2>7 DEF HandleBegin
  <1>7. CASE HandleSamples
    <2>0. pending \in Seq(Commands) /\ pending # << >>
      BY <1>0, <1>7 DEF HandleSamples
    <2>1. Head(pending) \in Commands /\ Tail(pending) \in Seq(Commands)
      BY <2>0, HeadTailProperties
    <2>2. Head(pending).units \in Nat
      BY <2>1, PipelineAssumption DEF Commands
    <2>3. /\ pending' \in Seq(Commands) /\ unprocessed' \in Nat /\ pstep' = "handle"
          /\ UNCHANGED <<format, resampler, work, output, events>>
      <3>1. unprocessed' = unprocessed + Head(pending).units /\ unprocessed \in Nat
        BY <1>0, <1>7 DEF HandleSamples
      <3>2. unprocessed' \in Nat
        BY <2>2, <3>1
      <3> QED
        BY <1>7, <2>1, <3>2 DEF HandleSamples
    <2>4. DecoderTypes' /\ BufferTypes'
      BY <1>0, <1>7 DEF HandleSamples
    <2>5. ProcessorTypes'
      BY <1>0, <2>3
    <2> QED
      BY <1>0, <1>7, <2>3, <2>4, <2>5 DEF HandleSamples
  <1>8. CASE HandleEnd
    BY <1>0, <1>8 DEF HandleEnd
  <1>9. CASE Receive
    <2>1. sink' \in Seq(Units) /\ Len(sink') <= SinkSlots
      BY <1>0, <1>9 DEF Receive
    <2> QED
      BY <1>0, <1>9, <2>1 DEF Receive
  <1> QED
    BY <1>1, <1>2, <1>3, <1>4, <1>5, <1>6, <1>7, <1>8, <1>9 DEF Processor

\* The cues.
CueStates == [now : 0..(Modulus - 1), current : Cues, upcoming : Seq(Cues)]

LEMMA PassCues ==
    ASSUME NEW c \in CueStates, NEW range
    PROVE  Pass(c, range) \in CueStates
  <1> DEFINE passed == {k \in 1..Len(c.upcoming) :
                           \A i \in 1..k : c.upcoming[i].start \in range}
             n == Cardinality(passed)
  <1>1. c.upcoming \in Seq(Cues) /\ Len(c.upcoming) \in Nat
    BY DEF CueStates
  <1>2. n \in 0..Len(c.upcoming)
    <2>1. /\ IsFiniteSet(1..Len(c.upcoming))
          /\ Cardinality(1..Len(c.upcoming)) = Len(c.upcoming)
      BY <1>1, FS_Interval
    <2>2. passed \subseteq 1..Len(c.upcoming)
      OBVIOUS
    <2>3. IsFiniteSet(passed) /\ n <= Len(c.upcoming)
      BY <2>1, <2>2, FS_Subset
    <2>4. n \in Nat
      BY <2>3, FS_CardinalityType
    <2>5. n <= Len(c.upcoming)
      BY <2>3
    <2> HIDE DEF n, passed
    <2> QED
      BY <1>1, <2>4, <2>5
  <1>3. Pass(c, range) = IF n = 0 THEN c
                         ELSE [c EXCEPT !.current = c.upcoming[n],
                                        !.upcoming = SubSeq(@, n + 1, Len(@))]
    BY DEF Pass
  <1>4. CASE n = 0
    BY <1>3, <1>4
  <1>5. CASE n # 0
    <2> HIDE DEF n
    <2>1. c.upcoming[n] \in Cues
      BY <1>1, <1>2, <1>5, ElementOfSeq
    <2>2. SubSeq(c.upcoming, n + 1, Len(c.upcoming)) \in Seq(Cues)
      BY <1>1, <1>2, CutInTwo
    <2> QED
      BY <1>3, <1>5, <2>1, <2>2 DEF CueStates
  <1> QED
    BY <1>4, <1>5

LEMMA UpdateCues ==
    ASSUME NEW c \in CueStates, NEW sample \in 0..(Modulus - 1)
    PROVE  Update(c, sample) \in CueStates
  <1> DEFINE unwrapped == IF sample < c.now THEN Pass(c, (c.now + 1)..(Modulus - 1))
                          ELSE c
  <1>1. unwrapped \in CueStates
    BY PassCues
  <1> HIDE DEF unwrapped
  <1>2. Pass(unwrapped, 0..sample) \in CueStates
    BY <1>1, PassCues
  <1>3. Update(c, sample) = [Pass(unwrapped, 0..sample) EXCEPT !.now = sample]
    BY DEF Update, unwrapped
  <1> QED
    BY <1>2, <1>3 DEF CueStates

LEMMA AddedCues ==
    ASSUME NEW c \in CueStates, NEW s \in Streams \cup {NoStream},
           NEW sample \in 0..(Modulus - 1)
    PROVE  AddCue(c, s, sample) \in CueStates
  <1>1. [stream |-> s, start |-> sample] \in Cues
    BY DEF Cues
  <1>2. c.upcoming \in Seq(Cues)
    BY DEF CueStates
  <1>3. Append(c.upcoming, [stream |-> s, start |-> sample]) \in Seq(Cues)
    BY <1>1, <1>2, AppendProperties
  <1> QED
    BY <1>1, <1>3 DEF AddCue, CueStates

LEMMA PlayerTyped ==
    ASSUME Typed, EventHandler \/ StreamHeartbeat \/ TogglePlayPause \/ LeavePlayback
    PROVE  DecoderTypes' /\ BufferTypes' /\ ProcessorTypes' /\ PlayerTypes' /\ AtWork'
  <1> USE DEF decoder, processor, counters, player, user
  <1>0. /\ DecoderTypes /\ BufferTypes /\ ProcessorTypes /\ AtWork
        /\ events \in Seq(Events) /\ cues \in CueStates
        /\ Heard \in 0..(Modulus - 1) /\ MaxToggles \in Nat
    BY PipelineAssumption, CounterTyped
       DEF Typed, TypeOK, PlayerTypes, BufferTypes, CueStates, Heard
  <1>1. CASE StreamStarted \/ StreamEnded
    <2>1. events # << >>
      BY <1>1 DEF StreamStarted, StreamEnded
    <2>2. Head(events) \in Events /\ Tail(events) \in Seq(Events)
      BY <1>0, <2>1, HeadTailProperties
    <2>3. /\ Head(events).stream \in Streams \cup {NoStream}
          /\ Head(events).cue \in 0..(Modulus - 1)
      BY <2>2 DEF Events
    <2>4. cues' \in CueStates /\ events' \in Seq(Events)
      <3>1. AddCue(cues, Head(events).stream, Head(events).cue) \in CueStates
        BY <1>0, <2>3, AddedCues
      <3>2. AddCue(cues, NoStream, Head(events).cue) \in CueStates
        BY <1>0, <2>3, AddedCues
      <3>3. Update(AddCue(cues, Head(events).stream, Head(events).cue), Heard)
               \in CueStates
        BY <1>0, <3>1, UpdateCues
      <3> QED
        BY <1>1, <2>2, <3>2, <3>3 DEF StreamStarted, StreamEnded
    <2>5. DecoderTypes' /\ BufferTypes' /\ ProcessorTypes' /\ AtWork'
      BY <1>0, <1>1
         DEF StreamStarted, StreamEnded, DecoderTypes, BufferTypes, ProcessorTypes,
             AtWork
    <2> QED
      BY <2>4, <2>5 DEF PlayerTypes, CueStates
  <1>2. CASE StreamHeartbeat
    <2>1. cues' \in CueStates /\ events' = events
      BY <1>0, <1>2, UpdateCues DEF StreamHeartbeat
    <2>2. DecoderTypes' /\ BufferTypes' /\ ProcessorTypes' /\ AtWork'
      BY <1>0, <1>2
         DEF StreamHeartbeat, DecoderTypes, BufferTypes, ProcessorTypes, AtWork
    <2> QED
      BY <1>0, <2>1, <2>2 DEF PlayerTypes, CueStates
  <1>3. CASE TogglePlayPause
    <2>1. toggles' \in 0..MaxToggles
      BY <1>0, <1>3 DEF TogglePlayPause, DecoderTypes
    <2> QED
      BY <1>0, <1>3, <2>1
         DEF TogglePlayPause, DecoderTypes, BufferTypes, ProcessorTypes, AtWork,
             PlayerTypes, CueStates
  <1>4. CASE LeavePlayback
    BY <1>0, <1>4
       DEF LeavePlayback, DecoderTypes, BufferTypes, ProcessorTypes, AtWork,
           PlayerTypes, CueStates
  <1> QED
    BY <1>1, <1>2, <1>3, <1>4 DEF EventHandler

LEMMA TypedInitially ==
    ASSUME Init
    PROVE  Typed
  <1>1. Flags
    BY Zenon DEF Init, Flags
  <1>2. DecoderTypes /\ BufferTypes /\ ProcessorTypes /\ AtWork
    BY PipelineAssumption
       DEF Init, DecoderTypes, BufferTypes, ProcessorTypes, AtWork, NoResampler
  <1>3. PlayerTypes
    BY PipelineAssumption DEF Init, PlayerTypes, Cues
  <1> QED
    BY <1>1, <1>2, <1>3 DEF Typed, TypeOK

LEMMA TypedStep ==
    ASSUME Typed, [Next]_vars
    PROVE  Typed'
  <1> USE DEF decoder, processor, counters, player, user
  <1>0. /\ DecoderTypes /\ BufferTypes /\ ProcessorTypes /\ PlayerTypes /\ AtWork
        /\ Flags'
    BY FlagsStep DEF Typed, TypeOK
  <1>1. CASE Decoder
    <2>1. PlayerTypes' /\ ProcessorTypes' /\ pending' = pending /\ pstep' = pstep
      BY <1>0, <1>1
         DEF Decoder, TakeStream, CancelDecode, BeginStream, ContinueLeftover,
             DecodePass, DecodeOver, Announce, EndDecode, PlayerTypes, ProcessorTypes
    <2> QED
      BY <1>0, <1>1, <2>1, DecoderTyped DEF Typed, TypeOK
  <1>2. CASE Processor \/ Receive
    <2>1. cues' = cues
      BY <1>2
         DEF Processor, Receive, SetAside, ClearBuffers, GoOn, FlushFirst,
             ProcessSamples, HandleBegin, HandleSamples, HandleEnd
    <2> QED
      BY <1>0, <1>2, <2>1, ProcessorTyped DEF Typed, TypeOK, PlayerTypes
  <1>3. CASE EventHandler \/ StreamHeartbeat \/ TogglePlayPause \/ LeavePlayback
    BY <1>0, <1>3, PlayerTyped DEF Typed, TypeOK
  <1>4. CASE Open \/ Stop
    <2>1. /\ mailbox' \in Seq(Streams \cup {NoStream}) /\ Len(mailbox') <= 1
          /\ opened' \in 0..MaxStreams /\ stops' \in 0..MaxStops
      <3>1. CASE Open
        <4>1. opened' = opened + 1 /\ opened < MaxStreams /\ mailbox' = <<opened + 1>>
              /\ stops' = stops
          BY <1>0, <3>1 DEF Open
        <4>2. opened + 1 \in Streams \cup {NoStream} /\ opened' \in 0..MaxStreams
          BY <1>0, <4>1, PipelineAssumption DEF Streams, DecoderTypes
        <4> QED
          BY <1>0, <4>1, <4>2 DEF DecoderTypes
      <3>2. CASE Stop
        <4>1. /\ stops' = stops + 1 /\ stops < MaxStops /\ mailbox' = <<NoStream>>
              /\ opened' = opened
          BY <3>2 DEF Stop
        <4> QED
          BY <1>0, <4>1, PipelineAssumption DEF DecoderTypes
      <3> QED
        BY <1>4, <3>1, <3>2
    <2>2. DecoderTypes' /\ AtWork'
      BY <1>0, <1>4, <2>1 DEF Open, Stop, DecoderTypes, AtWork
    <2>3. BufferTypes' /\ ProcessorTypes' /\ PlayerTypes'
      BY <1>0, <1>4 DEF Open, Stop, BufferTypes, ProcessorTypes, PlayerTypes
    <2> QED
      BY <1>0, <2>2, <2>3 DEF Typed, TypeOK
  <1>5. CASE UNCHANGED vars
    <2>1. DecoderTypes' /\ AtWork'
      BY <1>0, <1>5 DEF vars, DecoderTypes, AtWork
    <2>2. BufferTypes' /\ ProcessorTypes' /\ PlayerTypes'
      BY <1>0, <1>5 DEF vars, BufferTypes, ProcessorTypes, PlayerTypes
    <2> QED
      BY <1>0, <2>1, <2>2 DEF Typed, TypeOK
  <1> QED
    BY <1>1, <1>2, <1>3, <1>4, <1>5 DEF Next

\* Whatever tracks are opened, stopped and paused, every buffer stays within its
\* capacity and every command, event and cue is one.
THEOREM PipelineTypeCorrect == Spec => []TypeOK
  <1>1. Typed => TypeOK
    BY DEF Typed
  <1> QED
    BY <1>1, TypedInitially, TypedStep, PTL DEF Spec

-----------------------------------------------------------------------------
(* What is decoded is heard gaplessly, in order and once.                  *)

\* What a sequence of units must be to be heard as it is.
Chained(l) == \A i \in 1..(Len(l) - 1) : Follows(l[i], l[i + 1])
Below(l, s) == \A i \in 1..Len(l) : l[i][1] < s
EndsAt(l, u) == l # << >> => l[Len(l)] = u

\* Where the decoder goes on: behind the last unit it has decoded, or with a
\* stream that is later than all that is on its way.
WhereItGoesOn ==
    /\ stream <= opened /\ next <= opened /\ Below(Line, opened + 1)
    /\ mailbox # << >> => Head(mailbox) <= opened
    /\ mailbox # << >> /\ Head(mailbox) # NoStream => Below(Line, Head(mailbox))
    /\ next # NoStream => dstep = "cancel" /\ Below(Line, next)
    /\ stream # NoStream /\ decoded = 0 => Below(Line, stream)
    /\ stream # NoStream /\ decoded # 0 => EndsAt(Line, <<stream, decoded>>)

Ordered == Typed /\ Gapless /\ WhereItGoesOn

-----------------------------------------------------------------------------
(* Parts of a sequence of units, and a sequence that grows.                *)

\* The front of an ordered sequence is ordered, and so is the rest.
LEMMA PrefixInOrder ==
    ASSUME NEW l \in Seq(Units), NEW m \in Seq(Units), Chained(l \o m)
    PROVE  /\ Chained(l)
           /\ \A s \in Int : Below(l \o m, s) => Below(l, s)
  <1>1. /\ Len(l) \in Nat /\ Len(m) \in Nat /\ Len(l \o m) = Len(l) + Len(m)
        /\ \A i \in 1..Len(l) : (l \o m)[i] = l[i]
    BY LenProperties, ConcatProperties
  <1>2. Chained(l)
    <2> SUFFICES ASSUME NEW i \in 1..(Len(l) - 1)
                 PROVE  Follows(l[i], l[i + 1])
      BY DEF Chained
    <2>1. /\ i \in 1..(Len(l \o m) - 1)
          /\ (l \o m)[i] = l[i] /\ (l \o m)[i + 1] = l[i + 1]
      BY <1>1
    <2>2. Follows((l \o m)[i], (l \o m)[i + 1])
      BY <2>1 DEF Chained
    <2> QED
      BY <2>1, <2>2
  <1>3. ASSUME NEW s \in Int, Below(l \o m, s)
        PROVE  Below(l, s)
    <2> SUFFICES ASSUME NEW i \in 1..Len(l)
                 PROVE  l[i][1] < s
      BY DEF Below
    <2>1. i \in 1..Len(l \o m) /\ (l \o m)[i] = l[i]
      BY <1>1
    <2> QED
      BY <1>3, <2>1 DEF Below
  <1> QED
    BY <1>2, <1>3

LEMMA SuffixInOrder ==
    ASSUME NEW l \in Seq(Units), NEW m \in Seq(Units), Chained(l \o m)
    PROVE  /\ Chained(m)
           /\ \A s \in Int : Below(l \o m, s) => Below(m, s)
           /\ \A u : EndsAt(l \o m, u) => EndsAt(m, u)
  <1>1. /\ Len(l) \in Nat /\ Len(m) \in Nat /\ Len(l \o m) = Len(l) + Len(m)
        /\ \A i \in 1..Len(m) : (l \o m)[Len(l) + i] = m[i]
    <2>1. Len(l) \in Nat /\ Len(m) \in Nat /\ Len(l \o m) = Len(l) + Len(m)
      BY LenProperties, ConcatProperties
    <2>2. \A i \in 1..Len(l \o m) :
             (l \o m)[i] = IF i <= Len(l) THEN l[i] ELSE m[i - Len(l)]
      BY ConcatProperties
    <2> QED
      BY <2>1, <2>2
  <1>2. Chained(m)
    <2> SUFFICES ASSUME NEW i \in 1..(Len(m) - 1)
                 PROVE  Follows(m[i], m[i + 1])
      BY DEF Chained
    <2>1. Len(l) + i \in 1..(Len(l \o m) - 1)
      BY <1>1
    <2>2. Follows((l \o m)[Len(l) + i], (l \o m)[(Len(l) + i) + 1])
      BY <2>1 DEF Chained
    <2>3. /\ (l \o m)[Len(l) + i] = m[i]
          /\ (l \o m)[(Len(l) + i) + 1] = m[i + 1]
      <3>1. i \in 1..Len(m) /\ i + 1 \in 1..Len(m)
        BY <1>1
      <3>2. (Len(l) + i) + 1 = Len(l) + (i + 1)
        BY <1>1
      <3> QED
        BY <1>1, <3>1, <3>2
    <2> QED
      BY <2>2, <2>3
  <1>3. ASSUME NEW s \in Int, Below(l \o m, s)
        PROVE  Below(m, s)
    <2> SUFFICES ASSUME NEW i \in 1..Len(m)
                 PROVE  m[i][1] < s
      BY DEF Below
    <2>1. Len(l) + i \in 1..Len(l \o m)
      BY <1>1
    <2> QED
      BY <1>1, <1>3, <2>1 DEF Below
  <1>4. ASSUME NEW u, EndsAt(l \o m, u)
        PROVE  EndsAt(m, u)
    <2> SUFFICES ASSUME m # << >>
                 PROVE  m[Len(m)] = u
      BY DEF EndsAt
    <2>1. Len(m) \in 1..Len(m)
      BY <1>1, EmptySeq
    <2>2. l \o m # << >> /\ (l \o m)[Len(l \o m)] = m[Len(m)]
      BY <1>1, <2>1
    <2> QED
      BY <1>4, <2>2 DEF EndsAt
  <1> QED
    BY <1>2, <1>3, <1>4

\* A pass of the codec behind what is already on its way.
LEMMA PassInOrder ==
    ASSUME NEW l \in Seq(Units), NEW m \in Seq(Units), Chained(l),
           NEW s \in Streams, NEW d \in Nat,
           \A i \in 1..Len(m) : m[i] = <<s, d + i>>,
           d = 0 => Below(l, s), d # 0 => EndsAt(l, <<s, d>>)
    PROVE  /\ Chained(l \o m)
           /\ m # << >> => EndsAt(l \o m, <<s, d + Len(m)>>)
           /\ \A t \in Int : s < t /\ Below(l, t) => Below(l \o m, t)
  <1>1. /\ Len(l) \in Nat /\ Len(m) \in Nat /\ Len(l \o m) = Len(l) + Len(m)
        /\ \A i \in 1..(Len(l) + Len(m)) :
              (l \o m)[i] = IF i <= Len(l) THEN l[i] ELSE m[i - Len(l)]
    BY LenProperties, ConcatProperties
  <1>2. \A i \in (Len(l) + 1)..(Len(l) + Len(m)) :
           (l \o m)[i] = <<s, d + (i - Len(l))>>
    <2> TAKE i \in (Len(l) + 1)..(Len(l) + Len(m))
    <2>1. i - Len(l) \in 1..Len(m) /\ i \in 1..(Len(l) + Len(m)) /\ ~(i <= Len(l))
      BY <1>1
    <2> QED
      BY <1>1, <2>1
  <1>3. Chained(l \o m)
    <2> SUFFICES ASSUME NEW i \in 1..(Len(l \o m) - 1)
                 PROVE  Follows((l \o m)[i], (l \o m)[i + 1])
      BY DEF Chained
    <2>1. CASE i < Len(l)
      <3>1. i \in 1..(Len(l) - 1) /\ i + 1 \in 1..Len(l)
        BY <1>1, <2>1
      <3>2. (l \o m)[i] = l[i] /\ (l \o m)[i + 1] = l[i + 1]
        BY <1>1, <3>1
      <3> QED
        BY <3>1, <3>2 DEF Chained
    <2>2. CASE i = Len(l)
      <3>1. (l \o m)[i] = l[i] /\ (l \o m)[i + 1] = <<s, d + 1>>
        <4>1. i + 1 \in (Len(l) + 1)..(Len(l) + Len(m)) /\ (i + 1) - Len(l) = 1
              /\ i \in 1..(Len(l) + Len(m)) /\ i <= Len(l)
          BY <1>1, <2>2
        <4> QED
          BY <1>1, <1>2, <4>1
      <3>2. CASE d = 0
        <4>1. l[i][1] < s /\ (l \o m)[i] = l[i]
          BY <1>1, <2>2, <3>1, <3>2 DEF Below
        <4>2. <<s, d + 1>>[1] = s /\ <<s, d + 1>>[2] = 1 /\ s > l[i][1]
          BY <3>2, <4>1
        <4> QED
          BY <3>1, <4>1, <4>2 DEF Follows
      <3>3. CASE d # 0
        <4>1. l # << >>
          BY <1>1, <2>2, EmptySeq
        <4>2. l[i] = <<s, d>>
          BY <2>2, <3>3, <4>1 DEF EndsAt
        <4> QED
          BY <3>1, <4>2 DEF Follows
      <3> QED
        BY <3>2, <3>3
    <2>3. CASE i > Len(l)
      <3>1. /\ i \in (Len(l) + 1)..(Len(l) + Len(m))
            /\ i + 1 \in (Len(l) + 1)..(Len(l) + Len(m))
            /\ d + ((i + 1) - Len(l)) = (d + (i - Len(l))) + 1
        <4>1. i \in Int /\ Len(l) \in Int /\ Len(m) \in Int /\ d \in Int
              /\ i > Len(l) /\ i < Len(l) + Len(m)
          BY <1>1, <2>3
        <4> QED
          BY <4>1
      <3>2. /\ (l \o m)[i] = <<s, d + (i - Len(l))>>
            /\ (l \o m)[i + 1] = <<s, (d + (i - Len(l))) + 1>>
        BY <1>2, <3>1
      <3> QED
        BY <3>2 DEF Follows
    <2> QED
      BY <1>1, <2>1, <2>2, <2>3
  <1>4. ASSUME m # << >>
        PROVE  EndsAt(l \o m, <<s, d + Len(m)>>)
    <2>1. Len(m) \in Nat \ {0}
      BY <1>1, <1>4, EmptySeq
    <2>2. /\ Len(l) + Len(m) \in (Len(l) + 1)..(Len(l) + Len(m))
          /\ (Len(l) + Len(m)) - Len(l) = Len(m)
      BY <1>1, <2>1
    <2> QED
      BY <1>1, <1>2, <2>2 DEF EndsAt
  <1>5. ASSUME NEW t \in Int, s < t, Below(l, t)
        PROVE  Below(l \o m, t)
    <2> SUFFICES ASSUME NEW i \in 1..(Len(l) + Len(m))
                 PROVE  (l \o m)[i][1] < t
      BY <1>1 DEF Below
    <2>1. CASE i <= Len(l)
      BY <1>1, <1>5, <2>1 DEF Below
    <2>2. CASE i > Len(l)
      BY <1>1, <1>2, <1>5, <2>2
    <2> QED
      BY <1>1, <2>1, <2>2
  <1> QED
    BY <1>3, <1>4, <1>5

-----------------------------------------------------------------------------
(* The steps.                                                              *)

\* The parts of the line, and the line, are sequences of units.
LEMMA LineTyped ==
    ASSUME Typed
    PROVE  /\ sink \in Seq(Units) /\ output \in Seq(Units) /\ work \in Seq(Units)
           /\ source \in Seq(Units) /\ leftover \in Seq(Units)
           /\ sink \o output \o work \o source \in Seq(Units)
           /\ Line \in Seq(Units)
  <1>1. /\ sink \in Seq(Units) /\ output \in Seq(Units) /\ work \in Seq(Units)
        /\ source \in Seq(Units) /\ leftover \in Seq(Units)
    BY DEF Typed, TypeOK, DecoderTypes, BufferTypes, ProcessorTypes
  <1>2. \A s, t \in Seq(Units) : s \o t \in Seq(Units)
    BY ConcatProperties
  <1>3. sink \o output \o work \o source \in Seq(Units)
    BY <1>1, <1>2
  <1> QED
    BY <1>1, <1>2, <1>3 DEF Line

\* A line of parts, taken in other groups.
Regrouped(s, t, u) == (s \o t) \o u = s \o (t \o u)
InPairs(s, t, u, v) == s \o t \o u \o v = (s \o t) \o (u \o v)
BackPaired(s, t, u, v, w) == s \o t \o u \o v \o w = (s \o t \o u) \o (v \o w)
FrontApart(f, s, t, u, v, w) ==
    (f \o s) \o t \o u \o v \o w = f \o (s \o t \o u \o v \o w)

LEMMA Regrouping ==
    \A s, t, u \in Seq(Units) : Regrouped(s, t, u) /\ s \o t \in Seq(Units)
  <1> TAKE s, t, u \in Seq(Units)
  <1>1. Regrouped(s, t, u)
    BY Regroup, Zenon DEF Regrouped
  <1>2. s \o t \in Seq(Units)
    BY ConcatProperties
  <1> QED
    BY <1>1, <1>2

LEMMA Pairing ==
    \A s, t, u, v, w \in Seq(Units) :
       InPairs(s, t, u, v) /\ BackPaired(s, t, u, v, w)
  <1> TAKE s, t, u, v, w \in Seq(Units)
  <1>1. s \o t \in Seq(Units)
    BY Regrouping
  <1>2. (s \o t) \o u \in Seq(Units)
    BY <1>1, Regrouping
  <1>3. Regrouped(s \o t, u, v)
    BY <1>1, Regrouping
  <1>4. Regrouped((s \o t) \o u, v, w)
    BY <1>2, Regrouping
  <1> QED
    BY <1>3, <1>4, Zenon DEF Regrouped, InPairs, BackPaired

LEMMA SplitFront ==
    \A f, s, t, u, v, w \in Seq(Units) : FrontApart(f, s, t, u, v, w)
  <1> TAKE f, s, t, u, v, w \in Seq(Units)
  <1>1. s \o t \in Seq(Units) /\ Regrouped(f, s, t)
    BY Regrouping
  <1>2. s \o t \o u \in Seq(Units) /\ Regrouped(f, s \o t, u)
    BY <1>1, Regrouping
  <1>3. s \o t \o u \o v \in Seq(Units) /\ Regrouped(f, s \o t \o u, v)
    BY <1>2, Regrouping
  <1>4. Regrouped(f, s \o t \o u \o v, w)
    BY <1>3, Regrouping
  <1> QED
    BY <1>1, <1>2, <1>3, <1>4, Zenon DEF Regrouped, FrontApart

\* Units that leave the line at its front disturb nothing, nor do units that
\* only move along it.
LEMMA FrontLeaves ==
    ASSUME Ordered, NEW front \in Seq(Units), Line = front \o Line', Line' \in Seq(Units),
           dstep = "cancel" => dstep' = dstep,
           UNCHANGED <<opened, mailbox, stream, decoded, next>>
    PROVE  (Gapless /\ WhereItGoesOn)'
  <1> DEFINE line == Line'
  <1>1. /\ Typed /\ Chained(front \o line) /\ line \in Seq(Units)
        /\ WhereItGoesOn
    BY DEF Ordered, Gapless, Chained
  <1>2. /\ opened \in Int /\ stream \in Int /\ next \in Int
        /\ mailbox # << >> => Head(mailbox) \in Int
    BY <1>1, PipelineAssumption DEF Typed, TypeOK, DecoderTypes, Streams, NoStream
  <1>3. /\ Chained(line)
        /\ \A s \in Int : Below(Line, s) => Below(line, s)
        /\ \A u : EndsAt(Line, u) => EndsAt(line, u)
    <2> HIDE DEF line
    <2>1. Line = front \o line
      BY DEF line
    <2> QED
      BY <1>1, <2>1, SuffixInOrder
  <1>4. Gapless'
    BY <1>3 DEF Gapless, Chained
  <1>5. WhereItGoesOn'
    <2>1. /\ opened + 1 \in Int
          /\ opened' = opened /\ mailbox' = mailbox /\ stream' = stream
          /\ decoded' = decoded /\ next' = next
      BY <1>2
    <2>2. /\ Below(Line, opened + 1) => Below(line, opened + 1)
          /\ Below(Line, stream) => Below(line, stream)
          /\ Below(Line, next) => Below(line, next)
          /\ mailbox # << >> /\ Below(Line, Head(mailbox)) => Below(line, Head(mailbox))
      BY <1>2, <1>3, <2>1
    <2> QED
      BY <1>1, <1>3, <2>1, <2>2 DEF WhereItGoesOn, Below, EndsAt
  <1> QED
    BY <1>4, <1>5

\* Steps at which no unit moves and the decoder stays where it is.
LEMMA LineKept ==
    ASSUME Ordered, Line' = Line,
           dstep = "cancel" => dstep' = dstep,
           UNCHANGED <<opened, mailbox, stream, decoded, next>>
    PROVE  (Gapless /\ WhereItGoesOn)'
  <1>1. << >> \in Seq(Units) /\ Line \in Seq(Units) /\ Line = << >> \o Line
    BY LineTyped, ConcatEmptySeq DEF Ordered
  <1> QED
    BY <1>1, FrontLeaves

\* The units a command, an event, a cue or a counter stands for stay where they are.
LEMMA QuietInOrder ==
    ASSUME Ordered,
           \/ BeginStream \/ DecodeOver \/ Announce
           \/ SetAside \/ GoOn \/ HandleBegin \/ HandleSamples \/ HandleEnd
           \/ EventHandler \/ StreamHeartbeat \/ TogglePlayPause \/ LeavePlayback
                \/ UNCHANGED vars
    PROVE  (Gapless /\ WhereItGoesOn)'
  <1> USE DEF decoder, processor, counters, player, user
  <1>1. /\ UNCHANGED <<sink, output, work, source, leftover>>
        /\ UNCHANGED <<opened, mailbox, stream, decoded, next>>
        /\ dstep = "cancel" => dstep' = dstep
    <2>1. CASE BeginStream \/ DecodeOver \/ Announce
      BY <2>1 DEF BeginStream, DecodeOver, Announce
    <2>2. CASE SetAside \/ GoOn \/ HandleBegin \/ HandleSamples \/ HandleEnd
      BY <2>2 DEF SetAside, GoOn, HandleBegin, HandleSamples, HandleEnd
    <2>3. CASE EventHandler \/ StreamHeartbeat \/ TogglePlayPause \/ LeavePlayback
                \/ UNCHANGED vars
      BY <2>3 DEF EventHandler, StreamStarted, StreamEnded, StreamHeartbeat,
                  TogglePlayPause, LeavePlayback, vars
    <2> QED
      BY <2>1, <2>2, <2>3
  <1> QED
    BY <1>1, LineKept DEF Line

\* Units move along the line: none is lost, and none overtakes another.
LEMMA MovesInOrder ==
    ASSUME Ordered, Typed', ContinueLeftover \/ FlushFirst \/ ProcessSamples
    PROVE  (Gapless /\ WhereItGoesOn)'
  <1> USE DEF decoder, processor, counters, player, user
  <1>0. /\ sink \in Seq(Units) /\ output \in Seq(Units) /\ work \in Seq(Units)
        /\ source \in Seq(Units) /\ leftover \in Seq(Units)
    BY LineTyped DEF Ordered
  <1>01. /\ sink' \in Seq(Units) /\ output' \in Seq(Units) /\ work' \in Seq(Units)
         /\ source' \in Seq(Units)
    BY DEF Typed, TypeOK, DecoderTypes, BufferTypes, ProcessorTypes
  <1>02. /\ Len(source) <= SourceSlots /\ SourceSlots \in Nat
         /\ Len(sink) <= SinkSlots /\ SinkSlots \in Nat /\ sent \in Nat
         /\ Len(output) <= 2
    BY PipelineAssumption DEF Ordered, Typed, TypeOK, BufferTypes, ProcessorTypes
  <1>1. CASE ContinueLeftover
    <2>1. source' \o leftover' = source \o leftover
      BY <1>0, <1>02, <1>1, CutUnits DEF ContinueLeftover
    <2>2. /\ UNCHANGED <<sink, output, work>>
          /\ UNCHANGED <<opened, mailbox, stream, decoded, next>>
          /\ dstep # "cancel"
      BY <1>1 DEF ContinueLeftover
    <2>3. leftover' \in Seq(Units)
      BY DEF Typed, TypeOK, DecoderTypes
    <2>4. Line' = (sink \o output \o work) \o (source' \o leftover')
      <3>1. Line' = sink \o output \o work \o source' \o leftover'
        BY <2>2 DEF Line
      <3> QED
        <4>1. BackPaired(sink, output, work, source', leftover')
          BY <1>0, <1>01, <2>3, Pairing
        <4> QED
          BY <3>1, <4>1, Zenon DEF BackPaired
    <2>5. Line = (sink \o output \o work) \o (source \o leftover)
      <3>1. BackPaired(sink, output, work, source, leftover)
        BY <1>0, Pairing
      <3> QED
        BY <3>1, Zenon DEF BackPaired, Line
    <2> QED
      BY <2>1, <2>2, <2>4, <2>5, LineKept
  <1>2. CASE FlushFirst \/ ProcessSamples
    <2>1. /\ UNCHANGED <<opened, mailbox, stream, decoded, next, leftover>>
          /\ dstep' = dstep
      BY <1>2 DEF FlushFirst, ProcessSamples
    <2>2. PICK units \in Seq(Units) :
             /\ Len(units) <= 2 /\ Send(units)
             /\ units \o (work' \o source') = output \o (work \o source)
      <3>1. CASE FlushFirst
        <4>1. Send(output) /\ work' = work /\ source' = source
          BY <3>1 DEF FlushFirst
        <4> QED
          BY <1>0, <1>02, <4>1
      <3>2. CASE ProcessSamples
        BY <3>2, TurnTyped DEF Ordered
      <3> QED
        BY <1>2, <3>1, <3>2
    <2>3. sink' \o output' = sink \o units
      BY <1>0, <1>02, <2>2, SendTyped
    <2>4. sink' \o output' \o work' \o source' = sink \o output \o work \o source
      <3>1. work' \o source' \in Seq(Units) /\ work \o source \in Seq(Units)
        BY <1>0, <1>01, ConcatProperties
      <3>2. InPairs(sink', output', work', source') /\ InPairs(sink, output, work, source)
        BY <1>0, <1>01, Pairing
      <3>3. /\ Regrouped(sink, units, work' \o source')
            /\ Regrouped(sink, output, work \o source)
        BY <1>0, <2>2, <3>1, Regrouping
      <3>4. units \o (work' \o source') = output \o (work \o source)
        BY <2>2
      <3> QED
        BY <2>3, <3>2, <3>3, <3>4, Zenon DEF InPairs, Regrouped
    <2> QED
      BY <2>1, <2>4, LineKept DEF Line
  <1> QED
    BY <1>1, <1>2

\* Units that are heard, and units that a cancelled stream takes along, leave
\* the line at its front.
LEMMA LeavingInOrder ==
    ASSUME Ordered, Typed', Receive \/ ClearBuffers
    PROVE  (Gapless /\ WhereItGoesOn)'
  <1> USE DEF decoder, processor, counters, player, user
  <1>0. /\ sink \in Seq(Units) /\ output \in Seq(Units) /\ work \in Seq(Units)
        /\ source \in Seq(Units) /\ leftover \in Seq(Units)
    BY LineTyped DEF Ordered
  <1>01. \A s, t \in Seq(Units) : s \o t \in Seq(Units)
    BY ConcatProperties
  <1>02. Line' \in Seq(Units)
    <2>1. /\ sink' \in Seq(Units) /\ output' \in Seq(Units) /\ work' \in Seq(Units)
          /\ source' \in Seq(Units) /\ leftover' \in Seq(Units)
      BY DEF Typed, TypeOK, DecoderTypes, BufferTypes, ProcessorTypes
    <2> QED
      BY <1>01, <2>1 DEF Line
  <1>03. /\ UNCHANGED <<opened, mailbox, stream, decoded, next, leftover>>
         /\ dstep' = dstep
    BY DEF Receive, ClearBuffers
  <1>1. CASE Receive
    <2>1. PICK front \in Seq(Units) : sink' \in Seq(Units) /\ sink = front \o sink'
      <3>1. sink # << >> /\ sink' = Tail(sink)
        BY <1>1 DEF Receive
      <3>2. Head(sink) \in Units /\ Tail(sink) \in Seq(Units)
            /\ sink = <<Head(sink)>> \o Tail(sink)
        BY <1>0, <3>1, HeadTailProperties
      <3>3. <<Head(sink)>> \in Seq(Units)
        BY <3>2
      <3> QED
        BY <3>1, <3>2, <3>3
    <2>2. UNCHANGED <<output, work, source>>
      BY <1>1 DEF Receive
    <2>7. Line = front \o (sink' \o output \o work \o source \o leftover)
      <3>1. Line = (front \o sink') \o output \o work \o source \o leftover
        BY <2>1 DEF Line
      <3> QED
        <4>1. FrontApart(front, sink', output, work, source, leftover)
          BY <1>0, <2>1, SplitFront
        <4> QED
          BY <3>1, <4>1, Zenon DEF FrontApart
    <2>8. Line = front \o Line'
      BY <1>03, <2>2, <2>7 DEF Line
    <2> QED
      BY <1>02, <1>03, <2>1, <2>8, FrontLeaves
  <1>2. CASE ClearBuffers
    <2>1. PICK told \in 0..Len(source) : source' = SubSeq(source, told + 1, Len(source))
      BY <1>2 DEF ClearBuffers
    <2>2. PICK taken \in Seq(Units) : source' \in Seq(Units) /\ source = taken \o source'
      <3>1. /\ SubSeq(source, 1, told) \in Seq(Units)
            /\ SubSeq(source, told + 1, Len(source)) \in Seq(Units)
            /\ SubSeq(source, 1, told) \o SubSeq(source, told + 1, Len(source)) = source
        BY <1>0, CutInTwo
      <3> QED
        BY <2>1, <3>1
    <2>3. sink' = << >> /\ output' = << >> /\ work' = << >>
      BY <1>2 DEF ClearBuffers
    <2>4. Line' = source' \o leftover
      <3>1. << >> \o << >> = << >> /\ << >> \o source' = source'
            /\ << >> \in Seq(Units)
        BY <2>2, ConcatEmptySeq
      <3> QED
        BY <1>03, <2>3, <3>1 DEF Line
    <2> DEFINE ahead == sink \o output \o work
    <2>5. ahead \in Seq(Units) /\ ahead \o taken \in Seq(Units)
      BY <1>0, <1>01, <2>2
    <2>6. ahead \o source = (ahead \o taken) \o source'
      <3> HIDE DEF ahead
      <3> QED
        <4>1. Regrouped(ahead, taken, source')
          BY <2>2, <2>5, Regrouping
        <4> QED
          BY <2>2, <4>1 DEF Regrouped
    <2>7. Line = (ahead \o taken) \o (source' \o leftover)
      <3>1. Line = (ahead \o taken) \o source' \o leftover
        BY <2>6 DEF Line
      <3> HIDE DEF ahead
      <3> QED
        <4>1. Regrouped(ahead \o taken, source', leftover)
          BY <1>0, <2>2, <2>5, Regrouping
        <4> QED
          BY <3>1, <4>1, Zenon DEF Regrouped
    <2>8. Line = (ahead \o taken) \o Line'
      BY <2>4, <2>7
    <2> HIDE DEF ahead
    <2> QED
      BY <1>02, <1>03, <2>5, <2>8, FrontLeaves
  <1> QED
    BY <1>1, <1>2

\* A stream that is opened is later than every unit on its way, and the decoder
\* takes the streams in their order.
LEMMA StreamsInOrder ==
    ASSUME Ordered, Open \/ Stop \/ TakeStream \/ EndDecode
    PROVE  (Gapless /\ WhereItGoesOn)'
  <1> USE DEF decoder, processor, counters, player, user
  <1>0. Typed /\ Gapless /\ WhereItGoesOn
    BY DEF Ordered
  <1>01. /\ opened \in Nat /\ stream \in Nat /\ next \in Nat /\ decoded \in Nat
         /\ mailbox # << >> => Head(mailbox) \in Nat
    <2>1. /\ opened \in Nat /\ stream \in Nat /\ next \in Nat /\ decoded \in Nat
          /\ mailbox \in Seq(Nat)
      BY <1>0, PipelineAssumption DEF Typed, TypeOK, DecoderTypes, Streams, NoStream
    <2> QED
      BY <2>1
  <1>1. CASE Open
    <2>1. /\ UNCHANGED <<sink, output, work, source, leftover>>
          /\ UNCHANGED <<stream, decoded, next, dstep>>
          /\ opened' = opened + 1 /\ mailbox' = <<opened + 1>>
      BY <1>1 DEF Open
    <2>2. Line' = Line
      BY <2>1 DEF Line
    <2>3. Below(Line, opened + 1) /\ Below(Line, opened + 2)
      <3>1. Below(Line, opened + 1)
        BY <1>0 DEF WhereItGoesOn
      <3>2. \A i \in 1..Len(Line) : Line[i][1] \in Int
        <4>1. Line \in Seq(Units)
          BY <1>0, LineTyped
        <4> HIDE DEF Line
        <4>2. \A i \in 1..Len(Line) : Line[i] \in Units
          BY <4>1, ElementOfSeq
        <4> QED
          BY <4>2 DEF Units, Streams
      <3> QED
        BY <1>01, <3>1, <3>2 DEF Below
    <2>4. Head(mailbox') = opened + 1 /\ opened' + 1 = opened + 2
      BY <1>01, <2>1
    <2>5. WhereItGoesOn'
      BY <1>0, <1>01, <2>1, <2>2, <2>3, <2>4 DEF WhereItGoesOn, Below, EndsAt
    <2> QED
      BY <1>0, <2>2, <2>5 DEF Gapless
  <1>2. CASE Stop
    <2>1. /\ UNCHANGED <<sink, output, work, source, leftover>>
          /\ UNCHANGED <<stream, decoded, next, dstep, opened>>
          /\ mailbox' = <<NoStream>>
      BY <1>2 DEF Stop
    <2>2. Line' = Line
      BY <2>1 DEF Line
    <2>3. Head(mailbox') = NoStream
      BY <2>1
    <2>4. WhereItGoesOn'
      BY <1>0, <1>01, <2>1, <2>2, <2>3 DEF WhereItGoesOn, Below, EndsAt, NoStream
    <2> QED
      BY <1>0, <2>2, <2>4 DEF Gapless
  <1>3. CASE TakeStream
    <2>1. /\ UNCHANGED <<sink, output, work, source, leftover>>
          /\ opened' = opened /\ mailbox' = << >> /\ mailbox # << >>
          /\ dstep = "poll"
      BY <1>3 DEF TakeStream
    <2>2. Line' = Line
      BY <2>1 DEF Line
    <2>3. next = NoStream
      BY <1>0, <2>1 DEF WhereItGoesOn
    <2>4. CASE stream # NoStream
      <3>1. /\ next' = Head(mailbox) /\ dstep' = "cancel"
            /\ UNCHANGED <<stream, decoded>>
        BY <1>3, <2>4 DEF TakeStream
      <3> QED
        BY <1>0, <1>01, <2>1, <2>2, <3>1 DEF WhereItGoesOn, Gapless, Below, EndsAt
    <2>5. CASE stream = NoStream
      <3>1. next' = next /\ Prepare(Head(mailbox))
        BY <1>3, <2>5 DEF TakeStream
      <3>2. /\ stream' \in {Head(mailbox), NoStream} /\ decoded' = 0
        BY <3>1 DEF Prepare
      <3> QED
        BY <1>0, <1>01, <2>1, <2>2, <2>3, <3>1, <3>2
           DEF WhereItGoesOn, Gapless, Below, EndsAt, NoStream
    <2> QED
      BY <2>4, <2>5
  <1>4. CASE EndDecode
    <2>1. /\ UNCHANGED <<sink, output, work, source, leftover>>
          /\ UNCHANGED <<mailbox, opened, next>>
          /\ stream' = NoStream /\ dstep = "end"
      BY <1>4 DEF EndDecode
    <2>2. Line' = Line
      BY <2>1 DEF Line
    <2>3. next = NoStream
      BY <1>0, <2>1 DEF WhereItGoesOn
    <2> QED
      BY <1>0, <1>01, <2>1, <2>2, <2>3 DEF WhereItGoesOn, Gapless, Below, EndsAt, NoStream
  <1> QED
    BY <1>1, <1>2, <1>3, <1>4

\* A cancelled stream's leftover is thrown away, and the next one begins behind
\* what remains.
LEMMA CancelInOrder ==
    ASSUME Ordered, Typed', CancelDecode
    PROVE  (Gapless /\ WhereItGoesOn)'
  <1> USE DEF decoder, processor, counters, player, user
  <1> DEFINE kept == sink \o output \o work \o source
  <1>0. /\ Typed /\ Gapless /\ WhereItGoesOn
        /\ kept \in Seq(Units) /\ leftover \in Seq(Units)
    BY LineTyped DEF Ordered
  <1>1. /\ UNCHANGED <<sink, output, work, source, mailbox, opened>>
        /\ leftover' = << >> /\ next' = NoStream /\ Prepare(next)
    BY DEF CancelDecode
  <1>2. stream' \in {next, NoStream} /\ decoded' = 0
    BY <1>1 DEF Prepare
  <1>3. Line = kept \o leftover /\ Line' = kept
    <2>1. Line' = kept \o << >>
      BY <1>1 DEF Line
    <2>2. kept \o << >> = kept
      <3> HIDE DEF kept
      <3> QED
        BY <1>0, ConcatEmptySeq
    <2> QED
      BY <2>1, <2>2 DEF Line
  <1> HIDE DEF kept
  <1>4. Chained(kept) /\ \A s \in Int : Below(Line, s) => Below(kept, s)
    <2>1. Chained(kept \o leftover)
      BY <1>0, <1>3 DEF Gapless, Chained
    <2> QED
      BY <1>0, <1>3, <2>1, PrefixInOrder
  <1>5. /\ opened \in Nat /\ next \in Nat
        /\ mailbox # << >> => Head(mailbox) \in Nat
    <2>1. /\ opened \in 0..MaxStreams /\ next \in Streams \cup {NoStream}
          /\ mailbox \in Seq(Streams \cup {NoStream})
      BY <1>0 DEF Typed, TypeOK, DecoderTypes
    <2>2. Streams \cup {NoStream} \subseteq Nat /\ MaxStreams \in Nat
      BY PipelineAssumption DEF Streams, NoStream
    <2>3. mailbox # << >> => Head(mailbox) \in Streams \cup {NoStream}
      BY <2>1
    <2> QED
      BY <2>1, <2>2, <2>3
  <1>6. /\ Below(kept, opened + 1)
        /\ mailbox # << >> /\ Head(mailbox) # NoStream => Below(kept, Head(mailbox))
        /\ next # NoStream => Below(kept, next)
    BY <1>0, <1>4, <1>5 DEF WhereItGoesOn
  <1>7. Gapless'
    BY <1>3, <1>4 DEF Gapless, Chained
  <1>8. WhereItGoesOn'
    BY <1>0, <1>1, <1>2, <1>3, <1>5, <1>6 DEF WhereItGoesOn, Below, EndsAt, NoStream
  <1> QED
    BY <1>7, <1>8

\* A pass of the codec goes on where the last one ended.
LEMMA PassesInOrder ==
    ASSUME Ordered, Typed', DecodePass
    PROVE  (Gapless /\ WhereItGoesOn)'
  <1> USE DEF decoder, processor, counters, player, user
  <1>0. /\ Typed /\ Gapless /\ WhereItGoesOn
        /\ sink \in Seq(Units) /\ output \in Seq(Units) /\ work \in Seq(Units)
        /\ source \in Seq(Units) /\ Line \in Seq(Units)
        /\ sink \o output \o work \o source \in Seq(Units)
    BY LineTyped DEF Ordered
  <1>1. /\ UNCHANGED <<sink, output, work, mailbox, opened, stream, next>>
        /\ mailbox = << >> /\ leftover = << >> /\ stream # NoStream /\ dstep = "poll"
    BY DEF DecodePass
  <1>2. next = NoStream
    BY <1>0, <1>1 DEF WhereItGoesOn
  <1>3. /\ opened \in Nat /\ decoded \in Nat /\ stream \in Streams
        /\ DecodeSize \in Nat /\ MaxUnits \in Nat
        /\ Len(source) <= SourceSlots /\ SourceSlots \in Nat
        /\ stream <= opened /\ stream \in Nat
    BY <1>0, <1>1, PipelineAssumption
       DEF Typed, TypeOK, DecoderTypes, BufferTypes, Streams, WhereItGoesOn, NoStream
  <1>4. PICK units \in 1..Min({DecodeSize, formats[stream].units - decoded}) :
           /\ decoded' = decoded + units
           /\ Buffer([i \in 1..units |-> <<stream, decoded + i>>])
    BY DEF DecodePass
  <1>5. PICK new \in Seq(Units) :
           /\ Len(new) \in Nat \ {0} /\ decoded' = decoded + Len(new) /\ Buffer(new)
           /\ \A i \in 1..Len(new) : new[i] = <<stream, decoded + i>>
    <2> DEFINE pass == [i \in 1..units |-> <<stream, decoded + i>>]
    <2>3. units \in Nat \ {0} /\ decoded + units <= MaxUnits
      <3>1. units \in 1..DecodeSize /\ decoded + units <= MaxUnits
        BY <1>0, <1>3, <1>4, PassFits
      <3> QED
        BY <1>3, <3>1
    <2>4. pass \in Seq(Units) /\ Len(pass) = units
      BY <1>3, <2>3, PassTyped
    <2>5. \A i \in 1..units : pass[i] = <<stream, decoded + i>>
      OBVIOUS
    <2>6. Buffer(pass)
      BY <1>4
    <2> HIDE DEF pass
    <2> QED
      BY <1>4, <2>3, <2>4, <2>5, <2>6
  <1>6. source' \o leftover' = source \o new /\ source' \in Seq(Units)
        /\ leftover' \in Seq(Units)
    BY <1>0, <1>3, <1>5, CutUnits
  <1>7. Line' = Line \o new
    <2>1. /\ BackPaired(sink, output, work, source', leftover')
          /\ BackPaired(sink, output, work, source, new)
      BY <1>0, <1>5, <1>6, Pairing
    <2>2. Line' = sink \o output \o work \o source' \o leftover'
      BY <1>1 DEF Line
    <2>3. Line = sink \o output \o work \o source
      <3> DEFINE kept == sink \o output \o work \o source
      <3>1. kept \o << >> = kept
        <4>1. kept \in Seq(Units)
          BY <1>0
        <4> HIDE DEF kept
        <4> QED
          BY <4>1, ConcatEmptySeq
      <3> QED
        BY <1>1, <3>1 DEF Line
    <2> QED
      BY <1>6, <2>1, <2>2, <2>3, Zenon DEF BackPaired
  <1>8. /\ Chained(Line \o new)
        /\ new # << >> => EndsAt(Line \o new, <<stream, decoded + Len(new)>>)
        /\ \A t \in Int : stream < t /\ Below(Line, t) => Below(Line \o new, t)
    <2> DEFINE line == Line
    <2>1. /\ line \in Seq(Units) /\ Chained(line)
          /\ decoded = 0 => Below(line, stream)
          /\ decoded # 0 => EndsAt(line, <<stream, decoded>>)
      BY <1>0, <1>1 DEF Gapless, Chained, WhereItGoesOn
    <2> HIDE DEF line
    <2>2. /\ Chained(line \o new)
          /\ new # << >> => EndsAt(line \o new, <<stream, decoded + Len(new)>>)
          /\ \A t \in Int : stream < t /\ Below(line, t) => Below(line \o new, t)
      BY <1>3, <1>5, <2>1, PassInOrder
    <2> QED
      BY <2>2 DEF line
  <1>9. Gapless'
    BY <1>7, <1>8 DEF Gapless, Chained
  <1>10. new # << >> /\ decoded' # 0 /\ Below(Line \o new, opened + 1)
    <2>1. new # << >> /\ decoded' # 0
      BY <1>3, <1>5, EmptySeq
    <2>2. opened + 1 \in Int /\ stream < opened + 1 /\ Below(Line, opened + 1)
      BY <1>0, <1>3 DEF WhereItGoesOn
    <2> QED
      BY <1>8, <2>1, <2>2
  <1>11. EndsAt(Line \o new, <<stream, decoded'>>)
    BY <1>5, <1>8, <1>10
  <1>12. WhereItGoesOn'
    <2> DEFINE grown == Line \o new
    <2>1. Line' = grown /\ Below(grown, opened + 1) /\ EndsAt(grown, <<stream, decoded'>>)
      BY <1>7, <1>10, <1>11
    <2> HIDE DEF grown
    <2> QED
      BY <1>0, <1>1, <1>2, <1>10, <2>1 DEF WhereItGoesOn, Below, EndsAt
  <1> QED
    BY <1>9, <1>12

\* The invariant holds at the start, and every step keeps it.
LEMMA OrderedInitially ==
    ASSUME Init
    PROVE  Ordered
  <1>1. Typed
    BY TypedInitially
  <1>2. Line = << >>
    <2>1. << >> \o << >> = << >>
      <3>1. << >> \in Seq(Units)
        OBVIOUS
      <3> QED
        BY <3>1, ConcatEmptySeq
    <2>2. sink = << >> /\ output = << >> /\ work = << >> /\ source = << >>
          /\ leftover = << >>
      BY DEF Init
    <2> QED
      BY <2>1, <2>2 DEF Line
  <1>3. Gapless
    BY <1>2 DEF Gapless
  <1>4. WhereItGoesOn
    BY <1>2 DEF Init, WhereItGoesOn, Below, EndsAt, NoStream
  <1> QED
    BY <1>1, <1>3, <1>4 DEF Ordered

LEMMA OrderedStep ==
    ASSUME Ordered, [Next]_vars
    PROVE  Ordered'
  <1>1. Typed'
    BY TypedStep DEF Ordered
  <1>2. (Gapless /\ WhereItGoesOn)'
    <2>1. CASE Decoder
      <3>1. CASE TakeStream \/ EndDecode
        BY <3>1, StreamsInOrder
      <3>2. CASE CancelDecode
        BY <1>1, <3>2, CancelInOrder
      <3>3. CASE DecodePass
        BY <1>1, <3>3, PassesInOrder
      <3>4. CASE ContinueLeftover
        BY <1>1, <3>4, MovesInOrder
      <3>5. CASE BeginStream \/ DecodeOver \/ Announce
        BY <3>5, QuietInOrder
      <3> QED
        BY <2>1, <3>1, <3>2, <3>3, <3>4, <3>5 DEF Decoder
    <2>2. CASE Processor
      <3>1. CASE FlushFirst \/ ProcessSamples
        BY <1>1, <3>1, MovesInOrder
      <3>2. CASE ClearBuffers
        BY <1>1, <3>2, LeavingInOrder
      <3>3. CASE SetAside \/ GoOn \/ HandleBegin \/ HandleSamples \/ HandleEnd
        BY <3>3, QuietInOrder
      <3> QED
        BY <2>2, <3>1, <3>2, <3>3 DEF Processor
    <2>3. CASE Receive
      BY <1>1, <2>3, LeavingInOrder
    <2>4. CASE Open \/ Stop
      BY <2>4, StreamsInOrder
    <2>5. CASE EventHandler \/ StreamHeartbeat \/ TogglePlayPause \/ LeavePlayback
                \/ UNCHANGED vars
      BY <2>5, QuietInOrder
    <2> QED
      BY <2>1, <2>2, <2>3, <2>4, <2>5 DEF Next
  <1> QED
    BY <1>1, <1>2 DEF Ordered

\* What is decoded is heard gaplessly, in order and once, whatever is opened,
\* stopped and paused, and however full a buffer is.
THEOREM PlayedGapless == Spec => []Gapless
  <1>1. Ordered => Gapless
    BY DEF Ordered
  <1> QED
    BY <1>1, OrderedInitially, OrderedStep, PTL DEF Spec
=============================================================================
