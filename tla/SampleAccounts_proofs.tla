------------------------ MODULE SampleAccounts_proofs ------------------------
(***************************************************************************)
(* For any number of streams and units and any sizes of buffers and queues: *)
(* the commands on their way to the sample processor account for exactly    *)
(* the units in the stream buffer, and no unit is converted by a resampler  *)
(* that is set up for another stream.                                       *)
(***************************************************************************)
EXTENDS SamplePipeline_proofs, WellFoundedInduction

-----------------------------------------------------------------------------
(* Induction over the natural numbers, for a set of them.                  *)

LEMMA LeastNumber ==
    \A T \in SUBSET Nat : T # {} => \E x \in T : \A y \in T : ~(y < x)
  <1> TAKE T \in SUBSET Nat
  <1> HAVE T # {}
  <1> DEFINE R == OpToRel(<, Nat)
  <1>1. IsWellFoundedOn(R, Nat)
    BY NatLessThanWellFounded
  <1>2. \A x, y \in Nat : x < y => <<x, y>> \in R
    BY DEF OpToRel
  <1> HIDE DEF R
  <1>3. \E x \in T : \A y \in T : ~(<<y, x>> \in R)
    BY <1>1, WFMin
  <1> QED
    BY <1>2, <1>3

LEMMA NatInduct ==
    \A T \in SUBSET Nat : 0 \in T /\ (\A n \in T : n + 1 \in T) => T = Nat
  <1> SUFFICES ASSUME NEW T \in SUBSET Nat, 0 \in T, \A n \in T : n + 1 \in T,
                      Nat \ T # {}
               PROVE  FALSE
    OBVIOUS
  <1>1. PICK x \in Nat \ T : \A y \in Nat \ T : ~(y < x)
    BY LeastNumber
  <1>2. x - 1 \in Nat /\ x - 1 < x /\ (x - 1) + 1 = x
    <2>1. x # 0
      OBVIOUS
    <2> QED
      BY <2>1
  <1> QED
    BY <1>1, <1>2

-----------------------------------------------------------------------------
(* What a queue of commands announces.                                     *)

Running(queue, n, s) ==
    s = [i \in 0..n |-> IF i = 0 THEN 0 ELSE s[i - 1] + queue[i].units]

LEMMA AnnouncedRuns ==
    \A queue : (\E s : Running(queue, Len(queue), s))
        => \E s : /\ Running(queue, Len(queue), s)
                  /\ Announced(queue) = s[Len(queue)]
  BY DEF Announced, Running

\* Running totals of a queue, from any number on.
Totals(queue, at) ==
    /\ at \in [0..Len(queue) -> Nat]
    /\ \A i \in 1..Len(queue) : at[i] = at[i - 1] + queue[i].units

LEMMA AnnouncedTotal ==
    ASSUME NEW queue \in Seq(Commands), NEW at, Totals(queue, at)
    PROVE  Announced(queue) = at[Len(queue)] - at[0]
  <1> DEFINE n == Len(queue)
             t == [i \in 0..n |-> at[i] - at[0]]
  <1>0. /\ n \in Nat /\ \A i \in 0..n : at[i] \in Nat
        /\ \A i \in 1..n : i - 1 \in 0..n /\ i \in 0..n
        /\ \A i \in 1..n : at[i] = at[i - 1] + queue[i].units
    BY DEF Totals
  <1>1. \A i \in 1..n : queue[i].units \in Int
    <2> TAKE i \in 1..n
    <2>1. queue[i] \in Commands
      BY ElementOfSeq
    <2> QED
      BY <2>1, PipelineAssumption DEF Commands
  <1>2. Running(queue, n, t)
    <2>1. \A i \in 0..n : t[i] = IF i = 0 THEN 0 ELSE t[i - 1] + queue[i].units
      BY <1>0, <1>1
    <2> QED
      BY <2>1 DEF Running
  <1>3. PICK s : Running(queue, n, s) /\ Announced(queue) = s[n]
    BY <1>2, AnnouncedRuns
  <1>4. \A i \in 0..n : s[i] = IF i = 0 THEN 0 ELSE s[i - 1] + queue[i].units
    <2> DEFINE body == [i \in 0..n |-> IF i = 0 THEN 0 ELSE s[i - 1] + queue[i].units]
    <2>1. s = body
      BY <1>3 DEF Running
    <2>2. \A i \in 0..n : body[i] = IF i = 0 THEN 0 ELSE s[i - 1] + queue[i].units
      OBVIOUS
    <2> HIDE DEF body
    <2> QED
      BY <2>1, <2>2
  <1> DEFINE same == {i \in Nat : i <= n => s[i] = t[i]}
  <1>5. 0 \in same
    BY <1>0, <1>4
  <1>6. \A i \in same : i + 1 \in same
    <2> TAKE i \in same
    <2>1. CASE i + 1 <= n
      <3>1. /\ s[i + 1] = s[i] + queue[i + 1].units
            /\ t[i] = at[i] - at[0] /\ t[i + 1] = at[i + 1] - at[0]
            /\ at[i + 1] = at[i] + queue[i + 1].units
            /\ at[i] \in Nat /\ queue[i + 1].units \in Int /\ at[0] \in Nat
        BY <1>0, <1>1, <1>4, <2>1
      <3> QED
        BY <2>1, <3>1
    <2>2. CASE ~(i + 1 <= n)
      BY <2>2
    <2> QED
      BY <2>1, <2>2
  <1> HIDE DEF same
  <1>7. same = Nat
    <2>1. same \in SUBSET Nat
      BY DEF same
    <2> QED
      BY <1>5, <1>6, <2>1, NatInduct
  <1>8. s[n] = t[n]
    <2>1. n \in same /\ n <= n
      BY <1>0, <1>7
    <2> QED
      BY <2>1 DEF same
  <1>9. t[n] = at[n] - at[0]
    BY <1>0
  <1> HIDE DEF t
  <1> QED
    BY <1>3, <1>8, <1>9

-----------------------------------------------------------------------------
(* The commands on their way come in turn: a stream begins, its units are   *)
(* announced, and it ends or is cancelled before the next one begins.       *)

Closes(c) == c.kind \in {"end", "cancel"}

Succeeds(c, d) ==
    IF Closes(c) THEN d.kind = "begin" ELSE d.kind # "begin" /\ d.stream = c.stream

\* A queue in turn, the stream the decoder is in the middle of, the one that the
\* resampler is set up for, and the number of units of that one still to convert.
InTurn(queue, current, fmt, busy) ==
    /\ \A i \in 1..(Len(queue) - 1) : Succeeds(queue[i], queue[i + 1])
    /\ Len(queue) > 0 =>
          /\ IF queue[1].kind = "begin" THEN busy = 0 ELSE queue[1].stream = fmt
          /\ IF Closes(queue[Len(queue)]) THEN current = NoStream
             ELSE current = queue[Len(queue)].stream
    /\ Len(queue) = 0 => IF current = NoStream THEN busy = 0 ELSE current = fmt

LEMMA CommandFields ==
    \A c \in Commands :
        /\ c.stream \in Streams /\ c.stream # NoStream /\ c.units \in Nat
        /\ c.kind \in {"begin", "samples", "end", "cancel"}
        /\ c.kind # "samples" => c.units = 0
  BY PipelineAssumption DEF Commands, Streams, NoStream

\* The decoder sends the next command.
LEMMA InTurnSent ==
    ASSUME NEW queue \in Seq(Commands), NEW c \in Commands, NEW current, NEW fmt,
           NEW busy, InTurn(queue, current, fmt, busy),
           IF current = NoStream THEN c.kind = "begin"
           ELSE c.kind # "begin" /\ c.stream = current
    PROVE  InTurn(Append(queue, c), IF Closes(c) THEN NoStream ELSE c.stream, fmt, busy)
  <1> DEFINE longer == Append(queue, c)
             n == Len(queue)
  <1>1. /\ n \in Nat /\ Len(longer) = n + 1 /\ longer[n + 1] = c
        /\ \A i \in 1..n : longer[i] = queue[i]
    BY AppendProperties
  <1> HIDE DEF longer
  <1>2. \A i \in 1..n : Succeeds(longer[i], longer[i + 1])
    <2> TAKE i \in 1..n
    <2>1. CASE i < n
      BY <1>1, <2>1 DEF InTurn
    <2>2. CASE i = n
      <3>1. queue[n] \in Commands /\ n > 0
        BY <2>2, ElementOfSeq
      <3>2. queue[n].stream # NoStream
        BY <3>1, CommandFields
      <3>3. longer[i] = queue[n] /\ longer[i + 1] = c
        BY <1>1, <2>2
      <3>4. IF Closes(queue[n]) THEN current = NoStream ELSE current = queue[n].stream
        BY <3>1 DEF InTurn
      <3> QED
        BY <3>2, <3>3, <3>4 DEF Succeeds
    <2> QED
      BY <1>1, <2>1, <2>2
  <1>3. IF longer[1].kind = "begin" THEN busy = 0 ELSE longer[1].stream = fmt
    <2>1. CASE n = 0
      BY <1>1, <2>1 DEF InTurn
    <2>2. CASE n > 0
      BY <1>1, <2>2 DEF InTurn
    <2> QED
      BY <1>1, <2>1, <2>2
  <1> HIDE DEF n
  <1>4. InTurn(longer, IF Closes(c) THEN NoStream ELSE c.stream, fmt, busy)
    BY <1>1, <1>2, <1>3 DEF InTurn
  <1> QED
    BY <1>4 DEF longer

\* What is left of a sequence behind its first elements.
Behind(s, m, t) ==
    /\ Len(t) = Len(s) - m
    /\ \A i \in 1..Len(t) : t[i] = s[i + m]

\* The processor has dealt with the first commands.
LEMMA InTurnHandled ==
    ASSUME NEW queue \in Seq(Commands), NEW rest \in Seq(Commands),
           NEW m \in 1..Len(queue), Behind(queue, m, rest),
           NEW current, NEW fmt, NEW busy, InTurn(queue, current, fmt, busy),
           NEW fmt2, NEW busy2,
           IF Closes(queue[m]) THEN busy2 = 0 ELSE queue[m].stream = fmt2
    PROVE  InTurn(rest, current, fmt2, busy2)
  <1> DEFINE n == Len(rest)
  <1>1. /\ n \in Nat /\ Len(queue) \in Nat /\ n = Len(queue) - m
        /\ \A i \in 1..n : rest[i] = queue[i + m] /\ i + m \in 1..Len(queue)
    BY DEF Behind
  <1>2. \A i \in 1..(n - 1) : Succeeds(rest[i], rest[i + 1])
    <2> TAKE i \in 1..(n - 1)
    <2>1. /\ rest[i] = queue[i + m] /\ rest[i + 1] = queue[(i + m) + 1]
          /\ i + m \in 1..(Len(queue) - 1)
      BY <1>1
    <2> QED
      BY <2>1 DEF InTurn
  <1>3. n > 0 => IF rest[1].kind = "begin" THEN busy2 = 0 ELSE rest[1].stream = fmt2
    <2> HAVE n > 0
    <2>1. rest[1] = queue[m + 1] /\ m \in 1..(Len(queue) - 1)
      BY <1>1
    <2>2. Succeeds(queue[m], queue[m + 1])
      BY <2>1 DEF InTurn
    <2> QED
      BY <2>1, <2>2 DEF Succeeds
  <1>4. n > 0 => rest[n] = queue[Len(queue)] /\ Len(queue) > 0
    BY <1>1
  <1>5. n = 0 => IF current = NoStream THEN busy2 = 0 ELSE current = fmt2
    <2> HAVE n = 0
    <2>1. m = Len(queue) /\ Len(queue) > 0
      BY <1>1
    <2>2. IF Closes(queue[m]) THEN current = NoStream ELSE current = queue[m].stream
      BY <2>1 DEF InTurn
    <2>3. queue[m].stream # NoStream
      BY CommandFields, ElementOfSeq
    <2> QED
      BY <2>2, <2>3
  <1>6. n > 0 => IF Closes(rest[n]) THEN current = NoStream ELSE current = rest[n].stream
    BY <1>4 DEF InTurn
  <1> HIDE DEF n
  <1> QED
    BY <1>2, <1>3, <1>5, <1>6 DEF InTurn, n

-----------------------------------------------------------------------------
(* The units in the stream buffer are those that the commands announce, each *)
(* of them by a command of its own stream.                                   *)

\* Counted from the front of the stream buffer: the units the processor knows of,
\* which belong to the stream it is set up for; those of every command in the
\* queue, up to at[i] for the i-th; and the last ones, which the decoder is about
\* to announce for its stream.
AllottedUpTo(queue, units, told, untold, str, fmt, at) ==
    /\ Totals(queue, at)
    /\ at[0] = told
    /\ \A i, j \in 0..Len(queue) : i <= j => at[i] <= at[j]
    /\ Len(units) = at[Len(queue)] + untold
    /\ \A k \in 1..Len(units) :
          /\ k <= told => units[k][1] = fmt
          /\ \A i \in 1..Len(queue) :
                at[i - 1] < k /\ k <= at[i] => units[k][1] = queue[i].stream
          /\ at[Len(queue)] < k => units[k][1] = str

Allotted(queue, units, told, untold, str, fmt) ==
    \E at : AllottedUpTo(queue, units, told, untold, str, fmt, at)

LEMMA AllottedParts ==
    ASSUME NEW queue \in Seq(Commands), NEW units \in Seq(Units), NEW told \in Nat,
           NEW untold \in Nat, NEW str, NEW fmt, NEW at,
           AllottedUpTo(queue, units, told, untold, str, fmt, at)
    PROVE  /\ \A i \in 0..Len(queue) : at[i] \in Nat
           /\ \A i \in 1..Len(queue) : at[i] = at[i - 1] + queue[i].units
           /\ \A i, j \in 0..Len(queue) : i <= j => at[i] <= at[j]
           /\ at[0] = told
           /\ Len(units) = at[Len(queue)] + untold
           /\ Len(units) \in Nat
           /\ \A k \in 1..Len(units) : k <= told => units[k][1] = fmt
           /\ \A k \in 1..Len(units), i \in 1..Len(queue) :
                at[i - 1] < k /\ k <= at[i] => units[k][1] = queue[i].stream
           /\ \A k \in 1..Len(units) : at[Len(queue)] < k => units[k][1] = str
  <1>1. Totals(queue, at)
    BY DEF AllottedUpTo
  <1>2. /\ \A i \in 0..Len(queue) : at[i] \in Nat
        /\ \A i \in 1..Len(queue) : at[i] = at[i - 1] + queue[i].units
    BY <1>1 DEF Totals
  <1>3. /\ \A i, j \in 0..Len(queue) : i <= j => at[i] <= at[j]
        /\ at[0] = told
        /\ Len(units) = at[Len(queue)] + untold
    BY DEF AllottedUpTo
  <1>4. \A k \in 1..Len(units) : k <= told => units[k][1] = fmt
    BY Zenon DEF AllottedUpTo
  <1>5. \A k \in 1..Len(units), i \in 1..Len(queue) :
           at[i - 1] < k /\ k <= at[i] => units[k][1] = queue[i].stream
    BY Zenon DEF AllottedUpTo
  <1>6. \A k \in 1..Len(units) : at[Len(queue)] < k => units[k][1] = str
    BY Zenon DEF AllottedUpTo
  <1>7. Len(units) \in Nat
    OBVIOUS
  <1> QED
    BY <1>2, <1>3, <1>4, <1>5, <1>6, <1>7

\* The decoder announces the units it has put into the buffer.
LEMMA AllottedSent ==
    ASSUME NEW queue \in Seq(Commands), NEW units \in Seq(Units), NEW told \in Nat,
           NEW untold \in Nat, NEW str, NEW fmt,
           Allotted(queue, units, told, untold, str, fmt),
           NEW c \in Commands, c.units = untold, c.stream = str, NEW str2
    PROVE  Allotted(Append(queue, c), units, told, 0, str2, fmt)
  <1>1. PICK at : AllottedUpTo(queue, units, told, untold, str, fmt, at)
    BY DEF Allotted
  <1> DEFINE longer == Append(queue, c)
             n == Len(queue)
             at2 == [i \in 0..(n + 1) |-> IF i = n + 1 THEN Len(units) ELSE at[i]]
  <1>2. /\ n \in Nat /\ Len(longer) = n + 1 /\ longer[n + 1] = c
        /\ \A i \in 1..n : longer[i] = queue[i]
    BY AppendProperties
  <1>3. /\ \A i \in 0..n : at[i] \in Nat
        /\ \A i \in 1..n : at[i] = at[i - 1] + queue[i].units
        /\ \A i, j \in 0..n : i <= j => at[i] <= at[j]
        /\ Len(units) = at[n] + untold /\ Len(units) \in Nat /\ at[0] = told
        /\ \A k \in 1..Len(units) : k <= told => units[k][1] = fmt
        /\ \A k \in 1..Len(units), i \in 1..n :
              at[i - 1] < k /\ k <= at[i] => units[k][1] = queue[i].stream
        /\ \A k \in 1..Len(units) : at[n] < k => units[k][1] = str
    BY <1>1, AllottedParts
  <1>4. /\ \A i \in 0..n : at2[i] = at[i]
        /\ at2[n + 1] = Len(units)
    BY <1>2
  <1>9. at2 = [i \in 0..(n + 1) |-> at2[i]]
    BY <1>4
  <1> HIDE DEF n, longer, at2
  <1>5. Totals(longer, at2)
    <2>1. \A i \in 0..(n + 1) : at2[i] \in Nat
      BY <1>2, <1>3, <1>4
    <2>2. \A i \in 1..(n + 1) : at2[i] = at2[i - 1] + longer[i].units
      <3> TAKE i \in 1..(n + 1)
      <3>1. CASE i = n + 1
        BY <1>2, <1>3, <1>4, <3>1
      <3>2. CASE i # n + 1
        BY <1>2, <1>3, <1>4, <3>2
      <3> QED
        BY <3>1, <3>2
    <2> QED
      BY <1>2, <1>9, <2>1, <2>2 DEF Totals
  <1>6. \A i, j \in 0..(n + 1) : i <= j => at2[i] <= at2[j]
    <2>1. \A i \in 0..n : at[i] <= Len(units)
      <3> TAKE i \in 0..n
      <3>1. at[i] <= at[n] /\ at[i] \in Nat /\ at[n] \in Nat
        BY <1>2, <1>3
      <3> QED
        BY <1>3, <3>1
    <2> TAKE i, j \in 0..(n + 1)
    <2> HAVE i <= j
    <2>2. CASE j = n + 1
      BY <1>2, <1>3, <1>4, <2>1, <2>2
    <2>3. CASE j # n + 1
      BY <1>2, <1>3, <1>4, <2>3
    <2> QED
      BY <2>2, <2>3
  <1>7. ASSUME NEW k \in 1..Len(units), NEW i \in 1..(n + 1), at2[i - 1] < k,
               k <= at2[i]
        PROVE  units[k][1] = longer[i].stream
    <2>1. CASE i = n + 1
      BY <1>2, <1>3, <1>4, <1>7, <2>1
    <2>2. CASE i # n + 1
      <3>1. i \in 1..n /\ i - 1 \in 0..n /\ i \in 0..n
        BY <1>2, <2>2
      <3>2. at2[i - 1] = at[i - 1] /\ at2[i] = at[i] /\ longer[i] = queue[i]
        BY <1>2, <1>4, <3>1
      <3> QED
        BY <1>3, <1>7, <3>1, <3>2
    <2> QED
      BY <2>1, <2>2
  <1>8. AllottedUpTo(longer, units, told, 0, str2, fmt, at2)
    <2>1. at2[0] = told /\ Len(units) = at2[Len(longer)] + 0
      BY <1>2, <1>3, <1>4
    <2>2. \A k \in 1..Len(units) : ~(at2[Len(longer)] < k)
      BY <1>2, <1>3, <1>4
    <2> QED
      BY <1>2, <1>3, <1>5, <1>6, <1>7, <2>1, <2>2 DEF AllottedUpTo
  <1> QED
    BY <1>8 DEF Allotted, longer

\* The decoder puts units of its stream into the buffer.
LEMMA AllottedBuffered ==
    ASSUME NEW queue \in Seq(Commands), NEW units \in Seq(Units), NEW told \in Nat,
           NEW str, NEW fmt, Allotted(queue, units, told, 0, str, fmt),
           NEW front \in Seq(Units), \A k \in 1..Len(front) : front[k][1] = str
    PROVE  Allotted(queue, units \o front, told, Len(front), str, fmt)
  <1>1. PICK at : AllottedUpTo(queue, units, told, 0, str, fmt, at)
    BY DEF Allotted
  <1> DEFINE more == units \o front
             n == Len(queue)
  <1>2. /\ Len(units) \in Nat /\ Len(front) \in Nat /\ n \in Nat
        /\ Len(more) = Len(units) + Len(front)
        /\ \A k \in 1..Len(units) : more[k] = units[k]
    BY ConcatProperties
  <1>3. \A k \in 1..Len(more) : Len(units) < k => more[k][1] = str
    <2> TAKE k \in 1..Len(more)
    <2> HAVE Len(units) < k
    <2>1. k - Len(units) \in 1..Len(front)
      BY <1>2
    <2>2. more[k] = front[k - Len(units)]
      BY <1>2, ConcatProperties
    <2> QED
      BY <2>1, <2>2
  <1> HIDE DEF more
  <1>4. /\ at[0] = told /\ Len(units) = at[n] + 0
        /\ \A i \in 0..n : at[i] \in Nat
        /\ \A i, j \in 0..n : i <= j => at[i] <= at[j]
        /\ \A k \in 1..Len(units) : k <= told => units[k][1] = fmt
        /\ \A k \in 1..Len(units), i \in 1..n :
              at[i - 1] < k /\ k <= at[i] => units[k][1] = queue[i].stream
    BY <1>1, AllottedParts
  <1>9. Totals(queue, at)
    BY <1>1 DEF AllottedUpTo
  <1> HIDE DEF n
  <1>5. \A i \in 0..n : at[i] <= Len(units)
    BY <1>2, <1>4
  <1>6. told <= Len(units)
    BY <1>2, <1>4, <1>5
  <1>7. \A k \in 1..Len(more) :
              /\ k <= told => more[k][1] = fmt
              /\ \A i \in 1..n : at[i - 1] < k /\ k <= at[i]
                                    => more[k][1] = queue[i].stream
              /\ at[n] < k => more[k][1] = str
    <2> TAKE k \in 1..Len(more)
    <2>1. CASE k <= Len(units)
      <3>1. k \in 1..Len(units) /\ more[k] = units[k]
        BY <1>2, <2>1
      <3>2. ~(at[n] < k)
        BY <1>2, <1>4, <2>1
      <3> QED
        BY <1>4, <3>1, <3>2
    <2>2. CASE Len(units) < k
      <3>1. \A i \in 1..n : ~(k <= at[i])
        BY <1>2, <1>4, <1>5, <2>2
      <3>2. ~(k <= told)
        BY <1>2, <1>6, <2>2
      <3> QED
        BY <1>3, <2>2, <3>1, <3>2
    <2> QED
      BY <1>2, <2>1, <2>2
  <1>8. AllottedUpTo(queue, more, told, Len(front), str, fmt, at)
    BY <1>2, <1>4, <1>7, <1>9 DEF AllottedUpTo, n
  <1> QED
    BY <1>8 DEF Allotted, more

\* The processor deals with the first m commands and takes d units.
LEMMA AllottedHandled ==
    ASSUME NEW queue \in Seq(Commands), NEW units \in Seq(Units), NEW told \in Nat,
           NEW untold \in Nat, NEW str, NEW fmt, NEW at,
           AllottedUpTo(queue, units, told, untold, str, fmt, at),
           NEW rest \in Seq(Commands), NEW m \in 0..Len(queue), Behind(queue, m, rest),
           NEW left \in Seq(Units), NEW d \in 0..at[m], Behind(units, d, left),
           NEW fmt2,
           \A k \in 1..Len(units) : d < k /\ k <= at[m] => units[k][1] = fmt2
    PROVE  Allotted(rest, left, at[m] - d, untold, str, fmt2)
  <1> DEFINE n == Len(queue)
             l == Len(rest)
             at2 == [i \in 0..l |-> at[i + m] - d]
  <1>1. /\ n \in Nat /\ l \in Nat /\ l = n - m /\ m \in Nat
        /\ \A i \in 1..l : rest[i] = queue[i + m]
        /\ \A i \in 0..l : i + m \in 0..n
        /\ \A i \in 1..l : i + m \in 1..n
    BY DEF Behind
  <1>2. /\ \A i \in 0..n : at[i] \in Nat
        /\ \A i \in 1..n : at[i] = at[i - 1] + queue[i].units
        /\ \A i, j \in 0..n : i <= j => at[i] <= at[j]
        /\ Len(units) = at[n] + untold /\ Len(units) \in Nat
        /\ \A k \in 1..Len(units), i \in 1..n :
              at[i - 1] < k /\ k <= at[i] => units[k][1] = queue[i].stream
        /\ \A k \in 1..Len(units) : at[n] < k => units[k][1] = str
    <2>1. /\ \A i \in 0..Len(queue) : at[i] \in Nat
          /\ \A i \in 1..Len(queue) : at[i] = at[i - 1] + queue[i].units
          /\ \A i, j \in 0..Len(queue) : i <= j => at[i] <= at[j]
          /\ Len(units) = at[Len(queue)] + untold /\ Len(units) \in Nat
      <3>1. Totals(queue, at) /\ Len(units) \in Nat
        BY LenProperties DEF AllottedUpTo
      <3>2. /\ \A i \in 0..Len(queue) : at[i] \in Nat
            /\ \A i \in 1..Len(queue) : at[i] = at[i - 1] + queue[i].units
        BY <3>1 DEF Totals
      <3> QED
        BY <3>1, <3>2 DEF AllottedUpTo
    <2>2. /\ \A k \in 1..Len(units), i \in 1..Len(queue) :
                at[i - 1] < k /\ k <= at[i] => units[k][1] = queue[i].stream
          /\ \A k \in 1..Len(units) : at[Len(queue)] < k => units[k][1] = str
      BY DEF AllottedUpTo
    <2> QED
      BY <2>1, <2>2, Zenon
  <1>3. d \in Nat /\ d <= at[m] /\ at[m] \in Nat
    BY <1>1, <1>2
  <1>4. /\ Len(left) = Len(units) - d /\ Len(left) \in Nat
        /\ \A k \in 1..Len(left) : left[k] = units[k + d] /\ k + d \in 1..Len(units)
    <2>1. at[m] <= at[n] /\ at[n] \in Nat
      BY <1>1, <1>2
    <2>2. d <= Len(units)
      BY <1>2, <1>3, <2>1
    <2>3. Len(left) = Len(units) - d /\ \A k \in 1..Len(left) : left[k] = units[k + d]
      BY DEF Behind
    <2>4. \A k \in 1..(Len(units) - d) : k + d \in 1..Len(units)
      BY <1>2, <1>3, <2>2
    <2>5. Len(units) - d \in Nat
      BY <1>2, <1>3, <2>2
    <2> QED
      BY <2>3, <2>4, <2>5
  <1>5. \A i \in 0..l : at2[i] = at[i + m] - d
    OBVIOUS
  <1>6. \A i \in 0..l : at2[i] \in Nat
    <2> TAKE i \in 0..l
    <2>1. at[m] <= at[i + m] /\ at[i + m] \in Nat
      BY <1>1, <1>2
    <2> QED
      BY <1>3, <1>5, <2>1
  <1>7. at2 = [i \in 0..l |-> at2[i]]
    BY <1>5
  <1> HIDE DEF n, l, at2
  <1>8. Totals(rest, at2)
    <2>1. at2 \in [0..l -> Nat]
      BY <1>6, <1>7
    <2>2. \A i \in 1..l : at2[i] = at2[i - 1] + rest[i].units
      <3> TAKE i \in 1..l
      <3>1. at2[i] = at[i + m] - d /\ at2[i - 1] = at[(i + m) - 1] - d
        <4>1. (i - 1) + m = (i + m) - 1 /\ i - 1 \in 0..l
          BY <1>1
        <4> QED
          BY <1>1, <1>5, <4>1
      <3>2. /\ at[i + m] = at[(i + m) - 1] + queue[i + m].units
            /\ at[i + m] \in Nat /\ at[(i + m) - 1] \in Nat
        BY <1>1, <1>2
      <3>3. rest[i] = queue[i + m] /\ queue[i + m] \in Commands
        BY <1>1, ElementOfSeq DEF n
      <3>4. queue[i + m].units \in Nat
        BY <3>3, CommandFields
      <3>5. rest[i].units = queue[i + m].units
        BY <3>3
      <3> DEFINE upTo == at[i + m]
                 from == at[(i + m) - 1]
                 more == queue[i + m].units
      <3>6. /\ upTo \in Nat /\ from \in Nat /\ more \in Nat /\ upTo = from + more
            /\ at2[i] = upTo - d /\ at2[i - 1] = from - d /\ rest[i].units = more
        BY <3>1, <3>2, <3>4, <3>5
      <3> HIDE DEF upTo, from, more
      <3> QED
        BY <1>3, <3>6
    <2> QED
      BY <2>1, <2>2 DEF Totals, l
  <1>9. \A i, j \in 0..l : i <= j => at2[i] <= at2[j]
    <2> TAKE i, j \in 0..l
    <2> HAVE i <= j
    <2>0. i + m <= j + m /\ i + m \in 0..n /\ j + m \in 0..n
      BY <1>1
    <2>1. at[i + m] <= at[j + m] /\ at[i + m] \in Nat /\ at[j + m] \in Nat
      BY <1>2, <2>0
    <2> QED
      BY <1>3, <1>5, <2>1
  <1>10. at2[0] = at[m] - d /\ Len(left) = at2[l] + untold
    <2>1. 0 \in 0..l /\ l \in 0..l /\ 0 + m = m /\ l + m = n
      BY <1>1
    <2>2. at2[0] = at[m] - d /\ at2[l] = at[n] - d
      BY <1>5, <2>1
    <2>3. n \in 0..n /\ at[n] \in Nat
      BY <1>1, <1>2
    <2>4. Len(units) = at[n] + untold /\ Len(units) \in Nat
      BY <1>2
    <2> QED
      BY <1>3, <1>4, <2>2, <2>3, <2>4
  <1>11. ASSUME NEW k \in 1..Len(left)
         PROVE  /\ k <= at[m] - d => left[k][1] = fmt2
                /\ \A i \in 1..l : at2[i - 1] < k /\ k <= at2[i]
                                      => left[k][1] = rest[i].stream
                /\ at2[l] < k => left[k][1] = str
    <2>1. left[k] = units[k + d] /\ k + d \in 1..Len(units) /\ d < k + d
      BY <1>3, <1>4
    <2>2. k <= at[m] - d => left[k][1] = fmt2
      BY <1>3, <2>1
    <2>3. ASSUME NEW i \in 1..l, at2[i - 1] < k, k <= at2[i]
          PROVE  left[k][1] = rest[i].stream
      <3>1. /\ at2[i] = at[i + m] - d /\ at2[i - 1] = at[(i + m) - 1] - d
            /\ at[i + m] \in Nat /\ at[(i + m) - 1] \in Nat
            /\ i + m \in 1..n /\ rest[i] = queue[i + m]
        <4>1. (i - 1) + m = (i + m) - 1 /\ i - 1 \in 0..l
          BY <1>1
        <4> QED
          BY <1>1, <1>2, <1>5, <4>1
      <3>2. at[(i + m) - 1] < k + d /\ k + d <= at[i + m]
        <4>1. /\ at[(i + m) - 1] - d < k /\ k <= at[i + m] - d
              /\ k \in Nat
          BY <1>4, <2>3, <3>1
        <4>2. \A a, b, e \in Nat : a - e < k /\ k <= b - e => a < k + e /\ k + e <= b
          BY <4>1
        <4> QED
          BY <1>3, <3>1, <4>1, <4>2
      <3> QED
        BY <1>2, <2>1, <3>1, <3>2
    <2>4. at2[l] < k => left[k][1] = str
      <3> HAVE at2[l] < k
      <3>1. at2[l] = at[n] - d /\ at[n] \in Nat
        BY <1>1, <1>2, <1>5
      <3>2. at[n] < k + d
        BY <1>3, <3>1
      <3> QED
        BY <1>2, <2>1, <3>2
    <2> QED
      BY <2>2, <2>3, <2>4
  <1>12. AllottedUpTo(rest, left, at[m] - d, untold, str, fmt2, at2)
    BY <1>8, <1>9, <1>10, <1>11 DEF AllottedUpTo, l
  <1> QED
    BY <1>12 DEF Allotted

LEMMA AllottedToNobody ==
    ASSUME NEW queue \in Seq(Commands), NEW units \in Seq(Units), NEW told \in Nat,
           NEW str, NEW fmt, Allotted(queue, units, told, 0, str, fmt), NEW str2
    PROVE  Allotted(queue, units, told, 0, str2, fmt)
  <1>1. PICK at : AllottedUpTo(queue, units, told, 0, str, fmt, at)
    BY DEF Allotted
  <1>2. /\ at[Len(queue)] \in Nat /\ Len(units) = at[Len(queue)] + 0
        /\ Len(units) \in Nat
    <2>0. Totals(queue, at) /\ Len(units) = at[Len(queue)] + 0
      BY <1>1 DEF AllottedUpTo
    <2>1. (\A i \in 0..Len(queue) : at[i] \in Nat) /\ Len(units) \in Nat
      BY <2>0, LenProperties DEF Totals
    <2>2. Len(queue) \in 0..Len(queue)
      BY LenProperties
    <2> QED
      BY <2>0, <2>1, <2>2
  <1>3. \A k \in 1..Len(units) : ~(at[Len(queue)] < k)
    BY <1>2
  <1>4. AllottedUpTo(queue, units, told, 0, str2, fmt, at)
    BY <1>1, <1>3, Zenon DEF AllottedUpTo
  <1> QED
    BY <1>4 DEF Allotted

-----------------------------------------------------------------------------
(* The invariant.                                                          *)

Queue == pending \o commands

\* The stream the decoder is in the middle of, its beginning announced.
Current == IF dstep = "begin" THEN NoStream ELSE stream
Busy == Len(work) + unprocessed

\* Units are only left unannounced on the way to the command that announces them,
\* and left over within their stream; what is waited for at the end of a stream is
\* that end; and a cancelled stream is never set aside.
Waiting ==
    /\ dstep \notin {"announce", "announceLast"} => unannounced = 0
    /\ Current = NoStream \/ dstep = "end" => leftover = << >>
    /\ pstep = "finish" => Head(pending).kind = "end"
    /\ \A i \in 1..Len(pending) : pending[i].kind # "cancel"

OfStream(units, s) == \A k \in 1..Len(units) : units[k][1] = s

Accounted ==
    /\ Typed
    /\ Waiting
    /\ InTurn(Queue, Current, format, Busy)
    /\ Allotted(Queue, source, unprocessed, unannounced, stream, format)
    /\ OfStream(work, format)
    /\ OfStream(leftover, stream)

\* The parts of the invariant that are about commands and units.
LEMMA AccountedTypes ==
    ASSUME Typed
    PROVE  /\ pending \in Seq(Commands) /\ commands \in Seq(Commands)
           /\ Queue \in Seq(Commands) /\ source \in Seq(Units)
           /\ work \in Seq(Units) /\ leftover \in Seq(Units)
           /\ unprocessed \in Nat /\ unannounced \in Nat /\ Busy \in Nat
           /\ stream \in Streams \cup {NoStream}
           /\ dstep # "poll" => stream # NoStream
           /\ pstep = "finish" => pending # << >>
  <1>1. /\ pending \in Seq(Commands) /\ commands \in Seq(Commands)
        /\ source \in Seq(Units) /\ work \in Seq(Units) /\ leftover \in Seq(Units)
        /\ unprocessed \in Nat /\ unannounced \in Nat
        /\ stream \in Streams \cup {NoStream}
        /\ dstep # "poll" => stream # NoStream
        /\ pstep = "finish" => pending # << >>
    BY PipelineAssumption
       DEF Typed, TypeOK, DecoderTypes, BufferTypes, ProcessorTypes, AtWork
  <1>2. Queue \in Seq(Commands)
    BY <1>1, ConcatProperties DEF Queue
  <1>3. Busy \in Nat
    BY <1>1 DEF Busy
  <1> QED
    BY <1>1, <1>2, <1>3

LEMMA AccountedInitially ==
    ASSUME Init
    PROVE  Accounted
  <1>1. Typed
    BY TypedInitially
  <1>2. /\ Queue = << >> /\ Len(Queue) = 0 /\ Current = NoStream /\ Busy = 0
        /\ Queue \in Seq(Commands)
    <2>1. pending = << >> /\ commands = << >> /\ work = << >> /\ unprocessed = 0
          /\ stream = NoStream /\ dstep = "poll"
      BY DEF Init
    <2> QED
      BY <2>1 DEF Queue, Current, Busy
  <1>3. Waiting
    BY <1>2 DEF Init, Waiting
  <1>4. InTurn(Queue, Current, format, Busy)
    BY <1>2 DEF InTurn
  <1>5. Allotted(Queue, source, unprocessed, unannounced, stream, format)
    <2> DEFINE at == [i \in 0..0 |-> 0]
    <2>1. source = << >> /\ Len(source) = 0 /\ unprocessed = 0 /\ unannounced = 0
      BY DEF Init
    <2>2. Totals(Queue, at)
      BY <1>2 DEF Totals
    <2>3. AllottedUpTo(Queue, source, unprocessed, unannounced, stream, format, at)
      BY <1>2, <2>1, <2>2 DEF AllottedUpTo
    <2> QED
      BY <2>3 DEF Allotted
  <1>6. OfStream(work, format) /\ OfStream(leftover, stream)
    BY DEF Init, OfStream
  <1> QED
    BY <1>1, <1>3, <1>4, <1>5, <1>6 DEF Accounted

\* What the invariant says of the counts and of the units being converted.
LEMMA AccountedAgrees ==
    ASSUME Accounted
    PROVE  AccountsAgree
  <1>0. Typed
    BY DEF Accounted
  <1> DEFINE p == Len(pending)
             c == Len(commands)
  <1>1. PICK at : AllottedUpTo(Queue, source, unprocessed, unannounced, stream,
                               format, at)
    BY DEF Accounted, Allotted
  <1>2. /\ p \in Nat /\ c \in Nat /\ Len(Queue) = p + c
        /\ \A i \in 1..p : Queue[i] = pending[i]
        /\ \A i \in 1..c : Queue[p + i] = commands[i]
    <2>1. pending \in Seq(Commands) /\ commands \in Seq(Commands)
      BY <1>0, AccountedTypes
    <2>2. \A i \in 1..(p + c) :
             Queue[i] = IF i <= p THEN pending[i] ELSE commands[i - p]
      BY <2>1, ConcatProperties DEF Queue
    <2>3. Len(Queue) = p + c /\ p \in Nat /\ c \in Nat
      BY <2>1, ConcatProperties DEF Queue
    <2>4. \A i \in 1..p : Queue[i] = pending[i]
      BY <2>2, <2>3
    <2>5. ASSUME NEW i \in 1..c PROVE Queue[p + i] = commands[i]
      <3>1. p + i \in 1..(p + c) /\ ~(p + i <= p) /\ (p + i) - p = i
        BY <2>3
      <3> QED
        BY <2>2, <3>1
    <2> QED
      BY <2>3, <2>4, <2>5
  <1> HIDE DEF p, c
  <1>3. /\ \A i \in 0..(p + c) : at[i] \in Nat
        /\ \A i \in 1..(p + c) : at[i] = at[i - 1] + Queue[i].units
        /\ at[0] = unprocessed
        /\ Len(source) = at[p + c] + unannounced
    <2>1. /\ \A i \in 0..Len(Queue) : at[i] \in Nat
          /\ \A i \in 1..Len(Queue) : at[i] = at[i - 1] + Queue[i].units
          /\ at[0] = unprocessed
          /\ Len(source) = at[Len(Queue)] + unannounced
      BY <1>0, <1>1, AllottedParts, AccountedTypes
    <2> QED
      BY <1>2, <2>1
  <1>4. Announced(pending) = at[p] - at[0]
    <2> DEFINE first == [i \in 0..p |-> at[i]]
    <2>1. /\ \A i \in 0..p : first[i] = at[i] /\ at[i] \in Nat
          /\ first \in [0..p -> Nat]
      BY <1>2, <1>3
    <2> HIDE DEF first
    <2>2. ASSUME NEW i \in 1..p PROVE first[i] = first[i - 1] + pending[i].units
      <3>1. i \in 1..(p + c) /\ i \in 0..p /\ i - 1 \in 0..p
        BY <1>2
      <3> QED
        BY <1>2, <1>3, <2>1, <3>1
    <2>3. Totals(pending, first)
      BY <2>1, <2>2 DEF Totals, p
    <2>4. Announced(pending) = first[Len(pending)] - first[0]
      BY <1>0, <2>3, AnnouncedTotal, AccountedTypes
    <2> QED
      BY <1>2, <2>1, <2>4 DEF p
  <1>5. Announced(commands) = at[p + c] - at[p]
    <2> DEFINE second == [i \in 0..c |-> at[p + i]]
    <2>1. /\ \A i \in 0..c : second[i] = at[p + i] /\ at[p + i] \in Nat
          /\ second \in [0..c -> Nat]
      BY <1>2, <1>3
    <2> HIDE DEF second
    <2>2. ASSUME NEW i \in 1..c PROVE second[i] = second[i - 1] + commands[i].units
      <3>1. p + i \in 1..(p + c) /\ i \in 0..c /\ i - 1 \in 0..c
            /\ p + (i - 1) = (p + i) - 1
        BY <1>2
      <3>2. second[i - 1] = at[(p + i) - 1]
        BY <2>1, <3>1
      <3> QED
        BY <1>2, <1>3, <2>1, <3>1, <3>2
    <2>3. Totals(commands, second)
      BY <2>1, <2>2 DEF Totals, c
    <2>4. Announced(commands) = second[Len(commands)] - second[0]
      BY <1>0, <2>3, AnnouncedTotal, AccountedTypes
    <2>5. second[c] = at[p + c] /\ second[0] = at[p]
      BY <1>2, <2>1
    <2> QED
      BY <2>4, <2>5 DEF c
  <1>6. /\ at[0] \in Nat /\ at[p] \in Nat /\ at[p + c] \in Nat /\ unannounced \in Nat
    BY <1>0, <1>2, <1>3, AccountedTypes
  <1> QED
    BY <1>3, <1>4, <1>5, <1>6 DEF AccountsAgree

LEMMA AccountedConverts ==
    ASSUME Accounted
    PROVE  \A u \in Range(work \o SubSeq(source, 1, unprocessed)) : u[1] = format
  <1>0. Typed /\ OfStream(work, format)
    BY DEF Accounted
  <1>1. PICK at : AllottedUpTo(Queue, source, unprocessed, unannounced, stream,
                               format, at)
    BY DEF Accounted, Allotted
  <1>2. /\ \A i \in 0..Len(Queue) : at[i] \in Nat
        /\ \A i, j \in 0..Len(Queue) : i <= j => at[i] <= at[j]
        /\ at[0] = unprocessed
        /\ Len(source) = at[Len(Queue)] + unannounced
        /\ \A k \in 1..Len(source) : k <= unprocessed => source[k][1] = format
    BY <1>0, <1>1, AllottedParts, AccountedTypes
  <1>3. Len(Queue) \in Nat /\ Len(source) \in Nat /\ unprocessed \in 0..Len(source)
    <2>1. Len(Queue) \in Nat /\ Len(source) \in Nat /\ unannounced \in Nat
      BY <1>0, AccountedTypes
    <2>2. at[0] <= at[Len(Queue)] /\ at[0] \in Nat /\ at[Len(Queue)] \in Nat
      BY <1>2, <2>1
    <2> QED
      BY <1>2, <2>1, <2>2
  <1> DEFINE front == SubSeq(source, 1, unprocessed)
             all == work \o front
  <1>4. front \in Seq(Units) /\ Len(front) = unprocessed /\ work \in Seq(Units)
        /\ \A k \in 1..unprocessed : front[k] = source[k]
    <2>1. source \in Seq(Units) /\ work \in Seq(Units)
      BY <1>0, AccountedTypes
    <2>2. front \in Seq(Units) /\ Len(front) = unprocessed
      BY <1>3, <2>1, CutInTwo
    <2>3. \A k \in 1..unprocessed : front[k] = source[k]
      BY <1>3, <2>1, SubSeqProperties
    <2> QED
      BY <2>1, <2>2, <2>3
  <1> HIDE DEF front
  <1>5. /\ Len(work) \in Nat /\ Len(all) = Len(work) + Len(front)
        /\ all \in Seq(Units)
        /\ \A i \in 1..(Len(work) + Len(front)) :
              all[i] = IF i <= Len(work) THEN work[i] ELSE front[i - Len(work)]
    <2>1. work \in Seq(Units) /\ front \in Seq(Units)
      BY <1>4
    <2> QED
      BY <2>1, ConcatProperties
  <1> HIDE DEF all
  <1>6. ASSUME NEW i \in 1..Len(all) PROVE all[i][1] = format
    <2>1. CASE i <= Len(work)
      BY <1>0, <1>4, <1>5, <2>1 DEF OfStream
    <2>2. CASE ~(i <= Len(work))
      <3>1. i - Len(work) \in 1..unprocessed
        BY <1>3, <1>4, <1>5, <2>2
      <3>2. all[i] = source[i - Len(work)]
        BY <1>4, <1>5, <2>2, <3>1
      <3> QED
        BY <1>2, <1>3, <3>1, <3>2
    <2> QED
      BY <2>1, <2>2
  <1>7. \A u \in Range(all) : u[1] = format
    <2>1. DOMAIN all = 1..Len(all)
      BY <1>5
    <2> QED
      BY <1>6, <2>1 DEF Range
  <1> QED
    BY <1>7 DEF all, front

-----------------------------------------------------------------------------
(* What the steps do to the queue of commands.                             *)

LEMMA QueueSent ==
    \A p, q \in Seq(Commands), c \in Commands : p \o Append(q, c) = Append(p \o q, c)
  <1> TAKE p, q \in Seq(Commands), c \in Commands
  <1>1. Append(q, c) = q \o <<c>> /\ <<c>> \in Seq(Commands) /\ p \o q \in Seq(Commands)
    BY AppendIsConcat, ConcatProperties
  <1>2. Append(p \o q, c) = (p \o q) \o <<c>>
    BY <1>1, AppendIsConcat
  <1>3. (p \o q) \o <<c>> = p \o (q \o <<c>>)
    BY <1>1, ConcatAssociative
  <1> QED
    BY <1>1, <1>2, <1>3, Zenon

LEMMA QueueSetAside ==
    \A p, q \in Seq(Commands) :
        q # << >> => Append(p, Head(q)) \o Tail(q) = p \o q
  <1> TAKE p, q \in Seq(Commands)
  <1> HAVE q # << >>
  <1>1. /\ Head(q) \in Commands /\ Tail(q) \in Seq(Commands)
        /\ <<Head(q)>> \in Seq(Commands)
    BY HeadTailProperties
  <1>2. Append(p, Head(q)) = p \o <<Head(q)>>
    BY <1>1, AppendIsConcat
  <1>3. (p \o <<Head(q)>>) \o Tail(q) = p \o (<<Head(q)>> \o Tail(q))
    BY <1>1, ConcatAssociative
  <1>4. <<Head(q)>> \o Tail(q) = q
    OBVIOUS
  <1> QED
    BY <1>2, <1>3, <1>4, Zenon

LEMMA QueueHandled ==
    \A p, q \in Seq(Commands) :
        p # << >> => /\ Tail(p) \in Seq(Commands) /\ Tail(p) \o q \in Seq(Commands)
                     /\ Behind(p \o q, 1, Tail(p) \o q)
                     /\ (p \o q)[1] = Head(p) /\ 1 \in 1..Len(p \o q)
  <1> TAKE p, q \in Seq(Commands)
  <1> HAVE p # << >>
  <1>1. /\ Tail(p) \in Seq(Commands) /\ Len(Tail(p)) = Len(p) - 1
        /\ \A i \in 1..Len(Tail(p)) : Tail(p)[i] = p[i + 1]
    BY HeadTailProperties
  <1>2. Len(p) \in Nat \ {0} /\ Len(q) \in Nat /\ Head(p) = p[1]
    BY EmptySeq
  <1> DEFINE t == Tail(p)
             all == p \o q
             rest == t \o q
  <1>3. /\ Len(all) = Len(p) + Len(q)
        /\ \A i \in 1..(Len(p) + Len(q)) :
              all[i] = IF i <= Len(p) THEN p[i] ELSE q[i - Len(p)]
    BY ConcatProperties
  <1>4. /\ rest \in Seq(Commands) /\ Len(rest) = Len(t) + Len(q)
        /\ \A i \in 1..(Len(t) + Len(q)) :
              rest[i] = IF i <= Len(t) THEN t[i] ELSE q[i - Len(t)]
    BY <1>1, ConcatProperties
  <1> HIDE DEF all, rest, t
  <1>5. ASSUME NEW i \in 1..Len(rest) PROVE rest[i] = all[i + 1]
    <2>1. /\ Len(t) = Len(p) - 1 /\ i \in 1..(Len(t) + Len(q)) /\ i \in Nat
          /\ i + 1 \in 1..(Len(p) + Len(q))
      BY <1>1, <1>2, <1>4 DEF t
    <2>2. CASE i <= Len(t)
      <3>1. rest[i] = p[i + 1]
        BY <1>1, <1>4, <2>1, <2>2 DEF t
      <3>2. i + 1 <= Len(p)
        BY <1>2, <2>1, <2>2
      <3> QED
        BY <1>3, <2>1, <3>1, <3>2
    <2>3. CASE ~(i <= Len(t))
      <3>1. ~(i + 1 <= Len(p)) /\ (i + 1) - Len(p) = i - Len(t)
        BY <1>2, <2>1, <2>3
      <3> QED
        BY <1>3, <1>4, <2>1, <2>3, <3>1
    <2> QED
      BY <2>2, <2>3
  <1>6. Len(rest) = Len(all) - 1 /\ all[1] = Head(p) /\ 1 \in 1..Len(all)
    BY <1>1, <1>2, <1>3, <1>4 DEF t
  <1>7. Behind(all, 1, rest)
    BY <1>5, <1>6 DEF Behind
  <1> QED
    BY <1>1, <1>4, <1>6, <1>7 DEF all, rest, t

LEMMA QueueCancelled ==
    \A p, q \in Seq(Commands) :
        q # << >> => /\ Tail(q) \in Seq(Commands)
                     /\ Behind(p \o q, Len(p) + 1, Tail(q))
                     /\ (p \o q)[Len(p) + 1] = Head(q)
                     /\ Len(p) + 1 \in 1..Len(p \o q)
                     /\ Len(p) \in Nat
                     /\ << >> \o Tail(q) = Tail(q)
  <1> TAKE p, q \in Seq(Commands)
  <1> HAVE q # << >>
  <1>1. /\ Tail(q) \in Seq(Commands) /\ Len(Tail(q)) = Len(q) - 1
        /\ \A i \in 1..Len(Tail(q)) : Tail(q)[i] = q[i + 1]
    BY HeadTailProperties
  <1>2. Len(q) \in Nat \ {0} /\ Len(p) \in Nat /\ Head(q) = q[1]
    BY EmptySeq
  <1> DEFINE t == Tail(q)
             all == p \o q
  <1>3. /\ Len(all) = Len(p) + Len(q)
        /\ \A i \in 1..(Len(p) + Len(q)) :
              all[i] = IF i <= Len(p) THEN p[i] ELSE q[i - Len(p)]
    BY ConcatProperties
  <1>4. << >> \o t = t
    BY <1>1, ConcatEmptySeq
  <1> HIDE DEF all, t
  <1>5. \A i \in 1..Len(q) : all[Len(p) + i] = q[i]
    <2> TAKE i \in 1..Len(q)
    <2>1. /\ Len(p) + i \in 1..(Len(p) + Len(q)) /\ ~(Len(p) + i <= Len(p))
          /\ (Len(p) + i) - Len(p) = i
      BY <1>2
    <2> QED
      BY <1>3, <2>1
  <1>6. ASSUME NEW i \in 1..Len(t) PROVE t[i] = all[i + (Len(p) + 1)]
    <2>1. i + 1 \in 1..Len(q) /\ i + (Len(p) + 1) = Len(p) + (i + 1)
      BY <1>1, <1>2 DEF t
    <2>2. t[i] = q[i + 1]
      BY <1>1 DEF t
    <2> QED
      BY <1>5, <2>1, <2>2
  <1>7. /\ Len(t) = Len(all) - (Len(p) + 1) /\ Len(p) + 1 \in 1..Len(all)
        /\ all[Len(p) + 1] = Head(q)
    BY <1>1, <1>2, <1>3, <1>5 DEF t
  <1>8. Behind(all, Len(p) + 1, t)
    BY <1>6, <1>7 DEF Behind
  <1> QED
    BY <1>1, <1>2, <1>4, <1>7, <1>8 DEF all, t

\* What is left of a buffer.
LEMMA BufferTaken ==
    ASSUME NEW s \in Seq(Units), NEW d \in 0..Len(s)
    PROVE  Behind(s, d, SubSeq(s, d + 1, Len(s)))
  <1>1. Len(s) \in Nat /\ \A i \in 1..Len(s) : s[i] \in Units
    BY ElementOfSeq
  <1> DEFINE t == SubSeq(s, d + 1, Len(s))
  <1>2. /\ Len(t) = Len(s) - d
        /\ \A i \in 1..(Len(s) - (d + 1) + 1) : t[i] = s[(d + 1) + i - 1]
    <2>1. \A i \in (d + 1)..Len(s) : s[i] \in Units
      BY <1>1
    <2>2. /\ Len(t) = IF d + 1 <= Len(s) THEN Len(s) - (d + 1) + 1 ELSE 0
          /\ \A i \in 1..(Len(s) - (d + 1) + 1) : t[i] = s[(d + 1) + i - 1]
      BY <1>1, <2>1, SubSeqProperties
    <2> HIDE DEF t
    <2> QED
      BY <1>1, <2>2
  <1> HIDE DEF t
  <1>3. \A i \in 1..Len(t) : t[i] = s[i + d]
    <2> TAKE i \in 1..Len(t)
    <2>1. i \in 1..(Len(s) - (d + 1) + 1) /\ (d + 1) + i - 1 = i + d
      BY <1>1, <1>2
    <2> QED
      BY <1>2, <2>1
  <1> QED
    BY <1>2, <1>3 DEF Behind, t

-----------------------------------------------------------------------------
(* The steps of the decoder.                                               *)

\* The queue and the stream buffer as the invariant sees them.
QueueInTurn == InTurn(Queue, Current, format, Busy)
BufferAllotted == Allotted(Queue, source, unprocessed, unannounced, stream, format)

LEMMA SentAccounted ==
    ASSUME Typed, Typed', QueueInTurn, BufferAllotted, NEW kind, NEW units,
           SendCommand(kind, units),
           UNCHANGED <<pending, source, unprocessed, work, format>>,
           stream \in Streams, units = unannounced, unannounced' = 0,
           IF Current = NoStream THEN kind = "begin"
           ELSE kind # "begin" /\ Current = stream,
           Current' = IF kind \in {"end", "cancel"} THEN NoStream ELSE stream
    PROVE  QueueInTurn' /\ BufferAllotted'
  <1> DEFINE c == [kind |-> kind, stream |-> stream, units |-> units]
  <1>1. commands' = Append(commands, c)
    BY DEF SendCommand
  <1>2. /\ pending \in Seq(Commands) /\ commands \in Seq(Commands)
        /\ Queue \in Seq(Commands) /\ source \in Seq(Units)
        /\ unprocessed \in Nat /\ unannounced \in Nat
    BY AccountedTypes
  <1>3. c.kind = kind /\ c.stream = stream /\ c.units = units
    OBVIOUS
  <1> HIDE DEF c
  <1>4. c \in Commands
    <2>1. Len(commands) \in Nat /\ Append(commands, c) \in Seq(Commands)
      BY <1>1, <1>2 DEF Typed, TypeOK, BufferTypes
    <2>2. /\ Len(Append(commands, c)) = Len(commands) + 1
          /\ Append(commands, c)[Len(commands) + 1] = c
      BY <1>2, AppendProperties
    <2>3. Len(commands) + 1 \in 1..Len(Append(commands, c))
      BY <2>1, <2>2
    <2> QED
      BY <2>1, <2>2, <2>3, ElementOfSeq
  <1>5. Queue' = Append(Queue, c)
    BY <1>1, <1>2, <1>4, QueueSent DEF Queue
  <1>6. QueueInTurn'
    <2>1. IF Current = NoStream THEN c.kind = "begin"
          ELSE c.kind # "begin" /\ c.stream = Current
      BY <1>3
    <2>2. InTurn(Append(Queue, c), IF Closes(c) THEN NoStream ELSE c.stream, format,
                 Busy)
      BY <1>2, <1>4, <2>1, InTurnSent DEF QueueInTurn
    <2>3. Current' = IF Closes(c) THEN NoStream ELSE c.stream
      BY <1>3 DEF Closes
    <2>4. Busy' = Busy /\ format' = format
      BY DEF Busy
    <2> QED
      BY <1>5, <2>2, <2>3, <2>4 DEF QueueInTurn
  <1>7. BufferAllotted'
    <2>1. c.units = unannounced /\ c.stream = stream
      BY <1>3
    <2>2. Allotted(Append(Queue, c), source, unprocessed, 0, stream', format)
      BY <1>2, <1>4, <2>1, AllottedSent DEF BufferAllotted
    <2> QED
      BY <1>5, <2>2 DEF BufferAllotted
  <1> QED
    BY <1>6, <1>7

LEMMA BufferedAccounted ==
    ASSUME Typed, Waiting, QueueInTurn, BufferAllotted, dstep = "poll",
           NEW units \in Seq(Units), OfStream(units, stream), Buffer(units),
           UNCHANGED <<commands, pending, unprocessed, work, format, stream>>,
           dstep' # "begin"
    PROVE  QueueInTurn' /\ BufferAllotted' /\ OfStream(leftover, stream)'
  <1>1. /\ Queue \in Seq(Commands) /\ source \in Seq(Units)
        /\ unprocessed \in Nat /\ unannounced = 0 /\ Len(source) <= SourceSlots
    BY AccountedTypes DEF Waiting, Typed, TypeOK, BufferTypes
  <1>2. Fitting(units) \in 0..Len(units)
    <2>1. Len(units) \in Nat /\ Room \in Nat
      BY <1>1, PipelineAssumption DEF Room
    <2>2. Len(units) \in Int /\ Room \in Int
      BY <2>1
    <2>3. /\ Fitting(units) \in {Len(units), Room}
          /\ Fitting(units) <= Len(units)
      BY <2>2, MinOfTwo DEF Fitting
    <2> QED
      BY <2>1, <2>3
  <1> DEFINE n == Fitting(units)
             front == SubSeq(units, 1, n)
             rest == SubSeq(units, n + 1, Len(units))
  <1>3. source' = source \o front /\ unannounced' = n /\ leftover' = rest
    BY DEF Buffer
  <1>4. /\ front \in Seq(Units) /\ Len(front) = n
        /\ rest \in Seq(Units) /\ Len(rest) = Len(units) - n
    BY <1>2, CutInTwo
  <1>5. Len(units) \in Nat /\ \A i \in 1..Len(units) : units[i] \in Units
    BY ElementOfSeq
  <1> HIDE DEF n
  <1>6. \A k \in 1..n : front[k] = units[k]
    BY <1>2, <1>5, SubSeqProperties DEF n
  <1>7. \A k \in 1..(Len(units) - n) : rest[k] = units[n + k]
    <2>1. \A i \in (n + 1)..Len(units) : units[i] \in Units
      BY <1>2, <1>5 DEF n
    <2>2. \A k \in 1..(Len(units) - (n + 1) + 1) : rest[k] = units[(n + 1) + k - 1]
      BY <1>2, <1>5, <2>1, SubSeqProperties DEF n
    <2> HIDE DEF rest
    <2> TAKE k \in 1..(Len(units) - n)
    <2>3. /\ k \in 1..(Len(units) - (n + 1) + 1)
          /\ (n + 1) + k - 1 = n + k
      BY <1>2, <1>5 DEF n
    <2> QED
      BY <2>2, <2>3
  <1> HIDE DEF front, rest
  <1>8. \A k \in 1..Len(front) : front[k][1] = stream
    BY <1>2, <1>4, <1>5, <1>6 DEF OfStream, n
  <1>9. \A k \in 1..Len(rest) : rest[k][1] = stream
    <2> TAKE k \in 1..Len(rest)
    <2>1. rest[k] = units[n + k] /\ n + k \in 1..Len(units)
      BY <1>2, <1>4, <1>5, <1>7 DEF n
    <2> QED
      BY <2>1 DEF OfStream
  <1>10. Queue' = Queue /\ Busy' = Busy /\ Current' = Current
    BY DEF Queue, Busy, Current
  <1>11. Allotted(Queue, source \o front, unprocessed, Len(front), stream, format)
    <2>1. Allotted(Queue, source, unprocessed, 0, stream, format)
      BY <1>1 DEF BufferAllotted
    <2> QED
      BY <1>1, <1>4, <1>8, <2>1, AllottedBuffered
  <1>12. BufferAllotted'
    BY <1>3, <1>4, <1>10, <1>11 DEF BufferAllotted
  <1>13. QueueInTurn'
    BY <1>10 DEF QueueInTurn
  <1> QED
    BY <1>3, <1>9, <1>12, <1>13 DEF OfStream

LEMMA DecoderAccounted ==
    ASSUME Accounted, Typed', Decoder
    PROVE  Accounted'
  <1> USE DEF processor
  <1>0. /\ Typed /\ Waiting /\ QueueInTurn /\ BufferAllotted
        /\ OfStream(work, format) /\ OfStream(leftover, stream)
        /\ stream \in Streams \cup {NoStream}
        /\ dstep # "poll" => stream # NoStream
        /\ Queue \in Seq(Commands) /\ source \in Seq(Units) /\ unprocessed \in Nat
        /\ 0 = NoStream /\ ~(0 \in Streams)
    BY AccountedTypes DEF Accounted, QueueInTurn, BufferAllotted, NoStream, Streams
  <1> SUFFICES /\ Waiting' /\ QueueInTurn' /\ BufferAllotted'
               /\ OfStream(work, format)' /\ OfStream(leftover, stream)'
    BY DEF Accounted, QueueInTurn, BufferAllotted
  <1>1. UNCHANGED <<pending, unprocessed, work, output, format, pstep>>
    BY DEF Decoder, TakeStream, CancelDecode, BeginStream, ContinueLeftover,
           DecodePass, DecodeOver, Announce, EndDecode
  <1>2. OfStream(work, format)'
    BY <1>0, <1>1 DEF OfStream
  <1>3. /\ pstep' = "finish" => Head(pending').kind = "end"
        /\ \A i \in 1..Len(pending') : pending'[i].kind # "cancel"
    BY <1>0, <1>1 DEF Waiting
  <1>4. CASE TakeStream
    <2>1. /\ dstep = "poll" /\ unannounced = 0 /\ unannounced' = 0
          /\ UNCHANGED <<commands, source, leftover>>
      BY <1>0, <1>4 DEF TakeStream, Waiting
    <2>2. Current' = Current /\ (Current = NoStream \/ stream' = stream)
          /\ dstep' # "end" /\ dstep' \notin {"announce", "announceLast"}
      <3>1. CASE stream # NoStream
        BY <1>4, <2>1, <3>1 DEF TakeStream, Current
      <3>2. CASE stream = NoStream
        <4>1. Prepare(Head(mailbox))
          BY <1>4, <3>2 DEF TakeStream
        <4> QED
          BY <2>1, <3>2, <4>1 DEF Prepare, Current
      <3> QED
        BY <3>1, <3>2
    <2>3. Queue' = Queue /\ Busy' = Busy
      BY <1>1, <2>1 DEF Queue, Busy
    <2>4. QueueInTurn'
      BY <1>0, <1>1, <2>2, <2>3 DEF QueueInTurn
    <2>5. BufferAllotted'
      <3>1. Allotted(Queue, source, unprocessed, 0, stream, format)
        BY <1>0, <2>1 DEF BufferAllotted
      <3>2. Allotted(Queue, source, unprocessed, 0, stream', format)
        BY <1>0, <3>1, AllottedToNobody
      <3> QED
        BY <1>1, <2>1, <2>3, <3>2 DEF BufferAllotted
    <2>6. OfStream(leftover, stream)'
      BY <1>0, <2>1, <2>2 DEF OfStream, Waiting
    <2>7. Waiting'
      BY <1>0, <1>3, <2>1, <2>2 DEF Waiting
    <2> QED
      BY <1>2, <2>4, <2>5, <2>6, <2>7
  <1>5. CASE CancelDecode
    <2>1. /\ dstep = "cancel" /\ unannounced = 0 /\ unannounced' = 0
          /\ leftover' = << >> /\ source' = source /\ SendCommand("cancel", 0)
          /\ Prepare(next)
      BY <1>0, <1>5 DEF CancelDecode, Waiting
    <2>2. /\ stream \in Streams /\ Current = stream /\ Current # NoStream
          /\ Current' = NoStream
          /\ dstep' \in {"begin", "poll"}
      BY <1>0, <2>1 DEF Prepare, Current
    <2>3. QueueInTurn' /\ BufferAllotted'
      BY <1>0, <1>1, <2>1, <2>2, SentAccounted
    <2>4. Waiting' /\ OfStream(leftover, stream)'
      BY <1>3, <2>1, <2>2 DEF Waiting, OfStream
    <2> QED
      BY <1>2, <2>3, <2>4
  <1>6. CASE BeginStream
    <2>1. /\ dstep = "begin" /\ unannounced = 0 /\ unannounced' = 0 /\ dstep' = "poll"
          /\ leftover' = leftover /\ source' = source /\ SendCommand("begin", 0)
          /\ stream' = stream /\ stream \in Streams
      BY <1>0, <1>6 DEF BeginStream, Waiting
    <2>2. Current = NoStream /\ Current' = stream /\ leftover = << >>
      BY <1>0, <2>1 DEF Current, Waiting
    <2>3. QueueInTurn' /\ BufferAllotted'
      BY <1>0, <1>1, <2>1, <2>2, SentAccounted
    <2>4. Waiting' /\ OfStream(leftover, stream)'
      BY <1>3, <2>1, <2>2 DEF Waiting, OfStream
    <2> QED
      BY <1>2, <2>3, <2>4
  <1>7. CASE ContinueLeftover
    <2>1. /\ dstep = "poll" /\ dstep' = "announce" /\ stream' = stream
          /\ commands' = commands /\ Buffer(leftover) /\ stream # NoStream
          /\ leftover \in Seq(Units)
      BY <1>0, <1>7, AccountedTypes DEF ContinueLeftover
    <2>2. QueueInTurn' /\ BufferAllotted' /\ OfStream(leftover, stream)'
      BY <1>0, <1>1, <2>1, BufferedAccounted
    <2>3. Waiting'
      BY <1>3, <2>1 DEF Waiting, Current
    <2> QED
      BY <1>2, <2>2, <2>3
  <1>8. CASE DecodePass
    <2>1. PICK units \in 1..Min({DecodeSize, formats[stream].units - decoded}) :
             /\ Buffer([i \in 1..units |-> <<stream, decoded + i>>])
             /\ dstep' \in IF unannounced' > 0 THEN {"announceLast", "announce"}
                          ELSE {"poll"}
      BY <1>8 DEF DecodePass
    <2>2. /\ dstep = "poll" /\ stream' = stream /\ commands' = commands
          /\ stream # NoStream /\ stream \in Streams
      BY <1>0, <1>8 DEF DecodePass
    <2>3. units \in Nat /\ decoded + units <= MaxUnits /\ decoded \in Nat
      <3>1. /\ units \in 1..DecodeSize /\ decoded + units <= MaxUnits
            /\ decoded \in Nat /\ DecodeSize \in Nat
        BY <1>0, <2>1, <2>2, PassFits, PipelineAssumption
      <3> QED
        BY <3>1
    <2> DEFINE new == [i \in 1..units |-> <<stream, decoded + i>>]
    <2>4. new \in Seq(Units) /\ Len(new) = units
      BY <2>2, <2>3, PassTyped, PipelineAssumption
    <2>5. OfStream(new, stream)
      BY <2>4 DEF OfStream
    <2>6. Buffer(new)
      BY <2>1
    <2> HIDE DEF new
    <2>7. dstep' # "begin" /\ dstep' \in {"announceLast", "announce", "poll"}
          /\ (dstep' \notin {"announceLast", "announce"} => ~(unannounced' > 0))
      BY <2>1
    <2>8. QueueInTurn' /\ BufferAllotted' /\ OfStream(leftover, stream)'
      BY <1>0, <1>1, <2>2, <2>4, <2>5, <2>6, <2>7, BufferedAccounted
    <2>9. unannounced' \in Nat
      BY AccountedTypes, PipelineAssumption DEF Typed, TypeOK, DecoderTypes
    <2>10. Waiting'
      BY <1>3, <2>2, <2>7, <2>9 DEF Waiting, Current
    <2> QED
      BY <1>2, <2>8, <2>10
  <1>9. CASE DecodeOver
    <2>1. /\ dstep = "poll" /\ dstep' = "end" /\ leftover = << >> /\ unannounced = 0
          /\ UNCHANGED <<commands, source, leftover, stream, unannounced>>
      BY <1>0, <1>9 DEF DecodeOver, Waiting
    <2>2. Queue' = Queue /\ Busy' = Busy /\ Current' = Current
      BY <1>1, <2>1 DEF Queue, Busy, Current
    <2>3. QueueInTurn' /\ BufferAllotted'
      BY <1>0, <1>1, <2>1, <2>2 DEF QueueInTurn, BufferAllotted
    <2>4. Waiting' /\ OfStream(leftover, stream)'
      BY <1>3, <2>1 DEF Waiting, OfStream
    <2> QED
      BY <1>2, <2>3, <2>4
  <1>10. CASE Announce
    <2>1. /\ dstep \in {"announce", "announceLast"} /\ unannounced' = 0
          /\ SendCommand("samples", unannounced)
          /\ UNCHANGED <<source, leftover, stream>>
          /\ dstep' = IF dstep = "announceLast" /\ leftover = << >> THEN "end"
                     ELSE "poll"
      BY <1>10 DEF Announce
    <2>2. stream \in Streams /\ Current = stream /\ Current # NoStream
          /\ Current' = stream
      BY <1>0, <2>1 DEF Current
    <2>3. QueueInTurn' /\ BufferAllotted'
      BY <1>0, <1>1, <2>1, <2>2, SentAccounted
    <2>4. Waiting' /\ OfStream(leftover, stream)'
      BY <1>0, <1>3, <2>1, <2>2 DEF Waiting, OfStream
    <2> QED
      BY <1>2, <2>3, <2>4
  <1>11. CASE EndDecode
    <2>1. /\ dstep = "end" /\ unannounced = 0 /\ unannounced' = 0 /\ dstep' = "poll"
          /\ leftover' = leftover /\ leftover = << >> /\ source' = source
          /\ SendCommand("end", 0) /\ stream' = NoStream
      BY <1>0, <1>11 DEF EndDecode, Waiting
    <2>2. stream \in Streams /\ Current = stream /\ Current # NoStream
          /\ Current' = NoStream
      BY <1>0, <2>1 DEF Current
    <2>3. QueueInTurn' /\ BufferAllotted'
      BY <1>0, <1>1, <2>1, <2>2, SentAccounted
    <2>4. Waiting' /\ OfStream(leftover, stream)'
      BY <1>3, <2>1, <2>2 DEF Waiting, OfStream
    <2> QED
      BY <1>2, <2>3, <2>4
  <1> QED
    BY <1>4, <1>5, <1>6, <1>7, <1>8, <1>9, <1>10, <1>11 DEF Decoder

-----------------------------------------------------------------------------
(* The steps of the processor.                                             *)

\* The first command set aside is dealt with.
LEMMA HandledAccounted ==
    ASSUME Typed, QueueInTurn, BufferAllotted,
           pending # << >>, pending' = Tail(pending),
           UNCHANGED <<commands, source, unannounced, stream, dstep>>,
           unprocessed' = unprocessed + Head(pending).units,
           unprocessed > 0 => format' = format,
           IF Closes(Head(pending)) THEN Busy' = 0
           ELSE format' = Head(pending).stream
    PROVE  QueueInTurn' /\ BufferAllotted'
  <1>1. /\ pending \in Seq(Commands) /\ commands \in Seq(Commands)
        /\ Queue \in Seq(Commands) /\ source \in Seq(Units)
        /\ unprocessed \in Nat /\ unannounced \in Nat
    BY AccountedTypes
  <1> DEFINE c == Head(pending)
  <1>2. /\ Queue' \in Seq(Commands) /\ Behind(Queue, 1, Queue')
        /\ Queue[1] = c /\ 1 \in 1..Len(Queue)
    BY <1>1, QueueHandled DEF Queue
  <1>3. c \in Commands
    BY <1>1, HeadTailProperties
  <1> HIDE DEF c
  <1>4. /\ c.units \in Nat /\ unprocessed' = unprocessed + c.units
        /\ IF Closes(c) THEN Busy' = 0 ELSE c.stream = format'
        /\ Closes(c) => c.units = 0
    BY <1>3, CommandFields DEF c, Closes
  <1>5. QueueInTurn'
    <2>1. IF Closes(Queue[1]) THEN Busy' = 0 ELSE Queue[1].stream = format'
      BY <1>2, <1>4
    <2>2. InTurn(Queue', Current, format', Busy')
      BY <1>1, <1>2, <2>1, InTurnHandled DEF QueueInTurn
    <2>3. Current' = Current
      BY DEF Current
    <2> QED
      BY <2>2, <2>3 DEF QueueInTurn
  <1>6. BufferAllotted'
    <2>1. PICK at : AllottedUpTo(Queue, source, unprocessed, unannounced, stream,
                                 format, at)
      BY DEF BufferAllotted, Allotted
    <2>2. /\ at[0] = unprocessed /\ at[1] \in Nat
          /\ at[1] = unprocessed + c.units
          /\ \A k \in 1..Len(source) : k <= unprocessed => source[k][1] = format
          /\ \A k \in 1..Len(source) :
                unprocessed < k /\ k <= at[1] => source[k][1] = c.stream
      <3>1. /\ \A i \in 0..Len(Queue) : at[i] \in Nat
            /\ \A i \in 1..Len(Queue) : at[i] = at[i - 1] + Queue[i].units
            /\ at[0] = unprocessed
            /\ \A k \in 1..Len(source) : k <= unprocessed => source[k][1] = format
            /\ \A k \in 1..Len(source), i \in 1..Len(Queue) :
                  at[i - 1] < k /\ k <= at[i] => source[k][1] = Queue[i].stream
        BY <1>1, <2>1, AllottedParts
      <3>2. /\ 1 \in 1..Len(Queue) /\ 1 \in 0..Len(Queue) /\ 1 - 1 = 0
            /\ Queue[1] = c
        BY <1>2
      <3>3. at[1] = at[1 - 1] + Queue[1].units
        BY <3>1, <3>2
      <3>4. at[1] = unprocessed + c.units
        BY <3>1, <3>2, <3>3
      <3>5. \A k \in 1..Len(source) :
                unprocessed < k /\ k <= at[1] => source[k][1] = c.stream
        BY <3>1, <3>2
      <3> QED
        BY <3>1, <3>2, <3>4, <3>5
    <2>3. \A k \in 1..Len(source) : 0 < k /\ k <= at[1] => source[k][1] = format'
      <3> TAKE k \in 1..Len(source)
      <3> HAVE 0 < k /\ k <= at[1]
      <3>1. CASE k <= unprocessed
        <4>1. source[k][1] = format
          BY <2>2, <3>1
        <4>2. unprocessed > 0
          BY <1>1, <3>1
        <4> QED
          BY <4>1, <4>2
      <3>2. CASE unprocessed < k
        <4>1. source[k][1] = c.stream
          BY <2>2, <3>2
        <4>2. c.units # 0
          BY <1>1, <1>4, <2>2, <3>2
        <4> QED
          BY <1>4, <4>1, <4>2
      <3> QED
        BY <1>1, <3>1, <3>2
    <2>4. Behind(source, 0, source)
      BY <1>1 DEF Behind
    <2>5. Allotted(Queue', source, at[1] - 0, unannounced, stream, format')
      <3>1. 1 \in 0..Len(Queue) /\ 0 \in 0..at[1]
        BY <1>2, <2>2
      <3> QED
        BY <1>1, <1>2, <2>1, <2>3, <2>4, <3>1, AllottedHandled
    <2>6. at[1] - 0 = unprocessed'
      BY <1>4, <2>2
    <2> QED
      BY <2>5, <2>6 DEF BufferAllotted
  <1> QED
    BY <1>5, <1>6

\* A cancelled stream is thrown away, with all that was set aside.
LEMMA ClearedAccounted ==
    ASSUME Accounted, Typed', ClearBuffers
    PROVE  QueueInTurn' /\ BufferAllotted'
  <1> USE DEF decoder, player
  <1>0. Typed /\ QueueInTurn /\ BufferAllotted /\ AccountsAgree
    BY AccountedAgrees DEF Accounted, QueueInTurn, BufferAllotted
  <1>1. /\ pending \in Seq(Commands) /\ commands \in Seq(Commands)
        /\ Queue \in Seq(Commands) /\ source \in Seq(Units)
        /\ unprocessed \in Nat /\ unannounced \in Nat
    BY <1>0, AccountedTypes
  <1>2. /\ commands # << >> /\ Head(commands).kind = "cancel"
        /\ commands' = Tail(commands) /\ pending' = << >>
        /\ unprocessed' = 0 /\ work' = << >>
        /\ UNCHANGED <<unannounced, stream, dstep, format>>
    BY DEF ClearBuffers
  <1> DEFINE c == Head(commands)
             m == Len(pending) + 1
  <1>3. /\ Queue' \in Seq(Commands) /\ Behind(Queue, m, Queue')
        /\ Queue[m] = c /\ m \in 1..Len(Queue) /\ Len(pending) \in Nat
        /\ \A i \in 1..Len(pending) : Queue[i] = pending[i]
    <2>1. Queue' = Tail(commands)
      BY <1>1, <1>2, QueueCancelled DEF Queue
    <2>2. \A i \in 1..Len(pending) : Queue[i] = pending[i]
      BY <1>1, ConcatProperties DEF Queue
    <2> QED
      BY <1>1, <1>2, <2>1, <2>2, QueueCancelled DEF Queue
  <1>4. c.kind = "cancel" /\ c.units = 0 /\ Closes(c)
    <2>1. c \in Commands
      BY <1>1, <1>2, HeadTailProperties
    <2> QED
      BY <1>2, <2>1, CommandFields DEF Closes
  <1> HIDE DEF c
  <1>5. QueueInTurn'
    <2>1. Busy' = 0 /\ Current' = Current
      BY <1>2 DEF Busy, Current
    <2>2. IF Closes(Queue[m]) THEN 0 = 0 ELSE Queue[m].stream = format
      BY <1>3, <1>4
    <2>3. InTurn(Queue', Current, format, 0)
      BY <1>0, <1>1, <1>3, <2>2, InTurnHandled DEF QueueInTurn
    <2> QED
      BY <1>2, <2>1, <2>3 DEF QueueInTurn
  <1>6. BufferAllotted'
    <2>1. PICK at : AllottedUpTo(Queue, source, unprocessed, unannounced, stream,
                                 format, at)
      BY <1>0 DEF BufferAllotted, Allotted
    <2>2. /\ \A i \in 0..Len(Queue) : at[i] \in Nat
          /\ \A i \in 1..Len(Queue) : at[i] = at[i - 1] + Queue[i].units
          /\ at[0] = unprocessed
      BY <1>1, <2>1, AllottedParts
    <2>3. Announced(pending) = at[Len(pending)] - at[0]
      <3> DEFINE first == [i \in 0..Len(pending) |-> at[i]]
      <3>1. /\ \A i \in 0..Len(pending) : first[i] = at[i] /\ at[i] \in Nat
            /\ first \in [0..Len(pending) -> Nat]
        BY <1>3, <2>2
      <3> HIDE DEF first
      <3>2. ASSUME NEW i \in 1..Len(pending)
            PROVE  first[i] = first[i - 1] + pending[i].units
        <4>1. i \in 1..Len(Queue) /\ i \in 0..Len(pending) /\ i - 1 \in 0..Len(pending)
          BY <1>3
        <4> QED
          BY <1>3, <2>2, <3>1, <4>1
      <3>3. Totals(pending, first)
        BY <3>1, <3>2 DEF Totals
      <3>4. Announced(pending) = first[Len(pending)] - first[0]
        BY <1>1, <3>3, AnnouncedTotal
      <3> QED
        BY <1>3, <3>1, <3>4
    <2>4. /\ at[m] = at[Len(pending)] /\ at[Len(pending)] \in Nat /\ at[0] \in Nat
      <3>1. m - 1 = Len(pending) /\ Len(pending) \in 0..Len(Queue) /\ 0 \in 0..Len(Queue)
        BY <1>3
      <3>2. at[m] = at[Len(pending)] + c.units
        BY <1>3, <2>2, <3>1
      <3>3. at[Len(pending)] \in Nat /\ at[0] \in Nat
        BY <2>2, <3>1
      <3> QED
        BY <1>4, <3>2, <3>3
    <2>5. Discarded = at[m]
      BY <1>1, <2>2, <2>3, <2>4 DEF Discarded
    <2>6. /\ at[m] \in 0..Len(source)
          /\ source' = SubSeq(source, at[m] + 1, Len(source))
      BY <2>5 DEF ClearBuffers
    <2>7. Behind(source, at[m], source') /\ source' \in Seq(Units)
      <3>1. Behind(source, at[m], source')
        BY <1>1, <2>6, BufferTaken
      <3> QED
        BY <1>1, <2>6, <3>1, CutInTwo
    <2>8. Allotted(Queue', source', at[m] - at[m], unannounced, stream, format)
      <3>1. m \in 0..Len(Queue) /\ at[m] \in 0..at[m]
            /\ \A k \in 1..Len(source) :
                  at[m] < k /\ k <= at[m] => source[k][1] = format
        BY <1>3, <2>4
      <3> HIDE DEF m
      <3> QED
        BY <1>1, <1>3, <2>1, <2>7, <3>1, AllottedHandled
    <2>9. at[m] - at[m] = 0
      BY <2>4
    <2> QED
      BY <1>2, <2>8, <2>9 DEF BufferAllotted
  <1> QED
    BY <1>5, <1>6

\* What a turn of processSamples takes and what it leaves.
LEMMA TurnTaken ==
    ASSUME Typed, ProcessSamples
    PROVE  \E taken \in Nat, filled \in Seq(Units) :
              /\ taken <= unprocessed /\ taken <= Len(source)
              /\ filled = work \o SubSeq(source, 1, taken)
              /\ Len(filled) = Len(work) + taken
              /\ unprocessed' = unprocessed - taken
              /\ source' = SubSeq(source, taken + 1, Len(source))
              /\ \/ work' = filled
                 \/ \E n \in 1..Len(filled) :
                       work' = SubSeq(filled, n + 1, Len(filled))
              /\ \/ pending' = pending /\ pstep' \in {"handle", pstep, "receive"}
                 \/ /\ pstep = "finish" /\ pstep' = "handle"
                    /\ unprocessed = 0 /\ filled = << >>
                    /\ pending' = Tail(pending)
  <1> DEFINE taken == Min({unprocessed, WorkSlots - Len(work), Len(source)})
             filled == Filled(taken)
  <1>0. /\ source \in Seq(Units) /\ work \in Seq(Units) /\ Len(work) <= WorkSlots
        /\ unprocessed \in Nat /\ WorkSlots \in Nat
        /\ Len(source) \in Nat /\ Len(work) \in Nat
    BY PipelineAssumption DEF Typed, TypeOK, BufferTypes, ProcessorTypes
  <1>1. taken \in 0..Len(source) /\ taken <= unprocessed
    <2>1. /\ unprocessed \in Int /\ WorkSlots - Len(work) \in Int
          /\ Len(source) \in Int
      BY <1>0
    <2>2. /\ taken \in {unprocessed, WorkSlots - Len(work), Len(source)}
          /\ taken <= unprocessed /\ taken <= Len(source)
      BY <2>1, MinOfThree
    <2> HIDE DEF taken
    <2> QED
      BY <1>0, <2>2
  <1>2. /\ unprocessed' = unprocessed - taken
        /\ source' = SubSeq(source, taken + 1, Len(source))
        /\ work' = IF Movable(filled) THEN SubSeq(filled, Frame + 1, Len(filled))
                   ELSE filled
        /\ \/ /\ pstep = "finish" /\ pstep' = "handle"
              /\ unprocessed = 0 /\ filled = << >>
              /\ pending' = Tail(pending)
           \/ pending' = pending /\ pstep' \in {"handle", pstep, "receive"}
    BY DEF ProcessSamples
  <1>3. filled = work \o SubSeq(source, 1, taken)
    BY DEF Filled
  <1> HIDE DEF taken, filled
  <1>4. SubSeq(source, 1, taken) \in Seq(Units) /\ Len(SubSeq(source, 1, taken)) = taken
    BY <1>0, <1>1, CutInTwo
  <1>5. filled \in Seq(Units) /\ Len(filled) = Len(work) + taken
    <2> DEFINE front == SubSeq(source, 1, taken)
    <2>1. front \in Seq(Units) /\ Len(front) = taken /\ filled = work \o front
      BY <1>3, <1>4
    <2> HIDE DEF front
    <2> QED
      BY <1>0, <2>1, ConcatProperties
  <1>6. taken \in Nat /\ taken <= Len(source)
    BY <1>0, <1>1
  <1>7. Movable(filled) => Frame \in 1..Len(filled)
    BY <1>5 DEF Movable, Frame
  <1>8. \/ work' = filled
        \/ \E n \in 1..Len(filled) : work' = SubSeq(filled, n + 1, Len(filled))
    BY <1>2, <1>7
  <1> QED
    BY <1>1, <1>2, <1>3, <1>5, <1>6, <1>8

LEMMA TurnAccounted ==
    ASSUME Accounted, Typed', ProcessSamples
    PROVE  Accounted'
  <1> USE DEF decoder
  <1>0. /\ Typed /\ Waiting /\ QueueInTurn /\ BufferAllotted
        /\ OfStream(work, format) /\ OfStream(leftover, stream)
    BY DEF Accounted, QueueInTurn, BufferAllotted
  <1>1. /\ pending \in Seq(Commands) /\ commands \in Seq(Commands)
        /\ Queue \in Seq(Commands) /\ source \in Seq(Units) /\ work \in Seq(Units)
        /\ unprocessed \in Nat /\ unannounced \in Nat
        /\ Len(work) \in Nat /\ Len(source) \in Nat
        /\ pstep = "finish" => pending # << >>
    BY <1>0, AccountedTypes
  <1>2. UNCHANGED <<stream, leftover, dstep, unannounced, commands, format>>
    BY DEF ProcessSamples
  <1>3. PICK taken \in Nat, filled \in Seq(Units) :
              /\ taken <= unprocessed /\ taken <= Len(source)
              /\ filled = work \o SubSeq(source, 1, taken)
              /\ Len(filled) = Len(work) + taken
              /\ unprocessed' = unprocessed - taken
              /\ source' = SubSeq(source, taken + 1, Len(source))
              /\ \/ work' = filled
                 \/ \E n \in 1..Len(filled) :
                       work' = SubSeq(filled, n + 1, Len(filled))
              /\ \/ pending' = pending /\ pstep' \in {"handle", pstep, "receive"}
                 \/ /\ pstep = "finish" /\ pstep' = "handle"
                    /\ unprocessed = 0 /\ filled = << >>
                    /\ pending' = Tail(pending)
    BY <1>0, TurnTaken
  <1>4. PICK at : AllottedUpTo(Queue, source, unprocessed, unannounced, stream,
                               format, at)
    BY <1>0 DEF BufferAllotted, Allotted
  <1>5. /\ at[0] = unprocessed
        /\ \A k \in 1..Len(source) : k <= unprocessed => source[k][1] = format
    BY <1>1, <1>4, AllottedParts
  <1>6. \A k \in 1..Len(filled) : filled[k][1] = format
    <2> DEFINE front == SubSeq(source, 1, taken)
    <2>1. /\ front \in Seq(Units) /\ Len(front) = taken
          /\ \A k \in 1..taken : front[k] = source[k]
      <3>1. taken \in 0..Len(source)
        BY <1>1, <1>3
      <3>2. front \in Seq(Units) /\ Len(front) = taken
        BY <1>1, <3>1, CutInTwo
      <3>3. \A k \in 1..taken : source[k] \in Units
        BY <1>1, <1>3, ElementOfSeq
      <3>4. \A k \in 1..taken : front[k] = source[k]
        BY <1>1, <1>3, <3>3, SubSeqProperties
      <3> QED
        BY <3>2, <3>4
    <2>2. filled = work \o front
      BY <1>3
    <2> HIDE DEF front
    <2>3. \A k \in 1..(Len(work) + taken) :
             filled[k] = IF k <= Len(work) THEN work[k] ELSE front[k - Len(work)]
      <3>1. work \in Seq(Units) /\ front \in Seq(Units) /\ Len(front) = taken
        BY <1>1, <2>1
      <3> QED
        BY <2>2, <3>1, ConcatProperties
    <2> TAKE k \in 1..Len(filled)
    <2>4. CASE k <= Len(work)
      <3>1. filled[k] = work[k] /\ k \in 1..Len(work)
        BY <1>1, <1>3, <2>3, <2>4
      <3> QED
        BY <1>0, <3>1 DEF OfStream
    <2>5. CASE ~(k <= Len(work))
      <3>1. k - Len(work) \in 1..taken /\ k \in 1..(Len(work) + taken)
        BY <1>1, <1>3, <2>5
      <3>2. filled[k] = source[k - Len(work)]
        BY <2>1, <2>3, <2>5, <3>1
      <3>3. k - Len(work) \in 1..Len(source) /\ k - Len(work) <= unprocessed
        <4>1. /\ Len(source) \in Nat /\ unprocessed \in Nat
              /\ taken <= unprocessed /\ taken <= Len(source)
          BY <1>1, <1>3
        <4> DEFINE l == k - Len(work)
        <4>2. l \in 1..taken
          BY <3>1
        <4> HIDE DEF l
        <4>3. l \in 1..Len(source) /\ l <= unprocessed
          BY <4>1, <4>2
        <4> QED
          BY <4>3 DEF l
      <3> QED
        BY <1>5, <3>2, <3>3
    <2> QED
      BY <2>4, <2>5
  <1>7. OfStream(work, format)'
    <2>1. CASE work' = filled
      BY <1>2, <1>6, <2>1 DEF OfStream
    <2>2. ASSUME NEW n \in 1..Len(filled),
                 work' = SubSeq(filled, n + 1, Len(filled))
          PROVE  OfStream(work', format)
      <3>1. Len(filled) \in Nat /\ n \in 0..Len(filled)
        OBVIOUS
      <3>2. Behind(filled, n, work')
        BY <2>2, <3>1, BufferTaken
      <3>3. /\ Len(work') = Len(filled) - n
            /\ \A k \in 1..Len(work') : work'[k] = filled[k + n]
        BY <3>2 DEF Behind
      <3>4. \A k \in 1..Len(work') : k + n \in 1..Len(filled)
        BY <3>1, <3>3
      <3> QED
        BY <1>6, <3>3, <3>4 DEF OfStream
    <2> QED
      BY <1>2, <1>3, <2>1, <2>2
  <1>8. OfStream(leftover, stream)'
    BY <1>0, <1>2 DEF OfStream
  <1>9. Busy = 0 \/ (unprocessed = 0 /\ filled = << >>) => Busy' = 0
    <2> HAVE Busy = 0 \/ (unprocessed = 0 /\ filled = << >>)
    <2>1. unprocessed = 0 /\ taken = 0 /\ Len(filled) = 0 /\ unprocessed' = 0
      BY <1>1, <1>3 DEF Busy
    <2>2. filled = << >> /\ work' = << >>
      BY <1>3, <2>1, EmptySeq
    <2> QED
      BY <2>1, <2>2 DEF Busy
  <1>10. CASE pending' = pending /\ pstep' \in {"handle", pstep, "receive"}
    <2>1. Queue' = Queue /\ Current' = Current
      BY <1>2, <1>10 DEF Queue, Current
    <2>2. QueueInTurn'
      <3>1. Busy = 0 => Busy' = 0
        BY <1>9
      <3>2. InTurn(Queue, Current, format, Busy')
        BY <1>0, <3>1 DEF QueueInTurn, InTurn
      <3> QED
        BY <1>2, <2>1, <3>2 DEF QueueInTurn
    <2>3. BufferAllotted'
      <3>1. Behind(source, taken, source') /\ source' \in Seq(Units)
        <4>1. taken \in 0..Len(source)
          BY <1>1, <1>3
        <4>2. Behind(source, taken, source')
          BY <1>1, <1>3, <4>1, BufferTaken
        <4> QED
          BY <1>1, <1>3, <4>1, <4>2, CutInTwo
      <3>2. Behind(Queue, 0, Queue) /\ 0 \in 0..Len(Queue)
        BY <1>1 DEF Behind
      <3>3. /\ taken \in 0..at[0]
            /\ \A k \in 1..Len(source) : taken < k /\ k <= at[0] => source[k][1] = format
        BY <1>1, <1>3, <1>5
      <3>4. Allotted(Queue, source', at[0] - taken, unannounced, stream, format)
        BY <1>1, <1>4, <3>1, <3>2, <3>3, AllottedHandled
      <3>5. at[0] - taken = unprocessed'
        BY <1>3, <1>5
      <3> QED
        BY <1>2, <2>1, <3>4, <3>5 DEF BufferAllotted
    <2>4. Waiting'
      BY <1>0, <1>2, <1>10, <2>1 DEF Waiting
    <2> QED
      BY <1>7, <1>8, <2>2, <2>3, <2>4 DEF Accounted, QueueInTurn, BufferAllotted
  <1>11. CASE /\ pstep = "finish" /\ pstep' = "handle"
              /\ unprocessed = 0 /\ filled = << >>
              /\ pending' = Tail(pending)
    <2>1. pending # << >> /\ Head(pending).kind = "end" /\ Head(pending) \in Commands
      BY <1>0, <1>1, <1>11, HeadTailProperties DEF Waiting
    <2>2. Head(pending).units = 0 /\ Closes(Head(pending))
      BY <2>1, CommandFields DEF Closes
    <2>3. taken = 0 /\ unprocessed' = 0 /\ source' = source
      <3>1. taken = 0 /\ unprocessed' = 0
        BY <1>3, <1>11
      <3>2. source' = SubSeq(source, 1, Len(source))
        BY <1>3, <3>1
      <3> QED
        BY <1>1, <3>1, <3>2, SubSeqFull
    <2>4. Busy' = 0
      BY <1>9, <1>11
    <2>5. unprocessed' = unprocessed + Head(pending).units
      BY <1>11, <2>2, <2>3
    <2>6. QueueInTurn' /\ BufferAllotted'
      BY <1>0, <1>2, <1>11, <2>1, <2>2, <2>3, <2>4, <2>5, HandledAccounted
    <2>7. Waiting'
      <3>1. \A i \in 1..Len(pending') : pending'[i].kind # "cancel"
        <4>1. /\ Len(pending') = Len(pending) - 1 /\ Len(pending) \in Nat
              /\ \A i \in 1..Len(pending') : pending'[i] = pending[i + 1]
          BY <1>1, <1>11, <2>1, HeadTailProperties
        <4>2. \A i \in 1..Len(pending') : i + 1 \in 1..Len(pending)
          BY <4>1
        <4> QED
          BY <1>0, <4>1, <4>2 DEF Waiting
      <3>2. Current' = Current
        BY <1>2 DEF Current
      <3> QED
        BY <1>0, <1>2, <1>11, <3>1, <3>2 DEF Waiting
    <2> QED
      BY <1>7, <1>8, <2>6, <2>7 DEF Accounted, QueueInTurn, BufferAllotted
  <1> QED
    BY <1>3, <1>10, <1>11

LEMMA ProcessorAccounted ==
    ASSUME Accounted, Typed', Processor
    PROVE  Accounted'
  <1> USE DEF decoder, player
  <1>0. /\ Typed /\ Waiting /\ QueueInTurn /\ BufferAllotted
        /\ OfStream(work, format) /\ OfStream(leftover, stream)
    BY DEF Accounted, QueueInTurn, BufferAllotted
  <1>1. /\ pending \in Seq(Commands) /\ commands \in Seq(Commands)
        /\ Queue \in Seq(Commands) /\ source \in Seq(Units) /\ work \in Seq(Units)
        /\ unprocessed \in Nat /\ unannounced \in Nat
    BY <1>0, AccountedTypes
  <1>2. UNCHANGED <<stream, leftover, dstep, unannounced>>
    BY DEF Processor, SetAside, ClearBuffers, GoOn, FlushFirst, ProcessSamples,
           HandleBegin, HandleSamples, HandleEnd
  <1>3. OfStream(leftover, stream)' /\ Current' = Current
    BY <1>0, <1>2 DEF OfStream, Current
  <1>4. pending # << >> =>
           /\ Head(pending) \in Commands /\ Head(pending) = Queue[1] /\ Len(Queue) > 0
           /\ \A i \in 1..Len(Tail(pending)) : Tail(pending)[i].kind # "cancel"
    <2> HAVE pending # << >>
    <2>1. Head(pending) \in Commands
      BY <1>1, HeadTailProperties
    <2>2. Head(pending) = Queue[1] /\ 1 \in 1..Len(Queue)
      BY <1>1, QueueHandled DEF Queue
    <2>3. /\ Len(Tail(pending)) = Len(pending) - 1 /\ Len(pending) \in Nat
          /\ \A i \in 1..Len(Tail(pending)) : Tail(pending)[i] = pending[i + 1]
      BY <1>1, HeadTailProperties
    <2>4. \A i \in 1..Len(Tail(pending)) : i + 1 \in 1..Len(pending)
      BY <2>3
    <2>5. \A i \in 1..Len(Tail(pending)) : Tail(pending)[i].kind # "cancel"
      BY <1>0, <2>3, <2>4 DEF Waiting
    <2>6. Len(Queue) > 0
      BY <1>1, <2>2
    <2> QED
      BY <2>1, <2>2, <2>5, <2>6
  <1>5. CASE SetAside
    <2>1. /\ commands # << >> /\ Head(commands).kind # "cancel"
          /\ pending' = Append(pending, Head(commands))
          /\ commands' = Tail(commands) /\ pstep' = "flush"
          /\ UNCHANGED <<source, unprocessed, work, format>>
      BY <1>5 DEF SetAside
    <2>2. Queue' = Queue /\ Busy' = Busy
      BY <1>1, <2>1, QueueSetAside DEF Queue, Busy
    <2>3. QueueInTurn' /\ BufferAllotted' /\ OfStream(work, format)'
      BY <1>0, <1>2, <1>3, <2>1, <2>2 DEF QueueInTurn, BufferAllotted, OfStream
    <2>4. Waiting'
      <3>1. \A i \in 1..Len(pending') : pending'[i].kind # "cancel"
        <4>1. /\ Len(pending') = Len(pending) + 1 /\ Len(pending) \in Nat
              /\ \A i \in 1..Len(pending) : pending'[i] = pending[i]
              /\ pending'[Len(pending) + 1] = Head(commands)
          BY <1>1, <2>1, AppendProperties
        <4> TAKE i \in 1..Len(pending')
        <4>2. CASE i = Len(pending) + 1
          BY <2>1, <4>1, <4>2
        <4>3. CASE i # Len(pending) + 1
          BY <1>0, <4>1, <4>3 DEF Waiting
        <4> QED
          BY <4>2, <4>3
      <3> QED
        BY <1>0, <1>2, <1>3, <2>1, <3>1 DEF Waiting
    <2> QED
      BY <1>3, <2>3, <2>4 DEF Accounted, QueueInTurn, BufferAllotted
  <1>6. CASE ClearBuffers
    <2>1. QueueInTurn' /\ BufferAllotted'
      BY <1>6, ClearedAccounted
    <2>2. pending' = << >> /\ work' = << >> /\ pstep' = "flush"
      BY <1>6 DEF ClearBuffers
    <2>3. Waiting' /\ OfStream(work, format)'
      BY <1>0, <1>2, <1>3, <2>2 DEF Waiting, OfStream
    <2> QED
      BY <1>3, <2>1, <2>3 DEF Accounted, QueueInTurn, BufferAllotted
  <1>7. CASE GoOn \/ FlushFirst \/ HandleEnd
    <2>1. /\ UNCHANGED <<pending, commands, source, unprocessed, work, format>>
          /\ pstep' = "finish" => Head(pending).kind = "end"
      BY <1>7 DEF GoOn, FlushFirst, HandleEnd
    <2>2. Queue' = Queue /\ Busy' = Busy
      BY <2>1 DEF Queue, Busy
    <2>3. QueueInTurn' /\ BufferAllotted' /\ OfStream(work, format)' /\ Waiting'
      BY <1>0, <1>2, <1>3, <2>1, <2>2
         DEF QueueInTurn, BufferAllotted, OfStream, Waiting
    <2> QED
      BY <1>3, <2>3 DEF Accounted, QueueInTurn, BufferAllotted
  <1>8. CASE ProcessSamples
    BY <1>8, TurnAccounted
  <1>9. CASE HandleBegin
    <2>1. /\ pending # << >> /\ Head(pending).kind = "begin"
          /\ format' = Head(pending).stream /\ pending' = Tail(pending)
          /\ UNCHANGED <<commands, source, unprocessed, work, pstep>>
          /\ pstep' # "finish"
      BY <1>9 DEF HandleBegin
    <2>2. Busy = 0
      BY <1>0, <1>4, <2>1 DEF QueueInTurn, InTurn
    <2>3. unprocessed = 0 /\ Len(work) = 0
      BY <1>1, <2>2 DEF Busy
    <2>4. Head(pending).units = 0 /\ ~Closes(Head(pending))
      BY <1>4, <2>1, CommandFields DEF Closes
    <2>5. QueueInTurn' /\ BufferAllotted'
      <3>1. unprocessed' = unprocessed + Head(pending).units
        BY <2>1, <2>3, <2>4
      <3> QED
        BY <1>0, <1>2, <2>1, <2>3, <2>4, <3>1, HandledAccounted
    <2>6. Waiting' /\ OfStream(work, format)'
      BY <1>0, <1>2, <1>3, <1>4, <2>1, <2>3 DEF Waiting, OfStream
    <2> QED
      BY <1>3, <2>5, <2>6 DEF Accounted, QueueInTurn, BufferAllotted
  <1>10. CASE HandleSamples
    <2>1. /\ pending # << >> /\ Head(pending).kind = "samples"
          /\ format' = format /\ pending' = Tail(pending)
          /\ unprocessed' = unprocessed + Head(pending).units
          /\ UNCHANGED <<commands, source, work, pstep>>
          /\ pstep' # "finish"
      BY <1>10 DEF HandleSamples
    <2>2. Head(pending).stream = format
      BY <1>0, <1>4, <2>1 DEF QueueInTurn, InTurn
    <2>3. ~Closes(Head(pending))
      BY <2>1 DEF Closes
    <2>4. QueueInTurn' /\ BufferAllotted'
      BY <1>0, <1>2, <2>1, <2>2, <2>3, HandledAccounted
    <2>5. Waiting' /\ OfStream(work, format)'
      BY <1>0, <1>2, <1>3, <1>4, <2>1 DEF Waiting, OfStream
    <2> QED
      BY <1>3, <2>4, <2>5 DEF Accounted, QueueInTurn, BufferAllotted
  <1> QED
    BY <1>5, <1>6, <1>7, <1>8, <1>9, <1>10 DEF Processor

LEMMA AccountedStep ==
    ASSUME Accounted, [Next]_vars
    PROVE  Accounted'
  <1> USE DEF decoder, processor, player
  <1>0. Typed'
    BY TypedStep DEF Accounted
  <1>1. CASE Decoder
    BY <1>0, <1>1, DecoderAccounted
  <1>2. CASE Processor
    BY <1>0, <1>2, ProcessorAccounted
  <1>3. CASE \/ Open \/ Stop \/ Receive \/ EventHandler \/ StreamHeartbeat
             \/ TogglePlayPause \/ LeavePlayback \/ UNCHANGED vars
    <2>1. UNCHANGED <<stream, leftover, dstep, unannounced, commands, pending,
                      unprocessed, work, format, pstep, source>>
      BY <1>3 DEF Open, Stop, Receive, EventHandler, StreamStarted, StreamEnded,
                  StreamHeartbeat, TogglePlayPause, LeavePlayback, vars
    <2>2. Queue' = Queue /\ Busy' = Busy /\ Current' = Current
      BY <2>1 DEF Queue, Busy, Current
    <2>3. Waiting' /\ OfStream(work, format)' /\ OfStream(leftover, stream)'
      BY <2>1, <2>2 DEF Accounted, Waiting, OfStream
    <2>4. /\ InTurn(Queue, Current, format, Busy)'
          /\ Allotted(Queue, source, unprocessed, unannounced, stream, format)'
      BY <2>1, <2>2 DEF Accounted
    <2> QED
      BY <1>0, <2>3, <2>4 DEF Accounted
  <1> QED
    BY <1>1, <1>2, <1>3 DEF Next

\* The processor is told of exactly the units in the stream buffer: what it knows
\* of, what the commands on their way announce and what the decoder is about to
\* announce add up to what is there, however streams end and are cancelled.
THEOREM AccountsAlwaysAgree == Spec => []AccountsAgree
  <1>1. Accounted => AccountsAgree
    BY AccountedAgrees
  <1> QED
    BY <1>1, AccountedInitially, AccountedStep, PTL DEF Spec

-----------------------------------------------------------------------------
(* The resampler.                                                          *)

Equipped ==
    /\ resampler = NoResampler
       \/ \E other \in Streams : resampler = NewResampler(other)
    /\ format # NoStream => Fits(format)

LEMMA EquippedInitially ==
    ASSUME Init
    PROVE  Equipped
  BY DEF Init, Equipped

\* Only the beginning of a stream changes the resampler.
LEMMA ResamplerStays ==
    ASSUME [Next]_vars, ~HandleBegin
    PROVE  UNCHANGED <<formats, format, resampler>>
  <1> USE DEF user, processor
  <1>1. CASE Decoder
    BY <1>1 DEF Decoder, TakeStream, CancelDecode, BeginStream, ContinueLeftover,
                DecodePass, DecodeOver, Announce, EndDecode
  <1>2. CASE Processor
    BY <1>2 DEF Processor, SetAside, ClearBuffers, GoOn, FlushFirst, ProcessSamples,
                HandleSamples, HandleEnd
  <1>3. CASE \/ Open \/ Stop \/ Receive \/ EventHandler \/ StreamHeartbeat
             \/ TogglePlayPause \/ LeavePlayback \/ UNCHANGED vars
    BY <1>3 DEF Open, Stop, Receive, EventHandler, StreamStarted, StreamEnded,
                StreamHeartbeat, TogglePlayPause, LeavePlayback, vars
  <1> QED
    BY <1>1, <1>2, <1>3 DEF Next

LEMMA EquippedStep ==
    ASSUME Typed, Equipped, [Next]_vars
    PROVE  Equipped'
  <1>1. CASE ~HandleBegin
    BY <1>1, ResamplerStays DEF Equipped, Fits, NewResampler
  <1>2. CASE HandleBegin
    <2> DEFINE s == Head(pending).stream
    <2>1. format' = s /\ resampler' = ResamplerFor(s) /\ formats' = formats
      BY <1>2 DEF HandleBegin, user
    <2>2. s \in Streams
      <3>1. pending \in Seq(Commands) /\ pending # << >>
        BY <1>2, AccountedTypes DEF HandleBegin
      <3>2. Head(pending) \in Commands
        BY <3>1, HeadTailProperties
      <3> QED
        BY <3>2, CommandFields
    <2>3. formats[s].rate # 0
      BY <2>2, FormatsTyped
    <2> HIDE DEF s
    <2>4. \A other : NewResampler(other)' = NewResampler(other)
      BY <2>1 DEF NewResampler
    <2>5. CASE formats[s].rate = TargetRate
      BY <2>1, <2>5 DEF ResamplerFor, Equipped, Fits
    <2>6. CASE formats[s].rate # TargetRate /\ resampler.rate = formats[s].rate
      <3>1. resampler' = resampler
        BY <2>1, <2>6 DEF ResamplerFor
      <3>2. resampler # NoResampler
        BY <2>3, <2>6 DEF NoResampler
      <3>3. PICK other \in Streams : resampler = NewResampler(other)
        BY <3>2 DEF Equipped
      <3> QED
        BY <2>1, <2>4, <2>6, <3>1, <3>3 DEF Equipped, Fits
    <2>7. CASE formats[s].rate # TargetRate /\ resampler.rate # formats[s].rate
      <3>1. resampler' = NewResampler(s)
        BY <2>1, <2>7 DEF ResamplerFor
      <3>2. NewResampler(s).rate = formats[s].rate
        BY DEF NewResampler
      <3> QED
        BY <2>1, <2>2, <2>4, <2>7, <3>1, <3>2 DEF Equipped, Fits
    <2> QED
      BY <2>5, <2>6, <2>7
  <1> QED
    BY <1>1, <1>2

\* No unit waits to be converted as one of another stream than its own, and the
\* resampler fits that stream.
THEOREM AlwaysConvertedAsItself == Spec => []ConvertedAsItself
  <1>1. Accounted /\ Equipped => ConvertedAsItself
    BY AccountedConverts DEF Equipped, ConvertedAsItself
  <1>2. Init => Accounted /\ Equipped
    BY AccountedInitially, EquippedInitially
  <1>3. Accounted /\ Equipped /\ [Next]_vars => (Accounted /\ Equipped)'
    BY AccountedStep, EquippedStep DEF Accounted
  <1> QED
    BY <1>1, <1>2, <1>3, PTL DEF Spec
=============================================================================
