-------------------------- MODULE AudioTracks_proofs --------------------------
(***************************************************************************)
(* For any tracks, number of workers and length of the queues: clear()      *)
(* waits for appending_async_ only as long as a job is there to reset it;   *)
(* the types; the current track is the one at the position; what plays is   *)
(* the current track; and what next() goes to is what the screen shows.     *)
(***************************************************************************)
EXTENDS AudioTracks, FiniteSetTheorems, SequenceTheorems, TLAPS

\* The jobs that load tracks, waiting for a worker or with one.
Appending(job) == job.step \in AppendingSteps
Waiting == {i \in 1..Len(jobs) : Appending(jobs[i])}
Working == {w \in Workers : Appending(running[w])}

\* Of the types only that jobs have a step.
IsJob(job) == "step" \in DOMAIN job

PoolTyped ==
    /\ \E S : jobs \in Seq(S)
    /\ \A i \in 1..Len(jobs) : IsJob(jobs[i])
    /\ running = [w \in Workers |-> running[w]]
    /\ \A w \in Workers : IsJob(running[w])

\* One job loads tracks while appending_async_ is set, and none otherwise.
OneAppender ==
    /\ appending => Waiting # {} \/ Working # {}
    /\ ~appending => Waiting = {} /\ Working = {}
    /\ Waiting = {} \/ Working = {}
    /\ \A i, j \in Waiting : i = j
    /\ \A v, w \in Working : v = w

PoolInv == PoolTyped /\ OneAppender

-----------------------------------------------------------------------------
(* The ways in which the jobs change.                                       *)

\* A new job has a step, and loads tracks if that is one of its steps.
LEMMA JobIsJob ==
    ASSUME NEW step, NEW items, NEW changes
    PROVE  /\ IsJob(Job(step, items, changes))
           /\ Appending(Job(step, items, changes)) <=> step \in AppendingSteps
  BY DEF IsJob, Job, Appending

\* A job that does not load tracks is put in the queue.
LEMMA QueuedJob ==
    ASSUME PoolInv, NEW step, NEW items, NEW changes, step \notin AppendingSteps,
           jobs' = Append(jobs, Job(step, items, changes)),
           UNCHANGED <<running, appending>>
    PROVE  PoolInv'
  <1> DEFINE job == Job(step, items, changes)
  <1>1. PICK S : jobs \in Seq(S)
    BY DEF PoolInv, PoolTyped
  <1>2. IsJob(job) /\ ~Appending(job)
    BY DEF IsJob, Job, Appending
  <1>3. /\ jobs' \in Seq(S \cup {job})
        /\ Len(jobs') = Len(jobs) + 1 /\ Len(jobs) \in Nat
        /\ \A i \in 1..Len(jobs) : jobs'[i] = jobs[i]
        /\ jobs'[Len(jobs) + 1] = job
    BY <1>1
  <1>4. Waiting' = Waiting /\ Working' = Working
    BY <1>2, <1>3 DEF Waiting, Working, Appending
  <1>5. PoolTyped'
    BY <1>2, <1>3 DEF PoolInv, PoolTyped, IsJob
  <1> QED
    BY <1>4, <1>5 DEF PoolInv, OneAppender

OnlyWorker(w) ==
    /\ running' = [v \in Workers |-> running'[v]]
    /\ IsJob(running'[w])
    /\ \A v \in Workers \ {w} : running'[v] = running[v]

\* A worker's job goes on, and loads tracks if it did before.
LEMMA JobGoesOn ==
    ASSUME PoolInv, NEW w \in Workers, OnlyWorker(w),
           Appending(running'[w]) <=> Appending(running[w]),
           UNCHANGED <<jobs, appending>>
    PROVE  PoolInv'
  <1>1. Waiting' = Waiting /\ Working' = Working
    BY DEF Waiting, Working, Appending, OnlyWorker
  <1>2. PoolTyped'
    BY DEF PoolInv, PoolTyped, IsJob, OnlyWorker
  <1> QED
    BY <1>1, <1>2 DEF PoolInv, OneAppender

\* What an assignment to a worker's job, or to its fields, does.
LEMMA WorkerAssigned ==
    ASSUME PoolInv, NEW w \in Workers, NEW step, NEW items, NEW changes,
           \/ running' = [running EXCEPT ![w] = Job(step, items, changes)]
           \/ running' = [running EXCEPT ![w].step = step]
           \/ running' = [running EXCEPT ![w].items = items, ![w].step = step]
           \/ running' = [running EXCEPT ![w].step = step, ![w].changes = changes]
    PROVE  OnlyWorker(w) /\ running'[w].step = step
  <1>1. CASE running' = [running EXCEPT ![w] = Job(step, items, changes)]
    BY <1>1 DEF PoolInv, PoolTyped, IsJob, Job, OnlyWorker
  <1>2. CASE running' = [running EXCEPT ![w].step = step]
    BY <1>2 DEF PoolInv, PoolTyped, IsJob, OnlyWorker
  <1>3. CASE running' = [running EXCEPT ![w].items = items, ![w].step = step]
    BY <1>3 DEF PoolInv, PoolTyped, IsJob, OnlyWorker
  <1>4. CASE running' = [running EXCEPT ![w].step = step, ![w].changes = changes]
    BY <1>4 DEF PoolInv, PoolTyped, IsJob, OnlyWorker
  <1> QED
    BY <1>1, <1>2, <1>3, <1>4

\* The job that loads tracks ends, and resets the flag.
LEMMA AppenderEnds ==
    ASSUME PoolInv, NEW w \in Workers, Appending(running[w]),
           running' = [running EXCEPT ![w] = Idle], appending' = FALSE,
           UNCHANGED jobs
    PROVE  PoolInv'
  <1>1. /\ running' = [v \in Workers |-> running'[v]]
        /\ running'[w] = Idle
        /\ \A v \in Workers \ {w} : running'[v] = running[v]
    BY DEF PoolInv, PoolTyped
  <1>2. IsJob(Idle) /\ ~Appending(Idle)
    BY DEF IsJob, Idle, Job, Appending, AppendingSteps
  <1>3. Waiting = {} /\ Working = {w}
    BY DEF PoolInv, OneAppender, Working
  <1>4. Waiting' = {} /\ Working' = {}
    BY <1>1, <1>2, <1>3 DEF Waiting, Working, Appending
  <1>5. PoolTyped'
    BY <1>1, <1>2 DEF PoolInv, PoolTyped, IsJob
  <1> QED
    BY <1>4, <1>5 DEF PoolInv, OneAppender

\* A worker takes the first job of the queue.
LEMMA JobTaken ==
    ASSUME PoolInv, NEW w \in Workers, TakeJob(w)
    PROVE  PoolInv'
  <1>1. PICK S : jobs \in Seq(S)
    BY DEF PoolInv, PoolTyped
  <1>2. /\ Len(jobs) \in Nat \ {0} /\ jobs' \in Seq(S)
        /\ Len(jobs') = Len(jobs) - 1
        /\ \A i \in 1..Len(jobs') : jobs'[i] = jobs[i + 1]
        /\ Head(jobs) = jobs[1]
    BY <1>1 DEF TakeJob
  <1>3. /\ running' = [v \in Workers |-> running'[v]]
        /\ running'[w] = jobs[1]
        /\ \A v \in Workers \ {w} : running'[v] = running[v]
        /\ appending' = appending
    BY <1>2 DEF PoolInv, PoolTyped, TakeJob, flags
  <1>4. ~Appending(running[w])
    BY DEF TakeJob, Idle, Job, Appending, AppendingSteps
  <1>5. /\ Waiting' = {i \in 1..Len(jobs') : i + 1 \in Waiting}
        /\ Working' = IF 1 \in Waiting THEN Working \cup {w} ELSE Working
    BY <1>2, <1>3, <1>4 DEF Waiting, Working, Appending
  <1>6. Waiting \subseteq 1..Len(jobs)
    BY DEF Waiting
  <1>7. Waiting' = {} <=> Waiting \subseteq {1}
    <2>1. ASSUME NEW i \in Waiting'
          PROVE  i + 1 \in Waiting /\ i + 1 # 1
      BY <1>2, <1>5, <2>1
    <2>2. ASSUME NEW j \in Waiting, j # 1
          PROVE  j - 1 \in Waiting'
      <3>1. j - 1 \in 1..Len(jobs') /\ (j - 1) + 1 = j
        BY <1>2, <1>6, <2>2
      <3> QED
        BY <1>5, <2>2, <3>1
    <2> QED
      BY <2>1, <2>2
  <1>8. OneAppender'
    <2>1. CASE 1 \in Waiting
      <3>1. Waiting = {1} /\ Working = {} /\ appending
        BY <2>1 DEF PoolInv, OneAppender
      <3> QED
        BY <1>3, <1>5, <1>7, <3>1 DEF OneAppender
    <2>2. CASE 1 \notin Waiting
      <3>1. Working' = Working /\ (Waiting' = {} <=> Waiting = {})
        BY <1>5, <1>7, <2>2
      <3>2. \A i, j \in Waiting' : i = j
        BY <1>2, <1>5 DEF PoolInv, OneAppender
      <3> QED
        BY <1>3, <3>1, <3>2 DEF PoolInv, OneAppender
    <2> QED
      BY <2>1, <2>2
  <1>9. PoolTyped'
    BY <1>2, <1>3 DEF PoolInv, PoolTyped, IsJob
  <1> QED
    BY <1>8, <1>9 DEF PoolInv

\* appendAsync: the flag is set together with the job that will reset it.
LEMMA AppenderStarts ==
    ASSUME PoolInv, NEW w \in Workers, AddIterator(w)
    PROVE  PoolInv'
  <1> DEFINE job == Job("start", running[w].items, running[w].changes)
  <1>1. /\ running' = [running EXCEPT ![w] = Idle]
        /\ ~Appending(running[w])
    BY DEF AddIterator, StepIs, Ends, Appending, AppendingSteps
  <1>2. IsJob(Idle) /\ ~Appending(Idle) /\ IsJob(job) /\ Appending(job)
    BY DEF IsJob, Idle, Job, Appending, AppendingSteps
  <1>3. CASE appending
    <2>1. OnlyWorker(w) /\ running'[w].step = "idle"
      BY <1>1, WorkerAssigned DEF Idle
    <2> QED
      BY <1>1, <1>3, <2>1, JobGoesOn DEF AddIterator, Appending, AppendingSteps
  <1>4. CASE ~appending
    <2>1. PICK S : jobs \in Seq(S)
      BY DEF PoolInv, PoolTyped
    <2>2. /\ jobs' \in Seq(S \cup {job})
          /\ Len(jobs') = Len(jobs) + 1 /\ Len(jobs) \in Nat
          /\ \A i \in 1..Len(jobs) : jobs'[i] = jobs[i]
          /\ jobs'[Len(jobs) + 1] = job /\ appending'
      BY <1>4, <2>1 DEF AddIterator
    <2>3. /\ running' = [v \in Workers |-> running'[v]]
          /\ running'[w] = Idle
          /\ \A v \in Workers \ {w} : running'[v] = running[v]
      BY <1>1 DEF PoolInv, PoolTyped
    <2>4. Waiting = {} /\ Working = {}
      BY <1>4 DEF PoolInv, OneAppender
    <2>5. Waiting' = {Len(jobs) + 1}
      BY <1>2, <2>2, <2>4 DEF Waiting, Appending
    <2>6. Working' = {}
      BY <1>2, <2>3, <2>4 DEF Working, Appending
    <2>7. PoolTyped'
      BY <1>2, <2>2, <2>3 DEF PoolInv, PoolTyped, IsJob
    <2> QED
      BY <2>2, <2>5, <2>6, <2>7 DEF PoolInv, OneAppender
  <1> QED
    BY <1>3, <1>4

-----------------------------------------------------------------------------
(* The steps.                                                              *)

\* Nothing happens to the jobs.
LEMMA PoolUnchanged ==
    ASSUME PoolInv, UNCHANGED <<jobs, running, appending>>
    PROVE  PoolInv'
  BY DEF PoolInv, PoolTyped, OneAppender, Waiting, Working, Appending, IsJob

\* The user adds at most a job that does not load tracks yet.
LEMMA UserStepPool ==
    ASSUME PoolInv, UserStep
    PROVE  PoolInv'
  <1> USE DEF flags, pool
  <1>1. ASSUME NEW items, NEW step \in {"check", "checkAll"}, AddTracks(items, step)
        PROVE  PoolInv'
    BY <1>1, QueuedJob DEF AddTracks, AppendingSteps
  <1>2. CASE UserNext \/ UserPrevious \/ UserPosition \/ UserRandom \/ UserRepeat
    BY <1>2, PoolUnchanged
       DEF UserNext, UserPrevious, UserPosition, UserRandom, UserRepeat
  <1>3. ASSUME NEW then, NEW items, StartClear(then, items)
        PROVE  PoolInv'
    BY <1>3, PoolUnchanged DEF StartClear
  <1> QED
    BY <1>1, <1>2, <1>3 DEF UserStep, User

\* clear() and what waits for it leave the jobs alone.
LEMMA ClearingStepPool ==
    ASSUME PoolInv, ClearingStep
    PROVE  PoolInv'
  BY PoolUnchanged
     DEF ClearingStep, Clearing, CancelAppending, AwaitAppending, ClearQueue,
         OpenPlaylist, PlayFrom, flags, pool

\* The state machine adds jobs that load no tracks.
LEMMA AudioStepPool ==
    ASSUME PoolInv, AudioStep
    PROVE  PoolInv'
  <1> USE DEF flags, pool, audioVars
  <1>1. ASSUME NEW step \in {"open", "compare"}, NEW track, Dispatch(step, track),
               UNCHANGED <<running, appending>>
        PROVE  PoolInv'
    BY <1>1, QueuedJob DEF Dispatch, AppendingSteps
  <1>2. CASE ReactQueueUpdate
    BY <1>1, <1>2, PoolUnchanged DEF ReactQueueUpdate, SetTrack
  <1>3. CASE ReactDecodingFinished
    BY <1>1, <1>3 DEF ReactDecodingFinished
  <1>4. CASE DecodingFinishes
    BY <1>4, PoolUnchanged DEF DecodingFinishes
  <1> QED
    BY <1>2, <1>3, <1>4 DEF AudioStep

\* The job that loads tracks, from its check to the reset of the flag.
LEMMA AppendJobPool ==
    ASSUME PoolInv, NEW w \in Workers, AppendJob(w)
    PROVE  PoolInv'
  <1> USE DEF flags, StepIs, AppendingSteps, Appending
  <1>1. CASE CheckEmpty(w)
    <2>1. PICK step \in {"add", "addAll"} :
             running' = [running EXCEPT
                 ![w] = Job(step, running[w].items, position >= Total)]
      <3>1. CASE running[w].step = "check"
        BY <1>1, <3>1 DEF CheckEmpty
      <3>2. CASE running[w].step = "checkAll"
        BY <1>1, <3>2 DEF CheckEmpty
      <3> QED
        BY <1>1, <3>1, <3>2 DEF CheckEmpty
    <2>2. OnlyWorker(w) /\ running'[w].step = step
      BY <2>1, WorkerAssigned
    <2> QED
      BY <1>1, <2>2, JobGoesOn DEF CheckEmpty
  <1>2. CASE AddTrack(w)
    <2>1. OnlyWorker(w) /\ running'[w].step = "idle"
      BY <1>2, WorkerAssigned DEF AddTrack, Ends, Idle
    <2> QED
      BY <1>2, <2>1, JobGoesOn DEF AddTrack
  <1>3. CASE AddIterator(w)
    BY <1>3, AppenderStarts
  <1>4. CASE StartAppending(w)
    <2>1. OnlyWorker(w) /\ running'[w].step = "load"
      BY <1>4, WorkerAssigned DEF StartAppending, GoesTo
    <2> QED
      BY <1>4, <2>1, JobGoesOn DEF StartAppending
  <1>5. CASE StopAppending(w)
    BY <1>5, AppenderEnds DEF StopAppending, Ends
  <1>6. CASE LoadTrack(w)
    <2>1. PICK step \in {"load", "report"} :
             running' = [running EXCEPT ![w].items = Tail(@), ![w].step = step]
      BY <1>6 DEF LoadTrack
    <2>2. running' = [running EXCEPT ![w].items = Tail(running[w].items),
                                     ![w].step = step]
      BY <2>1
    <2>3. OnlyWorker(w) /\ running'[w].step = step
      BY <2>2, WorkerAssigned
    <2> QED
      BY <1>6, <2>3, JobGoesOn DEF LoadTrack
  <1>7. CASE ReportLoading(w)
    <2> DEFINE enough == IF shuffle.on THEN Len(main) >= ManyTracks
                         ELSE Len(main) > 0
               changes == running[w].changes /\ ~(running[w].changes /\ enough)
    <2>1. running' = [running EXCEPT ![w].step = "load", ![w].changes = changes]
      BY <1>7 DEF ReportLoading
    <2>2. OnlyWorker(w) /\ running'[w].step = "load"
      BY <2>1, WorkerAssigned
    <2> QED
      BY <1>7, <2>2, JobGoesOn DEF ReportLoading
  <1>8. CASE NextIterator(w)
    <2>1. running' = [running EXCEPT ![w].items = Head(iterators)]
      BY <1>8 DEF NextIterator
    <2>2. OnlyWorker(w) /\ running'[w].step = running[w].step
      BY <2>1 DEF PoolInv, PoolTyped, IsJob, OnlyWorker
    <2> QED
      BY <1>8, <2>2, JobGoesOn DEF NextIterator
  <1>9. CASE FinishAppending(w)
    BY <1>9, AppenderEnds DEF FinishAppending, Ends
  <1> QED
    BY <1>1, <1>2, <1>3, <1>4, <1>5, <1>6, <1>7, <1>8, <1>9 DEF AppendJob

\* The jobs that open and finish tracks.
LEMMA AudioJobPool ==
    ASSUME PoolInv, NEW w \in Workers, AudioJob(w)
    PROVE  PoolInv'
  <1> USE DEF flags, StepIs, AppendingSteps, Appending
  <1>1. ASSUME Ends(w), ~Appending(running[w]), UNCHANGED <<jobs, appending>>
        PROVE  PoolInv'
    <2>1. OnlyWorker(w) /\ running'[w].step = "idle"
      BY <1>1, WorkerAssigned DEF Ends, Idle
    <2> QED
      BY <1>1, <2>1, JobGoesOn
  <1>2. ASSUME NEW step \in {"compare", "finish"}, GoesTo(w, step),
               ~Appending(running[w]), UNCHANGED <<jobs, appending>>
        PROVE  PoolInv'
    <2>1. OnlyWorker(w) /\ running'[w].step = step
      BY <1>2, WorkerAssigned DEF GoesTo
    <2> QED
      BY <1>2, <2>1, JobGoesOn
  <1>3. CASE OpenStream(w)
    BY <1>1, <1>3 DEF OpenStream
  <1>4. CASE OpenFails(w)
    BY <1>2, <1>4 DEF OpenFails
  <1>5. CASE CompareCurrent(w)
    BY <1>1, <1>2, <1>5 DEF CompareCurrent
  <1>6. CASE FinishCurrent(w)
    BY <1>1, <1>6 DEF FinishCurrent
  <1> QED
    BY <1>3, <1>4, <1>5, <1>6 DEF AudioJob

LEMMA PoolInit == Init => PoolInv
  BY DEF Init, QueueInit, PoolInv, PoolTyped, OneAppender, Waiting, Working,
         IsJob, Idle, Job, Appending, AppendingSteps

LEMMA PoolStep == PoolInv /\ [Next]_vars => PoolInv'
  <1> SUFFICES ASSUME PoolInv, [Next]_vars PROVE PoolInv'
    OBVIOUS
  <1>1. ASSUME NEW w \in Workers, WorkerStep(w)
        PROVE  PoolInv'
    BY <1>1, JobTaken, AppendJobPool, AudioJobPool DEF WorkerStep
  <1>2. CASE UNCHANGED vars
    BY <1>2, PoolUnchanged DEF vars, queueVars, pool, flags
  <1> QED
    BY <1>1, <1>2, UserStepPool, ClearingStepPool, AudioStepPool DEF Next

-----------------------------------------------------------------------------
\* Whenever clear() may wait for appending_async_ to be reset, exactly one job is
\* there that resets it, and none is there otherwise: a second one could reset the
\* flag while the first goes on filling a queue that was cleared.
THEOREM ClearIsAnswered == Spec => []AppendingHasJob
  <1>1. PoolInv => AppendingHasJob
    <2> SUFFICES ASSUME PoolInv PROVE AppendingHasJob
      OBVIOUS
    <2>1. AppendingHasJob <=>
             Cardinality(Waiting) + Cardinality(Working) = IF appending THEN 1 ELSE 0
      BY DEF AppendingHasJob, Waiting, Working, Appending
    <2>2. Cardinality({}) = 0
      BY FS_EmptySet
    <2>3. CASE ~appending
      BY <2>1, <2>2, <2>3 DEF PoolInv, OneAppender
    <2>4. ASSUME appending, NEW x \in Waiting
          PROVE  AppendingHasJob
      <3>1. Waiting = {x} /\ Working = {}
        BY <2>4 DEF PoolInv, OneAppender
      <3>2. Cardinality({x}) = 1
        BY FS_Singleton
      <3> QED
        BY <2>1, <2>2, <2>4, <3>1, <3>2
    <2>5. ASSUME appending, NEW x \in Working
          PROVE  AppendingHasJob
      <3>1. Working = {x} /\ Waiting = {}
        BY <2>5 DEF PoolInv, OneAppender
      <3>2. Cardinality({x}) = 1
        BY FS_Singleton
      <3> QED
        BY <2>1, <2>2, <2>5, <3>1, <3>2
    <2> QED
      BY <2>3, <2>4, <2>5 DEF PoolInv, OneAppender
  <1> QED
    BY PoolInit, PoolStep, <1>1, PTL DEF Spec
-----------------------------------------------------------------------------
(* The track at the position.                                              *)

AllTracks == Tracks \cup {NoTrack}
Shuffles == [on : BOOLEAN, seed : Seeds, pos : Nat, size : Nat]

\* The lists and what is known of their current tracks.  A shuffle is never
\* longer than the queue, so it never yields a position behind its end.
Listed ==
    /\ main \in Seq(Tracks) /\ opened \in Seq(Tracks)
    /\ value \in AllTracks /\ openedValue \in AllTracks
    /\ position \in 0..(SizeModulus - 1)
    /\ shuffle \in Shuffles
    /\ Total <= MaxTracks /\ shuffle.size <= Total
    /\ main = << >> <=> value = NoTrack
    /\ ui.step = "then" => opened = << >>
    /\ inputs \in 0..MaxInputs

AtPosition ==
    position < Total =>
        IF position < Len(opened) THEN openedValue = opened[position + 1]
        ELSE value = main[position - Len(opened) + 1]

\* Only in an empty queue is there no track at the position.  previous() wraps
\* there if the queue repeats, and then is at most as many steps below the
\* wrap as the user made: too far for any list.
InPlace ==
    \/ position < Total
    \/ Total = 0 /\ position = 0
    \/ position + inputs >= SizeModulus /\ opened = << >>

Placed == InPlace /\ AtPosition

LEMMA Lengths ==
    ASSUME Listed
    PROVE  /\ Len(main) \in Nat /\ Len(opened) \in Nat /\ Total \in Nat
           /\ Total = Len(opened) + Len(main)
           /\ position \in Nat /\ inputs \in Nat /\ position < SizeModulus
           /\ Total <= MaxTracks /\ MaxTracks \in Nat /\ SizeModulus \in Nat
           /\ inputs <= MaxInputs /\ MaxInputs \in Nat
           /\ MaxTracks + MaxInputs + 1 < SizeModulus
           /\ shuffle.size \in Nat /\ shuffle.pos \in Nat
           /\ shuffle.size <= Total
  BY QueueAssumption DEF Listed, Total, Shuffles

\* A shuffle yields one of its numbers, and an empty one zero.
LEMMA AtInRange ==
    ASSUME NEW s \in Shuffles, NEW n \in Nat, s.size <= MaxTracks
    PROVE  /\ At(s, n) \in Nat
           /\ s.size = 0 => At(s, n) = 0
           /\ s.size > 0 => At(s, n) < s.size
  <1> DEFINE size == s.size
             m == n % (2 * size)
  <1>1. size \in Nat /\ s.seed \in Seeds
    BY DEF Shuffles
  <1>2. CASE size = 0
    BY <1>2 DEF At
  <1>3. CASE size # 0
    <2> HIDE DEF size
    <2>1. size \in 1..MaxTracks
      BY <1>1, <1>3, QueueAssumption DEF size
    <2>2. 2 * size \in Nat \ {0}
      BY <2>1
    <2>3. m \in 0..(2 * size - 1)
      BY <2>2
    <2>4. MillerShuffle[s.seed][size][m] \in 0..(size - 1)
      <3> HIDE DEF m
      <3> QED
        BY <1>1, <2>1, <2>3, QueueAssumption
    <2>5. At(s, n) = MillerShuffle[s.seed][size][m]
      BY <1>3 DEF At, size
    <2>6. At(s, n) \in 0..(size - 1)
      BY <2>4, <2>5
    <2> HIDE DEF m
    <2> QED
      BY <1>1, <1>3, <2>6 DEF size
  <1> QED
    BY <1>2, <1>3

\* What an assignment to the parts of a shuffle does.
LEMMA ShuffleAssigned ==
    ASSUME NEW s \in Shuffles, NEW n \in Nat
    PROVE  /\ Resized(s, n) \in Shuffles /\ Resized(s, n).size = n
           /\ Resized(s, n).pos = 0
           /\ [s EXCEPT !.pos = n] \in Shuffles
           /\ [s EXCEPT !.pos = n].size = s.size
           /\ [s EXCEPT !.pos = n].pos = n
  BY DEF Shuffles, Resized

\* Going to a position fetches the track there, if there is one.
LEMMA GoesToTrack ==
    ASSUME main' \in Seq(Tracks), opened' \in Seq(Tracks), openedValue \in AllTracks,
           NEW v \in AllTracks, NEW p \in Nat, GoTo(p, v)
    PROVE  /\ value' \in AllTracks /\ openedValue' \in AllTracks
           /\ position' = p
           /\ AtPosition'
           /\ (main' = << >> <=> v = NoTrack) => (main' = << >> <=> value' = NoTrack)
  <1>1. /\ Len(main') \in Nat /\ Len(opened') \in Nat
        /\ \A i \in 1..Len(main') : main'[i] \in Tracks
        /\ \A i \in 1..Len(opened') : opened'[i] \in Tracks
        /\ main' = << >> <=> Len(main') = 0
    OBVIOUS
  <1>2. CASE p < Len(opened')
    <2>1. /\ openedValue' = opened'[p + 1] /\ value' = v /\ position' = p
          /\ p + 1 \in 1..Len(opened')
      BY <1>1, <1>2 DEF GoTo
    <2> QED
      BY <1>1, <1>2, <2>1 DEF AtPosition, Total, AllTracks
  <1>3. CASE p >= Len(opened') /\ p < Len(opened') + Len(main')
    <2>1. /\ openedValue' = openedValue /\ value' = main'[p - Len(opened') + 1]
          /\ position' = p
          /\ p - Len(opened') + 1 \in 1..Len(main')
      BY <1>1, <1>3 DEF GoTo
    <2>2. value' \in Tracks /\ value' # NoTrack /\ main' # << >>
      BY <1>1, <2>1, QueueAssumption
    <2>3. AtPosition'
      BY <1>1, <1>3, <2>1 DEF AtPosition, Total
    <2> QED
      BY <2>1, <2>2, <2>3 DEF AllTracks
  <1>4. CASE p >= Len(opened') + Len(main')
    BY <1>1, <1>4 DEF AtPosition, Total, GoTo, AllTracks
  <1> QED
    BY <1>1, <1>2, <1>3, <1>4

\* Going to a position from which the lists stay as they are.
LEMMA GoesInPlace ==
    ASSUME Listed, UNCHANGED <<lists, ui>>, inputs' \in 0..MaxInputs,
           shuffle' \in Shuffles, shuffle'.size = shuffle.size,
           NEW p \in 0..(SizeModulus - 1), GoTo(p, value),
           \/ p < Total
           \/ Total = 0 /\ p = 0
           \/ InPlace => p + inputs' >= SizeModulus /\ opened = << >>
    PROVE  Listed' /\ (InPlace => Placed')
  BY GoesToTrack DEF Listed, Placed, InPlace, Total, lists

\* Where a shuffle sends it is in place.
LEMMA ShuffledInPlace ==
    ASSUME Listed, UNCHANGED <<lists, ui>>, inputs' \in 0..MaxInputs,
           shuffle' \in Shuffles, shuffle'.size = shuffle.size,
           GoTo(At(shuffle', shuffle'.pos), value)
    PROVE  Listed' /\ (InPlace => Placed')
  <1>1. /\ At(shuffle', shuffle'.pos) \in Nat
        /\ shuffle'.size = 0 => At(shuffle', shuffle'.pos) = 0
        /\ shuffle'.size > 0 => At(shuffle', shuffle'.pos) < shuffle'.size
    <2>1. shuffle'.pos \in Nat /\ shuffle'.size <= MaxTracks
      BY Lengths DEF Shuffles
    <2> QED
      BY <2>1, AtInRange
  <1> HIDE DEF At
  <1>2. /\ At(shuffle', shuffle'.pos) < Total \/ (Total = 0 /\ At(shuffle', shuffle'.pos) = 0)
        /\ At(shuffle', shuffle'.pos) \in 0..(SizeModulus - 1)
    BY <1>1, Lengths
  <1> QED
    BY <1>2, GoesInPlace

\* next() and finish() end in place.
LEMMA NextInPlace ==
    ASSUME Listed, UNCHANGED ui, inputs' \in inputs..MaxInputs,
           NEW reason, NextTrack(reason)
    PROVE  Listed' /\ (InPlace => Placed')
  <1>1. inputs' \in 0..MaxInputs /\ inputs' >= inputs /\ inputs' \in Nat
    BY Lengths
  <1>2. CASE ShuffledNext(reason)
    <2>1. shuffle \in Shuffles
      BY DEF Listed
    <2>2. shuffle' = [shuffle EXCEPT !.pos = shuffle.pos + 1] \/ shuffle' = shuffle
      BY <1>2 DEF ShuffledNext
    <2>3. shuffle.pos + 1 \in Nat
      BY Lengths
    <2>4. shuffle' \in Shuffles /\ shuffle'.size = shuffle.size
      <3>1. CASE shuffle' = shuffle
        BY <2>1, <3>1
      <3>2. CASE shuffle' = [shuffle EXCEPT !.pos = shuffle.pos + 1]
        BY <2>1, <2>3, <3>2, ShuffleAssigned
      <3> QED
        BY <2>2, <3>1, <3>2
    <2>5. GoTo(At(shuffle', shuffle'.pos), value) /\ UNCHANGED lists
      BY <1>2 DEF ShuffledNext, NextTrack
    <2> QED
      BY <1>1, <2>4, <2>5, ShuffledInPlace
  <1>3. CASE LinearNext(reason)
    <2> DEFINE following == (position + 1) % SizeModulus
    <2>1. following \in 0..(SizeModulus - 1)
      BY Lengths
    <2>2. /\ UNCHANGED <<lists, shuffle>>
          /\ \/ following < Total /\ GoTo(following, value)
             \/ GoTo(0, value)
             \/ GoTo(position, value)
      BY <1>3 DEF LinearNext, NextTrack
    <2>3. shuffle' \in Shuffles /\ shuffle'.size = shuffle.size
      BY <2>2 DEF Listed
    <2>4. CASE following < Total /\ GoTo(following, value)
      <3> HIDE DEF following
      <3> QED
        BY <1>1, <2>1, <2>2, <2>3, <2>4, GoesInPlace
    <2>5. CASE GoTo(0, value)
      <3>1. 0 < Total \/ Total = 0
        BY Lengths
      <3>2. 0 \in 0..(SizeModulus - 1)
        BY Lengths
      <3> QED
        BY <1>1, <2>2, <2>3, <2>5, <3>1, <3>2, GoesInPlace
    <2>6. CASE GoTo(position, value)
      <3>1. position \in 0..(SizeModulus - 1)
        BY DEF Listed
      <3>2. \/ position < Total
            \/ Total = 0 /\ position = 0
            \/ InPlace => position + inputs' >= SizeModulus /\ opened = << >>
        BY <1>1, Lengths DEF InPlace
      <3> QED
        BY <1>1, <2>2, <2>3, <2>6, <3>1, <3>2, GoesInPlace
    <2> QED
      BY <2>2, <2>4, <2>5, <2>6
  <1> QED
    BY <1>2, <1>3 DEF NextTrack

LEMMA PreviousInPlace ==
    ASSUME Listed, UNCHANGED ui, inputs' = inputs + 1, inputs < MaxInputs,
           PreviousTrack
    PROVE  Listed' /\ (InPlace => Placed')
  <1>1. inputs' \in 0..MaxInputs /\ inputs' = inputs + 1 /\ inputs' \in Nat
    BY Lengths
  <1>2. UNCHANGED lists
    BY DEF PreviousTrack
  <1>3. CASE shuffle.on
    <2>1. shuffle \in Shuffles
      BY DEF Listed
    <2>2. PICK n \in Nat : shuffle' = [shuffle EXCEPT !.pos = n]
      <3> DEFINE n == IF shuffle.pos > 0 THEN shuffle.pos - 1 ELSE 0
      <3>1. n \in Nat
        BY Lengths
      <3>2. shuffle' = [shuffle EXCEPT !.pos = n]
        BY <1>3 DEF PreviousTrack
      <3> QED
        BY <3>1, <3>2
    <2>3. shuffle' \in Shuffles /\ shuffle'.size = shuffle.size
      BY <2>1, <2>2, ShuffleAssigned
    <2>4. GoTo(At(shuffle', shuffle'.pos), value)
      BY <1>3 DEF PreviousTrack
    <2> QED
      BY <1>1, <1>2, <2>3, <2>4, ShuffledInPlace
  <1>4. CASE ~shuffle.on
    <2> DEFINE last == (Total - 1) % SizeModulus
    <2>1. /\ shuffle' = shuffle
          /\ \/ position > 0 /\ GoTo(position - 1, value)
             \/ GoTo(last, value) /\ position = 0
             \/ GoTo(position, value) /\ position = 0
      BY <1>4, Lengths DEF PreviousTrack
    <2>2. shuffle' \in Shuffles /\ shuffle'.size = shuffle.size
      BY <2>1 DEF Listed
    <2>3. CASE position > 0 /\ GoTo(position - 1, value)
      <3>1. position - 1 \in 0..(SizeModulus - 1)
        BY <2>3, Lengths
      <3>2. \/ position - 1 < Total
            \/ Total = 0 /\ position - 1 = 0
            \/ InPlace => position - 1 + inputs' >= SizeModulus /\ opened = << >>
        BY <1>1, <2>3, Lengths DEF InPlace
      <3> QED
        BY <1>1, <1>2, <2>2, <2>3, <3>1, <3>2, GoesInPlace
    <2>4. CASE GoTo(last, value)
      <3>1. /\ last \in 0..(SizeModulus - 1)
            /\ Total > 0 => last = Total - 1
            /\ Total = 0 => last = SizeModulus - 1
        <4>1. Total - 1 \in Int /\ SizeModulus \in Nat \ {0}
              /\ Total <= MaxTracks /\ MaxTracks < SizeModulus
          BY Lengths
        <4>2. Total \in Nat /\ MaxTracks \in Nat
          BY Lengths
        <4> HIDE DEF Total
        <4>3. CASE Total = 0
          <5>1. (0 - 1) % SizeModulus = SizeModulus - 1
            BY <4>1
          <5> QED
            BY <4>1, <4>3, <5>1
        <4>4. CASE Total > 0
          BY <4>1, <4>2, <4>4
        <4> QED
          BY <4>2, <4>3, <4>4
      <3>2. Total = 0 => opened = << >>
        BY Lengths DEF Listed
      <3> HIDE DEF last
      <3>3. \/ last < Total
            \/ InPlace => last + inputs' >= SizeModulus /\ opened = << >>
        BY <1>1, <3>1, <3>2, Lengths
      <3> QED
        BY <1>1, <1>2, <2>2, <2>4, <3>1, <3>3, GoesInPlace
    <2>5. CASE GoTo(position, value) /\ position = 0
      <3>1. position \in 0..(SizeModulus - 1) /\ (position < Total \/ (Total = 0 /\ position = 0))
        BY <2>5, Lengths
      <3> QED
        BY <1>1, <1>2, <2>2, <2>5, <3>1, GoesInPlace
    <2> QED
      BY <2>1, <2>3, <2>4, <2>5
  <1> QED
    BY <1>3, <1>4

\* What a list that tracks were added to is like.
LEMMA Grown ==
    ASSUME Listed, NEW items \in Seq(Tracks), main' = main \o items, opened' = opened,
           Fits(items)
    PROVE  /\ main' \in Seq(Tracks) /\ opened' \in Seq(Tracks)
           /\ Len(items) \in Nat
           /\ Len(main') = Len(main) + Len(items) /\ Total' = Total + Len(items)
           /\ Total' <= MaxTracks /\ Total' \in Nat
           /\ \A i \in 1..Len(main) : main'[i] = main[i]
           /\ main = << >> /\ items # << >> => main'[1] = items[1]
           /\ FirstOf(items) \in AllTracks
           /\ value # NoTrack => FirstOf(items) = value
           /\ value = NoTrack /\ items # << >> => FirstOf(items) = items[1]
           /\ main' = << >> <=> FirstOf(items) = NoTrack
  <1>1. main \in Seq(Tracks) /\ opened \in Seq(Tracks)
    BY DEF Listed
  <1>2. /\ main' \in Seq(Tracks) /\ opened' \in Seq(Tracks)
        /\ Len(main') = Len(main) + Len(items)
        /\ Len(items) \in Nat /\ Len(main) \in Nat /\ Len(opened) \in Nat
        /\ \A i \in 1..Len(main) : main'[i] = main[i]
        /\ \A i \in 1..Len(items) : items[i] \in Tracks /\ main'[Len(main) + i] = items[i]
        /\ items = << >> <=> Len(items) = 0
        /\ main = << >> <=> Len(main) = 0
        /\ main' = << >> <=> Len(main') = 0
    BY <1>1
  <1>3. Total' = Total + Len(items) /\ Total' <= MaxTracks /\ Total' \in Nat
    BY <1>2 DEF Total, Fits
  <1>4. items # << >> => items[1] \in Tracks /\ items[1] # NoTrack
    BY <1>2, QueueAssumption
  <1>5. main = << >> /\ items # << >> => main'[1] = items[1]
    BY <1>2
  <1>6. /\ value \in AllTracks
        /\ main = << >> <=> value = NoTrack
    BY DEF Listed
  <1>7. /\ FirstOf(items) \in AllTracks
        /\ value # NoTrack => FirstOf(items) = value
        /\ value = NoTrack /\ items # << >> => FirstOf(items) = items[1]
        /\ value = NoTrack /\ items = << >> => FirstOf(items) = NoTrack
    BY <1>4, <1>6 DEF FirstOf, AllTracks
  <1>8. main' = << >> <=> main = << >> /\ items = << >>
    BY <1>2
  <1> QED
    BY <1>2, <1>3, <1>4, <1>5, <1>6, <1>7, <1>8

\* Adding tracks behind the others, with the position where it is.
LEMMA StaysInPlace ==
    ASSUME Listed, NEW items \in Seq(Tracks), main' = main \o items, opened' = opened,
           Fits(items), Stay(FirstOf(items)), UNCHANGED inputs,
           shuffle' \in Shuffles, shuffle'.size <= Total', ui'.step = "then" => ui.step = "then"
    PROVE  Listed' /\ (Placed => Placed')
  <1>g. /\ main' \in Seq(Tracks) /\ opened' \in Seq(Tracks)
        /\ Len(items) \in Nat /\ Len(main') = Len(main) + Len(items)
        /\ Total' = Total + Len(items) /\ Total' <= MaxTracks /\ Total' \in Nat
        /\ \A i \in 1..Len(main) : main'[i] = main[i]
        /\ main = << >> /\ items # << >> => main'[1] = items[1]
        /\ FirstOf(items) \in AllTracks
        /\ value # NoTrack => FirstOf(items) = value
        /\ value = NoTrack /\ items # << >> => FirstOf(items) = items[1]
        /\ main' = << >> <=> FirstOf(items) = NoTrack
    BY Grown
  <1>1. /\ value' = FirstOf(items) /\ openedValue' = openedValue
        /\ position' = position
    BY DEF Stay
  <1>2. Listed'
    BY <1>1, <1>g DEF Listed
  <1>3. ASSUME Placed
        PROVE  Placed'
    <2>1. CASE position < Total
      <3>1. position < Total'
        BY <1>g, <2>1, Lengths
      <3>2. ASSUME position >= Len(opened)
            PROVE  value' = main'[position - Len(opened) + 1]
        <4>1. position - Len(opened) + 1 \in 1..Len(main)
          BY <2>1, <3>2, Lengths
        <4>2. main # << >>
          BY <4>1 DEF Listed
        <4>3. value # NoTrack
          BY <4>2 DEF Listed
        <4>4. value' = value /\ main'[position - Len(opened) + 1] = main[position - Len(opened) + 1]
          BY <1>1, <1>g, <4>1, <4>3
        <4> QED
          BY <1>3, <2>1, <3>2, <4>4, Lengths DEF Placed, AtPosition
      <3>3. position < Len(opened) => openedValue' = opened'[position + 1]
        BY <1>1, <1>3, <2>1 DEF Placed, AtPosition
      <3>4. /\ Len(opened) \in Nat /\ Len(opened') = Len(opened) /\ position \in Nat
            /\ position' = position
        BY <1>1, Lengths
      <3>5. AtPosition'
        <4>1. CASE position < Len(opened)
          BY <3>3, <3>4, <4>1 DEF AtPosition
        <4>2. CASE position >= Len(opened)
          <5>1. ~(position' < Len(opened'))
            BY <3>4, <4>2
          <5>2. value' = main'[position' - Len(opened') + 1]
            BY <3>2, <3>4, <4>2
          <5> QED
            BY <5>1, <5>2 DEF AtPosition
        <4> QED
          BY <3>4, <4>1, <4>2
      <3>6. InPlace'
        BY <3>1, <3>4 DEF InPlace
      <3> QED
        BY <3>5, <3>6 DEF Placed
    <2>2. CASE Total = 0 /\ position = 0
      <3>1. main = << >> /\ opened = << >> /\ Len(opened) = 0 /\ value = NoTrack
        BY <2>2, Lengths DEF Listed
      <3>2. CASE items = << >>
        <4>1. Total' = 0
          BY <1>g, <2>2, <3>2
        <4> QED
          BY <1>1, <2>2, <4>1 DEF Placed, AtPosition, InPlace
      <3>3. CASE items # << >>
        <4>1. value' = main'[1] /\ Len(items) > 0
          BY <1>1, <1>g, <3>1, <3>3
        <4>2. Total' > 0 /\ position' = 0 /\ Len(opened') = 0
          BY <1>1, <1>g, <2>2, <3>1, <4>1
        <4> QED
          BY <4>1, <4>2 DEF Placed, AtPosition, InPlace
      <3> QED
        BY <3>2, <3>3
    <2>3. CASE position + inputs >= SizeModulus /\ opened = << >>
      <3>1. position > MaxTracks
        BY <2>3, Lengths
      <3>2. position >= Total'
        BY <1>g, <3>1, Lengths
      <3>3. ~(position' < Total')
        BY <1>1, <1>g, <3>2, Lengths
      <3> QED
        BY <1>1, <2>3, <3>3 DEF Placed, AtPosition, InPlace
    <2> QED
      BY <1>3, <2>1, <2>2, <2>3 DEF Placed, InPlace
  <1> QED
    BY <1>2, <1>3

\* updateShuffler ends in place.
LEMMA ShufflerInPlace ==
    ASSUME Listed, NEW items \in Seq(Tracks), main' = main \o items, opened' = opened,
           Fits(items), NEW andPosition, UpdateShuffler(andPosition, FirstOf(items)),
           UNCHANGED inputs, ui'.step = "then" => ui.step = "then"
    PROVE  Listed' /\ (Placed => Placed')
  <1>1. shuffle \in Shuffles /\ shuffle.size <= Total
    BY DEF Listed
  <1>2. CASE ~shuffle.on
    <2>1. Stay(FirstOf(items)) /\ shuffle' = shuffle
      BY <1>2 DEF UpdateShuffler
    <2>2. Total' = Total + Len(items) /\ Len(items) \in Nat
      BY Grown
    <2>3. shuffle' \in Shuffles /\ shuffle'.size <= Total'
      BY <1>1, <2>1, <2>2, Lengths
    <2> QED
      BY <2>1, <2>3, StaysInPlace
  <1>3. CASE shuffle.on
    <2>1. shuffle' = Resized(shuffle, Total')
      BY <1>3 DEF UpdateShuffler, Total
    <2>2. Total' \in Nat /\ Total' <= MaxTracks
      BY Grown
    <2>3. shuffle' \in Shuffles /\ shuffle'.size = Total'
      BY <1>1, <2>1, <2>2, ShuffleAssigned
    <2>4. CASE ~andPosition
      <3>1. Stay(FirstOf(items))
        BY <1>3, <2>4 DEF UpdateShuffler
      <3> QED
        BY <2>2, <2>3, <3>1, StaysInPlace
    <2>5. CASE andPosition
      <3> DEFINE p == At(shuffle', 0)
      <3>1. GoTo(p, FirstOf(items))
        BY <1>3, <2>5 DEF UpdateShuffler
      <3>2. /\ p \in Nat
            /\ Total' = 0 => p = 0
            /\ Total' > 0 => p < Total'
        BY <2>2, <2>3, AtInRange
      <3> HIDE DEF p
      <3>3. openedValue \in AllTracks
        BY DEF Listed
      <3>4. /\ value' \in AllTracks /\ openedValue' \in AllTracks
            /\ position' = p
            /\ AtPosition'
            /\ main' = << >> <=> value' = NoTrack
        BY <3>1, <3>2, <3>3, Grown, GoesToTrack
      <3>5. position' \in 0..(SizeModulus - 1)
        BY <2>2, <3>2, <3>4, Lengths
      <3>6. Listed'
        BY <2>2, <2>3, <3>4, <3>5, Grown DEF Listed
      <3>7. InPlace'
        BY <2>2, <3>2, <3>4 DEF InPlace
      <3> QED
        BY <3>4, <3>6, <3>7 DEF Placed
    <2> QED
      BY <2>4, <2>5
  <1> QED
    BY <1>2, <1>3

-----------------------------------------------------------------------------
(* The types.                                                              *)

\* The jobs that look at their first track have one.
Jobbed ==
    {job \in Jobs : job.step \in {"check", "add", "open", "compare", "finish"}
                       => job.items # << >>}

PoolTypes ==
    /\ jobs \in Seq(Jobbed) /\ running \in [Workers -> Jobbed]
    /\ iterators \in Seq(Seq(AllTracks))
    /\ updates \in Seq(Updates)

UserTypes ==
    /\ ui \in [step : {"idle", "cancel", "wait", "clear", "then"},
               then : {"nothing", "open", "play"},
               items : Seq(Tracks)]
    /\ repeat \in {"off", "track", "queue"}

FlagTypes ==
    /\ ready \in BOOLEAN /\ loading \in BOOLEAN
    /\ appending \in BOOLEAN /\ cancel \in BOOLEAN
    /\ halted \in BOOLEAN /\ astray \in BOOLEAN

DeckTypes == deck \in AllTracks /\ endings \in 0..MaxEndings

Typed == PoolTypes /\ UserTypes /\ FlagTypes /\ DeckTypes

Inv == Listed /\ Typed /\ (~astray => Placed)

LEMMA TypedParts ==
    ASSUME Listed, Typed
    PROVE  AudioTypeOK
  <1>1. Jobbed \subseteq Jobs
    BY DEF Jobbed
  <1>2. jobs \in Seq(Jobs) /\ running \in [Workers -> Jobs]
    BY <1>1 DEF Typed, PoolTypes
  <1> QED
    BY <1>2 DEF AudioTypeOK, QueueTypeOK, Listed, Typed, PoolTypes, UserTypes, FlagTypes,
                DeckTypes, AllTracks, Shuffles

LEMMA JobMade ==
    ASSUME NEW step \in AppendSteps \cup {"idle", "open", "compare", "finish"},
           NEW items \in Seq(AllTracks), NEW changes \in BOOLEAN,
           step \in {"check", "add", "open", "compare", "finish"} => items # << >>
    PROVE  /\ Job(step, items, changes) \in Jobbed
           /\ Job(step, items, changes).step = step
           /\ Job(step, items, changes).items = items
           /\ Job(step, items, changes).changes = changes
  BY DEF Job, Jobbed, Jobs, AllTracks

LEMMA IdleJob == Idle \in Jobbed /\ Idle.step = "idle"
  <1>1. << >> \in Seq(AllTracks)
    OBVIOUS
  <1> QED
    BY <1>1, JobMade DEF Idle

LEMMA JobParts ==
    ASSUME NEW job \in Jobbed
    PROVE  /\ job.step \in AppendSteps \cup {"idle", "open", "compare", "finish"}
           /\ job.items \in Seq(AllTracks) /\ job.changes \in BOOLEAN
           /\ job.step \in {"check", "add", "open", "compare", "finish"} => job.items # << >>
           /\ job.items # << >> => /\ job.items[1] \in AllTracks
                                   /\ Head(job.items) = job.items[1]
                                   /\ Tail(job.items) \in Seq(AllTracks)
           /\ job = Job(job.step, job.items, job.changes)
  <1>1. /\ job.step \in AppendSteps \cup {"idle", "open", "compare", "finish"}
        /\ job.items \in Seq(AllTracks) /\ job.changes \in BOOLEAN
        /\ job.step \in {"check", "add", "open", "compare", "finish"} => job.items # << >>
    BY DEF Jobbed, Jobs, AllTracks
  <1>2. job = Job(job.step, job.items, job.changes)
    BY DEF Jobbed, Jobs, Job
  <1>3. job.items # << >> => /\ job.items[1] \in AllTracks
                             /\ Head(job.items) = job.items[1]
                             /\ Tail(job.items) \in Seq(AllTracks)
    BY <1>1
  <1> QED
    BY <1>1, <1>2, <1>3

LEMMA UpdateMade ==
    ASSUME NEW changed \in BOOLEAN, NEW reason \in Reasons
    PROVE  /\ Update(changed, reason) \in Updates
           /\ Update(changed, reason).changed = changed
           /\ Update(changed, reason).reason = reason
  BY DEF Update, Updates

\* What a worker's assignment to its own job does.
LEMMA JobAssigned ==
    ASSUME running \in [Workers -> Jobbed], NEW w \in Workers, NEW job \in Jobbed,
           running' = [running EXCEPT ![w] = job]
    PROVE  /\ running' \in [Workers -> Jobbed] /\ running'[w] = job
           /\ \A v \in Workers \ {w} : running'[v] = running[v]
  OBVIOUS

\* ... or to a field of it.
LEMMA StepAssigned ==
    ASSUME running \in [Workers -> Jobbed], NEW w \in Workers, NEW step,
           running' = [running EXCEPT ![w].step = step]
    PROVE  running' = [running EXCEPT
                          ![w] = Job(step, running[w].items, running[w].changes)]
  <1> DEFINE s == running[w].step
             i == running[w].items
             c == running[w].changes
  <1>1. running[w] = Job(s, i, c)
    BY JobParts
  <1> HIDE DEF s, i, c
  <1>2. [running[w] EXCEPT !.step = step] = Job(step, i, c)
    BY <1>1 DEF Job
  <1> QED
    BY <1>2 DEF i, c

LEMMA ItemsAssigned ==
    ASSUME running \in [Workers -> Jobbed], NEW w \in Workers, NEW items,
           running' = [running EXCEPT ![w].items = items]
    PROVE  running' = [running EXCEPT
                          ![w] = Job(running[w].step, items, running[w].changes)]
  <1> DEFINE s == running[w].step
             i == running[w].items
             c == running[w].changes
  <1>1. running[w] = Job(s, i, c)
    BY JobParts
  <1> HIDE DEF s, i, c
  <1>2. [running[w] EXCEPT !.items = items] = Job(s, items, c)
    BY <1>1 DEF Job
  <1> QED
    BY <1>2 DEF s, c

LEMMA ItemsAndStepAssigned ==
    ASSUME running \in [Workers -> Jobbed], NEW w \in Workers, NEW items, NEW step,
           running' = [running EXCEPT ![w].items = items, ![w].step = step]
    PROVE  running' = [running EXCEPT ![w] = Job(step, items, running[w].changes)]
  <1> DEFINE s == running[w].step
             i == running[w].items
             c == running[w].changes
  <1>1. running[w] = Job(s, i, c)
    BY JobParts
  <1> HIDE DEF s, i, c
  <1>2. [[running[w] EXCEPT !.items = items] EXCEPT !.step = step] = Job(step, items, c)
    <2>1. [running[w] EXCEPT !.items = items] = Job(s, items, c)
      BY <1>1 DEF Job
    <2>2. [Job(s, items, c) EXCEPT !.step = step] = Job(step, items, c)
      BY DEF Job
    <2> QED
      BY <2>1, <2>2
  <1> QED
    BY <1>2 DEF c


-----------------------------------------------------------------------------
(* The steps: types and places.                                            *)

\* The queue is left alone.
LEMMA ListedKept ==
    ASSUME Listed, UNCHANGED <<lists, current, shuffle>>, inputs' \in inputs..MaxInputs,
           ui'.step = "then" => ui.step = "then"
    PROVE  Listed' /\ (Placed => Placed')
  BY Lengths DEF Listed, Placed, InPlace, AtPosition, Total, lists, current

LEMMA QueueNotified ==
    ASSUME updates \in Seq(Updates), NEW changed \in BOOLEAN, NEW reason \in Reasons,
           NotifyChanged(changed, reason)
    PROVE  updates' \in Seq(Updates)
  BY UpdateMade DEF NotifyChanged

LEMMA NextNotifies ==
    ASSUME updates \in Seq(Updates), NEW reason \in Reasons, NextTrack(reason)
    PROVE  /\ updates' \in Seq(Updates) /\ UNCHANGED lists
           /\ \E changed \in BOOLEAN : NotifyChanged(changed, reason)
  <1>1. CASE ShuffledNext(reason)
    <2>1. NotifyChanged(ShuffleGoesOn, reason) /\ ShuffleGoesOn \in BOOLEAN
      BY <1>1 DEF ShuffledNext, ShuffleGoesOn
    <2> QED
      BY <2>1, QueueNotified DEF NextTrack
  <1>2. CASE LinearNext(reason)
    <2>1. NotifyChanged(TRUE, reason) \/ NotifyChanged(FALSE, reason)
      BY <1>2 DEF LinearNext
    <2> QED
      BY <2>1, QueueNotified DEF NextTrack
  <1> QED
    BY <1>1, <1>2 DEF NextTrack

LEMMA JobQueued ==
    ASSUME jobs \in Seq(Jobbed), NEW job \in Jobbed, jobs' = Append(jobs, job)
    PROVE  /\ jobs' \in Seq(Jobbed)
           /\ Len(jobs) \in Nat /\ Len(jobs') = Len(jobs) + 1
           /\ jobs'[Len(jobs) + 1] = job
           /\ \A i \in 1..Len(jobs) : jobs'[i] = jobs[i]
  OBVIOUS

\* The user's inputs.
LEMMA UserStepListed ==
    ASSUME Listed, Typed, User
    PROVE  Listed' /\ (Placed => Placed')
  <1> USE DEF flags, pool, modes
  <1>0. /\ Input /\ inputs' = inputs + 1 /\ inputs < MaxInputs
        /\ inputs' \in inputs..MaxInputs /\ inputs' \in 0..MaxInputs
        /\ ui.step = "idle"
    <2>1. Input
      BY DEF User, AddTracks, UserNext, UserPrevious, UserPosition, UserRandom,
             UserRepeat, StartClear
    <2> QED
      BY <2>1, Lengths DEF Input
  <1>1. ASSUME NEW items, NEW step, AddTracks(items, step)
        PROVE  Listed' /\ (Placed => Placed')
    BY <1>0, <1>1, ListedKept DEF AddTracks
  <1>2. CASE UserNext
    BY <1>0, <1>2, NextInPlace DEF UserNext, Placed
  <1>3. CASE UserPrevious
    BY <1>0, <1>3, PreviousInPlace DEF UserPrevious, Placed
  <1>4. CASE UserPosition
    <2>1. PICK p \in 0..(Total - 1) : UNCHANGED lists /\ GoTo(p, value)
      BY <1>4 DEF UserPosition
    <2>2. p \in 0..(SizeModulus - 1) /\ p < Total
      BY <2>1, Lengths
    <2>3. /\ UNCHANGED <<lists, ui>> /\ shuffle' \in Shuffles
          /\ shuffle'.size = shuffle.size
      BY <1>4, <2>1 DEF UserPosition, Listed
    <2> QED
      BY <1>0, <2>1, <2>2, <2>3, GoesInPlace DEF Placed
  <1>5. CASE UserRandom
    <2>1. UNCHANGED <<lists, current, ui>>
      BY <1>5 DEF UserRandom
    <2>2. shuffle' \in Shuffles /\ shuffle'.size <= Total
      <3>1. ASSUME NEW seed \in Seeds,
                   shuffle' = [on |-> TRUE, seed |-> seed, pos |-> 0, size |-> Total]
            PROVE  shuffle' \in Shuffles /\ shuffle'.size <= Total
        <4>1. Total \in Nat
          BY Lengths
        <4> QED
          BY <3>1, <4>1 DEF Shuffles
      <3>2. ASSUME shuffle' = [shuffle EXCEPT !.on = FALSE, !.pos = 0, !.size = 0]
            PROVE  shuffle' \in Shuffles /\ shuffle'.size <= Total
        <4>1. Total \in Nat /\ shuffle \in Shuffles
          BY Lengths DEF Listed
        <4>2. shuffle' = [on |-> FALSE, seed |-> shuffle.seed, pos |-> 0, size |-> 0]
          BY <3>2, <4>1 DEF Shuffles
        <4>3. shuffle.seed \in Seeds
          BY <4>1 DEF Shuffles
        <4> QED
          BY <4>1, <4>2, <4>3 DEF Shuffles
      <3> QED
        BY <1>5, <3>1, <3>2 DEF UserRandom
    <2> QED
      BY <1>0, <2>1, <2>2, Lengths
         DEF Listed, Placed, InPlace, AtPosition, Total, lists, current
  <1>6. CASE UserRepeat
    BY <1>0, <1>6, ListedKept DEF UserRepeat
  <1>7. ASSUME NEW then, NEW items, StartClear(then, items)
        PROVE  Listed' /\ (Placed => Placed')
    <2>1. ui'.step \in {"cancel", "clear"}
      BY <1>7 DEF StartClear
    <2> QED
      BY <1>0, <1>7, <2>1, ListedKept DEF StartClear
  <1> QED
    BY <1>1, <1>2, <1>3, <1>4, <1>5, <1>6, <1>7 DEF User

LEMMA UserStepTyped ==
    ASSUME Listed, Typed, UserStep
    PROVE  Typed'
  <1> USE DEF flags, pool, audioVars
  <1>0. UNCHANGED <<deck, endings, halted, appending, cancel, ready, loading, running, iterators>>
    BY DEF UserStep, User, AddTracks, UserNext, UserPrevious, UserPosition, UserRandom,
           UserRepeat, StartClear
  <1>1. FlagTypes'
    <2>1. UNCHANGED <<ready, loading, appending, cancel, halted>>
          /\ astray' = (astray \/ MovesSilently)
      BY <1>0 DEF UserStep
    <2>2. astray' \in BOOLEAN
      BY <2>1, Zenon
    <2> QED
      BY <2>1, <2>2 DEF Typed, FlagTypes
  <1>2. DeckTypes'
    BY <1>0 DEF Typed, DeckTypes
  <1>3. iterators' \in Seq(Seq(AllTracks)) /\ running' \in [Workers -> Jobbed]
    BY <1>0 DEF Typed, PoolTypes
  <1>4. jobs' \in Seq(Jobbed) /\ updates' \in Seq(Updates) /\ UserTypes'
    <2>0. jobs \in Seq(Jobbed) /\ updates \in Seq(Updates) /\ UserTypes
      BY DEF Typed, PoolTypes
    <2>1. ASSUME NEW items \in Additions,
                 AddTracks(items, IF Len(items) = 1 THEN "check" ELSE "checkAll")
          PROVE  jobs' \in Seq(Jobbed) /\ updates' \in Seq(Updates) /\ UserTypes'
      <3> DEFINE step == IF Len(items) = 1 THEN "check" ELSE "checkAll"
      <3>1. items \in Seq(AllTracks)
        BY QueueAssumption DEF AllTracks
      <3>2. step = "check" => items # << >>
        <4>1. CASE Len(items) = 1
          <5>1. items # << >>
            <6>1. Len(<< >>) = 0
              OBVIOUS
            <6> QED
              BY <4>1, <6>1
          <5> QED
            BY <5>1
        <4>2. CASE Len(items) # 1
          <5>1. step = "checkAll"
            BY <4>2
          <5> QED
            BY <5>1
        <4> QED
          BY <4>1, <4>2
      <3>3. Job(step, items, FALSE) \in Jobbed
        BY <3>1, <3>2, JobMade DEF AppendSteps
      <3>4. jobs' = Append(jobs, Job(step, items, FALSE)) /\ UNCHANGED <<ui, updates, repeat>>
        BY <2>1 DEF AddTracks, modes
      <3>5. jobs' \in Seq(Jobbed)
        BY <2>0, <3>3, <3>4, JobQueued
      <3> QED
        BY <2>0, <3>4, <3>5 DEF UserTypes
    <2>2. CASE UserNext
      BY <2>0, <2>2, NextNotifies DEF UserNext, UserTypes, Reasons
    <2>3. CASE UserPrevious
      BY <2>0, <2>3, QueueNotified DEF UserPrevious, PreviousTrack, UserTypes, Reasons
    <2>4. CASE UserPosition
      BY <2>0, <2>4, QueueNotified DEF UserPosition, UserTypes, Reasons, modes
    <2>5. CASE UserRandom \/ UserRepeat
      BY <2>0, <2>5, QueueNotified DEF UserRandom, UserRepeat, UserTypes, Reasons
    <2>6. ASSUME NEW then \in {"nothing", "open", "play"}, NEW items \in Seq(Tracks),
                 StartClear(then, items)
          PROVE  jobs' \in Seq(Jobbed) /\ updates' \in Seq(Updates) /\ UserTypes'
      BY <2>0, <2>6 DEF StartClear, UserTypes, modes
    <2>7. Playlists \subseteq Seq(Tracks) /\ << >> \in Seq(Tracks)
      BY QueueAssumption
    <2>8. \A track \in Tracks : <<track>> \in Seq(Tracks)
      OBVIOUS
    <2> QED
      BY <2>1, <2>2, <2>3, <2>4, <2>5, <2>6, <2>7, <2>8 DEF UserStep, User
  <1> QED
    BY <1>1, <1>2, <1>3, <1>4 DEF Typed, PoolTypes

\* clear(), and what follows it.
LEMMA ClearingStepListed ==
    ASSUME Listed, Typed, Clearing
    PROVE  Listed' /\ (Placed /\ ~OpensElsewhere => Placed')
  <1> USE DEF flags
  <1>0. inputs' = inputs /\ inputs' \in inputs..MaxInputs
    <2>1. inputs' = inputs
      BY DEF Clearing, CancelAppending, AwaitAppending, ClearQueue, OpenPlaylist, PlayFrom
    <2> QED
      BY <2>1, Lengths
  <1>1. CASE CancelAppending \/ AwaitAppending
    <2>1. UNCHANGED <<lists, current, shuffle>> /\ ui'.step # "then"
      BY <1>1 DEF CancelAppending, AwaitAppending, modes, Typed, UserTypes
    <2> QED
      BY <1>0, <2>1, ListedKept
  <1>2. CASE ClearQueue
    <2>1. /\ main' = << >> /\ value' = NoTrack /\ opened' = << >> /\ openedValue' = NoTrack
          /\ position' = 0 /\ shuffle' = Resized(shuffle, 0)
      BY <1>2 DEF ClearQueue
    <2>2. shuffle' \in Shuffles /\ shuffle'.size = 0
      BY <2>1, ShuffleAssigned DEF Listed
    <2>3. /\ << >> \in Seq(Tracks) /\ Total' = 0 /\ 0 <= MaxTracks /\ 0 \in 0..(SizeModulus - 1)
      BY <2>1, QueueAssumption DEF Total
    <2>4. Listed'
      BY <1>0, <2>1, <2>2, <2>3 DEF Listed, AllTracks
    <2>5. Placed'
      BY <2>1, <2>3 DEF Placed, InPlace, AtPosition
    <2> QED
      BY <2>4, <2>5
  <1>3. CASE OpenPlaylist
    <2>1. /\ ui.step = "then" /\ opened = << >> /\ ui'.step = "idle"
          /\ ui.items \in Seq(Tracks)
          /\ ~OpensElsewhere => position = 0
      BY <1>3 DEF OpenPlaylist, Listed, Resting, OpensElsewhere, Typed, UserTypes
    <2>2. CASE UNCHANGED <<lists, current, shuffle, ready, updates>>
      BY <1>0, <2>1, <2>2, ListedKept
    <2>3. CASE ~UNCHANGED <<lists, current, shuffle, ready, updates>>
      <3>1. /\ Fits(ui.items) /\ opened' = ui.items /\ main' = main
            /\ \/ /\ shuffle.on
                  /\ shuffle' = Resized(shuffle, Total') /\ GoTo(At(shuffle', 0), value)
               \/ /\ ~shuffle.on
                  /\ openedValue' = IF ui.items = << >> THEN NoTrack ELSE ui.items[1]
                  /\ UNCHANGED <<shuffle, position, value>>
        BY <1>3, <2>3 DEF OpenPlaylist, Total
      <3>2. /\ Len(opened') \in Nat /\ Len(opened) = 0
            /\ Total = Len(main) /\ Total' = Len(opened') + Len(main)
            /\ Total' <= MaxTracks /\ Total' \in Nat /\ Len(main) \in Nat /\ Total <= Total'
            /\ opened' = << >> <=> Len(opened') = 0
            /\ \A i \in 1..Len(opened') : opened'[i] \in Tracks
        BY <2>1, <3>1, Lengths DEF Fits, Total
      <3>3. /\ main' \in Seq(Tracks) /\ opened' \in Seq(Tracks)
            /\ main' = << >> <=> value = NoTrack
            /\ value \in AllTracks /\ openedValue \in AllTracks /\ shuffle \in Shuffles
        BY <2>1, <3>1 DEF Listed
      <3>4. CASE shuffle.on
        <4> DEFINE p == At(shuffle', 0)
        <4>0. shuffle' = Resized(shuffle, Total') /\ GoTo(p, value)
          BY <3>1, <3>4
        <4>1. shuffle' \in Shuffles /\ shuffle'.size = Total'
          <5>1. shuffle \in Shuffles /\ Total' \in Nat
            BY <3>2, <3>3
          <5> QED
            BY <4>0, <5>1, ShuffleAssigned
        <4>2. /\ p \in Nat
              /\ Total' = 0 => p = 0
              /\ Total' > 0 => p < Total'
          <5>1. Total' \in Nat /\ Total' <= MaxTracks
            BY <3>2
          <5> QED
            BY <4>1, <5>1, AtInRange
        <4> HIDE DEF p
        <4>3. /\ value' \in AllTracks /\ openedValue' \in AllTracks
              /\ position' = p
              /\ AtPosition'
              /\ main' = << >> <=> value' = NoTrack
          BY <3>3, <4>0, <4>2, GoesToTrack
        <4>4. position' \in 0..(SizeModulus - 1)
          BY <3>2, <4>2, <4>3, Lengths
        <4>5. Listed'
          BY <1>0, <2>1, <3>2, <3>3, <4>1, <4>3, <4>4, Lengths DEF Listed
        <4>6. InPlace'
          BY <3>2, <4>2, <4>3 DEF InPlace
        <4> QED
          BY <4>3, <4>5, <4>6 DEF Placed
      <3>5. CASE ~shuffle.on
        <4>1. /\ openedValue' = IF ui.items = << >> THEN NoTrack ELSE ui.items[1]
              /\ UNCHANGED <<shuffle, position, value>>
          BY <3>1, <3>5
        <4>2. openedValue' \in AllTracks
          BY <3>1, <3>2, <4>1 DEF AllTracks
        <4>3. Listed'
          BY <1>0, <2>1, <3>2, <3>3, <4>1, <4>2, Lengths DEF Listed
        <4>4. ASSUME Placed, position = 0
              PROVE  Placed'
          <5>1. InPlace'
            BY <3>2, <4>1, <4>4 DEF InPlace
          <5>2. CASE Len(opened') > 0
            <6>1. openedValue' = opened'[1]
              BY <3>1, <3>2, <4>1, <5>2
            <6> QED
              BY <4>1, <4>4, <5>1, <5>2, <6>1 DEF Placed, AtPosition
          <5>3. CASE Len(opened') = 0
            <6>1. Total > 0 => value = main[1]
              BY <3>2, <4>4 DEF Placed, AtPosition
            <6> QED
              BY <3>1, <3>2, <4>1, <4>4, <5>1, <5>3, <6>1 DEF Placed, AtPosition
          <5> QED
            BY <3>2, <5>2, <5>3
        <4> QED
          BY <2>1, <4>3, <4>4
      <3> QED
        BY <3>4, <3>5
    <2> QED
      BY <2>2, <2>3
  <1>4. CASE PlayFrom
    <2>1. /\ ui.items \in Seq(Tracks) /\ Fits(ui.items)
          /\ main' = main \o ui.items /\ opened' = opened
          /\ UpdateShuffler(TRUE, FirstOf(ui.items))
          /\ ui'.step # "then"
      BY <1>4 DEF PlayFrom, Typed, UserTypes, Resting
    <2> QED
      BY <1>0, <2>1, ShufflerInPlace
  <1> QED
    BY <1>1, <1>2, <1>3, <1>4 DEF Clearing

LEMMA ClearingStepTyped ==
    ASSUME Listed, Typed, ClearingStep
    PROVE  Typed'
  <1> USE DEF flags, pool, audioVars
  <1>0. UNCHANGED <<deck, endings, halted, jobs, running, repeat>>
    BY DEF ClearingStep, Clearing, CancelAppending, AwaitAppending, ClearQueue,
           OpenPlaylist, PlayFrom, modes
  <1>1. FlagTypes'
    <2>1. ready' \in BOOLEAN /\ loading' \in BOOLEAN
      BY DEF ClearingStep, Clearing, CancelAppending, AwaitAppending, ClearQueue,
             OpenPlaylist, PlayFrom, Typed, FlagTypes
    <2>2. appending' \in BOOLEAN /\ cancel' \in BOOLEAN
      BY DEF ClearingStep, Clearing, CancelAppending, AwaitAppending, ClearQueue,
             OpenPlaylist, PlayFrom, Typed, FlagTypes
    <2>3. astray' = (astray \/ OpensElsewhere)
      BY DEF ClearingStep
    <2>4. astray' \in BOOLEAN
      BY <2>3, Zenon
    <2> QED
      BY <1>0, <2>1, <2>2, <2>4 DEF Typed, FlagTypes
  <1>2. DeckTypes'
    BY <1>0 DEF Typed, DeckTypes
  <1>3. updates' \in Seq(Updates)
    <2>0. updates \in Seq(Updates)
      BY DEF Typed, PoolTypes
    <2>1. UNCHANGED updates \/ NotifyChanged(FALSE, "finished") \/ NotifyChanged(TRUE, "explicit")
      BY DEF ClearingStep, Clearing, CancelAppending, AwaitAppending, ClearQueue,
             OpenPlaylist, PlayFrom
    <2> QED
      BY <2>0, <2>1, QueueNotified DEF Reasons
  <1>4. PoolTypes'
    <2>1. iterators' = iterators \/ iterators' = << >>
      <3>1. CASE ClearQueue
        BY <3>1 DEF ClearQueue
      <3>2. CASE OpenPlaylist
        BY <3>2 DEF OpenPlaylist
      <3>3. CASE CancelAppending \/ AwaitAppending \/ PlayFrom
        BY <3>3 DEF CancelAppending, AwaitAppending, PlayFrom
      <3> QED
        BY <3>1, <3>2, <3>3 DEF ClearingStep, Clearing
    <2>2. iterators' \in Seq(Seq(AllTracks))
      <3>1. << >> \in Seq(Seq(AllTracks))
        OBVIOUS
      <3> QED
        BY <2>1, <3>1 DEF Typed, PoolTypes
    <2> QED
      BY <1>0, <1>3, <2>2 DEF Typed, PoolTypes
  <1>5. UserTypes'
    <2>1. /\ ui \in [step : {"idle", "cancel", "wait", "clear", "then"},
                     then : {"nothing", "open", "play"}, items : Seq(Tracks)]
          /\ repeat' \in {"off", "track", "queue"}
      BY <1>0 DEF Typed, UserTypes
    <2>2. \/ ui' = Resting
          \/ \E step \in {"wait", "clear", "then"} : ui' = [ui EXCEPT !.step = step]
      BY DEF ClearingStep, Clearing, CancelAppending, AwaitAppending, ClearQueue,
             OpenPlaylist, PlayFrom
    <2>3. Resting \in [step : {"idle", "cancel", "wait", "clear", "then"},
                       then : {"nothing", "open", "play"}, items : Seq(Tracks)]
      <3>1. << >> \in Seq(Tracks)
        OBVIOUS
      <3> QED
        BY <3>1 DEF Resting
    <2>4. ASSUME NEW step \in {"wait", "clear", "then"}, ui' = [ui EXCEPT !.step = step]
          PROVE  ui' \in [step : {"idle", "cancel", "wait", "clear", "then"},
                          then : {"nothing", "open", "play"}, items : Seq(Tracks)]
      BY <2>1, <2>4
    <2> QED
      BY <2>1, <2>2, <2>3, <2>4 DEF UserTypes
  <1> QED
    BY <1>1, <1>2, <1>4, <1>5 DEF Typed

\* The track a job adds, if its path is not gone.
LEMMA FoundTracks ==
    ASSUME NEW track \in AllTracks
    PROVE  /\ Found(track) \in Seq(Tracks)
           /\ track = NoTrack => Found(track) = << >>
           /\ track # NoTrack => Found(track) = <<track>>
  BY QueueAssumption DEF Found, AllTracks

LEMMA NothingFound ==
    ASSUME Listed
    PROVE  /\ << >> \in Seq(Tracks) /\ FirstOf(<< >>) = value /\ main = main \o << >>
           /\ Fits(<< >>)
  <1>1. main \in Seq(Tracks) /\ << >> \in Seq(Tracks) /\ Len(<< >>) = 0
    BY DEF Listed
  <1>2. main = main \o << >>
    BY <1>1
  <1>3. FirstOf(<< >>) = value
    BY DEF FirstOf
  <1> QED
    BY <1>1, <1>2, <1>3, Lengths DEF Fits

\* The job that adds tracks.
LEMMA AppendJobListed ==
    ASSUME Listed, Typed, NEW w \in Workers, AppendJob(w)
    PROVE  Listed' /\ (Placed => Placed')
  <1> USE DEF flags, modes
  <1>0. /\ inputs' = inputs /\ UNCHANGED ui /\ inputs' \in inputs..MaxInputs
        /\ running[w] \in Jobbed
    <2>1. inputs' = inputs /\ UNCHANGED ui
      BY DEF AppendJob, CheckEmpty, AddTrack, AddIterator, StartAppending,
             StopAppending, LoadTrack, ReportLoading, NextIterator, FinishAppending
    <2> QED
      BY <2>1, Lengths DEF Typed, PoolTypes
  <1>1. CASE CheckEmpty(w) \/ AddIterator(w) \/ StartAppending(w) \/ StopAppending(w)
             \/ NextIterator(w)
    <2>1. UNCHANGED <<lists, current, shuffle>>
      BY <1>1 DEF CheckEmpty, AddIterator, StartAppending, StopAppending, NextIterator
    <2> QED
      BY <1>0, <2>1, ListedKept
  <1>2. CASE AddTrack(w)
    <2> DEFINE found == Found(Head(running[w].items))
    <2>1. running[w].items # << >>
      BY <1>0, <1>2, JobParts DEF AddTrack, StepIs
    <2>2. found \in Seq(Tracks)
      BY <1>0, <2>1, JobParts, FoundTracks
    <2>3. /\ Fits(found) /\ main' = main \o found /\ opened' = opened
          /\ UpdateShuffler(running[w].changes, FirstOf(found))
      BY <1>2 DEF AddTrack
    <2> HIDE DEF found
    <2> QED
      BY <1>0, <2>2, <2>3, ShufflerInPlace
  <1>3. CASE LoadTrack(w)
    <2> DEFINE found == Found(Head(running[w].items))
    <2>1. running[w].items # << >>
      BY <1>3 DEF LoadTrack
    <2>2. found \in Seq(Tracks)
      BY <1>0, <2>1, JobParts, FoundTracks
    <2>3. /\ Fits(found) /\ main' = main \o found /\ opened' = opened
          /\ Stay(FirstOf(found)) /\ shuffle' = shuffle
      BY <1>3 DEF LoadTrack, Stay
    <2> HIDE DEF found
    <2>4. Total' = Total + Len(found) /\ Len(found) \in Nat
      BY <2>2, <2>3, Grown
    <2>5. shuffle' \in Shuffles /\ shuffle'.size <= Total'
      <3>1. shuffle.size <= Total + Len(found)
        BY <2>4, Lengths
      <3>2. shuffle \in Shuffles
        BY DEF Listed
      <3> QED
        BY <2>3, <2>4, <3>1, <3>2
    <2> QED
      BY <1>0, <2>2, <2>3, <2>5, StaysInPlace
  <1>4. ASSUME UNCHANGED lists, NEW andPosition, UpdateShuffler(andPosition, value)
        PROVE  Listed' /\ (Placed => Placed')
    <2>1. /\ main' = main \o << >> /\ opened' = opened
          /\ UpdateShuffler(andPosition, FirstOf(<< >>))
          /\ << >> \in Seq(Tracks) /\ Fits(<< >>)
      BY <1>4, NothingFound DEF lists
    <2> QED
      BY <1>0, <2>1, ShufflerInPlace
  <1>5. CASE ReportLoading(w)
    <2>1. UNCHANGED lists
      BY <1>5 DEF ReportLoading
    <2>2. CASE UNCHANGED shuffle /\ Stay(value)
      <3>1. UNCHANGED <<lists, current, shuffle>>
        BY <2>1, <2>2 DEF Stay, current
      <3> QED
        BY <1>0, <3>1, ListedKept
    <2>3. CASE \E starts : UpdateShuffler(starts, value)
      BY <1>4, <2>1, <2>3
    <2> QED
      BY <1>5, <2>2, <2>3 DEF ReportLoading
  <1>6. CASE FinishAppending(w)
    BY <1>4, <1>6 DEF FinishAppending
  <1> QED
    BY <1>1, <1>2, <1>3, <1>5, <1>6 DEF AppendJob

\* Whatever a job does, the background pool keeps its types.
LEMMA WorkerTyped ==
    ASSUME Typed, NEW w \in Workers, NEW job \in Jobbed,
           running' = [running EXCEPT ![w] = job], UNCHANGED <<jobs, iterators, updates>>
    PROVE  PoolTypes'
  BY DEF Typed, PoolTypes

LEMMA AppendJobPoolTypes ==
    ASSUME Listed, Typed, NEW w \in Workers, AppendJob(w)
    PROVE  PoolTypes'
  <1> USE DEF flags, modes, StepIs, pool
  <1> DEFINE items == running[w].items
             changes == running[w].changes
  <1>0. /\ running \in [Workers -> Jobbed] /\ jobs \in Seq(Jobbed)
        /\ iterators \in Seq(Seq(AllTracks)) /\ updates \in Seq(Updates)
        /\ running[w] \in Jobbed /\ Idle \in Jobbed
    BY IdleJob DEF Typed, PoolTypes
  <1>a. /\ items \in Seq(AllTracks) /\ changes \in BOOLEAN
        /\ running[w].step = "check" => items # << >>
        /\ items # << >> => Tail(items) \in Seq(AllTracks)
    BY <1>0, JobParts
  <1> HIDE DEF items, changes
  <1>1. CASE CheckEmpty(w)
    <2>1. (position >= Total) \in BOOLEAN
      BY Lengths
    <2>2. PICK step \in {"add", "addAll"} :
             /\ running' = [running EXCEPT ![w] = Job(step, items, position >= Total)]
             /\ step = "add" => running[w].step = "check"
      BY <1>1 DEF CheckEmpty, items
    <2>3. Job(step, items, position >= Total) \in Jobbed
      BY <1>a, <2>1, <2>2, JobMade DEF AppendSteps
    <2> QED
      BY <1>1, <2>2, <2>3, WorkerTyped DEF CheckEmpty
  <1>2. CASE AddTrack(w)
    <2>1. updates' \in Seq(Updates)
      BY <1>0, <1>2, <1>a, QueueNotified DEF AddTrack, Reasons, changes
    <2>2. running' \in [Workers -> Jobbed] /\ UNCHANGED <<jobs, iterators>>
      BY <1>0, <1>2, JobAssigned DEF AddTrack, Ends
    <2> QED
      BY <1>0, <2>1, <2>2 DEF PoolTypes
  <1>3. CASE AddIterator(w)
    <2>1. running' \in [Workers -> Jobbed] /\ UNCHANGED updates
      BY <1>0, <1>3, JobAssigned DEF AddIterator, Ends
    <2>2. iterators' \in Seq(Seq(AllTracks))
      <3> DEFINE S == Seq(AllTracks)
      <3>1. iterators \in Seq(S) /\ items \in S
        BY <1>0, <1>a
      <3>2. iterators' = iterators \/ iterators' = Append(iterators, items)
        BY <1>3 DEF AddIterator, items
      <3> HIDE DEF S
      <3>3. iterators' \in Seq(S)
        BY <3>1, <3>2
      <3> QED
        BY <3>3 DEF S
    <2>3. Job("start", items, changes) \in Jobbed
      BY <1>a, JobMade DEF AppendSteps
    <2>4. jobs' = jobs \/ jobs' = Append(jobs, Job("start", items, changes))
      BY <1>3 DEF AddIterator, items, changes
    <2>5. jobs' \in Seq(Jobbed)
      <3> DEFINE job == Job("start", items, changes)
      <3>1. job \in Jobbed /\ (jobs' = jobs \/ jobs' = Append(jobs, job))
        BY <2>3, <2>4
      <3>2. jobs \in Seq(Jobbed)
        BY <1>0
      <3> HIDE DEF job
      <3>3. CASE jobs' = Append(jobs, job)
        BY <3>1, <3>2, <3>3, JobQueued
      <3> QED
        BY <3>1, <3>2, <3>3
    <2> QED
      BY <1>0, <2>1, <2>2, <2>5 DEF PoolTypes
  <1>4. CASE StartAppending(w)
    <2>1. running' = [running EXCEPT ![w] = Job("load", items, changes)]
      BY <1>0, <1>4, StepAssigned DEF StartAppending, GoesTo, items, changes
    <2>2. Job("load", items, changes) \in Jobbed
      BY <1>a, JobMade DEF AppendSteps
    <2> QED
      BY <1>4, <2>1, <2>2, WorkerTyped DEF StartAppending
  <1>5. CASE StopAppending(w)
    BY <1>0, <1>5, WorkerTyped DEF StopAppending, Ends
  <1>6. CASE LoadTrack(w)
    <2>1. PICK step \in {"load", "report"} :
             running' = [running EXCEPT ![w].items = Tail(@), ![w].step = step]
      BY <1>6 DEF LoadTrack
    <2>2. running' = [running EXCEPT ![w].items = Tail(items), ![w].step = step]
      BY <2>1 DEF items
    <2>3. running' = [running EXCEPT ![w] = Job(step, Tail(items), changes)]
      BY <1>0, <2>2, ItemsAndStepAssigned DEF changes
    <2>4. items # << >>
      BY <1>6 DEF LoadTrack, items
    <2>5. Job(step, Tail(items), changes) \in Jobbed
      BY <1>a, <2>4, JobMade DEF AppendSteps
    <2> QED
      BY <1>6, <2>3, <2>5, WorkerTyped DEF LoadTrack
  <1>7. CASE ReportLoading(w)
    <2> DEFINE enough == IF shuffle.on THEN Len(main) >= ManyTracks ELSE Len(main) > 0
               starts == changes /\ enough
    <2>1. /\ running' = [running EXCEPT ![w].step = "load", ![w].changes = changes /\ ~starts]
          /\ updates' = updates \o <<Update(FALSE, "bulk")>>
                          \o (IF starts THEN <<Update(TRUE, "explicit")>> ELSE << >>)
          /\ UNCHANGED <<jobs, iterators>>
      BY <1>7 DEF ReportLoading, changes
    <2>2. (changes /\ ~starts) \in BOOLEAN
      BY Zenon
    <2>3. running' = [running EXCEPT ![w] = Job("load", items, changes /\ ~starts)]
      <3>1. PICK still, load : still = (changes /\ ~starts) /\ load = "load"
        OBVIOUS
      <3>2. running' = [running EXCEPT ![w].step = load, ![w].changes = still]
        BY <2>1, <3>1
      <3> DEFINE step == running[w].step
      <3>3. running[w] = Job(step, items, changes)
        BY <1>0, JobParts DEF items, changes
      <3> HIDE DEF step
      <3>4. [[running[w] EXCEPT !.step = load] EXCEPT !.changes = still]
               = Job(load, items, still)
        <4>1. [running[w] EXCEPT !.step = load] = Job(load, items, changes)
          BY <3>3 DEF Job
        <4>2. [Job(load, items, changes) EXCEPT !.changes = still] = Job(load, items, still)
          BY DEF Job
        <4> QED
          BY <4>1, <4>2
      <3>5. running' = [running EXCEPT ![w] = Job(load, items, still)]
        BY <1>0, <3>2, <3>4
      <3> QED
        BY <3>1, <3>5
    <2>4. Job("load", items, changes /\ ~starts) \in Jobbed
      BY <1>a, <2>2, JobMade DEF AppendSteps
    <2>5. running' \in [Workers -> Jobbed]
      BY <1>0, <2>3, <2>4, JobAssigned
    <2>6. updates' \in Seq(Updates)
      <3>1. Update(FALSE, "bulk") \in Updates /\ Update(TRUE, "explicit") \in Updates
        BY UpdateMade DEF Reasons
      <3> DEFINE bulk == Update(FALSE, "bulk")
                 order == Update(TRUE, "explicit")
      <3>2. updates' = updates \o <<bulk>> \o << >> \/ updates' = updates \o <<bulk>> \o <<order>>
        BY <2>1
      <3>3. bulk \in Updates /\ order \in Updates
        BY <3>1
      <3> HIDE DEF bulk, order
      <3>4. /\ <<bulk>> \in Seq(Updates) /\ <<order>> \in Seq(Updates)
            /\ << >> \in Seq(Updates)
        BY <3>3
      <3>5. updates \o <<bulk>> \in Seq(Updates)
        BY <1>0, <3>4, ConcatProperties
      <3> DEFINE more == updates \o <<bulk>>
      <3>6. updates' = more \o << >> \/ updates' = more \o <<order>>
        BY <3>2
      <3>7. more \in Seq(Updates)
        BY <3>5
      <3> HIDE DEF more
      <3>8. more \o << >> \in Seq(Updates) /\ more \o <<order>> \in Seq(Updates)
        BY <3>4, <3>7, ConcatProperties
      <3> QED
        BY <3>6, <3>8
    <2> QED
      BY <1>0, <2>1, <2>5, <2>6 DEF PoolTypes
  <1>8. CASE NextIterator(w)
    <2>1. /\ running' = [running EXCEPT ![w].items = Head(iterators)]
          /\ iterators' = Tail(iterators) /\ iterators # << >> /\ running[w].step = "load"
          /\ UNCHANGED <<jobs, updates>>
      BY <1>8 DEF NextIterator
    <2>2. Head(iterators) \in Seq(AllTracks) /\ iterators' \in Seq(Seq(AllTracks))
      <3> DEFINE S == Seq(AllTracks)
      <3>1. iterators \in Seq(S)
        BY <1>0
      <3> HIDE DEF S
      <3>2. Head(iterators) \in S /\ Tail(iterators) \in Seq(S)
        BY <2>1, <3>1
      <3> QED
        BY <2>1, <3>2 DEF S
    <2>3. running' = [running EXCEPT ![w] = Job("load", Head(iterators), changes)]
      BY <1>0, <2>1, ItemsAssigned DEF changes
    <2>4. Job("load", Head(iterators), changes) \in Jobbed
      BY <1>a, <2>2, JobMade DEF AppendSteps
    <2>5. running' \in [Workers -> Jobbed]
      BY <1>0, <2>3, <2>4, JobAssigned
    <2> QED
      BY <1>0, <2>1, <2>2, <2>5 DEF PoolTypes
  <1>9. CASE FinishAppending(w)
    <2>1. updates' \in Seq(Updates)
      BY <1>0, <1>9, <1>a, QueueNotified DEF FinishAppending, Reasons, changes
    <2>2. running' \in [Workers -> Jobbed] /\ UNCHANGED <<jobs, iterators>>
      BY <1>0, <1>9, JobAssigned DEF FinishAppending, Ends
    <2> QED
      BY <1>0, <2>1, <2>2 DEF PoolTypes
  <1> QED
    BY <1>1, <1>2, <1>3, <1>4, <1>5, <1>6, <1>7, <1>8, <1>9 DEF AppendJob

LEMMA AppendJobTyped ==
    ASSUME Listed, Typed, NEW w \in Workers, AppendJob(w), UNCHANGED audioVars,
           astray' \in BOOLEAN
    PROVE  Typed'
  <1> USE DEF flags, modes, pool
  <1>1. PoolTypes'
    BY AppendJobPoolTypes
  <1>2. UserTypes' /\ DeckTypes' /\ UNCHANGED halted
    <2>1. UNCHANGED <<ui, repeat>>
      BY DEF AppendJob, CheckEmpty, AddTrack, AddIterator, StartAppending,
             StopAppending, LoadTrack, ReportLoading, NextIterator, FinishAppending
    <2> QED
      BY <2>1 DEF Typed, UserTypes, DeckTypes, audioVars
  <1>3. cancel' \in BOOLEAN /\ loading' \in BOOLEAN /\ appending' \in BOOLEAN
    BY DEF AppendJob, CheckEmpty, AddTrack, AddIterator, StartAppending, Typed, FlagTypes,
           StopAppending, LoadTrack, ReportLoading, NextIterator, FinishAppending
  <1>4. ready' \in BOOLEAN
    <2>1. CASE StartAppending(w)
      <3>1. ready' = (ready /\ ~running[w].changes)
        BY <2>1 DEF StartAppending
      <3> QED
        BY <3>1, Zenon
    <2>2. CASE ReportLoading(w)
      <3>1. \E starts : ready' = (ready \/ starts)
        BY <2>2 DEF ReportLoading
      <3> QED
        BY <3>1, Zenon
    <2>3. CASE ready' = ready \/ ready' = TRUE
      BY <2>3 DEF Typed, FlagTypes
    <2> QED
      BY <2>1, <2>2, <2>3
         DEF AppendJob, CheckEmpty, AddTrack, AddIterator, StopAppending, LoadTrack,
             NextIterator, FinishAppending
  <1> QED
    BY <1>1, <1>2, <1>3, <1>4 DEF Typed, FlagTypes

\* A worker takes a job.
LEMMA TakeJobInv ==
    ASSUME Listed, Typed, NEW w \in Workers, TakeJob(w), UNCHANGED audioVars,
           astray' \in BOOLEAN
    PROVE  Typed' /\ Listed' /\ (Placed => Placed')
  <1> USE DEF flags, modes
  <1>1. /\ running' = [running EXCEPT ![w] = Head(jobs)] /\ jobs' = Tail(jobs)
        /\ jobs # << >>
        /\ UNCHANGED <<lists, current, modes, flags, iterators, ui, inputs, updates>>
    BY DEF TakeJob
  <1>2. /\ running \in [Workers -> Jobbed] /\ jobs \in Seq(Jobbed)
    BY DEF Typed, PoolTypes
  <1>3. jobs' \in Seq(Jobbed) /\ Head(jobs) \in Jobbed
    BY <1>1, <1>2
  <1>4. running' \in [Workers -> Jobbed]
    BY <1>1, <1>2, <1>3, JobAssigned
  <1>5. PoolTypes'
    BY <1>1, <1>3, <1>4 DEF Typed, PoolTypes
  <1>6. Typed'
    BY <1>1, <1>5 DEF Typed, UserTypes, FlagTypes, DeckTypes, audioVars
  <1>7. inputs' \in inputs..MaxInputs
    BY <1>1, Lengths
  <1> QED
    BY <1>1, <1>6, <1>7, ListedKept

\* The jobs that open streams and advance the queue.
LEMMA AudioJobInv ==
    ASSUME Listed, Typed, NEW w \in Workers, AudioJob(w), astray' \in BOOLEAN
    PROVE  Typed' /\ Listed' /\ (Placed => Placed')
  <1> USE DEF flags, modes, StepIs
  <1>0. /\ running \in [Workers -> Jobbed] /\ running[w] \in Jobbed /\ Idle \in Jobbed
        /\ updates \in Seq(Updates) /\ jobs \in Seq(Jobbed)
        /\ iterators \in Seq(Seq(AllTracks)) /\ deck \in AllTracks
        /\ endings \in 0..MaxEndings
    BY IdleJob DEF Typed, PoolTypes, DeckTypes
  <1>1. inputs' = inputs /\ inputs' \in inputs..MaxInputs
        /\ UNCHANGED <<jobs, iterators, ui, repeat, ready, loading, appending, cancel>>
    <2>1. inputs' = inputs
          /\ UNCHANGED <<jobs, iterators, ui, repeat, ready, loading, appending, cancel>>
      BY DEF AudioJob, OpenStream, OpenFails, CompareCurrent, FinishCurrent, FinishTrack
    <2> QED
      BY <2>1, Lengths
  <1>2. running' \in [Workers -> Jobbed]
    <2>1. CASE Ends(w)
      BY <1>0, <2>1, JobAssigned DEF Ends
    <2>2. ASSUME NEW step \in {"compare", "finish"}, GoesTo(w, step),
                 running[w].step \in {"open", "compare"}
          PROVE  running' \in [Workers -> Jobbed]
      <3>1. running' = [running EXCEPT ![w] = Job(step, running[w].items, running[w].changes)]
        BY <1>0, <2>2, StepAssigned DEF GoesTo
      <3>2. /\ running[w].items \in Seq(AllTracks) /\ running[w].items # << >>
            /\ running[w].changes \in BOOLEAN
        BY <1>0, <2>2, JobParts
      <3>3. Job(step, running[w].items, running[w].changes) \in Jobbed
        BY <3>2, JobMade DEF AppendSteps
      <3> QED
        BY <1>0, <3>1, <3>3, JobAssigned
    <2> QED
      BY <2>1, <2>2 DEF AudioJob, OpenStream, OpenFails, CompareCurrent, FinishCurrent
  <1>3. CASE OpenStream(w) \/ OpenFails(w) \/ CompareCurrent(w)
    <2>1. UNCHANGED <<lists, current, shuffle, updates>>
      BY <1>3 DEF OpenStream, OpenFails, CompareCurrent
    <2>2. halted' \in BOOLEAN
      BY <1>3 DEF OpenStream, OpenFails, CompareCurrent, Typed, FlagTypes, audioVars
    <2>3. DeckTypes'
      <3>1. deck' \in {deck, NoTrack, running[w].items[1]}
            /\ (endings' = endings \/ (endings < MaxEndings /\ endings' = endings + 1))
        BY <1>3 DEF OpenStream, OpenFails, CompareCurrent, audioVars
      <3>2. OpenStream(w) => running[w].items[1] \in AllTracks
        BY <1>0, JobParts DEF OpenStream
      <3>3. deck' \in AllTracks
        BY <1>0, <1>3, <3>2
           DEF OpenStream, OpenFails, CompareCurrent, audioVars, AllTracks
      <3> QED
        BY <1>0, <3>1, <3>3, AudioAssumption DEF DeckTypes
    <2>4. Typed'
      BY <1>0, <1>1, <1>2, <2>1, <2>2, <2>3
         DEF Typed, PoolTypes, UserTypes, FlagTypes
    <2> QED
      BY <1>1, <2>1, <2>4, ListedKept
  <1>4. CASE FinishCurrent(w)
    <2>1. UNCHANGED audioVars /\ FinishTrack
      BY <1>4 DEF FinishCurrent
    <2>2. CASE repeat = "track"
      <3>1. NotifyChanged(TRUE, "repeating") /\ UNCHANGED <<lists, current, shuffle>>
        BY <2>1, <2>2 DEF FinishTrack
      <3>2. updates' \in Seq(Updates)
        BY <1>0, <3>1, QueueNotified DEF Reasons
      <3>3. Typed'
        BY <1>0, <1>1, <1>2, <2>1, <3>2
           DEF Typed, PoolTypes, UserTypes, FlagTypes, DeckTypes, audioVars
      <3> QED
        BY <1>1, <3>1, <3>3, ListedKept
    <2>3. CASE repeat # "track"
      <3>1. NextTrack("finished")
        BY <2>1, <2>3 DEF FinishTrack
      <3>2. updates' \in Seq(Updates)
        BY <1>0, <3>1, NextNotifies DEF Reasons
      <3>3. Typed'
        BY <1>0, <1>1, <1>2, <2>1, <3>2
           DEF Typed, PoolTypes, UserTypes, FlagTypes, DeckTypes, audioVars
      <3> QED
        BY <1>1, <3>1, <3>3, NextInPlace DEF Placed
    <2> QED
      BY <2>2, <2>3
  <1> QED
    BY <1>3, <1>4 DEF AudioJob

\* The state machine only moves updates and starts jobs.
LEMMA AudioStepInv ==
    ASSUME Listed, Typed, AudioStep
    PROVE  Typed' /\ Listed' /\ (Placed => Placed')
  <1> USE DEF flags, modes, pool, audioVars
  <1>0. /\ updates \in Seq(Updates) /\ jobs \in Seq(Jobbed) /\ deck \in AllTracks
        /\ endings \in 0..MaxEndings
    BY DEF Typed, PoolTypes, DeckTypes
  <1>1. UNCHANGED <<lists, current, modes, flags, iterators, running, ui, inputs>>
    BY DEF AudioStep, ReactQueueUpdate, ReactDecodingFinished, DecodingFinishes
  <1>2. inputs' \in inputs..MaxInputs
    BY <1>1, Lengths
  <1>3. Listed' /\ (Placed => Placed')
    BY <1>1, <1>2, ListedKept
  <1>4. ASSUME NEW step \in {"open", "compare"}, NEW track \in AllTracks,
               Dispatch(step, track)
        PROVE  jobs' \in Seq(Jobbed)
    <2> DEFINE job == Job(step, <<track>>, FALSE)
    <2>1. job \in Jobbed /\ jobs' = Append(jobs, job)
      <3>1. <<track>> \in Seq(AllTracks) /\ <<track>> # << >>
        OBVIOUS
      <3> QED
        BY <1>4, <3>1, JobMade DEF Dispatch
    <2> HIDE DEF job
    <2> QED
      BY <1>0, <2>1, JobQueued
  <1>5. astray' \in BOOLEAN
    <2>1. CASE ReactQueueUpdate /\ astray' = (astray \/ OrdersOverlap)
      BY <2>1, Zenon
    <2>2. CASE astray' = astray
      BY <2>2 DEF Typed, FlagTypes
    <2> QED
      BY <2>1, <2>2 DEF AudioStep
  <1>6. CASE ReactQueueUpdate
    <2>1. updates' \in Seq(Updates) /\ endings' = endings
      BY <1>0, <1>6 DEF ReactQueueUpdate
    <2>2. Current \in AllTracks
      BY DEF Current, Listed, AllTracks
    <2>3. Wanted(Head(updates)) \in AllTracks
      BY <2>2 DEF Wanted, AllTracks
    <2>4. jobs' \in Seq(Jobbed) /\ deck' \in AllTracks /\ (halted' = halted \/ halted' = TRUE)
      BY <1>0, <1>4, <1>6, <2>3 DEF ReactQueueUpdate, SetTrack, AllTracks
    <2>5. halted' \in BOOLEAN
      BY <2>4 DEF Typed, FlagTypes
    <2>6. FlagTypes'
      BY <1>1, <1>5, <2>5 DEF Typed, FlagTypes
    <2>7. PoolTypes'
      BY <1>1, <2>1, <2>4 DEF Typed, PoolTypes
    <2> QED
      BY <1>0, <1>1, <1>3, <2>1, <2>4, <2>6, <2>7
         DEF Typed, UserTypes, DeckTypes
  <1>7. CASE ReactDecodingFinished
    <2>1. updates' \in Seq(Updates) /\ Head(updates).track \in AllTracks
      <3>1. Head(updates) \in Updates /\ updates' = Tail(updates) /\ updates # << >>
        BY <1>0, <1>7 DEF ReactDecodingFinished
      <3>2. updates' \in Seq(Updates)
        BY <1>0, <3>1
      <3>3. Head(updates).track \in AllTracks
        BY <3>1 DEF Updates, AllTracks
      <3> QED
        BY <3>2, <3>3
    <2>2. jobs' \in Seq(Jobbed) /\ UNCHANGED <<deck, endings, halted>>
      BY <1>4, <1>7, <2>1 DEF ReactDecodingFinished
    <2> QED
      BY <1>1, <1>3, <1>5, <2>1, <2>2
         DEF Typed, PoolTypes, UserTypes, FlagTypes, DeckTypes
  <1>8. CASE DecodingFinishes
    <2> DEFINE done == [Update(FALSE, "decoded") EXCEPT !.track = deck]
    <2>1. done \in Updates
      BY <1>0 DEF Update, Updates, Reasons, AllTracks
    <2>2. updates' = Append(updates, done) /\ deck' = NoTrack /\ endings' = endings + 1
          /\ endings < MaxEndings /\ UNCHANGED <<jobs, halted>>
      BY <1>8 DEF DecodingFinishes
    <2> HIDE DEF done
    <2>3. updates' \in Seq(Updates)
      BY <1>0, <2>1, <2>2
    <2>4. DeckTypes'
      BY <1>0, <2>2, AudioAssumption DEF DeckTypes, AllTracks
    <2> QED
      BY <1>0, <1>1, <1>3, <1>5, <2>2, <2>3, <2>4
         DEF Typed, PoolTypes, UserTypes, FlagTypes
  <1> QED
    BY <1>6, <1>7, <1>8 DEF AudioStep

-----------------------------------------------------------------------------
(* The types and the place of the current track, always.                   *)

LEMMA ShuffleOff ==
    ASSUME NEW s \in [on : {FALSE}, seed : Seeds, pos : {0}, size : {0}]
    PROVE  s \in Shuffles /\ s.size = 0
  <1>1. s.on \in BOOLEAN /\ s.seed \in Seeds /\ s.pos = 0 /\ s.size = 0
    OBVIOUS
  <1>2. s = [on |-> s.on, seed |-> s.seed, pos |-> s.pos, size |-> s.size]
    OBVIOUS
  <1>3. [on |-> s.on, seed |-> s.seed, pos |-> s.pos, size |-> s.size] \in Shuffles
    BY <1>1 DEF Shuffles
  <1> QED
    BY <1>1, <1>2, <1>3

LEMMA InvInit == Init => Inv
  <1> SUFFICES ASSUME Init PROVE Inv
    OBVIOUS
  <1>0. /\ shuffle \in [on : {FALSE}, seed : Seeds, pos : {0}, size : {0}]
        /\ running = [w \in Workers |-> Idle]
    BY DEF Init, QueueInit
  <1>1. /\ << >> \in Seq(Tracks) /\ << >> \in Seq(Updates) /\ << >> \in Seq(Jobbed)
        /\ << >> \in Seq(Seq(AllTracks)) /\ Len(<< >>) = 0
    OBVIOUS
  <1>2. Total = 0
    BY <1>1 DEF Total, Init, QueueInit
  <1>3. shuffle \in Shuffles /\ shuffle.size = 0
    BY <1>0, ShuffleOff
  <1>4. Listed
    BY <1>1, <1>2, <1>3, QueueAssumption DEF Listed, AllTracks, Resting, Init, QueueInit
  <1>5. Placed
    BY <1>2 DEF Placed, InPlace, AtPosition, Init, QueueInit
  <1>6. PoolTypes
    <2>1. running \in [Workers -> Jobbed]
      <3>1. [w \in Workers |-> Idle] \in [Workers -> Jobbed]
        BY IdleJob
      <3> QED
        BY <1>0, <3>1, Zenon
    <2> QED
      BY <1>1, <2>1 DEF PoolTypes, Init, QueueInit
  <1>7. UserTypes /\ FlagTypes /\ DeckTypes
    <2>1. UserTypes
      BY <1>1 DEF UserTypes, Resting, Init, QueueInit
    <2>2. FlagTypes
      BY DEF FlagTypes, Init, QueueInit
    <2>3. DeckTypes
      BY AudioAssumption DEF DeckTypes, AllTracks, Init, QueueInit
    <2> QED
      BY <2>1, <2>2, <2>3
  <1> QED
    BY <1>4, <1>5, <1>6, <1>7 DEF Inv, Typed

LEMMA InvStep == Inv /\ [Next]_vars => Inv'
  <1> SUFFICES ASSUME Inv, [Next]_vars PROVE Inv'
    OBVIOUS
  <1> USE DEF Inv
  <1>1. CASE UserStep
    <2>1. Listed' /\ (Placed => Placed') /\ Typed'
      BY <1>1, UserStepListed, UserStepTyped DEF UserStep
    <2>2. ~astray' => ~astray
      BY <1>1 DEF UserStep
    <2> QED
      BY <2>1, <2>2
  <1>2. CASE ClearingStep
    <2>1. Listed' /\ (Placed /\ ~OpensElsewhere => Placed') /\ Typed'
      BY <1>2, ClearingStepListed, ClearingStepTyped DEF ClearingStep
    <2>2. ~astray' => ~astray /\ ~OpensElsewhere
      BY <1>2 DEF ClearingStep
    <2> QED
      BY <2>1, <2>2
  <1>3. CASE AudioStep
    <2>1. ~astray' => ~astray
      BY <1>3 DEF AudioStep
    <2> QED
      BY <1>3, <2>1, AudioStepInv
  <1>4. ASSUME NEW w \in Workers, WorkerStep(w)
        PROVE  Inv'
    <2>1. astray' = (astray \/ FinishesAnother(w) \/ EmptinessStale(w))
      BY <1>4 DEF WorkerStep
    <2>2. astray' \in BOOLEAN /\ (~astray' => ~astray)
      BY <2>1, Zenon
    <2>3. Listed' /\ (Placed => Placed') /\ Typed'
      <3>1. CASE TakeJob(w) /\ UNCHANGED audioVars
        BY <2>2, <3>1, TakeJobInv
      <3>2. CASE AppendJob(w) /\ UNCHANGED audioVars
        BY <2>2, <3>2, AppendJobListed, AppendJobTyped
      <3>3. CASE AudioJob(w)
        BY <2>2, <3>3, AudioJobInv
      <3> QED
        BY <1>4, <3>1, <3>2, <3>3 DEF WorkerStep
    <2> QED
      BY <2>2, <2>3
  <1>5. CASE UNCHANGED vars
    BY <1>5 DEF vars, queueVars, audioVars, lists, current, modes, flags, pool, Listed, Total,
            Placed, InPlace, AtPosition, Typed, PoolTypes, UserTypes, FlagTypes, DeckTypes
  <1> QED
    BY <1>1, <1>2, <1>3, <1>4, <1>5 DEF Next

LEMMA AlwaysInv == Spec => []Inv
  BY InvInit, InvStep, PTL DEF Spec

\* The types, with the ranges that the arithmetic of positions and shuffles
\* has to keep: a position never wraps unless previous() takes it below zero.
THEOREM AudioTypes == Spec => []AudioTypeOK
  <1>1. Inv => AudioTypeOK
    BY TypedParts DEF Inv
  <1> QED
    BY <1>1, AlwaysInv, PTL

\* The track the queue says is current is the one at its position, in whichever
\* of the two lists that is, until one of the five mishaps has happened: goTo,
\* updateShuffler and what appends keep the cached tracks and the position
\* together.
THEOREM AlwaysAtPosition == Spec => []CurrentIsAtPosition
  <1>1. Inv => CurrentIsAtPosition
    BY DEF Inv, Placed, AtPosition, CurrentIsAtPosition
  <1> QED
    BY <1>1, AlwaysInv, PTL

-----------------------------------------------------------------------------
(* What plays is the current track.  Whenever it is not, something is under *)
(* way that will see to it: an order in the state machine's queue, a job,   *)
(* or a change of the queue that ends in an order.                          *)

\* An order is on its way, or certain to be given: a queue that is cleared ends
\* with one, and so does a load into a queue that was empty.
Loader(w) == running[w].step \in {"load", "report"}
LoadsNew == \E w \in Workers : Loader(w) /\ running[w].changes
LoadsMore == \E w \in Workers : Loader(w) /\ ~running[w].changes
Ordered == \E i \in 1..Len(updates) : IsOrder(updates[i])
Clears == ui.step \in {"cancel", "wait", "clear"}
Promised == Ordered \/ Clears \/ LoadsNew

\* A job is to do a step for a track; or the end of the track is to be looked at.
Doing(step, t) ==
    \/ \E i \in 1..Len(jobs) : jobs[i].step = step /\ jobs[i].items[1] = t
    \/ \E w \in Workers : running[w].step = step /\ running[w].items[1] = t
Decoded(t) ==
    \E i \in 1..Len(updates) : updates[i].reason = "decoded" /\ updates[i].track = t
Pending(t) == Doing("open", t) \/ Doing("compare", t) \/ Doing("finish", t) \/ Decoded(t)

Halts == deck = NoTrack /\ halted

Pooled ==
    /\ \A i \in 1..Len(jobs) : jobs[i].step \notin {"load", "report"}
    /\ ~Doing("open", NoTrack)
    /\ cancel /\ appending => ui.step = "wait"

Follows ==
    /\ \A t \in AllTracks :
          /\ Doing("open", t) => t = Current \/ Promised
          /\ t = Current => deck = t \/ Halts \/ Promised \/ Pending(t)
    /\ ~ready => Promised \/ Halts
    /\ LoadsMore /\ Total = 0 => Promised \/ Halts

-----------------------------------------------------------------------------
(* How the parts of it change.                                             *)

LEMMA UpdateAdded ==
    ASSUME updates \in Seq(Updates), NEW update, updates' = Append(updates, update)
    PROVE  /\ Ordered => Ordered'
           /\ IsOrder(update) => Ordered'
           /\ \A t : Decoded(t) => Decoded(t)'
           /\ update.reason = "decoded" => Decoded(update.track)'
  <1>1. /\ Len(updates) \in Nat /\ Len(updates') = Len(updates) + 1
        /\ updates'[Len(updates) + 1] = update
        /\ \A i \in 1..Len(updates) : updates'[i] = updates[i] /\ i \in 1..Len(updates')
        /\ Len(updates) + 1 \in 1..Len(updates')
    OBVIOUS
  <1>2. Ordered => Ordered'
    BY <1>1 DEF Ordered
  <1>3. IsOrder(update) => Ordered'
    BY <1>1 DEF Ordered
  <1>4. \A t : Decoded(t) => Decoded(t)'
    BY <1>1 DEF Decoded
  <1>5. update.reason = "decoded" => Decoded(update.track)'
    BY <1>1 DEF Decoded
  <1> QED
    BY <1>2, <1>3, <1>4, <1>5

LEMMA UpdateTaken ==
    ASSUME updates \in Seq(Updates), updates # << >>, updates' = Tail(updates)
    PROVE  /\ Ordered /\ ~IsOrder(Head(updates)) => Ordered'
           /\ \A t : /\ Decoded(t)
                     /\ Head(updates).reason = "decoded" => Head(updates).track # t
                     => Decoded(t)'
  <1>1. /\ Len(updates) \in Nat /\ Len(updates') = Len(updates) - 1 /\ Head(updates) = updates[1]
        /\ \A i \in 1..Len(updates') : updates'[i] = updates[i + 1]
    OBVIOUS
  <1>2. \A i \in 1..Len(updates) : i # 1 => i - 1 \in 1..Len(updates') /\ updates'[i - 1] = updates[i]
    BY <1>1
  <1>3. Ordered /\ ~IsOrder(Head(updates)) => Ordered'
    BY <1>1, <1>2 DEF Ordered
  <1>4. ASSUME NEW t, Decoded(t), Head(updates).reason = "decoded" => Head(updates).track # t
        PROVE  Decoded(t)'
    BY <1>1, <1>2, <1>4 DEF Decoded
  <1> QED
    BY <1>3, <1>4

LEMMA JobAdded ==
    ASSUME jobs \in Seq(Jobbed), NEW job \in Jobbed, jobs' = Append(jobs, job),
           UNCHANGED running
    PROVE  /\ \A step, t : Doing(step, t)' <=> \/ Doing(step, t)
                                               \/ job.step = step /\ job.items[1] = t
           /\ LoadsNew' <=> LoadsNew
           /\ LoadsMore' <=> LoadsMore
           /\ /\ \A i \in 1..Len(jobs) : jobs[i].step \notin {"load", "report"}
              /\ job.step \notin {"load", "report"}
              => \A i \in 1..Len(jobs') : jobs'[i].step \notin {"load", "report"}
  <1>1. /\ Len(jobs) \in Nat /\ Len(jobs') = Len(jobs) + 1
        /\ jobs'[Len(jobs) + 1] = job
        /\ \A i \in 1..Len(jobs) : jobs'[i] = jobs[i]
    BY JobQueued
  <1>2. ASSUME NEW step, NEW t
        PROVE  Doing(step, t)' <=> Doing(step, t) \/ (job.step = step /\ job.items[1] = t)
    BY <1>1 DEF Doing
  <1>3. (LoadsNew' <=> LoadsNew) /\ (LoadsMore' <=> LoadsMore)
    BY DEF LoadsNew, LoadsMore, Loader
  <1> QED
    BY <1>1, <1>2, <1>3

LEMMA JobTakenOver ==
    ASSUME jobs \in Seq(Jobbed), running \in [Workers -> Jobbed], NEW w \in Workers,
           TakeJob(w), Pooled
    PROVE  /\ \A step, t : step # "idle" => (Doing(step, t)' <=> Doing(step, t))
           /\ LoadsNew' <=> LoadsNew
           /\ LoadsMore' <=> LoadsMore
           /\ \A i \in 1..Len(jobs') : jobs'[i].step \notin {"load", "report"}
  <1>1. /\ running' = [running EXCEPT ![w] = Head(jobs)] /\ jobs' = Tail(jobs)
        /\ jobs # << >> /\ running[w] = Idle
    BY DEF TakeJob
  <1>2. /\ Len(jobs) \in Nat \ {0} /\ Len(jobs') = Len(jobs) - 1 /\ Head(jobs) = jobs[1]
        /\ \A i \in 1..Len(jobs') : jobs'[i] = jobs[i + 1] /\ i + 1 \in 1..Len(jobs)
        /\ \A i \in 1..Len(jobs) : i # 1 => i - 1 \in 1..Len(jobs') /\ jobs'[i - 1] = jobs[i]
    BY <1>1
  <1>3. /\ running'[w] = jobs[1] /\ \A v \in Workers \ {w} : running'[v] = running[v]
        /\ running[w].step = "idle"
    BY <1>1, <1>2 DEF Idle, Job
  <1>4. ASSUME NEW step, NEW t, step # "idle", Doing(step, t)
        PROVE  Doing(step, t)'
    <2>1. ASSUME NEW i \in 1..Len(jobs), jobs[i].step = step /\ jobs[i].items[1] = t
          PROVE  Doing(step, t)'
      <3>1. CASE i = 1
        BY <1>3, <2>1, <3>1 DEF Doing
      <3>2. CASE i # 1
        BY <1>2, <2>1, <3>2 DEF Doing
      <3> QED
        BY <3>1, <3>2
    <2>2. ASSUME NEW v \in Workers, running[v].step = step /\ running[v].items[1] = t
          PROVE  Doing(step, t)'
      BY <1>3, <1>4, <2>2 DEF Doing
    <2> QED
      BY <1>4, <2>1, <2>2 DEF Doing
  <1>5. ASSUME NEW step, NEW t, step # "idle", Doing(step, t)'
        PROVE  Doing(step, t)
    <2>1. ASSUME NEW i \in 1..Len(jobs'), jobs'[i].step = step /\ jobs'[i].items[1] = t
          PROVE  Doing(step, t)
      BY <1>2, <2>1 DEF Doing
    <2>2. ASSUME NEW v \in Workers, running'[v].step = step /\ running'[v].items[1] = t
          PROVE  Doing(step, t)
      <3>1. CASE v = w
        BY <1>2, <1>3, <2>2, <3>1 DEF Doing
      <3>2. CASE v # w
        BY <1>3, <2>2, <3>2 DEF Doing
      <3> QED
        BY <3>1, <3>2
    <2> QED
      BY <1>5, <2>1, <2>2 DEF Doing
  <1>6. jobs[1].step \notin {"load", "report"}
        /\ \A i \in 1..Len(jobs') : jobs'[i].step \notin {"load", "report"}
    BY <1>2 DEF Pooled
  <1>7. (LoadsNew' <=> LoadsNew) /\ (LoadsMore' <=> LoadsMore)
    BY <1>3, <1>6 DEF LoadsNew, LoadsMore, Loader
  <1> QED
    BY <1>4, <1>5, <1>6, <1>7

LEMMA WorkerGoesOn ==
    ASSUME running \in [Workers -> Jobbed], NEW w \in Workers, NEW job \in Jobbed,
           running' = [running EXCEPT ![w] = job], UNCHANGED jobs
    PROVE  /\ \A step, t : Doing(step, t)' => \/ Doing(step, t)
                                              \/ job.step = step /\ job.items[1] = t
           /\ \A step, t : /\ Doing(step, t)
                           /\ running[w].step = step => running[w].items[1] # t
                           => Doing(step, t)'
           /\ \A t : job.items[1] = t => Doing(job.step, t)'
           /\ LoadsNew /\ ~(Loader(w) /\ running[w].changes) => LoadsNew'
           /\ job.step \in {"load", "report"} /\ job.changes => LoadsNew'
           /\ LoadsMore' => LoadsMore \/ (job.step \in {"load", "report"} /\ ~job.changes)
  <1>1. running'[w] = job /\ \A v \in Workers \ {w} : running'[v] = running[v]
    OBVIOUS
  <1>2. \A step, t : Doing(step, t)' => Doing(step, t) \/ (job.step = step /\ job.items[1] = t)
    BY <1>1 DEF Doing
  <1>3. \A step, t : /\ Doing(step, t)
                     /\ running[w].step = step => running[w].items[1] # t
                     => Doing(step, t)'
    BY <1>1 DEF Doing
  <1>4. \A t : job.items[1] = t => Doing(job.step, t)'
    BY <1>1 DEF Doing
  <1>5. LoadsNew /\ ~(Loader(w) /\ running[w].changes) => LoadsNew'
    BY <1>1 DEF LoadsNew, Loader
  <1>6. job.step \in {"load", "report"} /\ job.changes => LoadsNew'
    BY <1>1 DEF LoadsNew, Loader
  <1>7. LoadsMore' => LoadsMore \/ (job.step \in {"load", "report"} /\ ~job.changes)
    BY <1>1 DEF LoadsMore, Loader
  <1> QED
    BY <1>2, <1>3, <1>4, <1>5, <1>6, <1>7

-----------------------------------------------------------------------------
(* What keeps the invariant.                                               *)

LEMMA PromiseSuffices ==
    ASSUME Promised'
    PROVE  Follows'
  BY DEF Follows

LEMMA HaltSuffices ==
    ASSUME Halts', \A t \in AllTracks : Doing("open", t)' => t = Current' \/ Promised'
    PROVE  Follows'
  BY DEF Follows

LEMMA FollowsKept ==
    ASSUME Follows, Current' = Current, ready' = ready, UNCHANGED <<deck, halted>>,
           Promised => Promised',
           \A t \in AllTracks : Doing("open", t)' => Doing("open", t),
           \A t \in AllTracks : t = Current /\ Pending(t) => Pending(t)',
           LoadsMore' /\ Total' = 0 => LoadsMore /\ Total = 0
    PROVE  Follows'
  <1>1. Halts => Halts'
    BY DEF Halts
  <1> QED
    BY <1>1 DEF Follows

\* What the current track is.
LEMMA EmptyCurrent ==
    ASSUME Listed
    PROVE  /\ Total = 0 => Current = NoTrack
           /\ ~ready => Current = NoTrack
           /\ Current \in AllTracks
  <1>1. Total = 0 => main = << >> /\ opened = << >> /\ Len(opened) = 0
    BY Lengths DEF Listed
  <1> QED
    BY <1>1, Lengths DEF Current, Listed, AllTracks

LEMMA CurrentKept ==
    ASSUME UNCHANGED <<lists, current, ready>>
    PROVE  Current' = Current /\ Total' = Total
  BY DEF Current, Total, lists, current

LEMMA CurrentGrown ==
    ASSUME Listed, InPlace, NEW items \in Seq(Tracks), main' = main \o items,
           opened' = opened, Fits(items), Stay(FirstOf(items)), ready' = ready, Total # 0
    PROVE  Current' = Current
  <1>1. position' = position /\ openedValue' = openedValue /\ value' = FirstOf(items)
    BY DEF Stay
  <1>2. CASE position < Len(opened)
    BY <1>1, <1>2 DEF Current
  <1>3. CASE position >= Len(opened)
    <2>1. main # << >>
      <3>1. Len(main) # 0
        <4>1. CASE position < Total
          BY <1>3, <4>1, Lengths
        <4>2. CASE opened = << >>
          <5>1. Len(opened) = 0
            BY <4>2
          <5> QED
            BY <5>1, Lengths
        <4> QED
          BY <4>1, <4>2 DEF InPlace
      <3> QED
        BY <3>1
    <2>2. value # NoTrack
      BY <2>1 DEF Listed
    <2>3. value' = value
      BY <1>1, <2>2, Grown
    <2>4. ~(position' < Len(opened'))
      BY <1>1, <1>3, Lengths
    <2>5. ~(position < Len(opened))
      BY <1>3, Lengths
    <2> QED
      BY <2>3, <2>4, <2>5 DEF Current
  <1> QED
    BY <1>2, <1>3, Lengths

LEMMA CurrentStays ==
    ASSUME Listed, AtPosition, UNCHANGED lists, GoTo(position, value), ready' = ready
    PROVE  Current' = Current
  <1>1. main' = main /\ opened' = opened /\ position' = position
    BY DEF lists, GoTo
  <1>2. openedValue' = openedValue
    BY <1>1, Lengths DEF GoTo, AtPosition
  <1>3. value' = value
    <2>1. CASE position >= Len(opened) /\ position < Len(opened) + Len(main)
      <3>1. position < Total /\ ~(position < Len(opened))
        BY <2>1, Lengths
      <3>2. value = main[position - Len(opened) + 1]
        BY <3>1 DEF AtPosition
      <3> QED
        BY <1>1, <2>1, <3>2 DEF GoTo
    <2>2. CASE ~(position >= Len(opened) /\ position < Len(opened) + Len(main))
      BY <1>1, <2>2 DEF GoTo
    <2> QED
      BY <2>1, <2>2
  <1> QED
    BY <1>1, <1>2, <1>3 DEF Current

\* An order is one of the state machine's.
LEMMA Orders ==
    ASSUME NEW changed
    PROVE  /\ IsOrder(Update(TRUE, "explicit"))
           /\ IsOrder(Update(changed, "finished"))
           /\ IsOrder(Update(changed, "repeating"))
           /\ ~IsOrder(Update(FALSE, "explicit"))
  BY DEF IsOrder, Update

LEMMA OrderGiven ==
    ASSUME updates \in Seq(Updates), NEW changed, NEW reason, NotifyChanged(changed, reason),
           \/ changed = TRUE /\ reason = "explicit"
           \/ reason \in {"finished", "repeating"}
    PROVE  Promised'
  BY UpdateAdded, Orders DEF NotifyChanged, Promised

\* Nothing happens to the jobs.
LEMMA JobsKept ==
    ASSUME UNCHANGED pool
    PROVE  /\ \A step, t : Doing(step, t)' <=> Doing(step, t)
           /\ LoadsNew' <=> LoadsNew
           /\ LoadsMore' <=> LoadsMore
           /\ UNCHANGED <<jobs, running>>
  BY DEF pool, Doing, LoadsNew, LoadsMore, Loader

LEMMA UpdatesKept ==
    ASSUME UNCHANGED updates
    PROVE  (Ordered' <=> Ordered) /\ \A t : Decoded(t)' <=> Decoded(t)
  BY DEF Ordered, Decoded

\* The jobs are left alone, and updates at most added: what was under way still is.
LEMMA UnderWay ==
    ASSUME UNCHANGED pool, updates \in Seq(Updates),
           \/ UNCHANGED updates
           \/ \E update : updates' = Append(updates, update),
           Clears => Clears'
    PROVE  /\ Promised => Promised'
           /\ \A t : Pending(t) => Pending(t)'
  <1>1. Ordered => Ordered'
    BY UpdateAdded, UpdatesKept
  <1>2. \A t : Decoded(t) => Decoded(t)'
    BY UpdateAdded, UpdatesKept
  <1> QED
    BY <1>1, <1>2, JobsKept DEF Promised, Pending

LEMMA PooledKept ==
    ASSUME Pooled, UNCHANGED <<pool, appending, cancel>>,
           ui.step = "wait" => ui'.step = "wait" \/ ~appending
    PROVE  Pooled'
  BY JobsKept DEF Pooled

-----------------------------------------------------------------------------
(* The steps.                                                              *)

LEMMA UserStepFollows ==
    ASSUME Inv, Pooled, Follows, ~astray, User, ~MovesSilently, UNCHANGED audioVars
    PROVE  Pooled' /\ Follows'
  <1> USE DEF flags, modes, audioVars
  <1>0. /\ updates \in Seq(Updates) /\ jobs \in Seq(Jobbed)
        /\ Listed /\ Placed
    BY DEF Inv, Typed, PoolTypes
  <1>1. ui.step = "idle" /\ ~Clears
    BY DEF User, AddTracks, UserNext, UserPrevious, UserPosition, UserRandom,
           UserRepeat, StartClear, Input, Clears
  <1>2. ASSUME NEW items \in Additions, NEW step \in {"check", "checkAll"},
               step = "check" => Len(items) = 1, AddTracks(items, step)
        PROVE  Pooled' /\ Follows'
    <2> DEFINE job == Job(step, items, FALSE)
    <2>1. job \in Jobbed /\ job.step = step
      <3>1. items \in Seq(AllTracks)
        BY QueueAssumption DEF AllTracks
      <3>2. step = "check" => items # << >>
        <4>1. Len(<< >>) = 0
          OBVIOUS
        <4> QED
          BY <1>2, <4>1
      <3> QED
        BY <3>1, <3>2, JobMade DEF AppendSteps
    <2>2. /\ jobs' = Append(jobs, job)
          /\ UNCHANGED <<lists, current, ready, appending, cancel, running, ui, updates>>
      BY <1>2 DEF AddTracks
    <2> HIDE DEF job
    <2>3. /\ \A s, t : s \notin {"check", "checkAll"} => (Doing(s, t)' <=> Doing(s, t))
          /\ LoadsNew' <=> LoadsNew
          /\ LoadsMore' <=> LoadsMore
          /\ (\A i \in 1..Len(jobs) : jobs[i].step \notin {"load", "report"})
               => \A i \in 1..Len(jobs') : jobs'[i].step \notin {"load", "report"}
      BY <1>0, <2>1, <2>2, JobAdded
    <2>4. Promised' <=> Promised
      BY <2>2, <2>3, UpdatesKept DEF Promised, Clears
    <2>5. \A t : Pending(t) => Pending(t)'
      BY <2>2, <2>3, UpdatesKept DEF Pending
    <2>6. Current' = Current /\ Total' = Total
      BY <2>2, CurrentKept
    <2>7. Follows'
      BY <2>2, <2>3, <2>4, <2>5, <2>6, FollowsKept
    <2>8. Pooled'
      BY <2>2, <2>3 DEF Pooled
    <2> QED
      BY <2>7, <2>8
  <1>3. ASSUME UNCHANGED <<pool, appending, cancel, ui>>, NotifyChanged(TRUE, "explicit")
        PROVE  Pooled' /\ Follows'
    BY <1>0, <1>3, OrderGiven, PromiseSuffices, PooledKept
  <1>4. ASSUME UNCHANGED <<lists, ready, pool, appending, cancel, ui>>, Current' = Current,
               NotifyChanged(FALSE, "explicit")
        PROVE  Pooled' /\ Follows'
    <2>1. (Promised => Promised') /\ \A t : Pending(t) => Pending(t)'
      <3>1. \E update : updates' = Append(updates, update)
        BY <1>4 DEF NotifyChanged
      <3>2. Clears => Clears'
        BY <1>4 DEF Clears
      <3> QED
        BY <1>0, <1>4, <3>1, <3>2, UnderWay
    <2>2. Total' = Total
      BY <1>4 DEF Total, lists
    <2>3. Follows'
      BY <1>4, <2>1, <2>2, JobsKept, FollowsKept
    <2> QED
      BY <1>4, <2>3, PooledKept
  <1>5. CASE UserNext
    <2>1. /\ UNCHANGED <<lists, ready, pool, appending, cancel, ui>>
          /\ NextTrack("explicit")
      BY <1>5, <1>0, NextNotifies DEF UserNext, Reasons
    <2>2. PICK changed \in BOOLEAN : NotifyChanged(changed, "explicit")
      BY <1>0, <2>1, NextNotifies DEF Reasons
    <2>3. CASE changed
      BY <1>3, <2>1, <2>2, <2>3
    <2>4. CASE ~changed
      <3> DEFINE update == Update(FALSE, "explicit")
      <3>1. updates' = Append(updates, update) /\ update \in Updates /\ ~update.changed
        BY <2>2, <2>4, UpdateMade DEF NotifyChanged, Reasons
      <3> HIDE DEF update
      <3>2. /\ Len(updates') = Len(updates) + 1 /\ Len(updates) \in Nat
            /\ updates'[Len(updates')] = update
        BY <1>0, <3>1
      <3>3. updates' # updates
        BY <3>2
      <3>4. Last(updates') = update
        BY <3>2 DEF Last
      <3>5. position' = position
        BY <1>1, <3>1, <3>3, <3>4 DEF MovesSilently
      <3>6. GoTo(position, value)
        <4>1. PICK p : GoTo(p, value)
          BY <2>1 DEF NextTrack, ShuffledNext, LinearNext
        <4>2. p = position
          BY <3>5, <4>1 DEF GoTo
        <4> QED
          BY <4>1, <4>2
      <3>7. Current' = Current
        BY <1>0, <2>1, <3>6, CurrentStays DEF Placed
      <3>8. NotifyChanged(FALSE, "explicit")
        BY <2>2, <2>4
      <3> QED
        BY <1>4, <2>1, <3>7, <3>8
    <2> QED
      BY <2>3, <2>4
  <1>6. CASE UserPrevious \/ UserPosition
    BY <1>3, <1>6 DEF UserPrevious, PreviousTrack, UserPosition
  <1>7. CASE UserRandom \/ UserRepeat
    <2>1. /\ UNCHANGED <<lists, current, ready, pool, appending, cancel, ui>>
          /\ NotifyChanged(FALSE, "explicit")
      BY <1>7 DEF UserRandom, UserRepeat
    <2> QED
      BY <1>4, <2>1, CurrentKept
  <1>8. ASSUME NEW then, NEW items, StartClear(then, items)
        PROVE  Pooled' /\ Follows'
    <2>1. ui'.step \in {"cancel", "clear"} /\ UNCHANGED <<pool, appending, cancel>>
      BY <1>8 DEF StartClear
    <2>2. Promised'
      BY <2>1 DEF Promised, Clears
    <2> QED
      BY <1>1, <2>1, <2>2, PromiseSuffices, PooledKept
  <1>9. \A items \in Additions :
           AddTracks(items, IF Len(items) = 1 THEN "check" ELSE "checkAll")
             => Pooled' /\ Follows'
    BY <1>2
  <1> QED
    BY <1>5, <1>6, <1>7, <1>8, <1>9 DEF User

LEMMA AppendedTwice ==
    ASSUME NEW S, NEW s \in Seq(S), NEW a \in S, NEW b \in S
    PROVE  s \o <<a>> \o <<b>> = Append(Append(s, a), b)
  <1>1. s \o <<a>> = Append(s, a) /\ Append(s, a) \in Seq(S)
    BY AppendIsConcat
  <1>2. Append(s, a) \o <<b>> = Append(Append(s, a), b)
    BY <1>1, AppendIsConcat
  <1> QED
    BY <1>1, <1>2

LEMMA ClearingStepFollows ==
    ASSUME Inv, Pooled, Follows, ~astray, Clearing, UNCHANGED audioVars
    PROVE  Pooled' /\ Follows'
  <1> USE DEF flags, modes, audioVars
  <1>0. updates \in Seq(Updates) /\ UNCHANGED pool
    BY DEF Inv, Typed, PoolTypes, Clearing, CancelAppending, AwaitAppending, ClearQueue,
           OpenPlaylist, PlayFrom
  <1>1. CASE CancelAppending \/ AwaitAppending
    <2>1. ui'.step \in {"wait", "clear"}
          /\ (cancel' /\ appending' => ui'.step = "wait")
      BY <1>1 DEF CancelAppending, AwaitAppending, Inv, Typed, UserTypes
    <2>2. Promised'
      BY <2>1 DEF Promised, Clears
    <2>3. Pooled'
      BY <1>0, <2>1, JobsKept DEF Pooled
    <2> QED
      BY <2>2, <2>3, PromiseSuffices
  <1>2. CASE ~(CancelAppending \/ AwaitAppending)
    <2>1. ui.step \in {"clear", "then"} /\ UNCHANGED <<appending, cancel>>
      BY <1>2 DEF Clearing, ClearQueue, OpenPlaylist, PlayFrom
    <2>2. Pooled'
      BY <1>0, <2>1, PooledKept
    <2>3. CASE NotifyChanged(TRUE, "explicit") \/ NotifyChanged(FALSE, "finished")
      BY <1>0, <2>2, <2>3, OrderGiven, PromiseSuffices
    <2>4. CASE ~(NotifyChanged(TRUE, "explicit") \/ NotifyChanged(FALSE, "finished"))
      <3>1. UNCHANGED <<lists, current, ready, updates>> /\ ui.step = "then"
        BY <1>2, <2>4 DEF Clearing, ClearQueue, OpenPlaylist, PlayFrom
      <3>2. Clears => Clears'
        BY <3>1 DEF Clears
      <3>3. (Promised => Promised') /\ \A t : Pending(t) => Pending(t)'
        BY <1>0, <3>1, <3>2, UnderWay
      <3>4. Current' = Current /\ Total' = Total
        BY <3>1, CurrentKept
      <3>5. Follows'
        BY <1>0, <3>1, <3>3, <3>4, JobsKept, FollowsKept
      <3> QED
        BY <2>2, <3>5
    <2> QED
      BY <2>3, <2>4
  <1> QED
    BY <1>1, <1>2

\* A worker's job goes on: what that means for the rest.
LEMMA WorkerFollows ==
    ASSUME Inv, Pooled, NEW w \in Workers, NEW job \in Jobbed,
           running' = [running EXCEPT ![w] = job], UNCHANGED <<jobs, ui>>,
           job.step # "open", cancel' /\ appending' => cancel /\ appending,
           \/ UNCHANGED updates
           \/ \E update : updates' = Append(updates, update)
    PROVE  /\ Pooled'
           /\ Promised /\ ~(Loader(w) /\ running[w].changes) => Promised'
           /\ job.step \in {"load", "report"} /\ job.changes => Promised'
           /\ \A t : Doing("open", t)' => Doing("open", t)
           /\ running[w].step \notin {"open", "compare", "finish"}
                 => \A t : Pending(t) => Pending(t)'
           /\ LoadsMore' => LoadsMore \/ (job.step \in {"load", "report"} /\ ~job.changes)
  <1>0. running \in [Workers -> Jobbed] /\ updates \in Seq(Updates)
    BY DEF Inv, Typed, PoolTypes
  <1>1. /\ \A step, t : Doing(step, t)' => \/ Doing(step, t)
                                           \/ job.step = step /\ job.items[1] = t
        /\ \A step, t : /\ Doing(step, t)
                        /\ running[w].step = step => running[w].items[1] # t
                        => Doing(step, t)'
        /\ LoadsNew /\ ~(Loader(w) /\ running[w].changes) => LoadsNew'
        /\ job.step \in {"load", "report"} /\ job.changes => LoadsNew'
        /\ LoadsMore' => LoadsMore \/ (job.step \in {"load", "report"} /\ ~job.changes)
    BY <1>0, WorkerGoesOn
  <1>2. /\ Ordered => Ordered'
        /\ \A t : Decoded(t) => Decoded(t)'
    BY <1>0, UpdateAdded, UpdatesKept
  <1>3. Pooled'
    BY <1>1 DEF Pooled
  <1>4. Clears' <=> Clears
    BY DEF Clears
  <1>5. /\ Promised /\ ~(Loader(w) /\ running[w].changes) => Promised'
        /\ job.step \in {"load", "report"} /\ job.changes => Promised'
    BY <1>1, <1>2, <1>4 DEF Promised
  <1>6. ASSUME running[w].step \notin {"open", "compare", "finish"}, NEW t, Pending(t)
        PROVE  Pending(t)'
    BY <1>1, <1>2, <1>6 DEF Pending
  <1> QED
    BY <1>1, <1>3, <1>5, <1>6

\* A job that adds tracks, and does not say that the current track changed, adds
\* them behind it; or playback had come to an end.
LEMMA AddedBehind ==
    ASSUME Inv, Follows, ~astray, UNCHANGED <<deck, halted>>,
           NEW items \in Seq(Tracks), main' = main \o items, opened' = opened,
           Fits(items), Stay(FirstOf(items)), ready' = ready \/ ready' = TRUE,
           Promised => Promised',
           \A t : Doing("open", t)' => Doing("open", t), ~Doing("open", NoTrack),
           \A t : Pending(t) => Pending(t)',
           LoadsMore' => LoadsMore, Total = 0 => Promised \/ Halts
    PROVE  Follows'
  <1>0. Listed /\ Placed /\ ready \in BOOLEAN
    BY DEF Inv, Typed, FlagTypes
  <1>1. Total' = Total + Len(items) /\ Len(items) \in Nat /\ Total \in Nat
    BY <1>0, Grown, Lengths
  <1>2. CASE Promised
    BY <1>2, PromiseSuffices
  <1>3. CASE ~Promised /\ (Total = 0 \/ ~ready)
    <2>1. Halts /\ Current = NoTrack
      BY <1>0, <1>3, EmptyCurrent DEF Follows
    <2>2. Halts'
      BY <2>1 DEF Halts
    <2>3. \A t \in AllTracks : ~Doing("open", t)'
      BY <1>3, <2>1 DEF Follows
    <2> QED
      BY <2>2, <2>3, HaltSuffices
  <1>4. CASE Total # 0 /\ ready
    <2>1. ready' = ready
      BY <1>4
    <2>2. Current' = Current
      BY <1>0, <1>4, <2>1, CurrentGrown DEF Placed
    <2>3. LoadsMore' /\ Total' = 0 => LoadsMore /\ Total = 0
      BY <1>1
    <2> QED
      BY <2>1, <2>2, <2>3, FollowsKept
  <1> QED
    BY <1>2, <1>3, <1>4

LEMMA AppendJobFollows ==
    ASSUME Inv, PoolInv, Pooled, Follows, ~astray, NEW w \in Workers, AppendJob(w),
           ~EmptinessStale(w), UNCHANGED audioVars
    PROVE  Pooled' /\ Follows'
  <1> USE DEF flags, modes, audioVars, StepIs
  <1> DEFINE items == running[w].items
             changes == running[w].changes
             added == IF items = << >> THEN << >> ELSE Found(Head(items))
  <1>0. /\ running \in [Workers -> Jobbed] /\ jobs \in Seq(Jobbed)
        /\ iterators \in Seq(Seq(AllTracks)) /\ updates \in Seq(Updates)
        /\ running[w] \in Jobbed /\ Idle \in Jobbed /\ Idle.step = "idle"
        /\ Listed /\ Placed /\ ready \in BOOLEAN
    BY IdleJob DEF Inv, Typed, PoolTypes, FlagTypes
  <1>1. /\ items \in Seq(AllTracks) /\ changes \in BOOLEAN
        /\ running[w].step \in {"check", "add"} => items # << >>
        /\ items # << >> => Tail(items) \in Seq(AllTracks) /\ Head(items) \in AllTracks
    BY <1>0, JobParts
  <1>2. ~Doing("open", NoTrack)
    BY DEF Pooled
  <1>3. added \in Seq(Tracks)
    <2>1. << >> \in Seq(Tracks)
      OBVIOUS
    <2> QED
      BY <1>1, <2>1, FoundTracks
  <1>4. UNCHANGED <<ui, inputs, deck, halted>>
    BY DEF AppendJob, CheckEmpty, AddTrack, AddIterator, StartAppending,
           StopAppending, LoadTrack, ReportLoading, NextIterator, FinishAppending
  <1> HIDE DEF items, changes, added
  <1>5. CASE CheckEmpty(w)
    <2>1. PICK step \in {"add", "addAll"} :
             /\ running' = [running EXCEPT ![w] = Job(step, items, position >= Total)]
             /\ step = "add" => running[w].step = "check"
      BY <1>5 DEF CheckEmpty, items
    <2> DEFINE job == Job(step, items, position >= Total)
    <2>2. job \in Jobbed /\ job.step = step
      <3>1. (position >= Total) \in BOOLEAN
        BY <1>0, Lengths
      <3>2. /\ items \in Seq(AllTracks) /\ step \in {"add", "addAll"}
            /\ step = "add" => items # << >>
        BY <1>1, <2>1
      <3> QED
        BY <3>1, <3>2, JobMade DEF AppendSteps
    <2>3. running' = [running EXCEPT ![w] = job]
      BY <2>1
    <2> HIDE DEF job
    <2>4. running[w].step \in {"check", "checkAll"} /\ ~Loader(w)
          /\ UNCHANGED <<jobs, updates, cancel, appending, lists, current, ready>>
      BY <1>5 DEF CheckEmpty, Loader
    <2>5. /\ Pooled' /\ (Promised => Promised')
          /\ \A t : Doing("open", t)' => Doing("open", t)
          /\ \A t : Pending(t) => Pending(t)'
          /\ LoadsMore' => LoadsMore
      BY <1>4, <2>2, <2>3, <2>4, WorkerFollows
    <2>6. Current' = Current /\ Total' = Total
      BY <2>4, CurrentKept
    <2>7. Follows'
      BY <1>4, <2>4, <2>5, <2>6, FollowsKept
    <2> QED
      BY <2>5, <2>7
  <1>6. CASE AddTrack(w)
    <2>1. /\ running' = [running EXCEPT ![w] = Idle]
          /\ running[w].step = "add" /\ ~Loader(w)
          /\ UNCHANGED <<jobs, cancel, appending>> /\ NotifyChanged(changes, "explicit")
          /\ ready' = TRUE
          /\ items # << >> /\ main' = main \o added /\ opened' = opened /\ Fits(added)
          /\ UpdateShuffler(changes, FirstOf(added))
          /\ changes = (position >= Total)
      BY <1>1, <1>6 DEF AddTrack, Ends, Loader, EmptinessStale, changes, items, added
    <2>2. \E update : updates' = Append(updates, update)
      BY <2>1 DEF NotifyChanged
    <2>3. /\ Pooled' /\ (Promised => Promised')
          /\ \A t : Doing("open", t)' => Doing("open", t)
          /\ \A t : Pending(t) => Pending(t)'
          /\ LoadsMore' => LoadsMore
      BY <1>0, <1>4, <2>1, <2>2, WorkerFollows
    <2>4. CASE changes
      BY <1>0, <2>1, <2>3, <2>4, OrderGiven, PromiseSuffices
    <2>5. CASE ~changes
      <3>1. Stay(FirstOf(added))
        BY <2>1, <2>5 DEF UpdateShuffler
      <3>2. Total # 0
        <4>1. ~(position >= Total)
          BY <2>1, <2>5, Zenon
        <4> QED
          BY <1>0, <4>1, Lengths
      <3>3. Follows'
        BY <1>2, <1>3, <1>4, <2>1, <2>3, <3>1, <3>2, AddedBehind
      <3> QED
        BY <2>3, <3>3
    <2> QED
      BY <1>1, <2>4, <2>5
  <1>7. CASE AddIterator(w)
    <2>1. /\ running' = [running EXCEPT ![w] = Idle]
          /\ running[w].step = "addAll" /\ ~Loader(w)
          /\ UNCHANGED <<updates, lists, current, ready>>
          /\ \/ UNCHANGED <<jobs, appending, cancel>>
             \/ cancel' = FALSE /\ jobs' = Append(jobs, Job("start", items, changes))
      BY <1>7 DEF AddIterator, Ends, Loader, items, changes
    <2>2. Current' = Current /\ Total' = Total
      BY <2>1, CurrentKept
    <2>3. CASE UNCHANGED <<jobs, appending, cancel>>
      <3>1. /\ Pooled' /\ (Promised => Promised')
            /\ \A t : Doing("open", t)' => Doing("open", t)
            /\ \A t : Pending(t) => Pending(t)'
            /\ LoadsMore' => LoadsMore
        BY <1>0, <1>4, <2>1, <2>3, WorkerFollows
      <3>2. Follows'
        BY <1>4, <2>1, <2>2, <3>1, FollowsKept
      <3> QED
        BY <3>1, <3>2
    <2>4. CASE cancel' = FALSE /\ jobs' = Append(jobs, Job("start", items, changes))
      <3>1. /\ Job("start", items, changes) \in Jobbed
            /\ Job("start", items, changes).step = "start"
        BY <1>1, JobMade DEF AppendSteps
      <3>2. /\ \A s, t : s \notin {"start", "addAll", "idle"} => (Doing(s, t)' <=> Doing(s, t))
            /\ LoadsNew' <=> LoadsNew
            /\ LoadsMore' <=> LoadsMore
            /\ \A i \in 1..Len(jobs') : jobs'[i].step \notin {"load", "report"}
        <4> DEFINE job == Job("start", items, changes)
        <4>1. /\ Len(jobs) \in Nat /\ Len(jobs') = Len(jobs) + 1
              /\ jobs'[Len(jobs) + 1] = job
              /\ \A i \in 1..Len(jobs) : jobs'[i] = jobs[i]
              /\ job.step = "start"
          <5>1. job \in Jobbed /\ job.step = "start" /\ jobs' = Append(jobs, job)
            BY <2>4, <3>1
          <5> HIDE DEF job
          <5> QED
            BY <1>0, <5>1, JobQueued
        <4> HIDE DEF job
        <4>2. /\ running'[w] = Idle /\ \A v \in Workers \ {w} : running'[v] = running[v]
          <5>1. running \in [Workers -> Jobbed] /\ running' = [running EXCEPT ![w] = Idle]
            BY <1>0, <2>1
          <5> QED
            BY <5>1
        <4>3. ASSUME NEW s, NEW t, s \notin {"start", "addAll", "idle"}
              PROVE  Doing(s, t)' <=> Doing(s, t)
          <5>1. Idle.step = "idle" /\ running[w].step = "addAll"
            BY <1>0, <2>1
          <5>2. (\E i \in 1..Len(jobs') : jobs'[i].step = s /\ jobs'[i].items[1] = t)
                  <=> \E i \in 1..Len(jobs) : jobs[i].step = s /\ jobs[i].items[1] = t
            BY <4>1, <4>3
          <5>3. (\E v \in Workers : running'[v].step = s /\ running'[v].items[1] = t)
                  <=> \E v \in Workers : running[v].step = s /\ running[v].items[1] = t
            BY <4>2, <4>3, <5>1
          <5> QED
            BY <5>2, <5>3 DEF Doing
        <4>4. (LoadsNew' <=> LoadsNew) /\ (LoadsMore' <=> LoadsMore)
          BY <1>0, <2>1, <4>2 DEF LoadsNew, LoadsMore, Loader
        <4>5. \A i \in 1..Len(jobs') : jobs'[i].step \notin {"load", "report"}
          BY <4>1 DEF Pooled
        <4> QED
          BY <4>3, <4>4, <4>5
      <3>3. Promised' <=> Promised
        BY <1>4, <2>1, <3>2, UpdatesKept DEF Promised, Clears
      <3>4. \A t : Pending(t) => Pending(t)'
        BY <2>1, <3>2, UpdatesKept DEF Pending
      <3>5. Follows'
        BY <1>4, <2>1, <2>2, <3>2, <3>3, <3>4, FollowsKept
      <3>6. Pooled'
        BY <2>4, <3>2 DEF Pooled
      <3> QED
        BY <3>5, <3>6
    <2> QED
      BY <2>1, <2>3, <2>4
  <1>8. CASE StartAppending(w)
    <2>1. /\ running[w].step = "start" /\ ~Loader(w)
          /\ UNCHANGED <<jobs, updates, lists, current, appending, cancel>>
          /\ running' = [running EXCEPT ![w].step = "load"]
          /\ ready' = (ready /\ ~changes) /\ changes = (position >= Total)
      BY <1>8 DEF StartAppending, GoesTo, Loader, EmptinessStale, changes
    <2> DEFINE job == Job("load", items, changes)
    <2>2. /\ job \in Jobbed /\ job.step = "load" /\ job.changes = changes
      BY <1>1, JobMade DEF AppendSteps
    <2>3. running' = [running EXCEPT ![w] = job]
      BY <1>0, <2>1, StepAssigned DEF items, changes
    <2> HIDE DEF job
    <2>4. /\ Pooled' /\ (Promised => Promised')
          /\ changes => Promised'
          /\ \A t : Doing("open", t)' => Doing("open", t)
          /\ \A t : Pending(t) => Pending(t)'
      BY <1>4, <2>1, <2>2, <2>3, WorkerFollows
    <2>5. CASE changes
      BY <2>4, <2>5, PromiseSuffices
    <2>6. CASE ~changes
      <3>1. ready' = ready
        BY <1>0, <2>1, <2>6
      <3>2. Current' = Current /\ Total' = Total
        BY <2>1, <3>1, CurrentKept
      <3>3. Total # 0
        <4>1. ~(position >= Total)
          BY <2>1, <2>6, Zenon
        <4> QED
          BY <1>0, <4>1, Lengths
      <3>4. Follows'
        BY <1>4, <2>4, <3>1, <3>2, <3>3, FollowsKept
      <3> QED
        BY <2>4, <3>4
    <2> QED
      BY <1>1, <2>5, <2>6, <2>4
  <1>9. CASE StopAppending(w)
    <2>1. /\ running[w].step = "load" /\ cancel
          /\ running' = [running EXCEPT ![w] = Idle]
          /\ UNCHANGED <<jobs, updates, lists, current, ready, cancel>> /\ appending' = FALSE
      BY <1>9 DEF StopAppending, Ends
    <2>2. appending
      <3>1. w \in Working
        BY <2>1 DEF Working, Appending, AppendingSteps
      <3> QED
        BY <3>1 DEF PoolInv, OneAppender
    <2>3. ui.step = "wait"
      BY <2>1, <2>2 DEF Pooled
    <2>4. Promised'
      BY <1>4, <2>3 DEF Promised, Clears
    <2>5. Pooled'
      BY <1>0, <1>4, <2>1, WorkerFollows
    <2> QED
      BY <2>4, <2>5, PromiseSuffices
  <1>10. CASE LoadTrack(w)
    <2>1. PICK step \in {"load", "report"} :
             running' = [running EXCEPT ![w].items = Tail(@), ![w].step = step]
      BY <1>10 DEF LoadTrack
    <2>2. /\ running' = [running EXCEPT ![w].items = Tail(items), ![w].step = step]
          /\ items # << >> /\ running[w].step = "load"
          /\ UNCHANGED <<jobs, updates, cancel, appending, ready>>
          /\ main' = main \o added /\ opened' = opened /\ Fits(added)
          /\ Stay(FirstOf(added))
      BY <1>10, <2>1 DEF LoadTrack, items, added, Stay
    <2> DEFINE job == Job(step, Tail(items), changes)
    <2>3. job \in Jobbed /\ job.step = step /\ job.changes = changes
      <3>1. Tail(items) \in Seq(AllTracks) /\ changes \in BOOLEAN
        BY <1>1, <2>2
      <3> QED
        BY <3>1, JobMade DEF AppendSteps
    <2>4. running' = [running EXCEPT ![w] = job]
      <3>1. /\ running \in [Workers -> Jobbed]
            /\ running' = [running EXCEPT ![w].items = Tail(items), ![w].step = step]
        BY <1>0, <2>2
      <3> QED
        BY <3>1, ItemsAndStepAssigned DEF changes
    <2> HIDE DEF job
    <2>5. /\ Pooled'
          /\ Promised /\ ~(Loader(w) /\ changes) => Promised'
          /\ changes => Promised'
          /\ \A t : Doing("open", t)' => Doing("open", t)
          /\ \A t : Pending(t) => Pending(t)'
          /\ LoadsMore' => LoadsMore \/ ~changes
      BY <1>4, <2>2, <2>3, <2>4, WorkerFollows DEF changes
    <2>6. ~changes => LoadsMore
      BY <2>2 DEF LoadsMore, Loader, changes
    <2>7. CASE changes
      BY <2>5, <2>7, PromiseSuffices
    <2>8. CASE ~changes
      <3>1. Total = 0 => Promised \/ Halts
        BY <2>6, <2>8 DEF Follows
      <3>2. Promised => Promised'
        BY <2>5, <2>8
      <3>3. LoadsMore' => LoadsMore
        BY <2>5, <2>6
      <3>4. Follows'
        BY <1>2, <1>3, <1>4, <2>2, <2>5, <3>1, <3>2, <3>3, AddedBehind
      <3> QED
        BY <2>5, <3>4
    <2> QED
      BY <1>1, <2>5, <2>7, <2>8
  <1>11. CASE ReportLoading(w)
    <2> DEFINE enough == IF shuffle.on THEN Len(main) >= ManyTracks ELSE Len(main) > 0
               starts == changes /\ enough
               bulk == Update(FALSE, "bulk")
               order == Update(TRUE, "explicit")
    <2>1. /\ running' = [running EXCEPT ![w].step = "load", ![w].changes = changes /\ ~starts]
          /\ updates' = updates \o <<bulk>> \o (IF starts THEN <<order>> ELSE << >>)
          /\ running[w].step = "report"
          /\ UNCHANGED <<jobs, lists, appending, cancel>>
      BY <1>11 DEF ReportLoading, changes
    <2>2. PICK still, load : still = (changes /\ ~starts) /\ load = "load"
      OBVIOUS
    <2>3. still \in BOOLEAN
      BY <2>2, Zenon
    <2> DEFINE job == Job(load, items, still)
    <2>4. job \in Jobbed /\ job.step = "load" /\ job.changes = still
      <3>1. items \in Seq(AllTracks) /\ load = "load"
        BY <1>1, <2>2
      <3> QED
        BY <2>3, <3>1, JobMade DEF AppendSteps
    <2>5. running' = [running EXCEPT ![w] = job]
      <3>1. running' = [running EXCEPT ![w].step = load, ![w].changes = still]
        BY <2>1, <2>2
      <3> DEFINE step == running[w].step
      <3>2. running[w] = Job(step, items, changes)
        BY <1>0, JobParts DEF items, changes
      <3> HIDE DEF step
      <3>3. [[running[w] EXCEPT !.step = load] EXCEPT !.changes = still] = job
        <4>1. [running[w] EXCEPT !.step = load] = Job(load, items, changes)
          BY <3>2 DEF Job
        <4>2. [Job(load, items, changes) EXCEPT !.changes = still] = Job(load, items, still)
          BY DEF Job
        <4> QED
          BY <4>1, <4>2
      <3> QED
        BY <1>0, <3>1, <3>3
    <2> HIDE DEF job
    <2>6. bulk \in Updates /\ order \in Updates /\ IsOrder(order)
      BY UpdateMade, Orders DEF Reasons
    <2>7. CASE starts
      <3>1. updates' = Append(Append(updates, bulk), order)
        <4>1. updates' = updates \o <<bulk>> \o <<order>>
          BY <2>1, <2>7
        <4>2. updates \in Seq(Updates) /\ bulk \in Updates /\ order \in Updates
          BY <1>0, <2>6
        <4> HIDE DEF bulk, order
        <4>3. updates \o <<bulk>> \o <<order>> = Append(Append(updates, bulk), order)
          BY <4>2, AppendedTwice
        <4> QED
          BY <4>1, <4>3
      <3>2. Ordered'
        <4> HIDE DEF bulk, order
        <4>1. Append(updates, bulk) \in Seq(Updates)
          BY <1>0, <2>6
        <4> DEFINE more == Append(updates, bulk)
        <4> HIDE DEF more
        <4>2. /\ Len(more) \in Nat /\ Len(updates') = Len(more) + 1
              /\ updates'[Len(more) + 1] = order
          BY <3>1, <4>1 DEF more
        <4> QED
          BY <2>6, <4>2 DEF Ordered
      <3>3. Pooled'
        <4>1. Doing("open", NoTrack)' => Doing("open", NoTrack)
          <5>1. /\ \A v \in Workers \ {w} : running'[v] = running[v]
                /\ running'[w] = job /\ job.step = "load" /\ UNCHANGED jobs
            <6>1. running \in [Workers -> Jobbed] /\ running' = [running EXCEPT ![w] = job]
              BY <1>0, <2>5
            <6> QED
              BY <2>1, <2>4, <6>1
          <5> QED
            BY <5>1 DEF Doing
        <4> QED
          BY <1>4, <2>1, <2>4, <4>1 DEF Pooled
      <3> QED
        BY <3>2, <3>3, PromiseSuffices DEF Promised
    <2>8. CASE ~starts
      <3>1. updates' = Append(updates, bulk)
        <4> HIDE DEF bulk, order
        <4>1. updates' = updates \o <<bulk>> \o << >>
          BY <2>1, <2>8
        <4> QED
          BY <1>0, <2>6, <4>1
      <3>2. \E update : updates' = Append(updates, update)
        BY <3>1
      <3>3. still = changes
        BY <1>1, <2>2, <2>8
      <3>4. /\ Pooled'
            /\ Promised /\ ~(Loader(w) /\ changes) => Promised'
            /\ changes => Promised'
            /\ \A t : Doing("open", t)' => Doing("open", t)
            /\ \A t : Pending(t) => Pending(t)'
            /\ LoadsMore' => LoadsMore \/ ~changes
        BY <1>4, <2>1, <2>4, <2>5, <3>2, <3>3, WorkerFollows DEF changes
      <3>5. CASE changes
        BY <3>4, <3>5, PromiseSuffices
      <3>6. CASE ~changes
        <4>1. UpdateShuffler(FALSE, value) /\ ready' = ready
          <5>1. UpdateShuffler(starts, value) /\ ready' = (ready \/ starts)
            BY <1>11, <3>6 DEF ReportLoading, changes
          <5>2. starts = FALSE
            BY <2>8
          <5> HIDE DEF starts
          <5> QED
            BY <1>0, <5>1, <5>2
        <4>2. Stay(value)
          BY <4>1 DEF UpdateShuffler
        <4>3. Current' = Current /\ Total' = Total
          BY <2>1, <4>1, <4>2, CurrentKept DEF Stay, current
        <4>4. LoadsMore
          BY <2>1, <3>6 DEF LoadsMore, Loader, changes
        <4>5. Promised => Promised'
          BY <3>4, <3>6
        <4>6. Follows'
          BY <1>4, <3>4, <4>1, <4>3, <4>4, <4>5, FollowsKept
        <4> QED
          BY <3>4, <4>6
      <3> QED
        BY <1>1, <3>4, <3>5, <3>6
    <2> QED
      BY <2>7, <2>8
  <1>12. CASE NextIterator(w)
    <2>1. /\ running' = [running EXCEPT ![w].items = Head(iterators)]
          /\ iterators # << >> /\ running[w].step = "load"
          /\ UNCHANGED <<jobs, updates, lists, current, ready, appending, cancel>>
      BY <1>12 DEF NextIterator
    <2> DEFINE job == Job("load", Head(iterators), changes)
    <2>2. running' = [running EXCEPT ![w] = job]
      BY <1>0, <2>1, ItemsAssigned DEF changes
    <2>3. job \in Jobbed /\ job.step = "load" /\ job.changes = changes
      <3>1. Head(iterators) \in Seq(AllTracks)
        <4> DEFINE S == Seq(AllTracks)
        <4>1. iterators \in Seq(S)
          BY <1>0
        <4> HIDE DEF S
        <4>2. Head(iterators) \in S
          BY <2>1, <4>1
        <4> QED
          BY <4>2 DEF S
      <3> QED
        BY <1>1, <3>1, JobMade DEF AppendSteps
    <2> HIDE DEF job
    <2>4. /\ Pooled'
          /\ Promised /\ ~(Loader(w) /\ changes) => Promised'
          /\ changes => Promised'
          /\ \A t : Doing("open", t)' => Doing("open", t)
          /\ \A t : Pending(t) => Pending(t)'
          /\ LoadsMore' => LoadsMore \/ ~changes
      BY <1>4, <2>1, <2>2, <2>3, WorkerFollows DEF changes
    <2>5. ~changes => LoadsMore
      BY <2>1 DEF LoadsMore, Loader, changes
    <2>6. Promised => Promised'
      BY <1>1, <2>4
    <2>7. Current' = Current /\ Total' = Total
      BY <2>1, CurrentKept
    <2>8. Follows'
      BY <1>4, <2>1, <2>4, <2>5, <2>6, <2>7, FollowsKept
    <2> QED
      BY <2>4, <2>8
  <1>13. CASE FinishAppending(w)
    <2>1. /\ running' = [running EXCEPT ![w] = Idle] /\ running[w].step = "load"
          /\ UNCHANGED <<jobs, lists, cancel>> /\ appending' = FALSE /\ ready' = TRUE
          /\ NotifyChanged(changes, "explicit") /\ UpdateShuffler(changes, value)
      BY <1>13 DEF FinishAppending, Ends, changes
    <2>2. \E update : updates' = Append(updates, update)
      BY <2>1 DEF NotifyChanged
    <2>3. /\ Pooled'
          /\ Promised /\ ~(Loader(w) /\ changes) => Promised'
          /\ \A t : Doing("open", t)' => Doing("open", t)
          /\ \A t : Pending(t) => Pending(t)'
          /\ LoadsMore' => LoadsMore
      BY <1>0, <1>4, <2>1, <2>2, WorkerFollows DEF changes
    <2>4. CASE changes
      BY <1>0, <2>1, <2>3, <2>4, OrderGiven, PromiseSuffices
    <2>5. CASE ~changes
      <3>1. /\ main' = main \o << >> /\ opened' = opened /\ << >> \in Seq(Tracks)
            /\ Fits(<< >>) /\ Stay(FirstOf(<< >>))
        BY <1>0, <2>1, <2>5, NothingFound DEF UpdateShuffler, lists
      <3>2. Total = 0 => Promised \/ Halts
        <4>1. LoadsMore
          BY <2>1, <2>5 DEF LoadsMore, Loader, changes
        <4> QED
          BY <4>1 DEF Follows
      <3>3. Promised => Promised'
        BY <2>3, <2>5
      <3>4. Follows'
        BY <1>2, <1>4, <2>1, <2>3, <3>1, <3>2, <3>3, AddedBehind
      <3> QED
        BY <2>3, <3>4
    <2> QED
      BY <1>1, <2>4, <2>5
  <1> QED
    BY <1>5, <1>6, <1>7, <1>8, <1>9, <1>10, <1>11, <1>12, <1>13 DEF AppendJob

\* A worker takes a job: what there is to do stays.
LEMMA TakeJobFollows ==
    ASSUME Inv, Pooled, Follows, NEW w \in Workers, TakeJob(w), UNCHANGED audioVars
    PROVE  Pooled' /\ Follows'
  <1>1. jobs \in Seq(Jobbed) /\ running \in [Workers -> Jobbed]
    BY DEF Inv, Typed, PoolTypes
  <1>2. /\ UNCHANGED <<lists, current, ready, appending, cancel, ui, updates, deck, halted>>
    BY DEF TakeJob, flags, audioVars
  <1>3. /\ \A step, t : step # "idle" => (Doing(step, t)' <=> Doing(step, t))
        /\ LoadsNew' <=> LoadsNew
        /\ LoadsMore' <=> LoadsMore
        /\ \A i \in 1..Len(jobs') : jobs'[i].step \notin {"load", "report"}
    BY <1>1, JobTakenOver
  <1>4. Promised' <=> Promised
    BY <1>2, <1>3, UpdatesKept DEF Promised, Clears
  <1>5. \A t : Pending(t) => Pending(t)'
    BY <1>2, <1>3, UpdatesKept DEF Pending
  <1>6. Current' = Current /\ Total' = Total
    BY <1>2, CurrentKept
  <1>7. Follows'
    BY <1>2, <1>3, <1>4, <1>5, <1>6, FollowsKept
  <1>8. Pooled'
    BY <1>2, <1>3 DEF Pooled
  <1> QED
    BY <1>7, <1>8

\* The jobs that open streams and advance the queue.  A stream is opened for the
\* current track, or an order follows; a track that ended or did not open is
\* compared with the current one, and the queue goes on if it is the same.
LEMMA AudioJobFollows ==
    ASSUME Inv, Pooled, Follows, NEW w \in Workers, AudioJob(w)
    PROVE  Pooled' /\ Follows'
  <1> USE DEF flags, modes, StepIs
  <1> DEFINE items == running[w].items
             changes == running[w].changes
  <1>a. PICK track : track = items[1]
    OBVIOUS
  <1>0. /\ running \in [Workers -> Jobbed] /\ updates \in Seq(Updates)
        /\ running[w] \in Jobbed /\ Idle \in Jobbed /\ Idle.step = "idle"
        /\ Listed
    BY IdleJob DEF Inv, Typed, PoolTypes
  <1>1. /\ UNCHANGED <<jobs, ui, ready, appending, cancel>>
        /\ running[w].step \in {"open", "compare", "finish"}
    BY DEF AudioJob, OpenStream, OpenFails, CompareCurrent, FinishCurrent
  <1>2. ~Loader(w) /\ items # << >> /\ items \in Seq(AllTracks) /\ changes \in BOOLEAN
        /\ track \in AllTracks
    BY <1>a, <1>0, <1>1, JobParts DEF Loader
  <1>3. Doing(running[w].step, track)
    BY <1>a DEF Doing
  <1> HIDE DEF items, changes
  <1>4. ASSUME NEW job \in Jobbed, running' = [running EXCEPT ![w] = job],
               job.step # "open",
               \/ UNCHANGED updates
               \/ \E update : updates' = Append(updates, update)
        PROVE  /\ Pooled' /\ (Promised => Promised')
               /\ \A t : Doing("open", t)' => Doing("open", t)
               /\ LoadsMore' => LoadsMore \/ job.step \in {"load", "report"}
    BY <1>1, <1>2, <1>4, WorkerFollows
  <1>5. ASSUME NEW step \in {"compare", "finish"}, GoesTo(w, step)
        PROVE  /\ Job(step, items, changes) \in Jobbed
               /\ Job(step, items, changes).step = step
               /\ Job(step, items, changes).items[1] = track
               /\ running' = [running EXCEPT ![w] = Job(step, items, changes)]
    <2>1. running' = [running EXCEPT ![w].step = step]
      BY <1>5 DEF GoesTo
    <2>2. running' = [running EXCEPT ![w] = Job(step, items, changes)]
      BY <1>0, <2>1, StepAssigned DEF items, changes
    <2>3. /\ Job(step, items, changes) \in Jobbed
          /\ Job(step, items, changes).step = step
          /\ Job(step, items, changes).items = items
      BY <1>2, JobMade DEF AppendSteps
    <2> QED
      BY <1>a, <2>2, <2>3
  <1>6. ASSUME UNCHANGED <<lists, current, updates>>, running[w].step = "open",
               Pooled', Promised => Promised', LoadsMore' => LoadsMore,
               \A t : Doing("open", t)' => Doing("open", t),
               deck' = track \/ Halts' \/ Doing("compare", track)'
        PROVE  Follows'
    <2>1. CASE Promised
      BY <1>6, <2>1, PromiseSuffices
    <2>2. CASE ~Promised
      <3>1. track = Current /\ track # NoTrack
        BY <1>2, <1>3, <1>6, <2>2 DEF Follows, Pooled
      <3>2. ready /\ Total # 0
        BY <1>0, <3>1, EmptyCurrent
      <3>3. Current' = Current /\ Total' = Total /\ ready'
        BY <1>1, <1>6, <3>2, CurrentKept
      <3>4. \A t \in AllTracks : Doing("open", t)' => t = Current'
        BY <1>6, <2>2, <3>3 DEF Follows
      <3>5. \A t \in AllTracks : t = Current' => deck' = t \/ Halts' \/ Pending(t)'
        BY <1>6, <3>1, <3>3 DEF Pending
      <3> QED
        BY <3>2, <3>3, <3>4, <3>5 DEF Follows
    <2> QED
      BY <2>1, <2>2
  <1>7. CASE OpenStream(w)
    <2>1. /\ UNCHANGED <<lists, current, updates>> /\ running[w].step = "open"
          /\ running' = [running EXCEPT ![w] = Idle]
          /\ deck' = track \/ (deck' = NoTrack /\ halted' = TRUE)
      BY <1>a, <1>7 DEF OpenStream, Ends, items
    <2>2. /\ Pooled' /\ (Promised => Promised') /\ (LoadsMore' => LoadsMore)
          /\ \A t : Doing("open", t)' => Doing("open", t)
      BY <1>0, <1>4, <2>1
    <2>3. Follows'
      BY <1>6, <2>1, <2>2 DEF Halts
    <2> QED
      BY <2>2, <2>3
  <1>8. CASE OpenFails(w)
    <2> DEFINE job == Job("compare", items, changes)
    <2>1. /\ UNCHANGED <<lists, current, updates>> /\ running[w].step = "open"
          /\ GoesTo(w, "compare")
      BY <1>8 DEF OpenFails
    <2>2. /\ job \in Jobbed /\ job.step = "compare" /\ job.items[1] = track
          /\ running' = [running EXCEPT ![w] = job]
      BY <1>5, <2>1
    <2> HIDE DEF job
    <2>3. /\ Pooled' /\ (Promised => Promised') /\ (LoadsMore' => LoadsMore)
          /\ \A t : Doing("open", t)' => Doing("open", t)
      BY <1>4, <2>1, <2>2
    <2>4. Doing("compare", track)'
      BY <1>0, <2>2, JobAssigned DEF Doing
    <2>5. Follows'
      BY <1>6, <2>1, <2>3, <2>4
    <2> QED
      BY <2>3, <2>5
  <1>9. CASE CompareCurrent(w)
    <2>1. /\ UNCHANGED <<lists, current, updates, deck, halted>> /\ running[w].step = "compare"
          /\ IF track = Current THEN GoesTo(w, "finish") ELSE Ends(w)
      BY <1>a, <1>9 DEF CompareCurrent, audioVars, items
    <2>2. Current' = Current /\ Total' = Total
      BY <1>1, <2>1, CurrentKept
    <2>3. PICK job \in Jobbed : /\ running' = [running EXCEPT ![w] = job]
                                /\ job.step \in {"finish", "idle"}
                                /\ track = Current => job.step = "finish" /\ job.items[1] = track
      <3>1. CASE track = Current
        BY <1>5, <2>1, <3>1
      <3>2. CASE track # Current
        BY <1>0, <2>1, <3>2 DEF Ends
      <3> QED
        BY <3>1, <3>2
    <2>4. /\ Pooled' /\ (Promised => Promised') /\ (LoadsMore' => LoadsMore)
          /\ \A t : Doing("open", t)' => Doing("open", t)
      BY <1>4, <2>1, <2>3
    <2>5. ASSUME NEW t \in AllTracks, t = Current, Pending(t)
          PROVE  Pending(t)'
      <3>1. running'[w] = job /\ \A v \in Workers \ {w} : running'[v] = running[v]
        BY <1>0, <2>3, JobAssigned
      <3>2. CASE track = t
        <4>1. Doing("finish", t)'
          BY <2>3, <2>5, <3>1, <3>2 DEF Doing
        <4> QED
          BY <4>1 DEF Pending
      <3>3. CASE track # t
        <4>1. \A step : Doing(step, t) => Doing(step, t)'
          BY <1>a, <1>1, <3>1, <3>3 DEF Doing, items
        <4> QED
          BY <2>1, <2>5, <4>1, UpdatesKept DEF Pending
      <3> QED
        BY <3>2, <3>3
    <2>6. Follows'
      BY <1>1, <2>1, <2>2, <2>4, <2>5, FollowsKept
    <2> QED
      BY <2>4, <2>6
  <1>10. CASE FinishCurrent(w)
    <2>1. FinishTrack /\ running' = [running EXCEPT ![w] = Idle]
      BY <1>10 DEF FinishCurrent, Ends
    <2>2. PICK changed \in BOOLEAN, reason \in {"finished", "repeating"} : NotifyChanged(changed, reason)
      <3>1. CASE NotifyChanged(TRUE, "repeating")
        BY <3>1
      <3>2. CASE NextTrack("finished")
        <4>1. \E changed \in BOOLEAN : NotifyChanged(changed, "finished")
          BY <1>0, <3>2, NextNotifies DEF Reasons
        <4> QED
          BY <4>1
      <3> QED
        BY <2>1, <3>1, <3>2 DEF FinishTrack
    <2>3. Promised'
      BY <1>0, <2>2, OrderGiven
    <2>4. Pooled'
      BY <1>0, <1>4, <2>1, <2>2 DEF NotifyChanged
    <2> QED
      BY <2>3, <2>4, PromiseSuffices
  <1> QED
    BY <1>7, <1>8, <1>9, <1>10 DEF AudioJob

\* The state machine.  An order that finds no stream being opened is carried out
\* for the track that is current now.
LEMMA AudioStepFollows ==
    ASSUME Inv, Pooled, Follows, AudioStep, ReactQueueUpdate => ~OrdersOverlap
    PROVE  Pooled' /\ Follows'
  <1> USE DEF flags, modes, pool, audioVars
  <1>0. /\ jobs \in Seq(Jobbed) /\ updates \in Seq(Updates) /\ deck \in AllTracks
        /\ Listed
    BY DEF Inv, Typed, PoolTypes, DeckTypes
  <1>1. UNCHANGED <<lists, current, ready, appending, cancel, running, ui>>
    BY DEF AudioStep, ReactQueueUpdate, ReactDecodingFinished, DecodingFinishes
  <1>2. Current' = Current /\ Total' = Total
    BY <1>1, CurrentKept
  <1>3. ASSUME NEW step \in {"open", "compare"}, NEW track \in AllTracks,
               Dispatch(step, track), step = "open" => track # NoTrack
        PROVE  /\ Pooled'
               /\ \A s, t : Doing(s, t)' <=> Doing(s, t) \/ (s = step /\ t = track)
               /\ LoadsNew' <=> LoadsNew
               /\ LoadsMore' <=> LoadsMore
    <2> DEFINE job == Job(step, <<track>>, FALSE)
    <2>1. job \in Jobbed /\ job.step = step /\ job.items = <<track>>
      <3>1. <<track>> \in Seq(AllTracks) /\ <<track>> # << >>
        OBVIOUS
      <3> QED
        BY <3>1, JobMade
    <2>2. jobs' = Append(jobs, job)
      BY <1>3 DEF Dispatch
    <2> HIDE DEF job
    <2>3. /\ \A s, t : Doing(s, t)' <=> Doing(s, t) \/ (job.step = s /\ job.items[1] = t)
          /\ LoadsNew' <=> LoadsNew
          /\ LoadsMore' <=> LoadsMore
          /\ (\A i \in 1..Len(jobs) : jobs[i].step \notin {"load", "report"})
               => \A i \in 1..Len(jobs') : jobs'[i].step \notin {"load", "report"}
      BY <1>0, <1>1, <2>1, <2>2, JobAdded
    <2>4. \A s, t : Doing(s, t)' <=> Doing(s, t) \/ (s = step /\ t = track)
      BY <2>1, <2>3
    <2>5. Pooled'
      BY <1>1, <1>3, <2>3, <2>4 DEF Pooled
    <2> QED
      BY <2>3, <2>4, <2>5
  <1>4. CASE ReactQueueUpdate /\ ~IsOrder(Head(updates))
    <2>1. /\ updates # << >> /\ Head(updates).reason # "decoded" /\ updates' = Tail(updates)
          /\ UNCHANGED <<pool, deck, halted>>
      BY <1>4 DEF ReactQueueUpdate
    <2>2. (Ordered => Ordered') /\ \A t : Decoded(t) => Decoded(t)'
      BY <1>0, <1>4, <2>1, UpdateTaken
    <2>3. /\ \A step, t : Doing(step, t)' <=> Doing(step, t)
          /\ LoadsNew' <=> LoadsNew
          /\ LoadsMore' <=> LoadsMore
      BY <2>1, JobsKept
    <2>4. Promised => Promised'
      BY <1>1, <2>2, <2>3 DEF Promised, Clears
    <2>5. \A t : Pending(t) => Pending(t)'
      BY <2>2, <2>3 DEF Pending
    <2>6. Follows'
      BY <1>1, <1>2, <2>1, <2>3, <2>4, <2>5, FollowsKept
    <2> QED
      BY <1>1, <2>1, <2>6, PooledKept
  <1>5. CASE ReactQueueUpdate /\ IsOrder(Head(updates))
    <2> DEFINE wanted == Wanted(Head(updates))
    <2>1. SetTrack(wanted) /\ wanted \in {NoTrack, Current}
      BY <1>5 DEF ReactQueueUpdate, Wanted
    <2>2. \A t : ~Doing("open", t)
      BY <1>5 DEF OrdersOverlap, Opening, Doing
    <2> HIDE DEF wanted
    <2>3. CASE wanted = NoTrack
      <3>1. Halts' /\ UNCHANGED pool
        BY <1>1, <2>1, <2>3 DEF SetTrack, Halts
      <3>2. \A t \in AllTracks : ~Doing("open", t)'
        BY <2>2, <3>1, JobsKept
      <3> QED
        BY <1>1, <3>1, <3>2, HaltSuffices, PooledKept
    <2>4. CASE wanted # NoTrack
      <3>1. wanted = Current /\ Dispatch("open", Current)
        BY <2>1, <2>4 DEF SetTrack
      <3>2. Current \in AllTracks /\ ready /\ Total # 0
        BY <1>0, <2>4, <3>1, EmptyCurrent
      <3>3. /\ Pooled'
            /\ \A t : Doing("open", t)' <=> t = Current
        <4> DEFINE c == Current
        <4>1. Dispatch("open", c) /\ c \in AllTracks /\ c # NoTrack
          BY <2>4, <3>1, <3>2
        <4> HIDE DEF c
        <4>2. /\ Pooled'
              /\ \A s, t : Doing(s, t)' <=> Doing(s, t) \/ (s = "open" /\ t = c)
          BY <1>3, <4>1
        <4> QED
          BY <2>2, <4>2 DEF c
      <3>4. \A t \in AllTracks : t = Current' => Pending(t)'
        BY <1>2, <3>3 DEF Pending
      <3>5. \A t \in AllTracks : Doing("open", t)' => t = Current'
        BY <1>2, <3>3
      <3>6. Follows'
        BY <1>1, <1>2, <3>2, <3>4, <3>5 DEF Follows
      <3> QED
        BY <3>3, <3>6
    <2> QED
      BY <2>3, <2>4
  <1>6. CASE ReactDecodingFinished
    <2> DEFINE track == Head(updates).track
    <2>1. /\ updates # << >> /\ Head(updates).reason = "decoded" /\ updates' = Tail(updates)
          /\ Dispatch("compare", track) /\ UNCHANGED <<deck, halted>>
      BY <1>6 DEF ReactDecodingFinished
    <2>2. track \in AllTracks
      <3>1. Head(updates) \in Updates
        BY <1>0, <2>1
      <3> QED
        BY <3>1 DEF Updates, AllTracks
    <2>3. ~IsOrder(Head(updates))
      BY <2>1 DEF IsOrder
    <2>4. /\ Ordered => Ordered'
          /\ \A t : Decoded(t) /\ track # t => Decoded(t)'
      BY <1>0, <2>1, <2>3, UpdateTaken
    <2> HIDE DEF track
    <2>5. /\ Pooled'
          /\ \A s, t : Doing(s, t)' <=> Doing(s, t) \/ (s = "compare" /\ t = track)
          /\ LoadsNew' <=> LoadsNew
          /\ LoadsMore' <=> LoadsMore
      BY <1>3, <2>1, <2>2
    <2>6. Promised => Promised'
      BY <1>1, <2>4, <2>5 DEF Promised, Clears
    <2>7. \A t : Pending(t) => Pending(t)'
      BY <2>4, <2>5 DEF Pending
    <2>8. \A t : Doing("open", t)' => Doing("open", t)
      BY <2>5
    <2>9. Follows'
      BY <1>1, <1>2, <2>1, <2>5, <2>6, <2>7, <2>8, FollowsKept
    <2> QED
      BY <2>5, <2>9
  <1>7. CASE DecodingFinishes
    <2>1. /\ deck # NoTrack /\ UNCHANGED pool
          /\ \E update : /\ updates' = Append(updates, update)
                         /\ update.reason = "decoded" /\ update.track = deck
      <3> DEFINE update == [Update(FALSE, "decoded") EXCEPT !.track = deck]
      <3>1. update.reason = "decoded" /\ update.track = deck
        BY DEF Update
      <3>2. updates' = Append(updates, update) /\ deck # NoTrack /\ UNCHANGED pool
        BY <1>7 DEF DecodingFinishes
      <3> HIDE DEF update
      <3> QED
        BY <3>1, <3>2
    <2>2. \A t : t = deck => Decoded(t)'
      BY <1>0, <2>1, UpdateAdded
    <2>3. (Promised => Promised') /\ \A t : Pending(t) => Pending(t)'
      <3>1. Clears => Clears'
        BY <1>1 DEF Clears
      <3> QED
        BY <1>0, <2>1, <3>1, UnderWay
    <2>4. /\ \A step, t : Doing(step, t)' <=> Doing(step, t)
          /\ LoadsMore' <=> LoadsMore
      BY <2>1, JobsKept
    <2>5. ~Halts
      BY <2>1 DEF Halts
    <2>6. Follows'
      BY <1>1, <1>2, <2>2, <2>3, <2>4, <2>5 DEF Follows, Pending
    <2>7. Pooled'
      BY <1>1, <2>1, PooledKept
    <2> QED
      BY <2>6, <2>7
  <1> QED
    BY <1>4, <1>5, <1>6, <1>7 DEF AudioStep

-----------------------------------------------------------------------------
(* What plays is the current track, always.                                *)

LEMMA FollowsInit == Init => Pooled /\ Follows
  <1> SUFFICES ASSUME Init PROVE Pooled /\ Follows
    OBVIOUS
  <1>1. Len(<< >>) = 0 /\ Idle.step = "idle"
    BY DEF Idle, Job
  <1>2. jobs = << >> /\ running = [w \in Workers |-> Idle] /\ ready = TRUE /\ cancel = FALSE
        /\ deck = NoTrack /\ openedValue = NoTrack /\ value = NoTrack
    BY DEF Init, QueueInit
  <1>3. /\ \A step, t : step # "idle" => ~Doing(step, t)
        /\ ~LoadsMore
    BY <1>1, <1>2 DEF Doing, LoadsMore, Loader
  <1>4. Current = NoTrack
    BY <1>2 DEF Current
  <1>5. Follows
    BY <1>2, <1>3, <1>4 DEF Follows
  <1>6. Pooled
    BY <1>1, <1>2, <1>3 DEF Pooled
  <1> QED
    BY <1>5, <1>6

LEMMA FollowsStep ==
    ASSUME Inv, PoolInv, Pooled, Follows, ~astray, [Next]_vars, ~astray'
    PROVE  Pooled' /\ Follows'
  <1>1. CASE UserStep
    BY <1>1, UserStepFollows DEF UserStep
  <1>2. CASE ClearingStep
    BY <1>2, ClearingStepFollows DEF ClearingStep
  <1>3. CASE AudioStep
    <2>1. ReactQueueUpdate => ~OrdersOverlap
      <3> SUFFICES ASSUME ReactQueueUpdate PROVE ~OrdersOverlap
        OBVIOUS
      <3>1. updates \in Seq(Updates) /\ updates # << >> /\ updates' = Tail(updates)
            /\ Head(updates).reason # "decoded"
        BY DEF ReactQueueUpdate, Inv, Typed, PoolTypes
      <3>2. Len(updates) \in Nat /\ Len(updates') = Len(updates) - 1
        BY <3>1
      <3>3. \A update : Len(Append(updates, update)) = Len(updates) + 1
        BY <3>1
      <3>4. ~DecodingFinishes
        BY <3>2, <3>3 DEF DecodingFinishes
      <3>5. ~ReactDecodingFinished
        BY <3>1 DEF ReactDecodingFinished
      <3> QED
        BY <1>3, <3>4, <3>5 DEF AudioStep
    <2> QED
      BY <1>3, <2>1, AudioStepFollows
  <1>4. ASSUME NEW w \in Workers, WorkerStep(w)
        PROVE  Pooled' /\ Follows'
    BY <1>4, TakeJobFollows, AppendJobFollows, AudioJobFollows DEF WorkerStep
  <1>5. CASE UNCHANGED vars
    <2>1. UNCHANGED <<lists, current, ready, pool, updates, ui, deck, halted, appending, cancel>>
      BY <1>5 DEF vars, queueVars, audioVars, flags
    <2>2. /\ \A step, t : Doing(step, t)' <=> Doing(step, t)
          /\ LoadsNew' <=> LoadsNew
          /\ LoadsMore' <=> LoadsMore
      BY <2>1, JobsKept
    <2>3. (Promised => Promised') /\ \A t : Pending(t) => Pending(t)'
      BY <2>1, <2>2, UpdatesKept DEF Promised, Pending, Clears
    <2>4. Current' = Current /\ Total' = Total
      BY <2>1, CurrentKept
    <2>5. Follows'
      BY <2>1, <2>2, <2>3, <2>4, FollowsKept
    <2> QED
      BY <2>1, <2>5, PooledKept
  <1> QED
    BY <1>1, <1>2, <1>3, <1>4, <1>5 DEF Next

\* Once everything has come to rest, the decoder is on the queue's current track,
\* unless playback came to an end: every change of the current track is followed
\* by an order, every order by a job for the track that is current then, and every
\* track that ends by a move of the queue.  This holds until one of the five mishaps
\* has happened; of what comes after it nothing is said.
THEOREM AlwaysPlaysCurrent == Spec => []PlaysCurrent
  <1> DEFINE PlaysInv == Inv /\ PoolInv /\ (~astray => Pooled /\ Follows)
  <1>1. Init => PlaysInv
    BY InvInit, PoolInit, FollowsInit
  <1>2. PlaysInv /\ [Next]_vars => PlaysInv'
    <2> SUFFICES ASSUME PlaysInv, [Next]_vars PROVE PlaysInv'
      OBVIOUS
    <2>1. ~astray' => ~astray
      BY DEF Next, UserStep, ClearingStep, AudioStep, WorkerStep, vars
    <2>2. Inv' /\ PoolInv'
      BY InvStep, PoolStep
    <2> QED
      BY <2>1, <2>2, FollowsStep
  <1>3. PlaysInv => PlaysCurrent
    <2> SUFFICES ASSUME PlaysInv, Quiet, ~astray
                 PROVE  deck = Current \/ (deck = NoTrack /\ halted)
      BY DEF PlaysCurrent
    <2>1. /\ jobs = << >> /\ updates = << >> /\ ui.step = "idle"
          /\ \A w \in Workers : running[w] = Idle
          /\ Len(<< >>) = 0
      BY DEF Quiet
    <2>2. Idle.step = "idle"
      BY IdleJob
    <2>3. ~Promised
      BY <2>1, <2>2 DEF Promised, Ordered, Clears, LoadsNew, Loader
    <2>4. \A t : ~Pending(t)
      BY <2>1, <2>2 DEF Pending, Doing, Decoded
    <2>5. Current \in AllTracks
      BY EmptyCurrent DEF Inv
    <2>6. \A t \in AllTracks : t = Current => deck = t \/ Halts
      BY <2>3, <2>4 DEF Follows
    <2> QED
      BY <2>5, <2>6 DEF Halts
  <1> QED
    BY <1>1, <1>2, <1>3, PTL DEF Spec
-----------------------------------------------------------------------------
(* The order that is shown is the order that next() takes.                 *)

\* A function of no position is the empty sequence.
LEMMA NothingIsASeq ==
    ASSUME NEW S, NEW f \in [1..0 -> S]
    PROVE  f \in Seq(S) /\ Len(f) = 0
  <1>1. f \in Seq(S)
    <2>1. PICK n \in Nat : n = 0
      OBVIOUS
    <2>2. f \in [1..n -> S]
      BY <2>1
    <2> QED
      BY <2>2
  <1>2. Len(f) \in Nat /\ f \in [1..Len(f) -> S]
    BY <1>1, LenProperties
  <1>3. DOMAIN f = 1..0 /\ DOMAIN f = 1..Len(f)
    BY <1>2
  <1>4. ~(1 \in 1..0)
    OBVIOUS
  <1>5. ~(1 \in 1..Len(f))
    BY <1>3, <1>4, Zenon
  <1>6. ~(Len(f) >= 1)
    BY <1>2, <1>5
  <1> QED
    BY <1>1, <1>2, <1>6

\* A sequence made of one element and a function of a range, which may be empty.
LEMMA OneAndMore ==
    ASSUME NEW x, NEW k \in Int, NEW f, f = [i \in 1..k |-> f[i]], Len(<<x>> \o f) > 1
    PROVE  k >= 1 /\ (<<x>> \o f)[2] = f[1]
  <1> DEFINE S == {x} \cup {f[i] : i \in 1..k}
  <1>1. CASE k >= 1
    <2>1. f \in Seq(S) /\ Len(f) = k
      <3>1. k \in Nat /\ f \in [1..k -> S]
        BY <1>1
      <3> HIDE DEF S
      <3> QED
        BY <3>1
    <2>2. <<x>> \in Seq(S) /\ Len(<<x>>) = 1
      OBVIOUS
    <2> HIDE DEF S
    <2>3. (<<x>> \o f)[2] = f[2 - Len(<<x>>)]
      BY <1>1, <2>1, <2>2, ConcatProperties
    <2> QED
      BY <1>1, <2>2, <2>3
  <1>2. CASE ~(k >= 1)
    <2>1. k < 1
      BY <1>2
    <2>2. 1..k = 1..0
      <3>1. \A i \in Int : ~(i >= 1 /\ i =< k) /\ ~(i >= 1 /\ i =< 0)
        BY <2>1
      <3> QED
        BY <3>1
    <2>3. f \in [1..0 -> S]
      BY <2>2
    <2> HIDE DEF S
    <2>4. f \in Seq(S) /\ Len(f) = 0
      BY <2>3, NothingIsASeq
    <2>5. <<x>> \in Seq(S) /\ Len(<<x>>) = 1
      BY DEF S
    <2>6. Len(<<x>> \o f) = Len(<<x>>) + Len(f)
      BY <2>4, <2>5, ConcatProperties
    <2>7. Len(<<x>> \o f) = 1
      <3> DEFINE a == Len(<<x>>)
                 b == Len(f)
                 c == Len(<<x>> \o f)
      <3>1. a = 1 /\ b = 0 /\ c = a + b
        BY <2>4, <2>5, <2>6
      <3> HIDE DEF a, b, c
      <3>2. c = 1
        BY <3>1
      <3> QED
        BY <3>2 DEF c
    <2>8. FALSE
      <3> DEFINE c == Len(<<x>> \o f)
      <3>1. c = 1 /\ c > 1
        BY <2>7
      <3> HIDE DEF c
      <3> QED
        BY <3>1
    <2> QED
      BY <2>8
  <1> QED
    BY <1>1, <1>2

LEMMA ShuffledOrder ==
    ASSUME Listed, shuffle.on, UserNext, Len(PlaybackOrder) > 1
    PROVE  position' = PlaybackOrder[2]
  <1> DEFINE k == shuffle.size - shuffle.pos - 1
             f == [i \in 1..k |-> At(shuffle, shuffle.pos + i)]
  <1>1. shuffle.size \in Nat /\ shuffle.pos \in Nat /\ k \in Int
        /\ shuffle \in Shuffles /\ shuffle.size < SizeModulus /\ SizeModulus \in Nat
    <2>1. Total \in Nat
      BY DEF Listed, Total
    <2> QED
      BY <2>1, QueueAssumption DEF Listed, Shuffles
  <1>2. PlaybackOrder = <<position>> \o f
    <2>1. position < Total
      <3>1. ~(position >= Total)
        <4>1. Len(<< >>) = 0
          OBVIOUS
        <4> QED
          BY <4>1 DEF PlaybackOrder
      <3>2. Total \in Nat /\ position \in Nat
        BY DEF Listed, Total
      <3> QED
        BY <3>1, <3>2
    <2>2. ~(position >= Total)
      <3>1. Total \in Nat /\ position \in Nat
        BY DEF Listed, Total
      <3> QED
        BY <2>1, <3>1
    <2> QED
      BY <2>2 DEF PlaybackOrder
  <1>3. k >= 1 /\ PlaybackOrder[2] = f[1]
    <2>1. f = [i \in 1..k |-> f[i]]
      OBVIOUS
    <2> HIDE DEF f, k
    <2> QED
      BY <1>1, <1>2, <2>1, OneAndMore
  <1>4. f[1] = At(shuffle, shuffle.pos + 1)
    BY <1>1, <1>3
  <1>5. ShuffleGoesOn
    <2>1. shuffle.size - 1 >= 0 /\ shuffle.size - 1 \in Nat
          /\ shuffle.size - 1 < SizeModulus
      BY <1>1, <1>3
    <2>2. (shuffle.size - 1) % SizeModulus = shuffle.size - 1
      <3> DEFINE a == shuffle.size - 1
      <3>1. a \in Nat /\ a < SizeModulus /\ SizeModulus \in Nat
        BY <1>1, <2>1
      <3> HIDE DEF a
      <3>2. a % SizeModulus = a
        BY <3>1
      <3> QED
        BY <3>2 DEF a
    <2> QED
      BY <1>1, <1>3, <2>2 DEF ShuffleGoesOn
  <1>6. shuffle' = [shuffle EXCEPT !.pos = shuffle.pos + 1]
        /\ position' = At(shuffle', shuffle'.pos)
    BY <1>5 DEF UserNext, NextTrack, ShuffledNext, LinearNext, GoTo
  <1>7. shuffle'.pos = shuffle.pos + 1 /\ shuffle'.seed = shuffle.seed
        /\ shuffle'.size = shuffle.size
    BY <1>1, <1>6 DEF Shuffles
  <1>8. position' = At(shuffle, shuffle.pos + 1)
    BY <1>6, <1>7 DEF At
  <1> QED
    BY <1>3, <1>4, <1>8

LEMMA LinearOrder ==
    ASSUME Listed, ~shuffle.on, UserNext, Len(PlaybackOrder) > 1
    PROVE  position' = PlaybackOrder[2]
  <1> DEFINE k == Total - position
             f == [i \in 1..k |-> position + i - 1]
  <1>1. /\ position \in Nat /\ Total \in Nat /\ Total < SizeModulus /\ SizeModulus \in Nat
    <2>1. Total \in Nat
      BY DEF Listed, Total
    <2> QED
      BY <2>1, QueueAssumption DEF Listed
  <1>2. ~(position >= Total) /\ PlaybackOrder = f
    <2>1. ~(position >= Total)
      <3>1. Len(<< >>) = 0
        OBVIOUS
      <3> QED
        BY <3>1 DEF PlaybackOrder
    <2> QED
      BY <2>1 DEF PlaybackOrder
  <1>3. Len(f) = k
    <2>1. k \in Nat
      BY <1>1, <1>2
    <2> QED
      BY <2>1
  <1>4. k > 1 /\ f[2] = position + 1
    <2>1. k > 1 /\ k \in Int
      BY <1>1, <1>2, <1>3
    <2> QED
      BY <1>1, <2>1
  <1>5. (position + 1) % SizeModulus = position + 1 /\ position + 1 < Total
    BY <1>1, <1>4
  <1>6. position' = position + 1
    <2>1. LinearNext("explicit")
      BY DEF UserNext, NextTrack, ShuffledNext
    <2> QED
      BY <1>5, <2>1 DEF LinearNext, GoTo
  <1> QED
    BY <1>2, <1>4, <1>6

\* What next() goes to is the second entry of the order that playbackOrder() shows,
\* shuffled or not, through the end of a cycle and the wrapping of sizes.
\* (playbackOrder, next)
THEOREM NextIsShown == Spec => OrderIsNext
  <1>1. Inv => [UserNext /\ Len(PlaybackOrder) > 1
                    => position' = PlaybackOrder[2]]_queueVars
    <2> SUFFICES ASSUME Inv, UserNext, Len(PlaybackOrder) > 1
                 PROVE  position' = PlaybackOrder[2]
      OBVIOUS
    <2>1. Listed
      BY DEF Inv
    <2> QED
      BY <2>1, ShuffledOrder, LinearOrder
  <1> QED
    BY <1>1, AlwaysInv, PTL DEF OrderIsNext
=============================================================================
