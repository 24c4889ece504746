------------------------ MODULE OperationSync_proofs ------------------------
(***************************************************************************)
(* For every queue limit, batch limit, number of edits, requests and       *)
(* faults: OperationSync is type correct, the server takes the edits in    *)
(* order, none is dropped, repeats are harmless, an edit reaches the       *)
(* playlist it names, the device and the server agree on which that is, an *)
(* edit whose playlist is gone stays, and the whole implements EditLog.    *)
(***************************************************************************)
EXTENDS OperationSync, TLAPS

\* The oldest edit the device still holds, or the next one.
First == nextSequence - Len(queue)

\* The history is numbered, and the queue is its end.
QueueIsTail ==
    /\ Len(submitted) = nextSequence - 1
    /\ Len(queue) <= Len(submitted)
    /\ \A s \in 1..Len(submitted) : submitted[s].seq = s
    /\ \A i \in 1..Len(queue) : queue[i] = submitted[First + i - 1]

\* Every request alive holds a stretch of the history that leaves no gap behind
\* what the device removed: the queue's head only moves on.
InboxIsStretch ==
    \A r \in Requests : inbox[r] # << >> =>
        LET first == inbox[r][1].seq
        IN  /\ first <= First
            /\ first + Len(inbox[r]) <= nextSequence
            /\ \A i \in 1..Len(inbox[r]) : inbox[r][i] = submitted[first + i - 1]

\* What the device removed is on record.
RemovedApplied ==
    \A s \in Ids : s < First => record[s] = "applied"

\* "applied" in an answer is the truth, while it is made and when it arrives.
TrueOf(answer) ==
    \A i \in 1..Len(answer) :
        answer[i].status = "applied" => record[answer[i].seq] = "applied"

AnswersTrue == TrueOf(results) /\ TrueOf(response.results)

\* The lock's holder is in the middle of its request, everything before the
\* current operation is on record, and the current one is not.
WorkerSound ==
    /\ running = NoRequest <=> stage = "idle"
    /\ stage # "idle" => inbox[running] # << >>
    /\ stage \notin {"idle", "respond"} =>
           /\ position <= Len(inbox[running])
           /\ \A i \in 1..(position - 1) :
                  record[inbox[running][i].seq] = "applied"
    /\ stage \in {"call", "alias", "save", "reject", "retry"} =>
           record[Current.seq] \in {"pending", "failed"}

IInv == /\ TypeOK
        /\ QueueIsTail
        /\ InboxIsStretch
        /\ RemovedApplied
        /\ AnswersTrue
        /\ WorkerSound
        /\ ServerInOrder

-----------------------------------------------------------------------------
(* Facts about the current operation *)

\* The operation at hand is one of the request that holds the lock.
LEMMA CurrentTyped ==
    ASSUME TypeOK, WorkerSound, stage \notin {"idle", "respond"}
    PROVE  /\ running \in Requests
           /\ position \in 1..Len(inbox[running])
           /\ inbox[running] \in Seq(Operations)
           /\ Current \in Operations
           /\ Current.seq \in Ids
  <1>1. running \in Requests
    BY DEF TypeOK, WorkerSound
  <1>2. inbox[running] \in Seq(Operations) /\ position \in 1..Len(inbox[running])
    BY <1>1 DEF TypeOK, WorkerSound
  <1>3. Current \in Operations
    BY <1>2 DEF Current
  <1> QED
    BY <1>1, <1>2, <1>3 DEF Operations

\* It is an edit the user made, and everything before it is on record.
LEMMA CurrentNext ==
    ASSUME IInv, stage \notin {"idle", "respond"}
    PROVE  /\ Current.seq \in 1..(nextSequence - 1)
           /\ Current = submitted[Current.seq]
           /\ \A s \in Ids : s < Current.seq => record[s] = "applied"
  <1> USE QueueAssumption
  <1> DEFINE ops == inbox[running]
             first == ops[1].seq
  <1>1. /\ running \in Requests
        /\ position \in 1..Len(ops)
        /\ ops \in Seq(Operations)
        /\ Current.seq \in Ids
    BY CurrentTyped DEF IInv
  <1>2. ops # << >> /\ ops[1] \in Operations /\ first \in Ids
    <2>1. Len(ops) >= 1 /\ Len(ops) \in Nat
      BY <1>1
    <2>2. ops[1] \in Operations
      BY <1>1, <2>1
    <2>3. first \in Ids
      BY <2>2 DEF Operations
    <2>4. ops # << >>
      BY <2>1
    <2> QED
      BY <2>2, <2>3, <2>4
  <1>3. /\ first <= First
        /\ first + Len(ops) <= nextSequence
        /\ \A i \in 1..Len(ops) : ops[i] = submitted[first + i - 1]
    BY <1>1, <1>2 DEF IInv, InboxIsStretch
  <1>4. nextSequence \in Nat /\ Len(submitted) = nextSequence - 1
    BY DEF IInv, QueueIsTail, TypeOK
  <1>5. \A i \in 1..Len(ops) : ops[i].seq = first + i - 1
    <2> TAKE i \in 1..Len(ops)
    <2>1. first + i - 1 \in 1..Len(submitted)
      <3>1. Len(ops) \in Nat /\ i \in Nat /\ 1 <= i /\ i <= Len(ops)
        BY <1>1
      <3>2. first \in Nat /\ first >= 1
        BY <1>2 DEF Ids
      <3>3. first + Len(ops) <= nextSequence
        BY <1>3
      <3> HIDE DEF ops, first
      <3> QED
        BY <1>4, <3>1, <3>2, <3>3
    <2>2. submitted[first + i - 1].seq = first + i - 1
      BY <2>1 DEF IInv, QueueIsTail
    <2> QED
      BY <2>2, <1>3
  <1>6. Current = ops[position]
    BY DEF Current
  <1>7. Current.seq = first + position - 1
    BY <1>1, <1>5, <1>6
  <1>8. Current.seq \in 1..(nextSequence - 1)
    BY <1>1, <1>2, <1>3, <1>4, <1>7 DEF Ids
  <1>9. Current = submitted[Current.seq]
    BY <1>1, <1>3, <1>6, <1>7
  <1>10. ASSUME NEW s \in Ids, s < Current.seq
         PROVE  record[s] = "applied"
    <2>1. CASE s < first
      <3>1. First \in Int
        BY <1>4 DEF First, IInv, TypeOK
      <3>2. s < First
        BY <2>1, <1>2, <1>3, <3>1 DEF Ids
      <3> QED
        BY <3>2 DEF IInv, RemovedApplied
    <2>2. CASE s >= first
      <3>1. s - first + 1 \in 1..(position - 1)
        BY <2>2, <1>10, <1>7, <1>1, <1>2 DEF Ids
      <3>2. record[ops[s - first + 1].seq] = "applied"
        BY <3>1 DEF IInv, WorkerSound
      <3>3. s - first + 1 \in 1..Len(ops)
        BY <3>1, <1>1
      <3>4. ops[s - first + 1].seq = first + (s - first + 1) - 1
        BY <3>3, <1>5
      <3>5. ops[s - first + 1].seq = s
        BY <3>4, <1>2 DEF Ids
      <3> QED
        BY <3>2, <3>5
    <2> QED
      BY <2>1, <2>2, <1>2 DEF Ids
  <1> QED
    BY <1>8, <1>9, <1>10

-----------------------------------------------------------------------------
(* Types *)

LEMMA TypeStep ==
    ASSUME IInv, [Next]_vars
    PROVE  TypeOK'
  <1> USE QueueAssumption DEF flash, memory, database, worker, history
  <1>1. TypeOK /\ WorkerSound
    BY DEF IInv
  <1>0. NoResponse \in [ok: BOOLEAN, results: Seq(Results)]
    BY DEF NoResponse
  <1>2. ASSUME NEW kind \in Kinds, NEW ref \in 0..MaxSequence, Enqueue(kind, ref)
        PROVE  TypeOK'
    <2> DEFINE operation == [seq |-> nextSequence, kind |-> kind, ref |-> ref]
    <2>1. operation \in Operations
      BY <1>1, <1>2 DEF TypeOK, Enqueue, Operations, Ids
    <2>2. queue' \in Seq(Operations) /\ Len(queue') = Len(queue) + 1
      BY <1>1, <1>2, <2>1 DEF TypeOK, Enqueue
    <2>3. submitted' \in Seq(Operations)
      BY <1>1, <1>2, <2>1 DEF TypeOK, Enqueue
    <2>4. nextSequence' \in 1..(MaxSequence + 1) /\ Len(queue') <= MaximumOperations
      BY <1>1, <1>2, <2>2 DEF TypeOK, Enqueue
    <2> QED
      BY <1>1, <1>2, <2>2, <2>3, <2>4 DEF TypeOK, Enqueue
  <1>3. ASSUME NEW r \in Requests, StartFlush(r)
        PROVE  TypeOK'
    <2>1. Batch \in Seq(Operations)
      BY <1>1 DEF TypeOK, Batch, Least
    <2>2. batch' \in Seq(Operations) /\ inbox' \in [Requests -> Seq(Operations)]
      BY <1>1, <1>3, <2>1 DEF TypeOK, StartFlush
    <2> QED
      BY <1>1, <1>3, <2>2 DEF TypeOK, StartFlush
  <1>4. ASSUME Expire \/ GiveUp
        PROVE  TypeOK'
    <2>1. CASE Expire
      BY <1>1, <1>0, <2>1 DEF TypeOK, Expire, NoAnswer
    <2>2. CASE GiveUp
      BY <1>1, <1>0, <2>2 DEF TypeOK, GiveUp, NoAnswer, Fault
    <2> QED
      BY <1>4, <2>1, <2>2
  <1>5. ASSUME PollAnswer
        PROVE  TypeOK'
    <2>0. /\ batch' \in Seq(Operations)
          /\ http' \in {"idle", "busy", "answered"}
          /\ request' \in Requests \cup {NoRequest}
          /\ response' \in [ok: BOOLEAN, results: Seq(Results)]
          /\ UNCHANGED <<nextSequence, database, worker, inbox, live, history,
                         faults>>
      BY <1>0, <1>5 DEF PollAnswer, EndBatch
    <2>1. CASE response.ok
      <3>1. PICK n \in 0..Len(queue) :
               /\ \A i \in 1..n : Applied(i)
               /\ queue' = SubSeq(queue, n + 1, Len(queue))
               /\ aliases' = AliasesAfter(n)
               /\ failure' \in {"retriable", "final", "none", failure}
        BY <1>5, <2>1 DEF PollAnswer, ApplyResults
      <3>2. queue' \in Seq(Operations) /\ Len(queue') <= MaximumOperations
        BY <1>1, <3>1 DEF TypeOK
      <3>3. ASSUME NEW i \in 1..n
            PROVE  response.results[i].playlist \in Nat
        <4>1. i \in 1..Len(response.results)
          BY <3>1, <3>3 DEF Applied, Answers
        <4>2. response.results[i] \in Results
          BY <4>1, <1>1 DEF TypeOK
        <4> QED
          BY <4>2 DEF Results
      <3>4. aliases' \in [Ids -> Nat]
        BY <1>1, <3>1, <3>3 DEF TypeOK, AliasesAfter
      <3> QED
        BY <1>1, <2>0, <3>1, <3>2, <3>4 DEF TypeOK
    <2>2. CASE ~response.ok
      <3>1. /\ failure' \in {"none", "retriable", "final"}
            /\ UNCHANGED <<queue, aliases>>
        BY <1>1, <1>5, <2>2 DEF TypeOK, PollAnswer, MarkFailure
      <3> QED
        BY <1>1, <2>0, <3>1 DEF TypeOK
    <2> QED
      BY <2>1, <2>2
  <1>6. ASSUME PollUnsaved \/ Reboot
        PROVE  TypeOK'
    <2>1. CASE PollUnsaved
      BY <1>1, <1>0, <2>1 DEF TypeOK, PollUnsaved, EndBatch, Fault
    <2>2. CASE Reboot
      BY <1>1, <1>0, <2>2 DEF TypeOK, Reboot, Fault
    <2> QED
      BY <1>6, <2>1, <2>2
  <1>7. ASSUME NEW r \in Requests, AcquireLock(r)
        PROVE  TypeOK'
    BY <1>1, <1>7 DEF TypeOK, AcquireLock, Stages
  <1>8. ASSUME NEW playlist \in Nat, Report(playlist), stage \notin {"idle", "respond"}
        PROVE  /\ results' \in Seq(Results)
               /\ position' \in Nat \ {0}
               /\ stage' \in Stages
    <2>1. Current.seq \in Ids
      BY <1>1, <1>8, CurrentTyped
    <2>2. [seq |-> Current.seq, status |-> "applied",
           retriable |-> FALSE, playlist |-> playlist] \in Results
      BY <2>1 DEF Results
    <2> QED
      BY <1>1, <1>8, <2>2 DEF TypeOK, Report, Stages
  <1>9. ASSUME Replay
        PROVE  TypeOK'
    <2>1. Current.seq \in Ids
      BY <1>1, <1>9, CurrentTyped DEF Replay
    <2>2. recorded[Current.seq] \in Nat
      BY <1>1, <2>1 DEF TypeOK
    <2>3. results' \in Seq(Results) /\ position' \in Nat \ {0} /\ stage' \in Stages
      BY <1>8, <1>9, <2>2 DEF Replay
    <2> QED
      BY <1>1, <1>9, <2>3 DEF TypeOK, Replay
  <1>10. ASSUME Prepare
         PROVE  TypeOK'
    BY <1>1, <1>10 DEF TypeOK, Prepare, Stages
  <1>11. ASSUME Effect, stage = "call"
         PROVE  /\ effects' \in [Ids -> Nat]
                /\ made' \in Nat
                /\ live' \in SUBSET Playlists
    <2>1. Current \in Operations /\ Current.seq \in Ids
      BY <1>1, <1>11, CurrentTyped
    <2>01. Current.ref \in 0..MaxSequence
      BY <2>1 DEF Operations
    <2>02. Current.ref # 0 => serverAliases[Current.ref] \in Nat
      BY <1>1, <2>01 DEF TypeOK, Ids
    <2>2. effects[Current.seq] \in Nat /\ Target[2] \in Nat
      BY <1>1, <2>1, <2>02 DEF TypeOK, Target
    <2>3. <<Current.seq, effects[Current.seq] + 1>> \in Playlists
      BY <2>1, <2>2 DEF Playlists, Ids
    <2>03. PICK change \in Changes :
              effects' = [effects EXCEPT ![Current.seq] = @ + change]
      BY <1>11 DEF Effect
    <2>04. change \in {0, 1}
      BY <2>03 DEF Changes
    <2>4. effects' \in [Ids -> Nat]
      BY <1>1, <2>1, <2>03, <2>04 DEF TypeOK
    <2>5. CASE Current.kind = "create"
      <3>1. /\ made' = effects[Current.seq] + 1
            /\ live' = live \cup {<<Current.seq, effects[Current.seq] + 1>>}
        BY <1>11, <2>5 DEF Effect
      <3>2. made' \in Nat
        BY <2>2, <3>1
      <3>3. live' \in SUBSET Playlists
        BY <1>1, <2>3, <3>1 DEF TypeOK
      <3> QED
        BY <2>4, <3>2, <3>3
    <2>6. CASE Current.kind = "delete"
      BY <1>1, <1>11, <2>2, <2>4, <2>6 DEF TypeOK, Effect
    <2>7. CASE Current.kind \notin {"create", "delete"}
      BY <1>1, <1>11, <2>2, <2>4, <2>7 DEF TypeOK, Effect
    <2> QED
      BY <2>5, <2>6, <2>7
  <1>12. ASSUME Call
         PROVE  TypeOK'
    BY <1>1, <1>11, <1>12 DEF TypeOK, Call, Stages
  <1>13. ASSUME CallUnconfirmed
         PROVE  TypeOK'
    <2>1. unrecorded' \in SUBSET Ids
      BY <1>1, <1>13, CurrentTyped DEF TypeOK, CallUnconfirmed
    <2> QED
      BY <1>1, <1>11, <1>13, <2>1 DEF TypeOK, CallUnconfirmed, Stages, Fault
  <1>14. ASSUME CallFails \/ CallMissing \/ CallRejected
         PROVE  TypeOK'
    <2>1. CASE CallFails
      BY <1>1, <2>1 DEF TypeOK, CallFails, Stages, Fault
    <2>2. CASE CallMissing
      BY <1>1, <2>2 DEF TypeOK, CallMissing, Stages
    <2>3. CASE CallRejected
      BY <1>1, <2>3 DEF TypeOK, CallRejected, Stages
    <2> QED
      BY <1>14, <2>1, <2>2, <2>3
  <1>15. ASSUME SaveAlias
         PROVE  TypeOK'
    BY <1>1, <1>15 DEF TypeOK, SaveAlias, Stages
  <1>16. ASSUME SaveApplied
         PROVE  TypeOK'
    <2>1. results' \in Seq(Results) /\ position' \in Nat \ {0} /\ stage' \in Stages
      BY <1>1, <1>8, <1>16 DEF SaveApplied, TypeOK
    <2> QED
      BY <1>1, <1>16, <2>1 DEF TypeOK, SaveApplied
  <1>17. ASSUME SaveFailed
         PROVE  TypeOK'
    <2>1. Current.seq \in Ids
      BY <1>1, <1>17, CurrentTyped DEF SaveFailed
    <2>2. [seq |-> Current.seq, status |-> "failed",
           retriable |-> stage = "retry", playlist |-> 0] \in Results
      BY <2>1 DEF Results
    <2>3. results' \in Seq(Results)
      BY <1>1, <1>17, <2>2 DEF TypeOK, SaveFailed
    <2> QED
      BY <1>1, <1>17, <2>3 DEF TypeOK, SaveFailed, Stages
  <1>18. ASSUME Respond
         PROVE  TypeOK'
    <2>1. [ok |-> TRUE, results |-> results] \in [ok: BOOLEAN, results: Seq(Results)]
      BY <1>1 DEF TypeOK
    <2> QED
      <3>1. << >> \in Seq(Operations)
        OBVIOUS
      <3>2. inbox' \in [Requests -> Seq(Operations)]
        BY <1>1, <1>18, <3>1 DEF TypeOK, Respond
      <3>3. running' \in Requests \cup {NoRequest} /\ stage' \in Stages
        BY <1>18 DEF Respond, Stages
      <3>4. /\ http' \in {"idle", "busy", "answered"}
            /\ response' \in [ok: BOOLEAN, results: Seq(Results)]
        BY <1>1, <1>18, <2>1 DEF TypeOK, Respond
      <3> QED
        BY <1>1, <1>18, <3>2, <3>3, <3>4 DEF TypeOK, Respond
  <1>19. ASSUME NEW r \in Requests, LoseRequest(r)
         PROVE  TypeOK'
    BY <1>1, <1>19 DEF TypeOK, LoseRequest, Fault
  <1>20. ASSUME ServerCrash
         PROVE  TypeOK'
    <2>1. unrecorded' \in SUBSET Ids
      BY <1>1, <1>20, CurrentTyped DEF TypeOK, ServerCrash
    <2> QED
      BY <1>1, <1>20, <2>1 DEF TypeOK, ServerCrash, Stages, Fault
  <1>21. ASSUME ExternalDelete
         PROVE  TypeOK'
    BY <1>1, <1>21 DEF TypeOK, ExternalDelete
  <1>22. CASE UNCHANGED vars
    BY <1>1, <1>22 DEF TypeOK, vars
  <1> QED
    BY <1>2, <1>3, <1>4, <1>5, <1>6, <1>7, <1>9, <1>10, <1>12, <1>13, <1>14,
       <1>15, <1>16, <1>17, <1>18, <1>19, <1>20, <1>21, <1>22
       DEF Next, Device, Server, Handle

-----------------------------------------------------------------------------
(* What either side leaves alone *)

\* The server never touches the queue file, nor the batch being uploaded.
LEMMA ServerFrame ==
    ASSUME Server \/ ExternalDelete \/ UNCHANGED vars
    PROVE  UNCHANGED <<queue, nextSequence, submitted, batch>>
  <1> USE DEF flash, memory, history
  <1>1. ASSUME NEW r \in Requests, AcquireLock(r) \/ LoseRequest(r)
        PROVE  UNCHANGED <<queue, nextSequence, submitted, batch>>
    BY <1>1 DEF AcquireLock, LoseRequest
  <1>2. CASE Replay \/ Prepare \/ SaveAlias \/ SaveApplied \/ SaveFailed
    BY <1>2 DEF Replay, Prepare, SaveAlias, SaveApplied, SaveFailed
  <1>3. CASE Call \/ CallUnconfirmed \/ CallFails \/ CallMissing \/ CallRejected
    BY <1>3 DEF Call, CallUnconfirmed, CallFails, CallMissing, CallRejected
  <1>4. CASE Respond \/ ServerCrash \/ ExternalDelete
    BY <1>4 DEF Respond, ServerCrash, ExternalDelete
  <1>5. CASE UNCHANGED vars
    BY <1>5 DEF vars
  <1> QED
    BY <1>1, <1>2, <1>3, <1>4, <1>5 DEF Server, Handle

\* The device never touches the server's database and thread.
LEMMA DeviceFrame ==
    ASSUME Device \/ ExternalDelete \/ UNCHANGED vars
    PROVE  UNCHANGED <<record, recorded, running, position, stage, results>>
  <1> USE DEF database, worker
  <1>1. ASSUME NEW kind \in Kinds, NEW ref \in 0..MaxSequence, Enqueue(kind, ref)
        PROVE  UNCHANGED <<record, recorded, running, position, stage, results>>
    BY <1>1 DEF Enqueue
  <1>2. ASSUME NEW r \in Requests, StartFlush(r)
        PROVE  UNCHANGED <<record, recorded, running, position, stage, results>>
    BY <1>2 DEF StartFlush
  <1>3. CASE Expire \/ GiveUp
    BY <1>3 DEF Expire, GiveUp, NoAnswer
  <1>4. CASE PollAnswer \/ PollUnsaved
    BY <1>4 DEF PollAnswer, PollUnsaved, EndBatch
  <1>5. CASE Reboot \/ ExternalDelete
    BY <1>5 DEF Reboot, ExternalDelete
  <1>6. CASE UNCHANGED vars
    BY <1>6 DEF vars
  <1> QED
    BY <1>1, <1>2, <1>3, <1>4, <1>5, <1>6 DEF Device

\* Besides an edit and an answer, nothing on the device changes the queue.
LEMMA DeviceQueueFrame ==
    ASSUME Device,
           ~\E kind \in Kinds, ref \in 0..MaxSequence : Enqueue(kind, ref),
           ~PollAnswer
    PROVE  UNCHANGED <<queue, nextSequence, submitted>>
  <1> USE DEF flash, history
  <1>1. ASSUME NEW r \in Requests, StartFlush(r)
        PROVE  UNCHANGED <<queue, nextSequence, submitted>>
    BY <1>1 DEF StartFlush
  <1>2. CASE Expire \/ GiveUp
    BY <1>2 DEF Expire, GiveUp, NoAnswer
  <1>3. CASE PollUnsaved
    BY <1>3 DEF PollUnsaved, EndBatch
  <1>4. CASE Reboot
    BY <1>4 DEF Reboot
  <1> QED
    BY <1>1, <1>2, <1>3, <1>4 DEF Device

\* An answer removes a stretch of the queue's front, each operation of which
\* was answered "applied" by its own id.
LEMMA PollRemoves ==
    ASSUME IInv, PollAnswer
    PROVE  \E n \in 0..Len(queue) :
              /\ queue' = SubSeq(queue, n + 1, Len(queue))
              /\ nextSequence' = nextSequence /\ submitted' = submitted
              /\ \A i \in 1..n : record[queue[i].seq] = "applied"
  <1>0. queue \in Seq(Operations) /\ response.results \in Seq(Results)
    BY DEF IInv, TypeOK
  <1>1. nextSequence' = nextSequence /\ submitted' = submitted
    BY DEF PollAnswer, EndBatch, history
  <1>2. CASE response.ok
    <2>1. PICK n \in 0..Len(queue) :
             /\ \A i \in 1..n : Applied(i)
             /\ queue' = SubSeq(queue, n + 1, Len(queue))
      BY <1>2 DEF PollAnswer, ApplyResults
    <2>2. ASSUME NEW i \in 1..n
          PROVE  record[queue[i].seq] = "applied"
      <3>1. Applied(i) /\ i \in Nat /\ i >= 1
        BY <2>1, <2>2
      <3>2. /\ i \in 1..Len(response.results)
            /\ response.results[i].seq = queue[i].seq
            /\ response.results[i].status = "applied"
        BY <3>1, <1>0 DEF Applied, Answers
      <3> QED
        BY <3>2 DEF IInv, AnswersTrue, TrueOf
    <2> QED
      BY <1>1, <2>1, <2>2
  <1>3. CASE ~response.ok
    <2>1. queue' = queue
      BY <1>3 DEF PollAnswer, MarkFailure
    <2>2. queue' = SubSeq(queue, 0 + 1, Len(queue))
      BY <1>0, <2>1
    <2> QED
      BY <1>0, <1>1, <2>2
  <1> QED
    BY <1>2, <1>3

-----------------------------------------------------------------------------
(* The queue *)

LEMMA TailStep ==
    ASSUME IInv, [Next]_vars
    PROVE  QueueIsTail'
  <1> USE QueueAssumption
  <1>1. /\ queue \in Seq(Operations) /\ submitted \in Seq(Operations)
        /\ nextSequence \in Nat /\ QueueIsTail
    BY DEF IInv, TypeOK
  <1>2. CASE UNCHANGED <<queue, nextSequence, submitted>>
    BY <1>1, <1>2 DEF QueueIsTail, First
  <1>3. ASSUME NEW kind \in Kinds, NEW ref \in 0..MaxSequence, Enqueue(kind, ref)
        PROVE  QueueIsTail'
    <2> DEFINE operation == [seq |-> nextSequence, kind |-> kind, ref |-> ref]
    <2>1. /\ queue' = Append(queue, operation)
          /\ submitted' = Append(submitted, operation)
          /\ nextSequence' = nextSequence + 1
      BY <1>3 DEF Enqueue
    <2>2. operation.seq = nextSequence
      OBVIOUS
    <2> HIDE DEF operation
    <2>3. /\ Len(submitted') = nextSequence' - 1
          /\ Len(queue') = Len(queue) + 1
          /\ Len(queue') <= Len(submitted')
      BY <1>1, <2>1 DEF QueueIsTail
    <2>4. \A s \in 1..Len(submitted') : submitted'[s].seq = s
      BY <1>1, <2>1, <2>2 DEF QueueIsTail
    <2>5. ASSUME NEW i \in 1..Len(queue')
          PROVE  queue'[i] = submitted'[First' + i - 1]
      <3>1. First' = First /\ First \in Nat \ {0}
        BY <1>1, <2>1, <2>3 DEF First, QueueIsTail
      <3>2. CASE i = Len(queue')
        BY <1>1, <2>1, <2>3, <3>1, <3>2 DEF First, QueueIsTail
      <3>3. CASE i # Len(queue')
        <4>1. i \in 1..Len(queue)
          BY <1>1, <2>3, <2>5, <3>3
        <4>2. queue'[i] = queue[i]
          BY <1>1, <2>1, <4>1
        <4>3. First + i - 1 \in 1..Len(submitted)
          BY <1>1, <3>1, <4>1 DEF First, QueueIsTail
        <4>4. submitted'[First + i - 1] = submitted[First + i - 1]
          BY <1>1, <2>1, <4>3
        <4> QED
          BY <1>1, <3>1, <4>1, <4>2, <4>4 DEF QueueIsTail
      <3> QED
        BY <3>2, <3>3
    <2> QED
      BY <2>3, <2>4, <2>5 DEF QueueIsTail
  <1>4. ASSUME PollAnswer
        PROVE  QueueIsTail'
    <2>1. PICK n \in 0..Len(queue) :
             /\ queue' = SubSeq(queue, n + 1, Len(queue))
             /\ nextSequence' = nextSequence /\ submitted' = submitted
      BY <1>4, PollRemoves
    <2>2. Len(queue') = Len(queue) - n
      BY <1>1, <2>1
    <2>3. First' = First + n /\ First \in Nat \ {0}
      <3>1. Len(queue) \in Nat /\ Len(queue) <= nextSequence - 1 /\ n \in Nat
        BY <1>1, <2>1 DEF QueueIsTail
      <3>2. nextSequence' = nextSequence
        BY <2>1
      <3> QED
        BY <1>1, <2>2, <3>1, <3>2 DEF First
    <2>4. ASSUME NEW i \in 1..Len(queue')
          PROVE  queue'[i] = submitted'[First' + i - 1]
      <3>1. n + i \in 1..Len(queue)
        BY <1>1, <2>1, <2>2, <2>4
      <3>2. queue'[i] = queue[n + i]
        BY <1>1, <2>1, <2>2, <3>1
      <3>3. queue[n + i] = submitted[First + (n + i) - 1]
        BY <1>1, <3>1 DEF QueueIsTail
      <3>4. First + (n + i) - 1 = First' + i - 1
        BY <2>1, <2>3, <2>4
      <3> QED
        BY <2>1, <3>2, <3>3, <3>4
    <2> QED
      BY <1>1, <2>1, <2>2, <2>4 DEF QueueIsTail
  <1> QED
    BY <1>2, <1>3, <1>4, ServerFrame, DeviceQueueFrame DEF Next

\* The queue's head moves on, and the history only grows.
LEMMA HistoryGrows ==
    ASSUME IInv, [Next]_vars
    PROVE  /\ First \in Nat \ {0} /\ First' \in Nat \ {0} /\ First <= First'
           /\ nextSequence \in Nat /\ nextSequence' \in Nat
           /\ nextSequence <= nextSequence'
           /\ \A s \in 1..(nextSequence - 1) : submitted'[s] = submitted[s]
  <1> USE QueueAssumption
  <1>1. /\ queue \in Seq(Operations) /\ submitted \in Seq(Operations)
        /\ nextSequence \in Nat /\ QueueIsTail
    BY DEF IInv, TypeOK
  <1>2. First \in Nat \ {0} /\ Len(queue) \in Nat /\ Len(submitted) = nextSequence - 1
    BY <1>1 DEF First, QueueIsTail
  <1>3. CASE UNCHANGED <<queue, nextSequence, submitted>>
    BY <1>1, <1>2, <1>3 DEF First
  <1>4. ASSUME NEW kind \in Kinds, NEW ref \in 0..MaxSequence, Enqueue(kind, ref)
        PROVE  /\ First' = First
               /\ nextSequence' = nextSequence + 1
               /\ \A s \in 1..(nextSequence - 1) : submitted'[s] = submitted[s]
    <2> DEFINE operation == [seq |-> nextSequence, kind |-> kind, ref |-> ref]
    <2>1. /\ queue' = Append(queue, operation)
          /\ submitted' = Append(submitted, operation)
          /\ nextSequence' = nextSequence + 1
      BY <1>4 DEF Enqueue
    <2> HIDE DEF operation
    <2>2. Len(queue') = Len(queue) + 1
      BY <1>1, <2>1
    <2>3. \A s \in 1..Len(submitted) : submitted'[s] = submitted[s]
      BY <1>1, <2>1
    <2> QED
      BY <1>1, <1>2, <2>1, <2>2, <2>3 DEF First
  <1>5. ASSUME PollAnswer
        PROVE  First' \in Nat \ {0} /\ First <= First'
               /\ nextSequence' = nextSequence /\ submitted' = submitted
    <2>1. PICK n \in 0..Len(queue) :
             /\ queue' = SubSeq(queue, n + 1, Len(queue))
             /\ nextSequence' = nextSequence /\ submitted' = submitted
      BY <1>5, PollRemoves
    <2>2. Len(queue') = Len(queue) - n
      BY <1>1, <2>1
    <2> QED
      BY <1>1, <1>2, <2>1, <2>2 DEF First
  <1> QED
    BY <1>1, <1>2, <1>3, <1>4, <1>5, ServerFrame, DeviceQueueFrame DEF Next

LEMMA RemovedStep ==
    ASSUME IInv, [Next]_vars,
           \A s \in Ids : record[s] = "applied" => record'[s] = "applied"
    PROVE  RemovedApplied'
  <1> USE QueueAssumption
  <1>1. /\ queue \in Seq(Operations)
        /\ nextSequence \in Nat /\ QueueIsTail /\ RemovedApplied
    BY DEF IInv, TypeOK
  <1>2. CASE First' = First
    BY <1>1, <1>2 DEF RemovedApplied
  <1>3. CASE PollAnswer
    <2>1. PICK n \in 0..Len(queue) :
             /\ queue' = SubSeq(queue, n + 1, Len(queue))
             /\ nextSequence' = nextSequence /\ submitted' = submitted
             /\ \A i \in 1..n : record[queue[i].seq] = "applied"
      BY <1>3, PollRemoves
    <2>2. Len(queue') = Len(queue) - n /\ Len(queue) \in Nat /\ n \in Nat
      BY <1>1, <2>1
    <2>3. First' = First + n /\ First \in Nat \ {0} /\ n \in Nat
      <3>1. nextSequence' = nextSequence
        BY <2>1
      <3>2. First' = First + n
        BY <1>1, <2>2, <3>1 DEF First
      <3> QED
        BY <2>2, <3>2, HistoryGrows
    <2>4. ASSUME NEW s \in Ids, s < First', s >= First
          PROVE  record[s] = "applied"
      <3>1. s - First + 1 \in 1..n
        BY <2>3, <2>4 DEF Ids
      <3>2. s - First + 1 \in 1..Len(queue) /\ s \in 1..Len(submitted)
        BY <1>1, <2>1, <2>2, <2>3, <2>4, <3>1 DEF First, QueueIsTail, Ids
      <3>3. queue[s - First + 1] = submitted[First + (s - First + 1) - 1]
        BY <1>1, <3>2 DEF QueueIsTail
      <3>4. First + (s - First + 1) - 1 = s
        BY <2>3, <2>4 DEF Ids
      <3>5. queue[s - First + 1].seq = s
        BY <1>1, <3>2, <3>3, <3>4 DEF QueueIsTail
      <3> QED
        BY <2>1, <3>1, <3>5
    <2> QED
      BY <1>1, <2>3, <2>4 DEF RemovedApplied, Ids
  <1>4. CASE \E kind \in Kinds, ref \in 0..MaxSequence : Enqueue(kind, ref)
    <2>1. PICK operation : /\ queue' = Append(queue, operation)
                           /\ nextSequence' = nextSequence + 1
      BY <1>4 DEF Enqueue
    <2>2. Len(queue') = Len(queue) + 1 /\ Len(queue) \in Nat
      BY <1>1, <2>1
    <2>3. First' = First
      BY <1>1, <2>1, <2>2 DEF First
    <2> QED
      BY <1>2, <2>3
  <1>5. UNCHANGED <<queue, nextSequence>> => First' = First
    BY DEF First
  <1> QED
    BY <1>2, <1>3, <1>4, <1>5, ServerFrame, DeviceQueueFrame DEF Next

-----------------------------------------------------------------------------
(* The server's record *)

\* A step changes at most the row of the current operation, and that one only
\* while it is not "applied".
LEMMA RecordChanges ==
    ASSUME IInv, [Next]_vars
    PROVE  \/ record' = record
           \/ /\ stage \notin {"idle", "respond"}
              /\ record[Current.seq] # "applied"
              /\ \E status : record' = [record EXCEPT ![Current.seq] = status]
  <1> USE DEF database
  <1>1. ASSUME NEW r \in Requests, AcquireLock(r) \/ LoseRequest(r)
        PROVE  record' = record
    BY <1>1 DEF AcquireLock, LoseRequest
  <1>2. CASE Call \/ CallUnconfirmed \/ CallFails \/ CallMissing \/ CallRejected
    BY <1>2 DEF Call, CallUnconfirmed, CallFails, CallMissing, CallRejected
  <1>3. CASE Replay \/ SaveAlias \/ Respond \/ ServerCrash
    BY <1>3 DEF Replay, SaveAlias, Respond, ServerCrash
  <1>4. CASE Prepare
    BY <1>4 DEF Prepare
  <1>5. CASE SaveApplied \/ SaveFailed
    BY <1>5 DEF IInv, WorkerSound, SaveApplied, SaveFailed
  <1> QED
    BY <1>1, <1>2, <1>3, <1>4, <1>5, DeviceFrame DEF Next, Server, Handle

LEMMA AppliedStays ==
    ASSUME IInv, [Next]_vars
    PROVE  \A s \in Ids : record[s] = "applied" => record'[s] = "applied"
  <1>1. record \in [Ids -> {"none", "pending", "failed", "applied"}]
    BY DEF IInv, TypeOK
  <1> QED
    BY <1>1, RecordChanges

LEMMA OrderStep ==
    ASSUME IInv, [Next]_vars
    PROVE  ServerInOrder'
  <1>1. ServerInOrder /\ record \in [Ids -> {"none", "pending", "failed", "applied"}]
    BY DEF IInv, TypeOK
  <1>2. CASE record' = record
    BY <1>1, <1>2 DEF ServerInOrder
  <1>3. ASSUME NEW status, stage \notin {"idle", "respond"},
               record[Current.seq] # "applied",
               record' = [record EXCEPT ![Current.seq] = status],
               NEW s \in Ids, NEW t \in Ids, s < t, record'[t] # "none"
        PROVE  record'[s] = "applied"
    <2>1. CASE t = Current.seq
      BY <1>1, <1>3, <2>1, CurrentNext
    <2>2. CASE t # Current.seq
      BY <1>1, <1>3, <2>2 DEF ServerInOrder
    <2> QED
      BY <2>1, <2>2
  <1> QED
    BY <1>2, <1>3, RecordChanges DEF ServerInOrder

-----------------------------------------------------------------------------
(* The requests *)

LEMMA InboxStep ==
    ASSUME IInv, [Next]_vars
    PROVE  InboxIsStretch'
  <1> USE QueueAssumption DEF flash, memory, database, worker, history
  <1>1. /\ queue \in Seq(Operations) /\ QueueIsTail /\ InboxIsStretch
        /\ inbox \in [Requests -> Seq(Operations)]
    BY DEF IInv, TypeOK
  <1>2. ASSUME NEW r \in Requests, inbox[r] # << >>, inbox'[r] = inbox[r]
        PROVE  LET first == inbox'[r][1].seq
               IN  /\ first <= First'
                   /\ first + Len(inbox'[r]) <= nextSequence'
                   /\ \A i \in 1..Len(inbox'[r]) :
                          inbox'[r][i] = submitted'[first + i - 1]
    <2> DEFINE ops == inbox[r]
               first == ops[1].seq
    <2>1. /\ first <= First
          /\ first + Len(ops) <= nextSequence
          /\ \A i \in 1..Len(ops) : ops[i] = submitted[first + i - 1]
      BY <1>1, <1>2 DEF InboxIsStretch
    <2>2. Len(ops) \in Nat \ {0} /\ ops \in Seq(Operations)
      BY <1>1, <1>2
    <2>3. ops[1] \in Operations
      BY <2>2
    <2>4. first \in Nat \ {0}
      BY <2>3 DEF Operations, Ids
    <2> HIDE DEF first
    <2>5. ASSUME NEW i \in 1..Len(ops)
          PROVE  ops[i] = submitted'[first + i - 1]
      <3>1. first + i - 1 \in 1..(nextSequence - 1)
        BY <2>1, <2>2, <2>4, <2>5, HistoryGrows
      <3> QED
        BY <2>1, <2>5, <3>1, HistoryGrows
    <2>6. first <= First' /\ first + Len(ops) <= nextSequence'
      BY <2>1, <2>2, <2>4, HistoryGrows
    <2> QED
      BY <1>2, <2>5, <2>6 DEF first
  <1>3. ASSUME \A r \in Requests : inbox'[r] = << >> \/ inbox'[r] = inbox[r]
        PROVE  InboxIsStretch'
    BY <1>2, <1>3 DEF InboxIsStretch
  <1>4. ASSUME NEW r \in Requests, StartFlush(r)
        PROVE  InboxIsStretch'
    <2>1. /\ UNCHANGED <<queue, nextSequence, submitted>>
          /\ inbox' = [inbox EXCEPT ![r] = Batch]
          /\ queue # << >>
      BY <1>4 DEF StartFlush
    <2>2. /\ Len(queue) \in Nat \ {0} /\ Len(queue) <= nextSequence - 1
          /\ nextSequence \in Nat
      BY <1>1, <2>1, HistoryGrows DEF QueueIsTail
    <2>3. Least(BatchLimit, Len(queue)) \in 1..Len(queue)
      BY <2>2 DEF Least
    <2>4. /\ Len(Batch) \in 1..Len(queue)
          /\ \A i \in 1..Len(Batch) : Batch[i] = queue[i]
      BY <1>1, <2>3 DEF Batch
    <2>5. First \in 1..Len(submitted) /\ First + Len(queue) = nextSequence
      BY <1>1, <2>2 DEF First, QueueIsTail
    <2>6. Batch[1] = queue[1] /\ queue[1] = submitted[First + 1 - 1]
      BY <1>1, <2>2, <2>4 DEF QueueIsTail
    <2>7. First + 1 - 1 = First
      BY <2>5
    <2>8. Batch[1].seq = First
      BY <1>1, <2>5, <2>6, <2>7 DEF QueueIsTail
    <2>9. \A i \in 1..Len(Batch) : Batch[i] = submitted[First + i - 1]
      BY <1>1, <2>4 DEF QueueIsTail
    <2>10. First + Len(Batch) <= nextSequence /\ First' = First
      BY <2>1, <2>2, <2>4, <2>5 DEF First
    <2>11. inbox'[r] = Batch
      BY <1>1, <2>1
    <2>12. \A q \in Requests \ {r} : inbox'[q] = inbox[q]
      BY <1>1, <2>1
    <2>13. ASSUME NEW q \in Requests, inbox'[q] # << >>
           PROVE  LET first == inbox'[q][1].seq
                  IN  /\ first <= First'
                      /\ first + Len(inbox'[q]) <= nextSequence'
                      /\ \A i \in 1..Len(inbox'[q]) :
                             inbox'[q][i] = submitted'[first + i - 1]
      <3>1. CASE q = r
        <4>1. inbox'[q] = Batch /\ submitted' = submitted /\ nextSequence' = nextSequence
          BY <2>1, <2>11, <3>1
        <4>2. First <= First'
          BY <2>5, <2>10
        <4> QED
          BY <2>8, <2>9, <2>10, <4>1, <4>2
      <3>2. CASE q # r
        BY <1>2, <2>12, <2>13, <3>2
      <3> QED
        BY <3>1, <3>2
    <2> QED
      BY <2>13 DEF InboxIsStretch
  <1>5. ASSUME NEW kind \in Kinds, NEW ref \in 0..MaxSequence, Enqueue(kind, ref)
        PROVE  inbox' = inbox
    BY <1>5 DEF Enqueue
  <1>6. CASE Expire \/ GiveUp \/ PollAnswer \/ PollUnsaved \/ Reboot
    BY <1>3, <1>6 DEF Expire, GiveUp, NoAnswer, PollAnswer, PollUnsaved, EndBatch, Reboot
  <1>7. ASSUME NEW r \in Requests, AcquireLock(r)
        PROVE  inbox' = inbox
    BY <1>7 DEF AcquireLock
  <1>8. CASE Replay \/ Prepare \/ SaveAlias \/ SaveApplied \/ SaveFailed \/ ExternalDelete
    BY <1>3, <1>8 DEF Replay, Prepare, SaveAlias, SaveApplied, SaveFailed, ExternalDelete
  <1>9. CASE Call \/ CallUnconfirmed \/ CallFails \/ CallMissing \/ CallRejected
    BY <1>3, <1>9 DEF Call, CallUnconfirmed, CallFails, CallMissing, CallRejected
  <1>10. CASE Respond
    BY <1>1, <1>3, <1>10 DEF Respond
  <1>11. ASSUME NEW r \in Requests, LoseRequest(r)
         PROVE  InboxIsStretch'
    BY <1>1, <1>3, <1>11 DEF LoseRequest
  <1>12. CASE ServerCrash
    BY <1>3, <1>12 DEF ServerCrash
  <1>13. CASE UNCHANGED vars
    BY <1>3, <1>13 DEF vars
  <1> QED
    BY <1>3, <1>4, <1>5, <1>6, <1>7, <1>8, <1>9, <1>10, <1>11, <1>12, <1>13
       DEF Next, Device, Server, Handle

-----------------------------------------------------------------------------
(* The thread that holds the lock, and the answers *)

LEMMA AnswersStep ==
    ASSUME IInv, [Next]_vars
    PROVE  AnswersTrue'
  <1> USE DEF memory, worker, database
  <1>1. /\ record \in [Ids -> {"none", "pending", "failed", "applied"}]
        /\ results \in Seq(Results) /\ response.results \in Seq(Results)
        /\ AnswersTrue
    BY DEF IInv, TypeOK
  <1>2. ASSUME NEW answer \in Seq(Results), TrueOf(answer)
        PROVE  \A i \in 1..Len(answer) :
                  answer[i].status = "applied" => record'[answer[i].seq] = "applied"
    <2>1. ASSUME NEW i \in 1..Len(answer), answer[i].status = "applied"
          PROVE  record'[answer[i].seq] = "applied"
      <3>1. answer[i] \in Results
        BY <1>2, <2>1
      <3>2. answer[i].seq \in Ids
        BY <3>1 DEF Results
      <3>3. record[answer[i].seq] = "applied"
        BY <1>2, <2>1 DEF TrueOf
      <3> QED
        BY <3>2, <3>3, AppliedStays
    <2> QED
      BY <2>1
  <1>3. ASSUME NEW s \in Ids, NEW p, record'[s] = "applied",
               results' = Append(results, [seq |-> s, status |-> "applied",
                                           retriable |-> FALSE, playlist |-> p])
        PROVE  TrueOf(results)'
    <2> DEFINE new == [seq |-> s, status |-> "applied",
                       retriable |-> FALSE, playlist |-> p]
    <2>1. \A i \in 1..Len(results) :
             results[i].status = "applied" => record'[results[i].seq] = "applied"
      BY <1>1, <1>2 DEF AnswersTrue
    <2>2. new.seq = s
      OBVIOUS
    <2> HIDE DEF new
    <2>3. /\ Len(results') = Len(results) + 1
          /\ results'[Len(results) + 1] = new
          /\ \A i \in 1..Len(results) : results'[i] = results[i]
      BY <1>1, <1>3 DEF new
    <2> QED
      BY <1>1, <1>3, <2>1, <2>2, <2>3 DEF TrueOf
  <1>4. ASSUME results' \in {results, << >>} PROVE TrueOf(results)'
    BY <1>1, <1>2, <1>4 DEF TrueOf, AnswersTrue
  <1>5. ASSUME Replay
        PROVE  TrueOf(results)'
    <2>1. Current.seq \in Ids
      BY <1>5, CurrentTyped DEF IInv, Replay
    <2> QED
      BY <1>1, <1>3, <1>5, <2>1 DEF Replay, Report
  <1>6. ASSUME SaveApplied
        PROVE  TrueOf(results)'
    <2>1. Current.seq \in Ids
      BY <1>6, CurrentTyped DEF IInv, SaveApplied
    <2> QED
      BY <1>1, <1>3, <1>6, <2>1 DEF SaveApplied, Report
  <1>7. ASSUME SaveFailed
        PROVE  TrueOf(results)'
    <2> DEFINE new == [seq |-> Current.seq, status |-> "failed",
                       retriable |-> stage = "retry", playlist |-> 0]
    <2>1. \A i \in 1..Len(results) :
             results[i].status = "applied" => record'[results[i].seq] = "applied"
      BY <1>1, <1>2 DEF AnswersTrue
    <2>2. new.status = "failed"
      OBVIOUS
    <2> HIDE DEF new
    <2>3. /\ Len(results') = Len(results) + 1
          /\ results'[Len(results) + 1] = new
          /\ \A i \in 1..Len(results) : results'[i] = results[i]
      BY <1>1, <1>7 DEF new, SaveFailed
    <2> QED
      BY <1>1, <2>1, <2>2, <2>3 DEF TrueOf
  <1>8. ASSUME Prepare \/ SaveAlias \/ Respond \/ ServerCrash \/ ExternalDelete
        PROVE  TrueOf(results)'
    BY <1>4, <1>8 DEF Prepare, SaveAlias, Respond, ServerCrash, ExternalDelete
  <1>9. ASSUME Call \/ CallUnconfirmed \/ CallFails \/ CallMissing \/ CallRejected
        PROVE  TrueOf(results)'
    BY <1>4, <1>9 DEF Call, CallUnconfirmed, CallFails, CallMissing, CallRejected
  <1>10. ASSUME NEW r \in Requests, AcquireLock(r) \/ LoseRequest(r)
         PROVE  TrueOf(results)'
    BY <1>4, <1>10 DEF AcquireLock, LoseRequest
  <1>11. TrueOf(results)'
    BY <1>4, <1>5, <1>6, <1>7, <1>8, <1>9, <1>10, DeviceFrame DEF Next, Server, Handle
  <1>12. ASSUME response' = response PROVE TrueOf(response.results)'
    BY <1>1, <1>2, <1>12 DEF TrueOf, AnswersTrue
  <1>13. ASSUME response' = NoResponse PROVE TrueOf(response.results)'
    BY <1>13 DEF TrueOf, NoResponse
  <1>14. ASSUME Respond
         PROVE  TrueOf(response.results)'
    <2>1. CASE response' = response
      BY <1>12, <2>1
    <2>2. CASE response' = [ok |-> TRUE, results |-> results]
      <3>1. response'.results = results
        BY <2>2
      <3>2. TrueOf(results)
        BY <1>1 DEF AnswersTrue
      <3> QED
        BY <1>1, <1>2, <3>1, <3>2 DEF TrueOf
    <2> QED
      BY <1>14, <2>1, <2>2 DEF Respond
  <1>15. ASSUME NEW kind \in Kinds, NEW ref \in 0..MaxSequence, Enqueue(kind, ref)
         PROVE  response' = response
    BY <1>15 DEF Enqueue
  <1>16. ASSUME NEW r \in Requests,
                StartFlush(r) \/ AcquireLock(r) \/ LoseRequest(r)
         PROVE  response' = response
    BY <1>16 DEF StartFlush, AcquireLock, LoseRequest
  <1>17. ASSUME Expire \/ GiveUp \/ PollAnswer \/ PollUnsaved \/ Reboot
         PROVE  TrueOf(response.results)'
    BY <1>13, <1>17
       DEF Expire, GiveUp, NoAnswer, PollAnswer, PollUnsaved, EndBatch, Reboot
  <1>18. ASSUME Replay \/ Prepare \/ SaveAlias \/ SaveApplied \/ SaveFailed
         PROVE  TrueOf(response.results)'
    BY <1>12, <1>18 DEF Replay, Prepare, SaveAlias, SaveApplied, SaveFailed
  <1>19. ASSUME Call \/ CallUnconfirmed \/ CallFails \/ CallMissing \/ CallRejected
         PROVE  TrueOf(response.results)'
    BY <1>12, <1>19 DEF Call, CallUnconfirmed, CallFails, CallMissing, CallRejected
  <1>20. ASSUME ServerCrash \/ ExternalDelete \/ UNCHANGED vars
         PROVE  TrueOf(response.results)'
    BY <1>12, <1>20 DEF ServerCrash, ExternalDelete, vars
  <1>21. TrueOf(response.results)'
    BY <1>12, <1>13, <1>14, <1>15, <1>16, <1>17, <1>18, <1>19, <1>20
       DEF Next, Device, Server, Handle
  <1> QED
    BY <1>11, <1>21 DEF AnswersTrue

LEMMA WorkerStep ==
    ASSUME IInv, [Next]_vars
    PROVE  WorkerSound'
  <1> USE QueueAssumption DEF flash, memory, database, worker, history
  <1>1. /\ inbox \in [Requests -> Seq(Operations)]
        /\ record \in [Ids -> {"none", "pending", "failed", "applied"}]
        /\ running \in Requests \cup {NoRequest}
        /\ position \in Nat \ {0}
        /\ stage \in Stages
        /\ WorkerSound
    BY DEF IInv, TypeOK
  <1>2. stage # "idle" => running \in Requests /\ inbox[running] # << >>
    BY <1>1 DEF WorkerSound
  <1>3. \A s \in Ids : record[s] = "applied" => record'[s] = "applied"
    BY AppliedStays
  <1>4. stage \notin {"idle", "respond"} =>
            \A i \in 1..(position - 1) : record'[inbox[running][i].seq] = "applied"
    <2>1. ASSUME stage \notin {"idle", "respond"}, NEW i \in 1..(position - 1)
          PROVE  record'[inbox[running][i].seq] = "applied"
      <3>1. i \in 1..Len(inbox[running])
        BY <1>1, <1>2, <2>1 DEF WorkerSound
      <3>2. inbox[running][i] \in Operations
        BY <1>1, <1>2, <2>1, <3>1
      <3>3. inbox[running][i].seq \in Ids
        BY <3>2 DEF Operations
      <3> QED
        BY <1>1, <1>3, <2>1, <3>3 DEF WorkerSound
    <2> QED
      BY <2>1
  <1>5. ASSUME UNCHANGED <<running, position, stage, record>>,
               stage # "idle" => inbox'[running] = inbox[running]
        PROVE  WorkerSound'
    BY <1>1, <1>5 DEF WorkerSound, Current
  <1>6. ASSUME Device \/ ExternalDelete \/ UNCHANGED vars
        PROVE  WorkerSound'
    <2>1. ASSUME NEW kind \in Kinds, NEW ref \in 0..MaxSequence, Enqueue(kind, ref)
          PROVE  inbox' = inbox
      BY <2>1 DEF Enqueue
    <2>2. ASSUME NEW r \in Requests, StartFlush(r), stage # "idle"
          PROVE  inbox'[running] = inbox[running]
      BY <1>1, <1>2, <2>2 DEF StartFlush
    <2>3. ASSUME Expire \/ GiveUp \/ PollAnswer \/ PollUnsaved \/ Reboot
          PROVE  inbox' = inbox
      BY <2>3 DEF Expire, GiveUp, NoAnswer, PollAnswer, PollUnsaved, EndBatch, Reboot
    <2>4. ASSUME ExternalDelete \/ UNCHANGED vars
          PROVE  inbox' = inbox
      BY <2>4 DEF ExternalDelete, vars
    <2> QED
      BY <1>5, <1>6, <2>1, <2>2, <2>3, <2>4, DeviceFrame DEF Device
  <1>7. ASSUME NEW r \in Requests, AcquireLock(r)
        PROVE  WorkerSound'
    <2>1. /\ running' = r /\ position' = 1 /\ stage' = "prepare"
          /\ inbox' = inbox /\ inbox[r] # << >>
      BY <1>7 DEF AcquireLock
    <2>2. 1 <= Len(inbox[r])
      BY <1>1, <2>1
    <2>3. r # NoRequest
      OBVIOUS
    <2> QED
      BY <2>1, <2>2, <2>3 DEF WorkerSound
  <1>8. ASSUME NEW playlist, Report(playlist), stage \notin {"idle", "respond"},
               record'[Current.seq] = "applied", UNCHANGED <<running, inbox>>
        PROVE  WorkerSound'
    <2>1. /\ position' = position + 1
          /\ stage' = IF position = Len(inbox[running]) THEN "respond" ELSE "prepare"
      BY <1>8 DEF Report
    <2>2. position <= Len(inbox[running]) /\ Len(inbox[running]) \in Nat
      BY <1>1, <1>2, <1>8 DEF WorkerSound
    <2>3. \A i \in 1..(position' - 1) : record'[inbox'[running'][i].seq] = "applied"
      BY <1>1, <1>4, <1>8, <2>1 DEF Current
    <2>4. stage' # "respond" => position' <= Len(inbox'[running'])
      BY <1>1, <1>8, <2>1, <2>2
    <2> QED
      BY <1>2, <1>8, <2>1, <2>3, <2>4, <1>1 DEF WorkerSound
  <1>9. ASSUME Replay
        PROVE  WorkerSound'
    <2>1. record'[Current.seq] = "applied"
      BY <1>9 DEF Replay
    <2> QED
      BY <1>8, <1>9, <2>1 DEF Replay
  <1>10. ASSUME SaveApplied
         PROVE  WorkerSound'
    <2>1. Current.seq \in Ids
      BY <1>1, <1>10, CurrentTyped DEF IInv, SaveApplied
    <2>2. record'[Current.seq] = "applied"
      BY <1>1, <1>10, <2>1 DEF SaveApplied
    <2> QED
      BY <1>8, <1>10, <2>2 DEF SaveApplied
  <1>11. ASSUME stage \notin {"idle", "respond"},
                stage' \in {"call", "alias", "save", "reject", "retry"},
                UNCHANGED <<running, position, inbox>>,
                record'[Current.seq] \in {"pending", "failed"}
         PROVE  WorkerSound'
    BY <1>1, <1>2, <1>4, <1>11 DEF WorkerSound, Current
  <1>12. ASSUME Prepare
         PROVE  WorkerSound'
    <2>1. Current.seq \in Ids
      BY <1>1, <1>12, CurrentTyped DEF IInv, Prepare
    <2>2. record'[Current.seq] \in {"pending", "failed"}
      BY <1>1, <1>12, <2>1 DEF Prepare
    <2> QED
      BY <1>11, <1>12, <2>2 DEF Prepare
  <1>13. ASSUME Call \/ CallUnconfirmed \/ CallFails \/ CallMissing \/ CallRejected
         PROVE  WorkerSound'
    <2>1. /\ stage = "call"
          /\ stage' \in {"alias", "save", "reject", "retry"}
          /\ UNCHANGED <<running, position, inbox, record>>
      BY <1>13 DEF Call, CallUnconfirmed, CallFails, CallMissing, CallRejected
    <2>2. record'[Current.seq] \in {"pending", "failed"}
      BY <1>1, <2>1 DEF WorkerSound
    <2> QED
      BY <1>11, <2>1, <2>2
  <1>14. ASSUME SaveAlias
         PROVE  WorkerSound'
    <2>1. record'[Current.seq] \in {"pending", "failed"}
      BY <1>1, <1>14 DEF WorkerSound, SaveAlias
    <2> QED
      BY <1>11, <1>14, <2>1 DEF SaveAlias
  <1>15. ASSUME SaveFailed
         PROVE  WorkerSound'
    BY <1>1, <1>2, <1>15 DEF SaveFailed, WorkerSound
  <1>16. ASSUME Respond \/ ServerCrash
         PROVE  WorkerSound'
    BY <1>16 DEF Respond, ServerCrash, WorkerSound
  <1>17. ASSUME NEW r \in Requests, LoseRequest(r)
         PROVE  WorkerSound'
    BY <1>1, <1>2, <1>5, <1>17 DEF LoseRequest
  <1> QED
    BY <1>6, <1>7, <1>9, <1>10, <1>12, <1>13, <1>14, <1>15, <1>16, <1>17
       DEF Next, Server, Handle

-----------------------------------------------------------------------------
(* The theorems *)

LEMMA InitIInv == Init => IInv
  <1> SUFFICES ASSUME Init PROVE IInv
    OBVIOUS
  <1> USE QueueAssumption DEF Init
  <1>1. NoResponse \in [ok: BOOLEAN, results: Seq(Results)]
    BY DEF NoResponse
  <1>2. /\ << >> \in Seq(Operations) /\ << >> \in Seq(Results)
        /\ <<0, 0>> \in Playlists
    BY DEF Playlists
  <1>3. TypeOK
    BY <1>1, <1>2 DEF TypeOK, Stages, Ids
  <1>4. QueueIsTail /\ InboxIsStretch /\ RemovedApplied
    BY DEF QueueIsTail, InboxIsStretch, RemovedApplied, First, Ids
  <1>5. AnswersTrue /\ WorkerSound /\ ServerInOrder
    BY DEF AnswersTrue, TrueOf, NoResponse, WorkerSound, ServerInOrder
  <1> QED
    BY <1>3, <1>4, <1>5 DEF IInv

LEMMA NextIInv == IInv /\ [Next]_vars => IInv'
  BY TypeStep, TailStep, InboxStep, RemovedStep, AppliedStays, AnswersStep,
     WorkerStep, OrderStep DEF IInv

\* The strengthening of all safety invariants below is inductive.
THEOREM InductiveInvariant == Spec => []IInv
  BY InitIInv, NextIInv, PTL DEF Spec

\* Every variable keeps its type: the queue never exceeds maximum_operations.
THEOREM TypeCorrect == Spec => []TypeOK
  <1>1. IInv => TypeOK
    BY DEF IInv
  <1> QED
    BY <1>1, InductiveInvariant, PTL

\* The server takes the device's edits in order.
THEOREM ServerKeepsOrder == Spec => []ServerInOrder
  <1>1. IInv => ServerInOrder
    BY DEF IInv
  <1> QED
    BY <1>1, InductiveInvariant, PTL

LEMMA KnownQueuedOrApplied ==
    ASSUME IInv, NEW s \in Known
    PROVE  /\ s >= First => Queued(s)
           /\ s < First => record[s] = "applied"
  <1>1. /\ queue \in Seq(Operations) /\ QueueIsTail /\ nextSequence \in 1..(MaxSequence + 1)
    BY DEF IInv, TypeOK
  <1>2. s \in Ids /\ s \in Nat
    BY <1>1, QueueAssumption DEF Known, Ids
  <1>3. ASSUME s >= First
        PROVE  Queued(s)
    <2>1. First \in Nat \ {0} /\ Len(queue) = nextSequence - First /\ nextSequence \in Nat
      BY <1>1, QueueAssumption DEF First, QueueIsTail
    <2>2. s - First + 1 \in 1..Len(queue)
      BY <1>2, <1>3, <2>1 DEF Known
    <2>3. queue[s - First + 1] = submitted[First + (s - First + 1) - 1]
      BY <1>1, <2>2 DEF QueueIsTail
    <2>4. First + (s - First + 1) - 1 = s /\ s \in 1..Len(submitted)
      BY <1>1, <1>2, <2>1 DEF QueueIsTail, Known
    <2>5. queue[s - First + 1].seq = s
      BY <1>1, <2>3, <2>4 DEF QueueIsTail
    <2> QED
      BY <2>2, <2>5 DEF Queued
  <1> QED
    BY <1>2, <1>3 DEF IInv, RemovedApplied

\* The device drops an edit only when the server has it on record as applied.
THEOREM NothingDropped == Spec => []NoEditDropped
  <1>1. IInv => NoEditDropped
    <2> SUFFICES ASSUME IInv, NEW s \in Known PROVE Queued(s) \/ record[s] = "applied"
      BY DEF NoEditDropped
    <2>1. s \in Int /\ First \in Int
      BY DEF Known, First, IInv, TypeOK
    <2> QED
      BY <2>1, KnownQueuedOrApplied
  <1> QED
    BY <1>1, InductiveInvariant, PTL

-----------------------------------------------------------------------------
(* Replays *)

\* A step touches the effects and the recorded result of the current operation
\* at most, and only while it is not on record as applied.
LEMMA EffectsChange ==
    ASSUME IInv, [Next]_vars
    PROVE  \A s \in Ids : record[s] = "applied" =>
               effects'[s] = effects[s] /\ recorded'[s] = recorded[s]
  <1> USE DEF flash, memory, database, worker, history
  <1> SUFFICES ASSUME NEW s \in Ids, record[s] = "applied"
               PROVE  effects'[s] = effects[s] /\ recorded'[s] = recorded[s]
    OBVIOUS
  <1>1. /\ effects \in [Ids -> Nat] /\ recorded \in [Ids -> Nat]
    BY DEF IInv, TypeOK
  <1>2. stage \in {"call", "alias", "save", "reject", "retry"} => s # Current.seq
    BY DEF IInv, WorkerSound
  <1>3. CASE Call \/ CallUnconfirmed
    <2>1. stage = "call" /\ Effect /\ recorded' = recorded
      BY <1>3 DEF Call, CallUnconfirmed
    <2>2. PICK change \in Changes :
              effects' = [effects EXCEPT ![Current.seq] = @ + change]
      BY <2>1 DEF Effect
    <2> QED
      BY <1>1, <1>2, <2>1, <2>2
  <1>4. CASE SaveApplied
    BY <1>1, <1>2, <1>4 DEF SaveApplied
  <1>5. CASE CallFails \/ CallMissing \/ CallRejected
    BY <1>5 DEF CallFails, CallMissing, CallRejected
  <1>6. CASE Replay \/ Prepare \/ SaveAlias \/ SaveFailed \/ Respond
    BY <1>6 DEF Replay, Prepare, SaveAlias, SaveFailed, Respond
  <1>7. ASSUME NEW r \in Requests, AcquireLock(r) \/ LoseRequest(r) \/ StartFlush(r)
        PROVE  effects' = effects /\ recorded' = recorded
    BY <1>7 DEF AcquireLock, LoseRequest, StartFlush
  <1>8. ASSUME NEW kind \in Kinds, NEW ref \in 0..MaxSequence, Enqueue(kind, ref)
        PROVE  effects' = effects /\ recorded' = recorded
    BY <1>8 DEF Enqueue
  <1>9. CASE Expire \/ GiveUp \/ PollAnswer \/ PollUnsaved \/ Reboot
    BY <1>9 DEF Expire, GiveUp, NoAnswer, PollAnswer, PollUnsaved, EndBatch, Reboot
  <1>10. CASE ServerCrash \/ ExternalDelete \/ UNCHANGED vars
    BY <1>10 DEF ServerCrash, ExternalDelete, vars
  <1> QED
    BY <1>3, <1>4, <1>5, <1>6, <1>7, <1>8, <1>9, <1>10
       DEF Next, Device, Server, Handle

\* Replaying an applied edit, in whatever request, returns its recorded result
\* and leaves Jellyfin alone.
THEOREM ReplayHarmless == Spec => AppliedIsFinal
  <1>1. IInv /\ [Next]_vars =>
            [\A s \in Ids : record[s] = "applied" =>
                record'[s] = "applied" /\ effects'[s] = effects[s]
                                      /\ recorded'[s] = recorded[s]]_vars
    BY AppliedStays, EffectsChange
  <1> QED
    BY <1>1, InductiveInvariant, PTL DEF AppliedIsFinal, Spec

-----------------------------------------------------------------------------
(* Repeats *)

\* While it was recorded every time, an edit has changed Jellyfin at most once,
\* and then it is on record or about to be.
Tallied ==
    \A s \in Ids \ unrecorded :
        /\ effects[s] <= 1
        /\ effects[s] = 1 => \/ record[s] = "applied"
                             \/ stage \in {"alias", "save"} /\ Current.seq = s

\* Where Jellyfin, the records and the current operation stay.
LEMMA TallyStays ==
    ASSUME Tallied, UNCHANGED <<effects, unrecorded>>,
           \A s \in Ids : record[s] = "applied" => record'[s] = "applied",
           stage \in {"alias", "save"} =>
               stage' \in {"alias", "save"} /\ Current' = Current
    PROVE  Tallied'
  BY DEF Tallied

\* An effect is the first one, or leaves the edit unrecorded.
LEMMA EffectTallied ==
    ASSUME IInv, Tallied, Call \/ CallUnconfirmed
    PROVE  Tallied'
  <1> USE DEF database
  <1>1. /\ stage = "call" /\ Effect /\ record' = record /\ Current' = Current
        /\ Call => stage' \in {"alias", "save"} /\ unrecorded' = unrecorded
        /\ CallUnconfirmed => unrecorded' = unrecorded \cup {Current.seq}
    BY DEF Call, CallUnconfirmed, Current
  <1>2. Current.seq \in Ids /\ effects \in [Ids -> Nat]
    BY <1>1, CurrentTyped DEF IInv, TypeOK
  <1>3. record[Current.seq] # "applied"
    BY <1>1 DEF IInv, WorkerSound
  <1>4. /\ effects'[Current.seq] \in {effects[Current.seq], effects[Current.seq] + 1}
        /\ \A s \in Ids : s # Current.seq => effects'[s] = effects[s]
    <2>1. PICK change \in Changes :
              effects' = [effects EXCEPT ![Current.seq] = @ + change]
      BY <1>1 DEF Effect
    <2>2. change \in {0, 1}
      BY <2>1 DEF Changes
    <2> QED
      BY <1>2, <2>1, <2>2
  <1>5. \A s \in Ids \ unrecorded : effects[s] = 0 \/ (effects[s] = 1 /\ record[s] = "applied")
    BY <1>1, <1>2 DEF Tallied
  <1>6. CASE Call
    BY <1>1, <1>2, <1>3, <1>4, <1>5, <1>6 DEF Tallied
  <1>7. CASE CallUnconfirmed
    BY <1>1, <1>2, <1>3, <1>4, <1>5, <1>7 DEF Tallied
  <1> QED
    BY <1>6, <1>7

LEMMA TalliedStep ==
    ASSUME IInv, Tallied, [Next]_vars
    PROVE  Tallied'
  <1> USE DEF flash, memory, database, worker, history
  <1>1. \A s \in Ids : record[s] = "applied" => record'[s] = "applied"
    BY AppliedStays
  <1>2. stage # "idle" => running \in Requests /\ inbox[running] # << >>
    BY DEF IInv, TypeOK, WorkerSound
  <1>3. CASE Call \/ CallUnconfirmed
    BY <1>3, EffectTallied
  <1>4. CASE SaveAlias
    BY <1>1, <1>4, TallyStays DEF SaveAlias, Current
  <1>5. CASE SaveApplied
    <2>1. /\ stage = "save" /\ UNCHANGED <<effects, unrecorded>>
          /\ record' = [record EXCEPT ![Current.seq] = "applied"]
      BY <1>5 DEF SaveApplied
    <2>2. Current.seq \in Ids /\ record \in [Ids -> {"none", "pending", "failed", "applied"}]
      BY <2>1, CurrentTyped DEF IInv, TypeOK
    <2>3. record'[Current.seq] = "applied"
      BY <2>1, <2>2
    <2> QED
      BY <1>1, <2>1, <2>3 DEF Tallied
  <1>6. CASE CallFails \/ CallMissing \/ CallRejected
    BY <1>1, <1>6, TallyStays DEF CallFails, CallMissing, CallRejected
  <1>7. CASE Replay \/ Prepare \/ SaveFailed \/ Respond
    BY <1>1, <1>7, TallyStays DEF Replay, Prepare, SaveFailed, Respond
  <1>8. ASSUME NEW r \in Requests, AcquireLock(r)
        PROVE  Tallied'
    <2>1. stage = "idle"
      BY <1>8 DEF AcquireLock, IInv, WorkerSound
    <2> QED
      BY <1>1, <1>8, <2>1, TallyStays DEF AcquireLock
  <1>9. ASSUME NEW r \in Requests, LoseRequest(r)
        PROVE  Tallied'
    <2>1. stage # "idle" => inbox'[running] = inbox[running]
      BY <1>2, <1>9 DEF LoseRequest, IInv, TypeOK
    <2> QED
      BY <1>1, <1>9, <2>1, TallyStays DEF LoseRequest, Current
  <1>10. ASSUME NEW r \in Requests, StartFlush(r)
         PROVE  Tallied'
    <2>1. stage # "idle" => inbox'[running] = inbox[running]
      BY <1>2, <1>10 DEF StartFlush, IInv, TypeOK
    <2> QED
      BY <1>1, <1>10, <2>1, TallyStays DEF StartFlush, Current
  <1>11. ASSUME NEW kind \in Kinds, NEW ref \in 0..MaxSequence, Enqueue(kind, ref)
         PROVE  Tallied'
    BY <1>1, <1>11, TallyStays DEF Enqueue, Current
  <1>12. CASE Expire \/ GiveUp \/ PollAnswer \/ PollUnsaved \/ Reboot
    BY <1>1, <1>12, TallyStays
       DEF Expire, GiveUp, NoAnswer, PollAnswer, PollUnsaved, EndBatch, Reboot, Current
  <1>13. CASE ServerCrash
    <2>1. /\ UNCHANGED <<effects, record>> /\ stage' = "idle"
          /\ unrecorded' = IF stage \in {"alias", "save"}
                           THEN unrecorded \cup {Current.seq} ELSE unrecorded
      BY <1>13 DEF ServerCrash
    <2> QED
      BY <2>1 DEF Tallied
  <1>14. CASE ExternalDelete \/ UNCHANGED vars
    BY <1>1, <1>14, TallyStays DEF ExternalDelete, vars, Current
  <1> QED
    BY <1>3, <1>4, <1>5, <1>6, <1>7, <1>8, <1>9, <1>10, <1>11, <1>12, <1>13, <1>14
       DEF Next, Device, Server, Handle

\* However often an edit is posted, in overlapping, late or repeated requests, it
\* changes Jellyfin twice only when the server did not get to record the first.
THEOREM RepeatsHarmless == Spec => []RepeatsOnlyUnrecorded
  <1>1. Init => Tallied
    BY DEF Init, Tallied
  <1>2. IInv /\ Tallied /\ [Next]_vars => Tallied'
    BY TalliedStep
  <1>3. Tallied => RepeatsOnlyUnrecorded
    BY DEF Tallied, RepeatsOnlyUnrecorded
  <1> QED
    BY <1>1, <1>2, <1>3, InductiveInvariant, PTL DEF Spec

-----------------------------------------------------------------------------
(* The refinement *)

AppliedEdits == {s \in Ids : record[s] = "applied"}
ForgottenEdits == {s \in Known : ~Queued(s)}

\* What the device no longer holds is an initial stretch of the history.
LEMMA ForgottenIsPrefix == IInv => ForgottenEdits = 1..(First - 1)
  <1> SUFFICES ASSUME IInv
               PROVE  ForgottenEdits = 1..(First - 1)
    OBVIOUS
  <1>1. /\ queue \in Seq(Operations) /\ QueueIsTail /\ nextSequence \in Nat \ {0}
    BY QueueAssumption DEF IInv, TypeOK
  <1>2. /\ First \in Nat \ {0} /\ First <= nextSequence
        /\ Len(queue) \in Nat /\ First + Len(queue) = nextSequence
    BY <1>1 DEF First, QueueIsTail
  <1>3. ASSUME NEW s \in Known, Queued(s)
        PROVE  s >= First
    <2>1. PICK i \in 1..Len(queue) : queue[i].seq = s
      BY <1>3 DEF Queued
    <2>2. queue[i] = submitted[First + i - 1]
      BY <1>1, <2>1 DEF QueueIsTail
    <2>3. First + i - 1 \in 1..Len(submitted)
      BY <1>1, <1>2, <2>1 DEF QueueIsTail
    <2>4. queue[i].seq = First + i - 1
      BY <1>1, <2>2, <2>3 DEF QueueIsTail
    <2> QED
      BY <1>2, <2>1, <2>4
  <1>4. \A s \in Known : s \in Int /\ s >= 1 /\ s < nextSequence
    BY <1>1 DEF Known
  <1>5. \A s \in Known : ~Queued(s) <=> s < First
    BY <1>2, <1>3, <1>4, KnownQueuedOrApplied
  <1> QED
    BY <1>1, <1>2, <1>5 DEF Known, ForgottenEdits

\* Every step of the system is a step of the log, or changes nothing in it.
LEMMA StepImplements ==
    ASSUME IInv, IInv', [Next]_vars
    PROVE  [Log!Next]_(Log!vars)
  <1> USE QueueAssumption
  <1>1. /\ queue \in Seq(Operations) /\ nextSequence \in 1..(MaxSequence + 1)
        /\ record \in [Ids -> {"none", "pending", "failed", "applied"}]
    BY DEF IInv, TypeOK
  <1>3. PICK next : /\ First \in Nat \ {0} /\ next \in Nat \ {0}
                    /\ First <= next /\ First' = next
    BY HistoryGrows
  <1>2. ForgottenEdits = 1..(First - 1) /\ ForgottenEdits' = 1..(next - 1)
    <2>1. (ForgottenEdits = 1..(First - 1))'
      BY ForgottenIsPrefix, PTL
    <2> QED
      BY <1>3, <2>1, ForgottenIsPrefix
  <1>4. ASSUME UNCHANGED <<queue, nextSequence, record>>
        PROVE  UNCHANGED Log!vars
    BY <1>4 DEF Log!vars, Known, Queued
  <1>5. ASSUME UNCHANGED <<queue, nextSequence>>
        PROVE  [Log!Next]_(Log!vars)
    <2>1. Known' = Known /\ ForgottenEdits' = ForgottenEdits
      BY <1>5 DEF Known, ForgottenEdits, Queued
    <2>2. CASE record' = record
      BY <1>4, <1>5, <2>2
    <2>3. ASSUME NEW status, stage \notin {"idle", "respond"},
                 record[Current.seq] # "applied",
                 record' = [record EXCEPT ![Current.seq] = status]
          PROVE  [Log!Next]_(Log!vars)
      <3>1. Current.seq \in Known /\ Current.seq \in Ids
        BY <1>1, <2>3, CurrentNext DEF Known, Ids
      <3>2. CASE status = "applied"
        <4>1. AppliedEdits' = AppliedEdits \cup {Current.seq}
          BY <1>1, <2>3, <3>1, <3>2 DEF AppliedEdits
        <4>2. Log!Follows(Current.seq, AppliedEdits)
          <5>1. Current.seq \in Nat \ {0} /\ Current.seq \notin AppliedEdits
            BY <2>3, <3>1 DEF Ids, AppliedEdits
          <5>2. \A f \in 1..(Current.seq - 1) : f \in Ids /\ f < Current.seq
            BY <3>1 DEF Ids
          <5>3. \A f \in 1..(Current.seq - 1) : f \in AppliedEdits
            BY <2>3, <5>2, CurrentNext DEF AppliedEdits
          <5> QED
            BY <5>1, <5>3 DEF Log!Follows
        <4>3. Log!Apply
          BY <2>1, <3>1, <4>1, <4>2 DEF Log!Apply, AppliedEdits, ForgottenEdits
        <4> QED
          BY <4>3 DEF Log!Next
      <3>3. CASE status # "applied"
        <4>1. AppliedEdits' = AppliedEdits
          BY <1>1, <2>3, <3>1, <3>3 DEF AppliedEdits
        <4> QED
          BY <2>1, <4>1 DEF Log!vars, AppliedEdits, ForgottenEdits
      <3> QED
        BY <3>2, <3>3
    <2> QED
      BY <2>2, <2>3, RecordChanges
  <1>6. ASSUME NEW kind \in Kinds, NEW ref \in 0..MaxSequence, Enqueue(kind, ref)
        PROVE  [Log!Next]_(Log!vars)
    <2>1. PICK operation : queue' = Append(queue, operation)
      BY <1>6 DEF Enqueue
    <2>2. nextSequence' = nextSequence + 1 /\ record' = record
      BY <1>6 DEF Enqueue, database
    <2>3. Len(queue') = Len(queue) + 1 /\ Len(queue) \in Nat
      BY <1>1, <2>1
    <2>4. First' = First
      BY <1>1, <2>2, <2>3 DEF First
    <2>5. ForgottenEdits' = ForgottenEdits /\ AppliedEdits' = AppliedEdits
      BY <1>2, <1>3, <2>2, <2>4 DEF AppliedEdits
    <2>6. Known' = Known \cup {nextSequence}
      BY <1>1, <2>2 DEF Known
    <2>7. Log!Follows(nextSequence, Known)
      BY <1>1 DEF Log!Follows, Known
    <2>8. nextSequence \in Known'
      BY <2>6
    <2>9. Log!Make
      BY <2>5, <2>6, <2>7, <2>8 DEF Log!Make, AppliedEdits, ForgottenEdits
    <2> QED
      BY <2>9 DEF Log!Next
  <1>7. ASSUME PollAnswer
        PROVE  [Log!Next]_(Log!vars)
    <2>1. nextSequence' = nextSequence /\ record' = record
      BY <1>7 DEF PollAnswer, EndBatch, database
    <2>2. Known' = Known /\ AppliedEdits' = AppliedEdits
      BY <2>1 DEF Known, AppliedEdits
    <2>3. ForgottenEdits \subseteq ForgottenEdits'
      <3>1. \A e \in 1..(First - 1) : e \in 1..(next - 1)
        BY <1>3
      <3> QED
        BY <1>2, <3>1
    <2>4. ForgottenEdits' \subseteq AppliedEdits
      <3>1. \A s \in Known : s < next => record'[s] = "applied"
        <4>1. RemovedApplied'
          BY DEF IInv
        <4>2. \A s \in Known : s \in Ids
          BY <1>1 DEF Known, Ids
        <4> QED
          BY <1>3, <4>1, <4>2 DEF RemovedApplied, Ids
      <3>2. ForgottenEdits' \subseteq Known
        BY <2>2 DEF ForgottenEdits
      <3> QED
        BY <1>1, <1>2, <1>3, <2>1, <3>1, <3>2 DEF Known, Ids, AppliedEdits
    <2>5. \A e \in ForgottenEdits', f \in Known : f < e => f \in ForgottenEdits'
      BY <1>1, <1>2, <1>3 DEF Known
    <2>6. Log!Forget
      BY <2>2, <2>3, <2>4, <2>5 DEF Log!Forget, AppliedEdits, ForgottenEdits
    <2> QED
      BY <2>6 DEF Log!Next
  <1>8. ASSUME Device
        PROVE  [Log!Next]_(Log!vars)
    BY <1>4, <1>6, <1>7, <1>8, DeviceFrame, DeviceQueueFrame
  <1> QED
    BY <1>5, <1>8, ServerFrame DEF Next

\* The device, the network with its losses, and the server with its crashes
\* together keep the promise of EditLog.
THEOREM Implements == Spec => ImplementsEditLog
  <1>1. Init => Log!Init
    <2> SUFFICES ASSUME Init PROVE Log!Init
      OBVIOUS
    <2>1. Known = {}
      BY DEF Init, Known
    <2>2. {s \in Ids : record[s] = "applied"} = {}
      BY DEF Init
    <2> QED
      BY <2>1, <2>2 DEF Log!Init
  <1>2. IInv /\ IInv' /\ [Next]_vars => [Log!Next]_(Log!vars)
    BY StepImplements
  <1> QED
    BY <1>1, <1>2, InductiveInvariant, PTL DEF Spec, ImplementsEditLog, Log!Spec

-----------------------------------------------------------------------------
(* Playlists made offline *)

\* Edit d deletes the playlist of creation s; the server has begun to do it.
Removes(d, s) == submitted[d].kind = "delete" /\ submitted[d].ref = s
Begun(s) == \E d \in Known : Removes(d, s) /\ record[d] # "none"

\* The server has no row for an edit that is not made yet.
Unstarted == \A s \in Ids : s >= nextSequence => record[s] = "none"

\* An edit names an earlier creation that no edit before it deletes.
WellReferenced ==
    \A i \in Known :
        LET s == submitted[i].ref
        IN  /\ submitted[i].kind = "create" => s = 0
            /\ s # 0 => /\ s < i /\ submitted[s].kind = "create"
                        /\ \A d \in 1..(i - 1) : ~Removes(d, s)

\* What the server recorded of a creation is what its alias says, and exists,
\* as long as it has not begun to delete it.
Resolved ==
    \A s \in Known :
        submitted[s].kind = "create" /\ record[s] = "applied" /\ ~Begun(s) =>
            /\ serverAliases[s] = recorded[s]
            /\ ExternalDeletes \/ <<s, recorded[s]>> \in live

\* Between Jellyfin's answer and the record, the playlist made is at hand.
InHand ==
    /\ stage = "alias" => Current.kind \in {"create", "delete"}
    /\ stage \in {"alias", "save"} /\ Current.kind = "create" =>
           /\ ExternalDeletes \/ <<Current.seq, made>> \in live
           /\ stage = "save" => serverAliases[Current.seq] = made

\* An answer names the playlist on record.
Original(answer) ==
    \A i \in 1..Len(answer) :
        answer[i].status = "applied" => answer[i].playlist = recorded[answer[i].seq]

\* The device's alias is what the server recorded, until the device itself has
\* seen the deletion through.
LocalAliases ==
    \A s \in Ids : aliases[s] # 0 =>
        /\ s < First /\ submitted[s].kind = "create" /\ aliases[s] = recorded[s]
        /\ \A d \in 1..(First - 1) : ~Removes(d, s)

Addressed == /\ Unstarted
             /\ WellReferenced
             /\ Resolved
             /\ InHand
             /\ Original(results)
             /\ Original(response.results)
             /\ LocalAliases

\* A row, once inserted, stays, and only saving a result makes it "applied".
LEMMA RowsStay ==
    ASSUME IInv, [Next]_vars, NEW s \in Ids
    PROVE  /\ record[s] # "none" => record'[s] # "none"
           /\ record[s] # "applied" /\ record'[s] = "applied" =>
                  SaveApplied /\ s = Current.seq
           /\ record[s] = "failed" /\ ~SaveApplied => record'[s] = "failed"
           /\ record[s] = "none" /\ record'[s] # "none" => s \in Known
  <1> USE DEF database
  <1>1. record \in [Ids -> {"none", "pending", "failed", "applied"}]
    BY DEF IInv, TypeOK
  <1>2. ASSUME record' = record
        PROVE  /\ record[s] # "none" => record'[s] # "none"
               /\ ~(record[s] # "applied" /\ record'[s] = "applied")
               /\ record[s] = "failed" => record'[s] = "failed"
               /\ ~(record[s] = "none" /\ record'[s] # "none")
    BY <1>2
  <1>3. ASSUME NEW r \in Requests, AcquireLock(r) \/ LoseRequest(r)
        PROVE  record' = record
    BY <1>3 DEF AcquireLock, LoseRequest
  <1>4. CASE Call \/ CallUnconfirmed \/ CallFails \/ CallMissing \/ CallRejected
    BY <1>2, <1>4 DEF Call, CallUnconfirmed, CallFails, CallMissing, CallRejected
  <1>5. CASE Replay \/ SaveAlias \/ Respond \/ ServerCrash
    BY <1>2, <1>5 DEF Replay, SaveAlias, Respond, ServerCrash
  <1>6. CASE Prepare
    <2>1. /\ stage = "prepare" /\ record[Current.seq] # "applied"
          /\ record' = [record EXCEPT ![Current.seq] = IF @ = "none" THEN "pending" ELSE @]
      BY <1>6 DEF Prepare
    <2>2. Current.seq \in Known
      BY <2>1, CurrentNext DEF Known
    <2>3. CASE s = Current.seq
      BY <1>1, <2>1, <2>2, <2>3
    <2>4. CASE s # Current.seq
      BY <1>1, <2>1, <2>4
    <2> QED
      BY <2>3, <2>4
  <1>7. CASE SaveApplied \/ SaveFailed
    <2>1. /\ stage \in {"save", "reject", "retry"}
          /\ \E status \in {"applied", "failed"} :
                record' = [record EXCEPT ![Current.seq] = status]
                /\ (status = "applied" => SaveApplied)
      BY <1>7 DEF SaveApplied, SaveFailed
    <2>2. Current.seq \in Known
      BY <2>1, CurrentNext DEF Known
    <2> QED
      BY <1>1, <1>7, <2>1, <2>2
  <1> QED
    BY <1>2, <1>3, <1>4, <1>5, <1>6, <1>7, DeviceFrame DEF Next, Server, Handle

LEMMA UnstartedStep ==
    ASSUME IInv, Unstarted, [Next]_vars
    PROVE  Unstarted'
  <1>1. nextSequence \in Nat /\ nextSequence' \in Nat /\ nextSequence <= nextSequence'
    BY HistoryGrows
  <1>2. ASSUME NEW s \in Ids, s >= nextSequence'
        PROVE  record'[s] = "none"
    <2>1. s \in Nat /\ s >= nextSequence /\ s \notin Known
      BY <1>1, <1>2 DEF Ids, Known
    <2>2. record[s] = "none"
      BY <2>1 DEF Unstarted
    <2> QED
      BY <2>1, <2>2, RowsStay
  <1> QED
    BY <1>2 DEF Unstarted

\* Only saving an alias changes the aliases.
LEMMA AliasFrame ==
    ASSUME [Next]_vars, ~SaveAlias
    PROVE  serverAliases' = serverAliases
  <1> USE DEF database
  <1>1. ASSUME NEW r \in Requests, AcquireLock(r) \/ LoseRequest(r) \/ StartFlush(r)
        PROVE  serverAliases' = serverAliases
    BY <1>1 DEF AcquireLock, LoseRequest, StartFlush
  <1>2. ASSUME NEW kind \in Kinds, NEW ref \in 0..MaxSequence, Enqueue(kind, ref)
        PROVE  serverAliases' = serverAliases
    BY <1>2 DEF Enqueue
  <1>3. CASE Expire \/ GiveUp \/ PollAnswer \/ PollUnsaved \/ Reboot
    BY <1>3 DEF Expire, GiveUp, NoAnswer, PollAnswer, PollUnsaved, EndBatch, Reboot
  <1>4. CASE Call \/ CallUnconfirmed \/ CallFails \/ CallMissing \/ CallRejected
    BY <1>4 DEF Call, CallUnconfirmed, CallFails, CallMissing, CallRejected
  <1>5. CASE Replay \/ Prepare \/ SaveApplied \/ SaveFailed \/ Respond
    BY <1>5 DEF Replay, Prepare, SaveApplied, SaveFailed, Respond
  <1>6. CASE ServerCrash \/ ExternalDelete \/ UNCHANGED vars
    BY <1>6 DEF ServerCrash, ExternalDelete, vars
  <1> QED
    BY <1>1, <1>2, <1>3, <1>4, <1>5, <1>6 DEF Next, Device, Server, Handle

\* Besides a call, only other clients change Jellyfin.
LEMMA JellyfinFrame ==
    ASSUME [Next]_vars, ~Call, ~CallUnconfirmed
    PROVE  /\ made' = made
           /\ live' = live \/ (ExternalDeletes /\ live' \subseteq live)
  <1> USE DEF worker
  <1>1. ASSUME NEW r \in Requests, AcquireLock(r) \/ LoseRequest(r) \/ StartFlush(r)
        PROVE  made' = made /\ live' = live
    BY <1>1 DEF AcquireLock, LoseRequest, StartFlush
  <1>2. ASSUME NEW kind \in Kinds, NEW ref \in 0..MaxSequence, Enqueue(kind, ref)
        PROVE  made' = made /\ live' = live
    BY <1>2 DEF Enqueue
  <1>3. CASE Expire \/ GiveUp \/ PollAnswer \/ PollUnsaved \/ Reboot
    BY <1>3 DEF Expire, GiveUp, NoAnswer, PollAnswer, PollUnsaved, EndBatch, Reboot
  <1>4. CASE CallFails \/ CallMissing \/ CallRejected
    BY <1>4 DEF CallFails, CallMissing, CallRejected
  <1>5. CASE Replay \/ Prepare \/ SaveAlias \/ SaveApplied \/ SaveFailed \/ Respond
    BY <1>5 DEF Replay, Prepare, SaveAlias, SaveApplied, SaveFailed, Respond
  <1>6. CASE ServerCrash \/ UNCHANGED vars
    BY <1>6 DEF ServerCrash, vars
  <1>7. CASE ExternalDelete
    BY <1>7 DEF ExternalDelete
  <1> QED
    BY <1>1, <1>2, <1>3, <1>4, <1>5, <1>6, <1>7 DEF Next, Device, Server, Handle

\* Between the call and the record the thread stays with its operation.
LEMMA StageFrame ==
    ASSUME IInv, [Next]_vars, ~Call, ~SaveAlias, stage' \in {"alias", "save"}
    PROVE  stage' = stage /\ Current' = Current
  <1> USE DEF worker
  <1>2. stage # "idle" => running \in Requests /\ inbox[running] # << >>
    BY DEF IInv, TypeOK, WorkerSound
  <1>3. inbox \in [Requests -> Seq(Operations)]
    BY DEF IInv, TypeOK
  <1>4. CASE CallUnconfirmed \/ CallFails \/ CallMissing \/ CallRejected
    BY <1>4 DEF CallUnconfirmed, CallFails, CallMissing, CallRejected
  <1>5. CASE Replay \/ Prepare \/ SaveApplied \/ SaveFailed \/ Respond
    BY <1>5 DEF Replay, Prepare, SaveApplied, Report, SaveFailed, Respond
  <1>6. ASSUME NEW r \in Requests, AcquireLock(r)
        PROVE  FALSE
    BY <1>6 DEF AcquireLock
  <1>7. ASSUME NEW r \in Requests, LoseRequest(r) \/ StartFlush(r)
        PROVE  stage' = stage /\ Current' = Current
    <2>1. UNCHANGED <<stage, running, position>>
      BY <1>7 DEF LoseRequest, StartFlush
    <2>2. inbox'[running] = inbox[running]
      BY <1>2, <1>3, <1>7, <2>1 DEF LoseRequest, StartFlush
    <2> QED
      BY <2>1, <2>2 DEF Current
  <1>8. ASSUME NEW kind \in Kinds, NEW ref \in 0..MaxSequence, Enqueue(kind, ref)
        PROVE  stage' = stage /\ Current' = Current
    BY <1>8 DEF Enqueue, Current
  <1>9. CASE Expire \/ GiveUp \/ PollAnswer \/ PollUnsaved \/ Reboot
    BY <1>9 DEF Expire, GiveUp, NoAnswer, PollAnswer, PollUnsaved, EndBatch, Reboot, Current
  <1>10. CASE ServerCrash
    BY <1>10 DEF ServerCrash
  <1>11. CASE ExternalDelete \/ UNCHANGED vars
    BY <1>11 DEF ExternalDelete, vars, Current
  <1> QED
    BY <1>4, <1>5, <1>6, <1>7, <1>8, <1>9, <1>10, <1>11 DEF Next, Device, Server, Handle

\* A result is added for the current operation, or the results start anew; what
\* reaches the device are the results, nothing new, or nothing at all.
LEMMA AnswerGrows ==
    ASSUME IInv, [Next]_vars
    PROVE  /\ \/ results' \in {results, << >>}
              \/ /\ Current.seq \in Known /\ Current = submitted[Current.seq]
                 /\ \E new : /\ results' = Append(results, new)
                             /\ new.seq = Current.seq
                             /\ \/ /\ new.status = "applied"
                                   /\ new.playlist = recorded'[Current.seq]
                                \/ /\ new.status = "failed"
                                   /\ ~new.retriable => stage = "reject"
           /\ response'.results \in {response.results, results, << >>}
  <1> USE DEF memory, worker, database
  <1>0. recorded \in [Ids -> Nat]
    BY DEF IInv, TypeOK
  <1>1. ASSUME stage \notin {"idle", "respond"}
        PROVE  Current.seq \in Known /\ Current = submitted[Current.seq] /\ Current.seq \in Ids
    BY <1>1, CurrentNext, CurrentTyped DEF Known, IInv
  <1>2. CASE Replay
    <2> DEFINE new == [seq |-> Current.seq, status |-> "applied",
                       retriable |-> FALSE, playlist |-> recorded[Current.seq]]
    <2>1. /\ results' = Append(results, new) /\ stage = "prepare"
          /\ recorded' = recorded /\ response' = response
      BY <1>2 DEF Replay, Report
    <2>2. new.seq = Current.seq /\ new.status = "applied"
          /\ new.playlist = recorded[Current.seq]
      OBVIOUS
    <2> HIDE DEF new
    <2> QED
      BY <1>1, <2>1, <2>2
  <1>3. CASE SaveApplied
    <2> DEFINE new == [seq |-> Current.seq, status |-> "applied",
                       retriable |-> FALSE, playlist |-> made]
    <2>1. /\ results' = Append(results, new) /\ stage = "save"
          /\ recorded' = [recorded EXCEPT ![Current.seq] = made]
          /\ response' = response
      BY <1>3 DEF SaveApplied, Report
    <2>2. new.seq = Current.seq /\ new.status = "applied" /\ new.playlist = made
      OBVIOUS
    <2> HIDE DEF new
    <2>3. recorded'[Current.seq] = made
      BY <1>0, <1>1, <2>1
    <2> QED
      BY <1>1, <2>1, <2>2, <2>3
  <1>4. CASE SaveFailed
    <2> DEFINE new == [seq |-> Current.seq, status |-> "failed",
                       retriable |-> stage = "retry", playlist |-> 0]
    <2>1. /\ results' = Append(results, new) /\ stage \in {"reject", "retry"}
          /\ response' = response
      BY <1>4 DEF SaveFailed
    <2>2. new.seq = Current.seq /\ new.status = "failed"
      OBVIOUS
    <2>3. new.retriable = (stage = "retry")
      OBVIOUS
    <2>4. ~new.retriable => stage = "reject"
      BY <2>1, <2>3
    <2> HIDE DEF new
    <2> QED
      BY <1>1, <2>1, <2>2, <2>4
  <1>5. CASE Respond
    <2>1. results' = results
      BY <1>5 DEF Respond
    <2>2. response' \in {response, [ok |-> TRUE, results |-> results]}
      BY <1>5 DEF Respond
    <2> QED
      BY <2>1, <2>2
  <1>6. CASE Prepare \/ SaveAlias \/ ServerCrash \/ ExternalDelete \/ UNCHANGED vars
    BY <1>6 DEF Prepare, SaveAlias, ServerCrash, ExternalDelete, vars
  <1>7. CASE Call \/ CallUnconfirmed \/ CallFails \/ CallMissing \/ CallRejected
    BY <1>7 DEF Call, CallUnconfirmed, CallFails, CallMissing, CallRejected
  <1>8. ASSUME NEW r \in Requests, AcquireLock(r) \/ LoseRequest(r) \/ StartFlush(r)
        PROVE  results' \in {results, << >>} /\ response' = response
    BY <1>8 DEF AcquireLock, LoseRequest, StartFlush
  <1>9. ASSUME NEW kind \in Kinds, NEW ref \in 0..MaxSequence, Enqueue(kind, ref)
        PROVE  results' = results /\ response' = response
    BY <1>9 DEF Enqueue
  <1>10. CASE Expire \/ GiveUp \/ PollAnswer \/ PollUnsaved \/ Reboot
    BY <1>10 DEF Expire, GiveUp, NoAnswer, PollAnswer, PollUnsaved, EndBatch, Reboot, NoResponse
  <1> QED
    BY <1>2, <1>3, <1>4, <1>5, <1>6, <1>7, <1>8, <1>9, <1>10
       DEF Next, Device, Server, Handle

LEMMA ReferencesStep ==
    ASSUME IInv, WellReferenced, [Next]_vars
    PROVE  WellReferenced'
  <1>1. /\ queue \in Seq(Operations) /\ submitted \in Seq(Operations)
        /\ nextSequence \in Nat /\ Len(submitted) = nextSequence - 1
    BY QueueAssumption DEF IInv, TypeOK, QueueIsTail
  <1>2. CASE UNCHANGED <<queue, nextSequence, submitted>>
    BY <1>2 DEF WellReferenced, Known, Removes
  <1>3. CASE PollAnswer
    <2>1. nextSequence' = nextSequence /\ submitted' = submitted
      BY <1>3, PollRemoves
    <2> QED
      BY <2>1 DEF WellReferenced, Known, Removes
  <1>4. ASSUME NEW kind \in Kinds, NEW ref \in 0..MaxSequence, Enqueue(kind, ref)
        PROVE  WellReferenced'
    <2> DEFINE operation == [seq |-> nextSequence, kind |-> kind, ref |-> ref]
    <2>1. /\ submitted' = Append(submitted, operation)
          /\ nextSequence' = nextSequence + 1
          /\ IF kind \in {"create", "favorite"} THEN ref = 0 ELSE ref \in Offered
      BY <1>4 DEF Enqueue
    <2>2. operation.kind = kind /\ operation.ref = ref
      OBVIOUS
    <2> HIDE DEF operation
    <2>3. submitted'[nextSequence] = operation
      BY <1>1, <2>1
    <2>4. \A s \in Known : submitted'[s] = submitted[s]
      BY HistoryGrows DEF Known
    <2>5. Known' = Known \cup {nextSequence} /\ \A s \in Known : s \in Nat /\ s < nextSequence
      BY <1>1, <2>1 DEF Known
    <2>6. ASSUME NEW i \in Known
          PROVE  LET s == submitted'[i].ref
                 IN  /\ submitted'[i].kind = "create" => s = 0
                     /\ s # 0 => /\ s < i /\ submitted'[s].kind = "create"
                                 /\ \A d \in 1..(i - 1) :
                                       ~(submitted'[d].kind = "delete" /\ submitted'[d].ref = s)
      <3>1. submitted[i].ref \in Nat /\ i \in Nat /\ i < nextSequence
        <4>1. i \in 1..Len(submitted)
          BY <1>1 DEF Known
        <4>2. submitted[i] \in Operations
          BY <1>1, <4>1
        <4> QED
          BY <2>5, <4>2, QueueAssumption DEF Operations
      <3>2. submitted[i].ref # 0 /\ submitted[i].ref < i => submitted[i].ref \in Known
        BY <1>1, <3>1 DEF Known
      <3>3. \A d \in 1..(i - 1) : d \in Known
        BY <1>1, <3>1 DEF Known
      <3> QED
        BY <2>4, <3>2, <3>3 DEF WellReferenced, Removes
    <2>7. ASSUME ref # 0
          PROVE  /\ ref < nextSequence /\ submitted'[ref].kind = "create"
                 /\ \A d \in 1..(nextSequence - 1) :
                       ~(submitted'[d].kind = "delete" /\ submitted'[d].ref = ref)
      <3>1. ref \in Known
        BY <1>1, <2>1, <2>7 DEF Offered, Known
      <3>2. /\ submitted[ref].kind = "create"
            /\ \A d \in Known : ~(submitted[d].kind = "delete" /\ submitted[d].ref = ref)
        BY <1>1, <2>1, <2>7 DEF Offered, Known
      <3> QED
        BY <2>4, <2>5, <3>1, <3>2 DEF Known
    <2>8. kind = "create" => ref = 0
      BY <2>1
    <2> QED
      BY <2>2, <2>3, <2>5, <2>6, <2>7, <2>8 DEF WellReferenced, Removes
  <1> QED
    BY <1>2, <1>3, <1>4, ServerFrame, DeviceQueueFrame DEF Next

\* What the server has begun to delete it has begun for good.
LEMMA BegunStays ==
    ASSUME IInv, [Next]_vars, NEW s \in Known, Begun(s)
    PROVE  \E d \in Known' : /\ submitted'[d].kind = "delete" /\ submitted'[d].ref = s
                             /\ record'[d] # "none"
  <1>1. PICK d \in Known : Removes(d, s) /\ record[d] # "none"
    BY DEF Begun
  <1>2. nextSequence \in 1..(MaxSequence + 1)
    BY DEF IInv, TypeOK
  <1>3. d \in Ids
    BY <1>2, QueueAssumption DEF Known, Ids
  <1>4. d \in Known' /\ submitted'[d] = submitted[d]
    BY HistoryGrows DEF Known
  <1>5. record'[d] # "none"
    BY <1>1, <1>3, RowsStay
  <1> QED
    BY <1>1, <1>4, <1>5 DEF Removes

\* Where the call goes, and what it does to the playlists.
LEMMA CallEffect ==
    ASSUME IInv, Call \/ CallUnconfirmed
    PROVE  /\ Current.seq \in Known /\ Current = submitted[Current.seq]
           /\ record[Current.seq] # "none" /\ record[Current.seq] # "applied"
           /\ Current.kind = "create" =>
                  /\ live' = live \cup {<<Current.seq, made'>>}
           /\ Current.kind = "delete" => live' = live \ {Target}
           /\ Current.kind \notin {"create", "delete"} => live' = live
  <1>1. stage = "call" /\ Effect
    BY DEF Call, CallUnconfirmed
  <1>2. Current.seq \in Known /\ Current = submitted[Current.seq]
    BY <1>1, CurrentNext DEF Known
  <1>3. record[Current.seq] # "none" /\ record[Current.seq] # "applied"
    BY <1>1 DEF IInv, WorkerSound
  <1>4. CASE Current.kind = "create"
    BY <1>1, <1>2, <1>3, <1>4 DEF Effect
  <1>5. CASE Current.kind = "delete"
    BY <1>1, <1>2, <1>3, <1>5 DEF Effect
  <1>6. CASE Current.kind \notin {"create", "delete"}
    BY <1>1, <1>2, <1>3, <1>6 DEF Effect
  <1> QED
    BY <1>4, <1>5, <1>6

LEMMA ResolvedStep ==
    ASSUME IInv, Unstarted, Resolved, InHand, [Next]_vars
    PROVE  Resolved'
  <1>1. /\ nextSequence \in 1..(MaxSequence + 1)
        /\ serverAliases \in [Ids -> Nat] /\ recorded \in [Ids -> Nat]
    BY DEF IInv, TypeOK
  <1>0. PICK next \in 1..(MaxSequence + 1) : nextSequence' = next
    BY TypeStep DEF TypeOK
  <1>2. SUFFICES ASSUME NEW s \in 1..(next - 1), submitted'[s].kind = "create",
                        record'[s] = "applied",
                        ~\E d \in Known' : /\ submitted'[d].kind = "delete"
                                           /\ submitted'[d].ref = s
                                           /\ record'[d] # "none"
                 PROVE  /\ serverAliases'[s] = recorded'[s]
                        /\ ExternalDeletes \/ <<s, recorded'[s]>> \in live'
    BY <1>0 DEF Resolved, Begun, Removes, Known
  <1>3. s \in Ids
    BY QueueAssumption DEF Ids
  <1>4. s \in Known
    <2>1. s \in Nat /\ s >= 1 /\ (s >= nextSequence => record[s] = "none")
      BY <1>3 DEF Unstarted, Ids
    <2> QED
      BY <1>1, <1>2, <1>3, <2>1, RowsStay DEF Known
  <1>5. submitted[s] = submitted'[s] /\ ~Begun(s)
    BY <1>2, <1>4, BegunStays, HistoryGrows DEF Known
  <1>6. CASE record[s] = "applied"
    <2>1. serverAliases[s] = recorded[s] /\ recorded'[s] = recorded[s]
      BY <1>2, <1>3, <1>4, <1>5, <1>6, EffectsChange DEF Resolved
    <2>2. ExternalDeletes \/ <<s, recorded[s]>> \in live
      BY <1>2, <1>4, <1>5, <1>6 DEF Resolved
    <2>3. ASSUME stage \in {"call", "alias"}
          PROVE  Current.seq # s /\ (Current.kind = "delete" => Current.ref # s)
      <3>1. Current.seq \in Known /\ Current = submitted[Current.seq]
        BY <2>3, CurrentNext DEF Known
      <3>2. record[Current.seq] # "none" /\ record[Current.seq] # "applied"
        BY <2>3 DEF IInv, WorkerSound
      <3> QED
        BY <1>5, <1>6, <3>1, <3>2 DEF Begun, Removes
    <2>4. serverAliases'[s] = serverAliases[s]
      <3>1. CASE SaveAlias
        <4>1. /\ stage = "alias"
              /\ serverAliases' =
                    IF Current.kind = "create"
                    THEN [serverAliases EXCEPT ![Current.seq] = made]
                    ELSE [t \in Ids |-> IF t = Current.ref THEN 0 ELSE serverAliases[t]]
          BY <3>1 DEF SaveAlias
        <4>2. CASE Current.kind = "create"
          BY <1>1, <1>3, <2>3, <4>1, <4>2
        <4>3. CASE Current.kind = "delete"
          BY <1>3, <2>3, <4>1, <4>3
        <4>4. Current.kind \in {"create", "delete"}
          BY <4>1 DEF InHand
        <4> QED
          BY <4>2, <4>3, <4>4
      <3> QED
        BY <3>1, AliasFrame
    <2>5. ExternalDeletes \/ <<s, recorded[s]>> \in live'
      <3>1. CASE Call \/ CallUnconfirmed
        <4>1. stage = "call"
          BY <3>1 DEF Call, CallUnconfirmed
        <4>2. Current.kind = "delete" => Target # <<s, recorded[s]>>
          BY <2>3, <4>1 DEF Target
        <4> QED
          BY <2>2, <3>1, <4>2, CallEffect
      <3> QED
        BY <2>2, <3>1, JellyfinFrame
    <2> QED
      BY <2>1, <2>4, <2>5
  <1>7. CASE record[s] # "applied"
    <2>1. SaveApplied /\ s = Current.seq
      BY <1>2, <1>3, <1>7, RowsStay
    <2>2. stage = "save" /\ recorded' = [recorded EXCEPT ![Current.seq] = made]
      BY <2>1 DEF SaveApplied
    <2>3. recorded'[s] = made
      BY <1>1, <1>3, <2>1, <2>2
    <2>4. serverAliases' = serverAliases /\ live' = live
      BY <2>1 DEF SaveApplied
    <2>5. Current.kind = "create"
      BY <1>2, <1>5, <2>1, <2>2, CurrentNext
    <2> QED
      BY <2>1, <2>2, <2>3, <2>4, <2>5 DEF InHand
  <1> QED
    BY <1>6, <1>7

LEMMA InHandStep ==
    ASSUME IInv, InHand, [Next]_vars
    PROVE  InHand'
  <1> USE DEF worker, database
  <1>0. ASSUME stage' = "alias"
        PROVE  Current'.kind \in {"create", "delete"}
    <2>1. CASE Call
      BY <1>0, <2>1 DEF Call, Current
    <2>2. CASE SaveAlias
      BY <1>0, <2>2 DEF SaveAlias
    <2> QED
      BY <1>0, <2>1, <2>2, StageFrame DEF InHand
  <1>1. SUFFICES ASSUME stage' \in {"alias", "save"}, Current'.kind = "create"
                 PROVE  /\ ExternalDeletes \/ <<Current'.seq, made'>> \in live'
                        /\ stage' = "save" => serverAliases'[Current'.seq] = made'
    BY <1>0 DEF InHand
  <1>2. serverAliases \in [Ids -> Nat]
    BY DEF IInv, TypeOK
  <1>3. CASE Call
    <2>1. Current' = Current /\ stage' = "alias"
      BY <1>1, <1>3 DEF Call, Current
    <2>2. live' = live \cup {<<Current.seq, made'>>}
      BY <1>1, <1>3, <2>1, CallEffect
    <2> QED
      BY <2>1, <2>2
  <1>4. CASE SaveAlias
    <2>1. /\ Current' = Current /\ stage = "alias"
          /\ serverAliases' = IF Current.kind = "create"
                              THEN [serverAliases EXCEPT ![Current.seq] = made]
                              ELSE [s \in Ids |-> IF s = Current.ref THEN 0 ELSE serverAliases[s]]
          /\ made' = made /\ live' = live
      BY <1>4 DEF SaveAlias, Current
    <2>2. Current.seq \in Ids
      BY <2>1, CurrentTyped DEF IInv
    <2>3. serverAliases'[Current.seq] = made
      BY <1>1, <1>2, <2>1, <2>2
    <2> QED
      BY <1>1, <2>1, <2>3 DEF InHand
  <1>5. CASE ~Call /\ ~SaveAlias
    <2>1. stage' = stage /\ Current' = Current
      BY <1>1, <1>5, StageFrame
    <2>2. ~CallUnconfirmed
      BY <1>1 DEF CallUnconfirmed
    <2>3. made' = made /\ serverAliases' = serverAliases
          /\ (live' = live \/ (ExternalDeletes /\ live' \subseteq live))
      BY <1>5, <2>2, AliasFrame, JellyfinFrame
    <2> QED
      BY <1>1, <2>1, <2>3 DEF InHand
  <1> QED
    BY <1>3, <1>4, <1>5

\* An answer that named the playlists on record still does.
LEMMA OriginalStays ==
    ASSUME IInv, [Next]_vars, NEW answer \in Seq(Results),
           TrueOf(answer), Original(answer)
    PROVE  \A i \in 1..Len(answer) :
              answer[i].status = "applied" =>
                  answer[i].playlist = recorded'[answer[i].seq]
  <1> SUFFICES ASSUME NEW i \in 1..Len(answer), answer[i].status = "applied"
               PROVE  answer[i].playlist = recorded'[answer[i].seq]
    OBVIOUS
  <1>1. answer[i] \in Results
    OBVIOUS
  <1>2. answer[i].seq \in Ids
    BY <1>1 DEF Results
  <1>3. record[answer[i].seq] = "applied" /\ answer[i].playlist = recorded[answer[i].seq]
    BY DEF TrueOf, Original
  <1> QED
    BY <1>2, <1>3, EffectsChange

LEMMA OriginalStep ==
    ASSUME IInv, Original(results), Original(response.results), [Next]_vars
    PROVE  Original(results)' /\ Original(response.results)'
  <1>1. /\ results \in Seq(Results) /\ response.results \in Seq(Results)
        /\ TrueOf(results) /\ TrueOf(response.results)
    BY DEF IInv, TypeOK, AnswersTrue
  <1> DEFINE Holds(answer) ==
        \A i \in 1..Len(answer) :
            answer[i].status = "applied" =>
                answer[i].playlist = recorded'[answer[i].seq]
  <1>2. Holds(results) /\ Holds(response.results)
    BY <1>1, OriginalStays
  <1>3. Len(<< >>) = 0
    OBVIOUS
  <1>4. Holds(<< >>)
    BY <1>3
  <1>5. Holds(results')
    <2>1. CASE results' \in {results, << >>}
      BY <1>2, <1>4, <2>1
    <2>2. CASE results' \notin {results, << >>}
      <3>1. PICK new : /\ results' = Append(results, new)
                       /\ new.seq = Current.seq
                       /\ new.status = "applied" =>
                             new.playlist = recorded'[Current.seq]
        BY <2>2, AnswerGrows
      <3>2. /\ Len(results') = Len(results) + 1 /\ Len(results) \in Nat
            /\ results'[Len(results) + 1] = new
            /\ \A i \in 1..Len(results) : results'[i] = results[i]
        BY <1>1, <3>1
      <3>3. ASSUME NEW i \in 1..Len(results'), results'[i].status = "applied"
            PROVE  results'[i].playlist = recorded'[results'[i].seq]
        <4>1. CASE i = Len(results) + 1
          BY <3>1, <3>2, <3>3, <4>1
        <4>2. CASE i # Len(results) + 1
          <5>1. i \in 1..Len(results)
            BY <3>2, <3>3, <4>2
          <5> QED
            BY <1>2, <3>2, <3>3, <5>1
        <4> QED
          BY <4>1, <4>2
      <3> QED
        BY <3>3
    <2> QED
      BY <2>1, <2>2
  <1>6. Holds(response'.results)
    <2>1. response'.results \in {response.results, results, << >>}
      BY AnswerGrows
    <2> QED
      BY <1>2, <1>4, <2>1
  <1> QED
    BY <1>5, <1>6 DEF Original

\* A poll removes answered operations only, and their answers name the ids.
LEMMA PollAliases ==
    ASSUME IInv, PollAnswer
    PROVE  \/ queue' = queue /\ aliases' = aliases
           \/ \E n \in 0..Len(queue) :
                 /\ \A i \in 1..n : Applied(i)
                 /\ ~Applied(n + 1)
                 /\ queue' = SubSeq(queue, n + 1, Len(queue))
                 /\ aliases' = AliasesAfter(n)
                 /\ failure' =
                       IF Answers(n + 1)
                       THEN IF response.results[n + 1].retriable
                            THEN "retriable" ELSE "final"
                       ELSE IF n > 0 THEN "none" ELSE failure
  <1>1. CASE response.ok
    BY <1>1 DEF PollAnswer, ApplyResults
  <1>2. CASE ~response.ok
    BY <1>2 DEF PollAnswer, MarkFailure
  <1> QED
    BY <1>1, <1>2

\* Besides an answer, nothing changes the device's aliases, nor what it removed.
LEMMA DeviceAliasFrame ==
    ASSUME IInv, [Next]_vars, ~PollAnswer
    PROVE  aliases' = aliases /\ First' = First
  <1> USE DEF flash
  <1>1. ASSUME NEW r \in Requests, AcquireLock(r) \/ LoseRequest(r) \/ StartFlush(r)
        PROVE  aliases' = aliases
    BY <1>1 DEF AcquireLock, LoseRequest, StartFlush
  <1>2. ASSUME NEW kind \in Kinds, NEW ref \in 0..MaxSequence, Enqueue(kind, ref)
        PROVE  aliases' = aliases /\ First' = First
    <2>1. PICK operation : /\ queue' = Append(queue, operation)
                           /\ nextSequence' = nextSequence + 1
                           /\ aliases' = aliases
      BY <1>2 DEF Enqueue
    <2>2. queue \in Seq(Operations) /\ nextSequence \in Nat
      BY QueueAssumption DEF IInv, TypeOK
    <2>3. Len(queue') = Len(queue) + 1 /\ Len(queue) \in Nat
      BY <2>1, <2>2
    <2> QED
      BY <2>1, <2>2, <2>3 DEF First
  <1>3. ASSUME Expire \/ GiveUp \/ PollUnsaved \/ Reboot
        PROVE  aliases' = aliases
    BY <1>3 DEF Expire, GiveUp, NoAnswer, PollUnsaved, EndBatch, Reboot
  <1>4. ASSUME Call \/ CallUnconfirmed \/ CallFails \/ CallMissing \/ CallRejected
        PROVE  aliases' = aliases
    BY <1>4 DEF Call, CallUnconfirmed, CallFails, CallMissing, CallRejected
  <1>5. ASSUME Replay \/ Prepare \/ SaveAlias \/ SaveApplied \/ SaveFailed \/ Respond
        PROVE  aliases' = aliases
    BY <1>5 DEF Replay, Prepare, SaveAlias, SaveApplied, SaveFailed, Respond
  <1>6. ASSUME ServerCrash \/ ExternalDelete \/ UNCHANGED vars
        PROVE  aliases' = aliases
    BY <1>6 DEF ServerCrash, ExternalDelete, vars
  <1>7. UNCHANGED <<queue, nextSequence>> => First' = First
    BY DEF First
  <1> QED
    BY <1>1, <1>2, <1>3, <1>4, <1>5, <1>6, <1>7, ServerFrame, DeviceQueueFrame
       DEF Next, Device, Server, Handle

LEMMA LocalAliasesStep ==
    ASSUME IInv, WellReferenced, Original(response.results), LocalAliases, [Next]_vars
    PROVE  LocalAliases'
  <1>1. /\ queue \in Seq(Operations) /\ nextSequence \in 1..(MaxSequence + 1)
        /\ QueueIsTail /\ Len(queue) \in Nat /\ response.results \in Seq(Results)
    BY DEF IInv, TypeOK
  <1>0. PICK next : next \in Nat \ {0} /\ First' = next /\ First <= next
                    /\ First \in Nat \ {0} /\ First + Len(queue) = nextSequence
    BY <1>1, QueueAssumption, HistoryGrows DEF First
  <1>2. \A s \in 1..(nextSequence - 1) : submitted'[s] = submitted[s]
    BY HistoryGrows
  \* An alias that stays is still right.
  <1>3. ASSUME NEW s \in Ids, aliases[s] # 0,
               \A d \in First..(next - 1) : ~Removes(d, s), next <= nextSequence
        PROVE  /\ s < next /\ submitted'[s].kind = "create"
               /\ aliases[s] = recorded'[s]
               /\ \A d \in 1..(next - 1) :
                     ~(submitted'[d].kind = "delete" /\ submitted'[d].ref = s)
    <2>1. /\ s < First /\ submitted[s].kind = "create" /\ aliases[s] = recorded[s]
          /\ \A d \in 1..(First - 1) : ~Removes(d, s)
      BY <1>3 DEF LocalAliases
    <2>2. s \in 1..(nextSequence - 1) /\ s < next
      BY <1>0, <1>1, <2>1 DEF Ids
    <2>3. recorded'[s] = recorded[s]
      BY <2>1, EffectsChange DEF IInv, RemovedApplied
    <2>4. ASSUME NEW d \in 1..(next - 1)
          PROVE  ~(submitted'[d].kind = "delete" /\ submitted'[d].ref = s)
      <3>1. d \in 1..(nextSequence - 1) /\ (d \in 1..(First - 1) \/ d \in First..(next - 1))
        BY <1>0, <1>1, <1>3
      <3>2. ~Removes(d, s)
        BY <1>3, <2>1, <3>1
      <3> QED
        BY <1>2, <3>1, <3>2 DEF Removes
    <2> QED
      BY <1>2, <2>1, <2>2, <2>3, <2>4
  <1>4. CASE ~PollAnswer
    <2>1. aliases' = aliases /\ next = First
      BY <1>0, <1>4, DeviceAliasFrame
    <2>2. next <= nextSequence /\ \A d \in First..(next - 1) : FALSE
      BY <1>0, <1>1, <2>1
    <2> QED
      BY <1>0, <1>3, <2>1, <2>2 DEF LocalAliases, Removes
  <1>5. CASE PollAnswer
    <2>0. nextSequence' = nextSequence /\ recorded' = recorded /\ submitted' = submitted
      BY <1>5 DEF PollAnswer, EndBatch, database, history
    <2>1. CASE queue' = queue /\ aliases' = aliases
      <3>1. next = First
        BY <1>0, <2>0, <2>1 DEF First
      <3>2. next <= nextSequence /\ \A d \in First..(next - 1) : FALSE
        BY <1>0, <1>1, <3>1
      <3> QED
        BY <1>0, <1>3, <2>1, <3>2 DEF LocalAliases, Removes
    <2>2. ASSUME NEW n \in 0..Len(queue), \A i \in 1..n : Applied(i),
                 queue' = SubSeq(queue, n + 1, Len(queue)),
                 aliases' = AliasesAfter(n)
          PROVE  LocalAliases'
      <3>1. next = First + n /\ next <= nextSequence
        <4>1. Len(queue') = Len(queue) - n
          BY <1>1, <2>2
        <4> QED
          BY <1>0, <1>1, <2>0, <2>2, <4>1 DEF First
      <3>2. \A d \in First..(next - 1) : /\ d - First + 1 \in 1..n
                                         /\ queue[d - First + 1] = submitted[d]
        <4> TAKE d \in First..(next - 1)
        <4>1. d - First + 1 \in 1..n /\ d - First + 1 \in 1..Len(queue)
          BY <1>0, <1>1, <2>2, <3>1
        <4>2. queue[d - First + 1] = submitted[First + (d - First + 1) - 1]
          BY <1>1, <4>1 DEF QueueIsTail
        <4>3. First + (d - First + 1) - 1 = d
          BY <1>0
        <4> QED
          BY <4>1, <4>2, <4>3
      <3>3. ASSUME NEW s \in Ids, aliases'[s] # 0
            PROVE  /\ s < next /\ submitted[s].kind = "create"
                   /\ aliases'[s] = recorded[s]
                   /\ \A d \in 1..(next - 1) : ~Removes(d, s)
        <4> DEFINE creates(i) == queue[i].kind = "create" /\ queue[i].seq = s
                   deletes(i) == queue[i].kind = "delete" /\ queue[i].ref = s
                   created == CHOOSE i \in 1..n : creates(i)
        <4>1. aliases'[s] =
                 IF \E i \in 1..n : deletes(i) THEN 0
                 ELSE IF \E i \in 1..n : creates(i)
                      THEN response.results[created].playlist
                      ELSE aliases[s]
          BY <2>2 DEF AliasesAfter
        <4>2. \A i \in 1..n : ~deletes(i)
          BY <3>3, <4>1
        <4>3. \A d \in First..(next - 1) : ~Removes(d, s)
          BY <3>2, <4>2 DEF Removes
        <4>4. CASE ~\E i \in 1..n : creates(i)
          <5>1. aliases'[s] = aliases[s]
            BY <4>1, <4>2, <4>4
          <5>2. \A d \in 1..(next - 1) : submitted'[d] = submitted[d]
            BY <2>0
          <5> QED
            BY <1>3, <2>0, <3>1, <3>3, <4>3, <5>1, <5>2 DEF Removes
        <4>5. CASE \E i \in 1..n : creates(i)
          <5>1. created \in 1..n /\ creates(created)
            BY <4>5
          <5>2. aliases'[s] = response.results[created].playlist
            BY <4>1, <4>2, <4>5
          <5> HIDE DEF created
          <5>3. created \in 1..Len(queue) /\ created \in Nat /\ Applied(created)
            BY <1>1, <2>2, <5>1
          <5>4. queue[created] = submitted[First + created - 1]
            BY <1>1, <5>3 DEF QueueIsTail
          <5>5. First + created - 1 \in 1..(nextSequence - 1)
            BY <1>0, <1>1, <5>3
          <5>6. submitted[First + created - 1].seq = First + created - 1
            BY <1>1, <5>5 DEF QueueIsTail
          <5>7. s = First + created - 1
            BY <5>1, <5>4, <5>6
          <5>8. /\ created \in 1..Len(response.results)
                /\ response.results[created].seq = s
                /\ response.results[created].status = "applied"
            BY <1>1, <5>1, <5>3 DEF Applied, Answers
          <5>9. response.results[created].playlist = recorded[s]
            BY <5>8 DEF Original
          <5>10. s < next /\ submitted[s].kind = "create"
            BY <1>0, <2>2, <3>1, <5>1, <5>3, <5>4, <5>7
          <5>11. ASSUME NEW d \in 1..(next - 1), Removes(d, s)
                 PROVE  FALSE
            <6>1. d \in Known /\ submitted[d].ref = s /\ s # 0
              BY <1>0, <1>1, <3>1, <5>11 DEF Known, Removes, Ids
            <6>2. s < d
              BY <6>1 DEF WellReferenced
            <6>3. d \in First..(next - 1)
              BY <1>0, <5>3, <5>7, <5>11, <6>2
            <6> QED
              BY <4>3, <5>11, <6>3
          <5> QED
            BY <5>2, <5>9, <5>10, <5>11
        <4> QED
          BY <4>4, <4>5
      <3> QED
        BY <1>0, <2>0, <3>3 DEF LocalAliases, Removes
    <2> QED
      BY <1>5, <2>1, <2>2, PollAliases
  <1> QED
    BY <1>4, <1>5

LEMMA InitAddressed == Init => Addressed
  <1> SUFFICES ASSUME Init PROVE Addressed
    OBVIOUS
  <1> USE QueueAssumption DEF Init
  <1>1. Known = {} /\ Len(<< >>) = 0
    BY DEF Known
  <1>2. Unstarted /\ WellReferenced /\ Resolved /\ InHand
    BY <1>1 DEF Unstarted, WellReferenced, Resolved, InHand
  <1>3. results = << >> /\ response.results = << >>
    BY DEF NoResponse
  <1>4. Original(results) /\ Original(response.results)
    BY <1>1, <1>3 DEF Original
  <1>5. LocalAliases
    BY DEF LocalAliases
  <1> QED
    BY <1>2, <1>4, <1>5 DEF Addressed

LEMMA NextAddressed == IInv /\ Addressed /\ [Next]_vars => Addressed'
  BY UnstartedStep, ReferencesStep, ResolvedStep, InHandStep, OriginalStep,
     LocalAliasesStep DEF Addressed

LEMMA AlwaysAddressed == Spec => [](IInv /\ Addressed)
  BY InitAddressed, NextAddressed, InductiveInvariant, PTL DEF Spec

\* While an edit is carried out, nothing behind it has begun.
LEMMA NothingAhead ==
    ASSUME IInv, stage \in {"call", "alias", "save", "reject", "retry"},
           NEW d \in Known, d > Current.seq
    PROVE  record[d] = "none"
  <1>0. nextSequence \in 1..(MaxSequence + 1)
    BY DEF IInv, TypeOK
  <1>1. Current.seq \in Ids /\ d \in Ids
    <2>1. Current.seq \in Ids
      BY CurrentTyped DEF IInv
    <2>2. d \in Ids
      BY <1>0, QueueAssumption DEF Known, Ids
    <2> QED
      BY <2>1, <2>2
  <1>2. record[Current.seq] # "applied"
    BY DEF IInv, WorkerSound
  <1> QED
    BY <1>1, <1>2 DEF IInv, ServerInOrder

\* An edit of a playlist made offline reaches the playlist Jellyfin made of it:
\* no lost answer, crash or repeated creation leaves its alias missing, old or
\* pointing nowhere.
THEOREM EditsFindTheirPlaylist == Spec => []EditFindsItsPlaylist
  <1>1. ASSUME IInv, Addressed
        PROVE  EditFindsItsPlaylist
    <2> DEFINE s == Current.ref
    <2>1. SUFFICES ASSUME stage = "call", Current.kind \in NeedsPlaylist \cup {"remove"},
                          ~ExternalDeletes, s # 0
                   PROVE  <<s, serverAliases[s]>> \in live
      BY DEF EditFindsItsPlaylist, Target
    <2>2. Current.seq \in Known /\ Current = submitted[Current.seq]
      BY <1>1, <2>1, CurrentNext DEF Known
    <2>3. s \in Ids /\ Current.seq \in Ids
      <3>1. Current \in Operations /\ Current.seq \in Ids
        BY <1>1, <2>1, CurrentTyped DEF IInv
      <3>2. Current.ref \in 0..MaxSequence
        BY <3>1 DEF Operations
      <3> QED
        BY <2>1, <3>1, <3>2, QueueAssumption DEF Ids
    <2>4. /\ s < Current.seq /\ submitted[s].kind = "create"
          /\ \A d \in 1..(Current.seq - 1) : ~Removes(d, s)
      BY <1>1, <2>1, <2>2 DEF Addressed, WellReferenced
    <2>5. s \in Known /\ record[s] = "applied"
      <3>1. record[s] = "applied"
        BY <1>1, <2>1, <2>3, <2>4, CurrentNext
      <3>2. nextSequence \in Int
        BY <1>1 DEF IInv, TypeOK
      <3>3. s \in Known
        BY <2>2, <2>3, <2>4, <3>2 DEF Known, Ids
      <3> QED
        BY <3>1, <3>3
    <2>6. ASSUME NEW d \in Known, Removes(d, s), record[d] # "none"
          PROVE  FALSE
      <3>1. d # Current.seq
        BY <2>1, <2>2, <2>6 DEF Removes, NeedsPlaylist
      <3>2. ~(d > Current.seq)
        BY <1>1, <2>1, <2>6, NothingAhead
      <3>3. d \in Nat /\ d >= 1 /\ Current.seq \in Nat
        BY <2>3 DEF Known, Ids
      <3>4. d \in 1..(Current.seq - 1)
        BY <3>1, <3>2, <3>3
      <3> QED
        BY <2>4, <2>6, <3>4
    <2>7. <<s, recorded[s]>> \in live /\ serverAliases[s] = recorded[s]
      BY <1>1, <2>1, <2>4, <2>5, <2>6 DEF Addressed, Resolved, Begun
    <2> QED
      BY <2>7
  <1> QED
    BY <1>1, AlwaysAddressed, PTL

\* The device and the server resolve a playlist made offline to the same one,
\* until the server has begun to delete it and the device has not heard.
THEOREM AliasesAlwaysAgree == Spec => []AliasesAgree
  <1>1. ASSUME IInv, Addressed
        PROVE  AliasesAgree
    <2> SUFFICES ASSUME NEW s \in Ids, aliases[s] # 0, aliases[s] # serverAliases[s]
                 PROVE  \E d \in Known : /\ submitted[d].kind = "delete"
                                         /\ submitted[d].ref = s
                                         /\ record[d] # "none"
                                         /\ Queued(d)
      BY DEF AliasesAgree
    <2>1. /\ s < First /\ submitted[s].kind = "create" /\ aliases[s] = recorded[s]
          /\ \A d \in 1..(First - 1) : ~Removes(d, s)
      BY <1>1 DEF Addressed, LocalAliases
    <2>2. First \in Nat /\ First <= nextSequence /\ nextSequence \in Nat
      BY <1>1, QueueAssumption DEF First, IInv, TypeOK, QueueIsTail
    <2>3. s \in Known /\ record[s] = "applied"
      BY <1>1, <2>1, <2>2 DEF Known, Ids, IInv, RemovedApplied
    <2>4. Begun(s)
      BY <1>1, <2>1, <2>3 DEF Addressed, Resolved
    <2>5. PICK d \in Known : Removes(d, s) /\ record[d] # "none"
      BY <2>4 DEF Begun
    <2>6. d >= First
      BY <2>1, <2>2, <2>5 DEF Known
    <2> QED
      BY <1>1, <2>5, <2>6, KnownQueuedOrApplied DEF Removes
  <1> QED
    BY <1>1, AlwaysAddressed, PTL

-----------------------------------------------------------------------------
(* Edits of a playlist that is gone *)

\* A failure that is not retriable is the answer to a bad edit or to a move.
Rejections(answer) ==
    \A i \in 1..Len(answer) :
        answer[i].status = "failed" /\ ~answer[i].retriable =>
            answer[i].seq \in Known /\ submitted[answer[i].seq].kind \in Rejectable

OnlyRejectable ==
    /\ Rejections(results) /\ Rejections(response.results)
    /\ stage = "reject" => Current.kind \in Rejectable
    /\ failure = "final" => queue # << >> /\ queue[1].kind \in Rejectable

LEMMA RejectionsStep ==
    ASSUME IInv, OnlyRejectable, [Next]_vars
    PROVE  Rejections(results)' /\ Rejections(response.results)'
  <1>1. results \in Seq(Results)
    BY DEF IInv, TypeOK
  <1> DEFINE Bad(s) == s \in Known' /\ submitted'[s].kind \in Rejectable
             Holds(answer) ==
        \A i \in 1..Len(answer) :
            answer[i].status = "failed" /\ ~answer[i].retriable => Bad(answer[i].seq)
  <1>2. \A s \in Known : submitted[s].kind \in Rejectable => Bad(s)
    BY HistoryGrows DEF Known
  <1> HIDE DEF Bad
  <1>3. Holds(results) /\ Holds(response.results)
    BY <1>2 DEF OnlyRejectable, Rejections
  <1>4. Len(<< >>) = 0
    OBVIOUS
  <1>5. Holds(<< >>)
    BY <1>4
  <1>6. Holds(results')
    <2>1. CASE results' \in {results, << >>}
      BY <1>3, <1>5, <2>1
    <2>2. CASE results' \notin {results, << >>}
      <3>1. PICK new : /\ results' = Append(results, new)
                       /\ Current.seq \in Known /\ Current = submitted[Current.seq]
                       /\ new.seq = Current.seq
                       /\ \/ new.status = "applied"
                          \/ new.status = "failed" /\ (~new.retriable => stage = "reject")
        BY <2>2, AnswerGrows
      <3>2. new.status = "failed" /\ ~new.retriable => Bad(new.seq)
        BY <1>2, <3>1 DEF OnlyRejectable
      <3>3. /\ Len(results') = Len(results) + 1 /\ Len(results) \in Nat
            /\ results'[Len(results) + 1] = new
            /\ \A i \in 1..Len(results) : results'[i] = results[i]
        BY <1>1, <3>1
      <3>4. ASSUME NEW i \in 1..Len(results'),
                   results'[i].status = "failed", ~results'[i].retriable
            PROVE  Bad(results'[i].seq)
        <4>1. CASE i = Len(results) + 1
          BY <3>2, <3>3, <3>4, <4>1
        <4>2. CASE i # Len(results) + 1
          <5>1. i \in 1..Len(results)
            BY <3>3, <3>4, <4>2
          <5> QED
            BY <1>3, <3>3, <3>4, <5>1
        <4> QED
          BY <4>1, <4>2
      <3> QED
        BY <3>4
    <2> QED
      BY <2>1, <2>2
  <1>7. Holds(response'.results)
    <2>1. response'.results \in {response.results, results, << >>}
      BY AnswerGrows
    <2> QED
      BY <1>3, <1>5, <2>1
  <1> QED
    BY <1>6, <1>7 DEF Rejections, Bad

\* Only the handlers of those edits reject.
LEMMA RejectStep ==
    ASSUME IInv, OnlyRejectable, [Next]_vars, stage' = "reject"
    PROVE  Current'.kind \in Rejectable
  <1> USE DEF worker
  <1>2. stage # "idle" => running \in Requests /\ inbox[running] # << >>
    BY DEF IInv, TypeOK, WorkerSound
  <1>3. inbox \in [Requests -> Seq(Operations)]
    BY DEF IInv, TypeOK
  <1>4. CASE CallRejected
    BY <1>4 DEF CallRejected, Current
  <1>5. CASE Call \/ CallUnconfirmed \/ CallFails \/ CallMissing
    BY <1>5 DEF Call, CallUnconfirmed, CallFails, CallMissing
  <1>6. CASE Replay \/ Prepare \/ SaveAlias \/ SaveApplied \/ SaveFailed \/ Respond
    BY <1>6 DEF Replay, Prepare, SaveAlias, SaveApplied, Report, SaveFailed, Respond
  <1>7. ASSUME NEW r \in Requests, AcquireLock(r)
        PROVE  FALSE
    BY <1>7 DEF AcquireLock
  <1>8. ASSUME stage' = stage, Current' = Current
        PROVE  Current'.kind \in Rejectable
    BY <1>8 DEF OnlyRejectable
  <1>9. ASSUME NEW r \in Requests, LoseRequest(r) \/ StartFlush(r)
        PROVE  stage' = stage /\ Current' = Current
    <2>1. UNCHANGED <<stage, running, position>>
      BY <1>9 DEF LoseRequest, StartFlush
    <2>2. inbox'[running] = inbox[running]
      BY <1>2, <1>3, <1>9, <2>1 DEF LoseRequest, StartFlush
    <2> QED
      BY <2>1, <2>2 DEF Current
  <1>10. ASSUME NEW kind \in Kinds, NEW ref \in 0..MaxSequence, Enqueue(kind, ref)
         PROVE  stage' = stage /\ Current' = Current
    BY <1>10 DEF Enqueue, Current
  <1>11. ASSUME Expire \/ GiveUp \/ PollAnswer \/ PollUnsaved \/ Reboot
         PROVE  stage' = stage /\ Current' = Current
    BY <1>11 DEF Expire, GiveUp, NoAnswer, PollAnswer, PollUnsaved, EndBatch, Reboot, Current
  <1>12. CASE ServerCrash
    BY <1>12 DEF ServerCrash
  <1>13. ASSUME ExternalDelete \/ UNCHANGED vars
         PROVE  stage' = stage /\ Current' = Current
    BY <1>13 DEF ExternalDelete, vars, Current
  <1> QED
    BY <1>4, <1>5, <1>6, <1>7, <1>8, <1>9, <1>10, <1>11, <1>12, <1>13
       DEF Next, Device, Server, Handle

\* Besides an edit and an answer, nothing touches the queue or its failure.
LEMMA FailureFrame ==
    ASSUME [Next]_vars, ~PollAnswer
    PROVE  /\ failure' = failure
           /\ queue' = queue \/ \E operation : queue' = Append(queue, operation)
  <1> USE DEF flash
  <1>1. ASSUME NEW r \in Requests, AcquireLock(r) \/ LoseRequest(r) \/ StartFlush(r)
        PROVE  failure' = failure /\ queue' = queue
    BY <1>1 DEF AcquireLock, LoseRequest, StartFlush
  <1>2. ASSUME NEW kind \in Kinds, NEW ref \in 0..MaxSequence, Enqueue(kind, ref)
        PROVE  failure' = failure /\ \E operation : queue' = Append(queue, operation)
    BY <1>2 DEF Enqueue
  <1>3. CASE Expire \/ GiveUp \/ PollUnsaved \/ Reboot
    BY <1>3 DEF Expire, GiveUp, NoAnswer, PollUnsaved, EndBatch, Reboot
  <1>4. CASE Call \/ CallUnconfirmed \/ CallFails \/ CallMissing \/ CallRejected
    BY <1>4 DEF Call, CallUnconfirmed, CallFails, CallMissing, CallRejected
  <1>5. CASE Replay \/ Prepare \/ SaveAlias \/ SaveApplied \/ SaveFailed \/ Respond
    BY <1>5 DEF Replay, Prepare, SaveAlias, SaveApplied, SaveFailed, Respond
  <1>6. CASE ServerCrash \/ ExternalDelete \/ UNCHANGED vars
    BY <1>6 DEF ServerCrash, ExternalDelete, vars
  <1> QED
    BY <1>1, <1>2, <1>3, <1>4, <1>5, <1>6 DEF Next, Device, Server, Handle

LEMMA AppendedHead ==
    ASSUME NEW s \in Seq(Operations), s # << >>, NEW e
    PROVE  Append(s, e) # << >> /\ Append(s, e)[1] = s[1]
  <1>1. Len(s) \in Nat /\ Len(s) >= 1
    OBVIOUS
  <1>2. Len(Append(s, e)) = Len(s) + 1
    OBVIOUS
  <1>3. Append(s, e) # << >>
    <2>1. Len(<< >>) = 0
      OBVIOUS
    <2> QED
      BY <1>1, <1>2, <2>1
  <1> QED
    BY <1>1, <1>3

LEMMA FailureStep ==
    ASSUME IInv, OnlyRejectable, [Next]_vars, failure' = "final"
    PROVE  queue' # << >> /\ queue'[1].kind \in Rejectable
  <1>1. /\ queue \in Seq(Operations) /\ Len(queue) \in Nat /\ QueueIsTail
        /\ response.results \in Seq(Results)
    BY DEF IInv, TypeOK
  <1>2. failure = "final" => queue # << >> /\ queue[1].kind \in Rejectable
    BY DEF OnlyRejectable
  <1>3. CASE ~PollAnswer
    <2>1. failure = "final" /\ queue # << >> /\ queue[1].kind \in Rejectable
      BY <1>2, <1>3, FailureFrame
    <2>2. CASE queue' = queue
      BY <2>1, <2>2
    <2>3. ASSUME NEW operation, queue' = Append(queue, operation)
          PROVE  queue' # << >> /\ queue'[1] = queue[1]
      BY <1>1, <2>1, <2>3, AppendedHead
    <2> QED
      BY <1>3, <2>1, <2>2, <2>3, FailureFrame
  <1>4. CASE PollAnswer
    <2>1. CASE ~response.ok
      <3>1. queue' = queue /\ failure' \in {failure, "retriable"}
        BY <1>4, <2>1 DEF PollAnswer, MarkFailure
      <3> QED
        BY <1>2, <3>1
    <2>2. CASE response.ok
      <3>1. PICK n \in 0..Len(queue) :
               /\ ~Applied(n + 1)
               /\ queue' = SubSeq(queue, n + 1, Len(queue))
               /\ failure' =
                     IF Answers(n + 1)
                     THEN IF response.results[n + 1].retriable
                          THEN "retriable" ELSE "final"
                     ELSE IF n > 0 THEN "none" ELSE failure
        BY <1>4, <2>2 DEF PollAnswer, ApplyResults
      <3>2. CASE Answers(n + 1)
        <4>1. ~response.results[n + 1].retriable
          BY <3>1, <3>2
        <4>2. /\ n + 1 \in 1..Len(queue) /\ n + 1 \in 1..Len(response.results)
              /\ response.results[n + 1].seq = queue[n + 1].seq
              /\ response.results[n + 1].status # "applied"
          BY <1>1, <3>1, <3>2 DEF Answers, Applied
        <4>3. response.results[n + 1] \in Results
          BY <1>1, <4>2
        <4>4. response.results[n + 1].status = "failed"
          BY <4>2, <4>3 DEF Results
        <4>5. submitted[queue[n + 1].seq].kind \in Rejectable
          BY <4>1, <4>2, <4>4 DEF OnlyRejectable, Rejections
        <4>6. queue[n + 1] = submitted[First + (n + 1) - 1]
          BY <1>1, <4>2 DEF QueueIsTail
        <4>7. First + (n + 1) - 1 \in 1..Len(submitted)
          <5>1. First \in Nat \ {0} /\ Len(submitted) = nextSequence - 1
                /\ nextSequence \in Nat /\ First + Len(queue) = nextSequence
            BY <1>1, QueueAssumption DEF First, IInv, TypeOK, QueueIsTail
          <5> QED
            BY <4>2, <5>1
        <4>8. queue[n + 1].seq = First + (n + 1) - 1
          BY <1>1, <4>6, <4>7 DEF QueueIsTail
        <4>9. queue[n + 1].kind \in Rejectable
          BY <4>5, <4>6, <4>8
        <4>10. Len(queue') = Len(queue) - n /\ Len(queue') >= 1 /\ queue'[1] = queue[n + 1]
          BY <1>1, <3>1, <4>2
        <4>11. Len(<< >>) = 0
          OBVIOUS
        <4> QED
          BY <1>1, <4>9, <4>10, <4>11
      <3>3. CASE ~Answers(n + 1)
        <4>1. n = 0 /\ failure = "final"
          BY <3>1, <3>3
        <4>2. queue' = queue
          BY <1>1, <3>1, <4>1
        <4> QED
          BY <1>2, <4>1, <4>2
      <3> QED
        BY <3>2, <3>3
    <2> QED
      BY <2>1, <2>2
  <1> QED
    BY <1>3, <1>4

LEMMA NextOnlyRejectable == IInv /\ OnlyRejectable /\ [Next]_vars => OnlyRejectable'
  <1> SUFFICES ASSUME IInv, OnlyRejectable, [Next]_vars
               PROVE  OnlyRejectable'
    OBVIOUS
  <1>1. Rejections(results)' /\ Rejections(response.results)'
    BY RejectionsStep
  <1>2. stage' = "reject" => Current'.kind \in Rejectable
    BY RejectStep
  <1>3. failure' = "final" => queue' # << >> /\ queue'[1].kind \in Rejectable
    BY FailureStep
  <1> QED
    BY <1>1, <1>2, <1>3 DEF OnlyRejectable

LEMMA AlwaysOnlyRejectable == Spec => [](IInv /\ OnlyRejectable)
  <1>1. Init => OnlyRejectable
    <2> SUFFICES ASSUME Init PROVE OnlyRejectable
      OBVIOUS
    <2>1. results = << >> /\ response.results = << >> /\ Len(<< >>) = 0
      BY DEF Init, NoResponse
    <2>2. stage # "reject" /\ failure # "final"
      BY DEF Init
    <2> QED
      BY <2>1, <2>2 DEF OnlyRejectable, Rejections
  <1> QED
    BY <1>1, NextOnlyRejectable, InductiveInvariant, PTL DEF Spec

\* The head that cannot be found is the operation at hand whenever the server
\* calls Jellyfin, so no call is possible.
LEMMA MissingIsNotCalled ==
    ASSUME IInv, HeadMissing, stage = "call"
    PROVE  Current = queue[1] /\ ~Possible
  <1> DEFINE h == queue[1].seq
  <1>1. /\ queue \in Seq(Operations) /\ queue # << >> /\ QueueIsTail
        /\ nextSequence \in Nat
    BY QueueAssumption DEF HeadMissing, IInv, TypeOK
  <1>2. Len(queue) \in Nat /\ Len(queue) >= 1
    BY <1>1
  <1>3. /\ First \in Nat \ {0} /\ First \in 1..Len(submitted)
        /\ queue[1] = submitted[First + 1 - 1]
    BY <1>1, <1>2 DEF First, QueueIsTail
  <1>4. queue[1] = submitted[First] /\ h = First
    BY <1>1, <1>3 DEF QueueIsTail
  <1>5. /\ Current.seq \in Known /\ Current = submitted[Current.seq]
        /\ \A s \in Ids : s < Current.seq => record[s] = "applied"
    BY CurrentNext DEF Known
  <1>6. Current.seq \in Ids /\ record[Current.seq] # "applied"
    BY CurrentTyped DEF IInv, WorkerSound
  <1>7. queue[1] \in Operations
    BY <1>1, <1>2
  <1>8. h \in Ids /\ record[h] # "applied"
    BY <1>7 DEF HeadMissing, Operations
  <1>9. ~(Current.seq < First)
    BY <1>6 DEF IInv, RemovedApplied
  <1>10. ~(h < Current.seq)
    BY <1>5, <1>8
  <1>11. Current.seq = First
    BY <1>3, <1>4, <1>6, <1>9, <1>10 DEF Ids
  <1>12. Current = queue[1]
    BY <1>4, <1>5, <1>11
  <1> HIDE DEF h
  <1> QED
    BY <1>12 DEF HeadMissing, Possible, Target

\* An edit of a playlist another client deleted stays the head of the queue and
\* is never reported: no step, crash or fault takes the device past it.
THEOREM StuckForEver == Spec => StuckBehindMissing
  <1>1. ASSUME IInv, OnlyRejectable, OnlyRejectable', HeadMissing, [Next]_vars
        PROVE  /\ HeadMissing' /\ queue'[1] = queue[1]
               /\ queue[1].kind # "move" => ~Blocked'
    <2>1. /\ queue \in Seq(Operations) /\ queue # << >> /\ Len(queue) \in Nat
          /\ Len(queue) >= 1 /\ queue[1].kind \in NeedsPlaylist
          /\ record[queue[1].seq] = "failed" /\ stage \notin {"alias", "save"}
      BY <1>1 DEF HeadMissing, IInv, TypeOK
    <2>2. queue[1].seq \in Ids
      <3>1. 1 \in 1..Len(queue)
        BY <2>1
      <3>2. queue[1] \in Operations
        BY <2>1, <3>1
      <3> QED
        BY <3>2 DEF Operations
    <2>3. ~Call /\ ~CallUnconfirmed
      BY <1>1, MissingIsNotCalled DEF Call, CallUnconfirmed
    <2>4. ~SaveAlias /\ ~SaveApplied
      BY <2>1 DEF SaveAlias, SaveApplied
    <2>5. queue' # << >> /\ queue'[1] = queue[1]
      <3>1. CASE PollAnswer
        <4>1. PICK n \in 0..Len(queue) :
                 /\ queue' = SubSeq(queue, n + 1, Len(queue))
                 /\ \A i \in 1..n : record[queue[i].seq] = "applied"
          BY <1>1, <3>1, PollRemoves
        <4>2. n = 0
          BY <2>1, <4>1
        <4>3. queue' = queue
          BY <2>1, <4>1, <4>2
        <4> QED
          BY <2>1, <4>3
      <3>2. CASE ~PollAnswer
        <4>1. queue' = queue \/ \E operation : queue' = Append(queue, operation)
          BY <1>1, <3>2, FailureFrame
        <4> QED
          BY <2>1, <4>1, AppendedHead
      <3> QED
        BY <3>1, <3>2
    <2>6. record'[queue[1].seq] = "failed"
      BY <1>1, <2>1, <2>2, <2>4, RowsStay
    <2>7. serverAliases' = serverAliases /\ live' \subseteq live
      BY <1>1, <2>3, <2>4, AliasFrame, JellyfinFrame
    <2>8. stage' \notin {"alias", "save"}
      BY <1>1, <2>1, <2>3, <2>4, StageFrame
    <2>9. HeadMissing'
      BY <1>1, <2>1, <2>5, <2>6, <2>7, <2>8 DEF HeadMissing
    <2>10. queue[1].kind # "move" => ~Blocked'
      BY <1>1, <2>1, <2>5 DEF Blocked, OnlyRejectable, Rejectable, NeedsPlaylist
    <2> QED
      BY <2>5, <2>9, <2>10
  <1>2. IInv /\ OnlyRejectable /\ OnlyRejectable' /\ [Next]_vars =>
            [HeadMissing => /\ HeadMissing'
                            /\ queue'[1] = queue[1]
                            /\ queue[1].kind # "move" => ~Blocked']_vars
    BY <1>1
  <1> QED
    BY <1>2, AlwaysOnlyRejectable, PTL DEF StuckBehindMissing, Spec
=============================================================================
