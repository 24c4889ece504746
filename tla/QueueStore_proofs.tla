-------------------------- MODULE QueueStore_proofs --------------------------
(***************************************************************************)
(* What is proved of QueueStore, for any number of saves, power cuts and    *)
(* failing file operations.                                                 *)
(***************************************************************************)
EXTENDS QueueStore, TLAPS

Working == {"open", "write", "dropBackup", "backUp", "replace"}
Copied == {"dropBackup", "backUp", "replace"}

\* Nothing is newer than the last update begun.
Numbered ==
    /\ path <= saves /\ temporary <= saves /\ backup <= saves
    /\ saving <= saves /\ before <= saves
    /\ step # "done" => saving \in Saves
    /\ step # "done" /\ ~recovering => saving = saves

\* Where a save is: what the copy holds, and what became of the queue file.
Placed ==
    /\ step = "write" => temporary = Torn
    /\ step \in Copied => temporary = saving \/ (temporary = Torn /\ errors < MaxErrors)
    /\ step = "backUp" => backup = Absent \/ errors < MaxErrors
    /\ step = "replace" => path = Absent \/ errors < MaxErrors
    /\ step = "clean" => /\ temporary = Absent
                         /\ path = saving \/ (path = Torn /\ errors < MaxErrors)
    /\ step \in Working /\ recovering => ~Readable(path) \/ misread
    /\ misread => errors < MaxErrors

\* With at most one failure, and none of a load that a save followed, no readable
\* file that a load may pick is stale.
Newer(n) == n >= acknowledged /\ n >= observed
Fresh ==
    errors >= MaxErrors - 1 /\ ~misread =>
        /\ Readable(path) => Newer(path)
        /\ Readable(backup) /\ ~Readable(path) => Newer(backup)
        /\ Readable(temporary) => Newer(temporary)
        /\ Readable(temporary) /\ Readable(path) => temporary >= path
        /\ step # "done" => Newer(saving)

\* With no failure: before the first power cut the queue file or its backup is
\* readable as soon as anything was stored; after it, until the copy is written.
Known == acknowledged # 0 \/ observed # 0
Kept == Readable(path) \/ Readable(backup)
Safe ==
    errors = MaxErrors =>
        /\ cuts >= MaxCuts - 1 /\ Known /\ step \in {"done", "open", "write"} => Kept
        /\ cuts = MaxCuts /\ Known /\ step # "clean" => Kept
        /\ cuts = MaxCuts /\ step = "done" =>
              Readable(path) \/ (path = Absent /\ backup = Absent /\ temporary = Absent)
        /\ cuts = MaxCuts /\ step # "done" => ~recovering
        /\ cuts = MaxCuts /\ step \in {"open", "write", "dropBackup", "backUp"} =>
              Readable(path) \/ ~Known

\* What the caller's queue was before a save is still there while the save may
\* fail, and after it did.
Unchanged ==
    ~recovering /\ Readable(before) =>
        /\ step \in {"open", "write", "dropBackup", "backUp"} => path = before
        /\ step = "replace" => path = before \/ (path = Absent /\ backup = before)
        /\ step = "done" /\ failed =>
              path = before \/ (path = Absent /\ backup = before)

IInv == TypeOK /\ Numbered /\ Placed /\ Fresh /\ Safe /\ Unchanged

-----------------------------------------------------------------------------
(* The invariant is kept by every step.                                    *)

\* TypeOK in two parts: truth values, and the rest.
Truths == recovering \in BOOLEAN /\ failed \in BOOLEAN /\ misread \in BOOLEAN
Counts ==
    /\ path \in Contents /\ temporary \in Contents /\ backup \in Contents
    /\ step \in Steps
    /\ saving \in Saves \cup {0}
    /\ before \in Contents
    /\ saves \in 0..MaxSaves
    /\ acknowledged \in 0..saves
    /\ observed \in 0..saves
    /\ cuts \in 0..MaxCuts
    /\ errors \in 0..MaxErrors

\* What load_state finds is the content of a file, or that it is corrupted.
LEMMA LoadedIsContent ==
    ASSUME path \in Contents, temporary \in Contents, backup \in Contents, NEW blind
    PROVE  /\ Loaded(blind) \in Contents
           /\ Loaded(blind) \in {path, backup, temporary, Torn, Absent}
  BY DEF Contents, Loaded, Seen, Readable, Absent

\* When no stored state is passed over, a load finds nothing, or what one finds
\* that opens every file.
LEMMA LoadedIsStored ==
    ASSUME NEW blind, ~Missed(blind)
    PROVE  Readable(Loaded(blind)) => Loaded(blind) = Stored
  BY DEF Missed, Loaded, Stored, Seen, Readable, Saves, Absent, Torn

\* Each flag of save_state stays a truth value.
LEMMA TruthsStep ==
    ASSUME Truths, [Next]_vars
    PROVE  Truths'
  <1> USE StoreAssumption DEF Truths, files, call, seen, faults, vars, Error,
      Fail, Proceed, Over
  <1>1. CASE Look
    BY <1>1 DEF Look
  <1>2. ASSUME NEW blind \in SUBSET FileNames, Recover(blind)
        PROVE  Truths'
    BY <1>2 DEF Recover, Opening
  <1>3. ASSUME NEW blind \in SUBSET FileNames, Update(blind)
        PROVE  Truths'
    BY <1>3 DEF Update, Opening
  <1>4. CASE Open
    BY <1>4 DEF Open
  <1>5. CASE OpenFails
    BY <1>5 DEF OpenFails
  <1>6. CASE Write
    BY <1>6 DEF Write
  <1>7. CASE WriteFails
    BY <1>7 DEF WriteFails
  <1>8. CASE FlushFails
    BY <1>8 DEF FlushFails
  <1>9. CASE DropBackup
    BY <1>9 DEF DropBackup
  <1>10. CASE DropBackupFails
    BY <1>10 DEF DropBackupFails
  <1>11. CASE BackUp
    BY <1>11 DEF BackUp
  <1>12. CASE BackUpFails \/ BackUpBlind
    BY <1>12 DEF BackUpFails, BackUpBlind
  <1>13. CASE Replace
    BY <1>13 DEF Replace
  <1>14. CASE ReplaceFails
    BY <1>14 DEF ReplaceFails
  <1>15. CASE Clean
    BY <1>15 DEF Clean
  <1>16. CASE CleanFails
    BY <1>16 DEF CleanFails
  <1>17. CASE PowerCut
    BY <1>17 DEF PowerCut
  <1>18. CASE UNCHANGED vars
    BY <1>18
  <1> QED
    BY <1>1, <1>2, <1>3, <1>4, <1>5, <1>6, <1>7, <1>8, <1>9, <1>10, <1>11, <1>12,
        <1>13, <1>14, <1>15, <1>16, <1>17, <1>18 DEF Next

\* Files, numbers and bounds keep their types, and nothing is newer than the last
\* update begun.
LEMMA CountsStep ==
    ASSUME Counts, Numbered, [Next]_vars
    PROVE  Counts' /\ Numbered'
  <1> USE StoreAssumption DEF Counts, Numbered, Contents, Saves, Steps, Absent,
      Torn, Readable, files, call, seen, faults, vars, Error, Fail, Proceed, Over
  <1>1. CASE Look
    BY <1>1 DEF Look
  <1>2. ASSUME NEW blind \in SUBSET FileNames, Recover(blind)
        PROVE  Counts' /\ Numbered'
    BY <1>2, LoadedIsContent DEF Recover, Opening
  <1>3. ASSUME NEW blind \in SUBSET FileNames, Update(blind)
        PROVE  Counts' /\ Numbered'
    BY <1>3, LoadedIsContent DEF Update, Opening, Seen
  <1>4. CASE Open
    BY <1>4 DEF Open
  <1>5. CASE OpenFails
    BY <1>5 DEF OpenFails
  <1>6. CASE Write
    BY <1>6 DEF Write
  <1>7. CASE WriteFails
    BY <1>7 DEF WriteFails
  <1>8. CASE FlushFails
    BY <1>8 DEF FlushFails
  <1>9. CASE DropBackup
    BY <1>9 DEF DropBackup
  <1>10. CASE DropBackupFails
    BY <1>10 DEF DropBackupFails
  <1>11. CASE BackUp
    BY <1>11 DEF BackUp
  <1>12. CASE BackUpFails \/ BackUpBlind
    BY <1>12 DEF BackUpFails, BackUpBlind
  <1>13. CASE Replace
    BY <1>13 DEF Replace
  <1>14. CASE ReplaceFails
    BY <1>14 DEF ReplaceFails
  <1>15. CASE Clean
    BY <1>15 DEF Clean
  <1>16. CASE CleanFails
    BY <1>16 DEF CleanFails
  <1>17. CASE PowerCut
    BY <1>17 DEF PowerCut
  <1>18. CASE UNCHANGED vars
    BY <1>18
  <1> QED
    BY <1>1, <1>2, <1>3, <1>4, <1>5, <1>6, <1>7, <1>8, <1>9, <1>10, <1>11, <1>12,
        <1>13, <1>14, <1>15, <1>16, <1>17, <1>18 DEF Next

\* The copy and the queue file are where the next file operation expects them.
LEMMA PlacedStep ==
    ASSUME Counts, Placed, [Next]_vars
    PROVE  Placed'
  <1> USE StoreAssumption DEF Counts, Placed, Copied, Working, Contents, Saves,
      Steps, Absent, Torn, Readable, files, call, seen, faults, vars, Error, Fail,
      Proceed, Over
  <1>1. CASE Look
    BY <1>1 DEF Look
  <1>2. ASSUME NEW blind \in SUBSET FileNames, Recover(blind)
        PROVE  Placed'
    <2>1. /\ Missed(blind) \/ misread => misread'
          /\ misread' => Missed(blind) \/ misread
          /\ recovering' = TRUE
      BY <1>2, Zenon DEF Recover
    <2>2. /\ step' = "open" /\ errors' <= errors /\ errors' \in Int
          /\ UNCHANGED <<path, temporary, backup>>
          /\ Missed(blind) => errors' < errors
      BY <1>2 DEF Recover, Opening, Missed
    <2>3. ~Readable(path) \/ Missed(blind)
      BY <1>2 DEF Recover, Seen, Missed
    <2>4. misread' => errors' < MaxErrors
      BY <2>1, <2>2
    <2> QED
      BY <2>1, <2>2, <2>3, <2>4
  <1>3. ASSUME NEW blind \in SUBSET FileNames, Update(blind)
        PROVE  Placed'
    <2>1. /\ misread' => Missed(blind) \/ misread
          /\ recovering' = FALSE
      BY <1>3, Zenon DEF Update
    <2>2. /\ step' = "open" /\ errors' <= errors /\ errors' \in Int
          /\ UNCHANGED <<path, temporary, backup>>
          /\ Missed(blind) => errors' < errors
      BY <1>3 DEF Update, Opening, Missed
    <2>3. misread' => errors' < MaxErrors
      BY <2>1, <2>2
    <2> QED
      BY <2>1, <2>2, <2>3
  <1>4. CASE Open
    BY <1>4 DEF Open
  <1>5. CASE OpenFails
    BY <1>5 DEF OpenFails
  <1>6. CASE Write
    BY <1>6 DEF Write
  <1>7. CASE WriteFails
    BY <1>7 DEF WriteFails
  <1>8. CASE FlushFails
    BY <1>8 DEF FlushFails
  <1>9. CASE DropBackup
    BY <1>9 DEF DropBackup
  <1>10. CASE DropBackupFails
    BY <1>10 DEF DropBackupFails
  <1>11. CASE BackUp
    BY <1>11 DEF BackUp
  <1>12. CASE BackUpFails \/ BackUpBlind
    BY <1>12 DEF BackUpFails, BackUpBlind
  <1>13. CASE Replace
    BY <1>13 DEF Replace
  <1>14. CASE ReplaceFails
    BY <1>14 DEF ReplaceFails
  <1>15. CASE Clean
    BY <1>15 DEF Clean
  <1>16. CASE CleanFails
    BY <1>16 DEF CleanFails
  <1>17. CASE PowerCut
    BY <1>17 DEF PowerCut
  <1>18. CASE UNCHANGED vars
    BY <1>18
  <1> QED
    BY <1>1, <1>2, <1>3, <1>4, <1>5, <1>6, <1>7, <1>8, <1>9, <1>10, <1>11, <1>12,
        <1>13, <1>14, <1>15, <1>16, <1>17, <1>18 DEF Next

\* No step makes what a load may pick older than what was seen.
LEMMA FreshStep ==
    ASSUME Counts, Numbered, Placed, Fresh, [Next]_vars
    PROVE  Fresh'
  <1> USE StoreAssumption DEF Counts, Numbered, Placed, Fresh, Newer, Copied,
      Working, Contents, Saves, Steps, Absent, Torn, Readable, files, call, seen,
      faults, vars, Error, Fail, Proceed, Over
  <1>1. CASE Look
    BY <1>1 DEF Look
  <1>2. ASSUME NEW blind \in SUBSET FileNames, Recover(blind)
        PROVE  Fresh'
    <2>0. Missed(blind) \/ misread => misread'
      BY <1>2, Zenon DEF Recover
    <2>1. /\ saving' = Loaded(blind)
          /\ ~Readable(Seen("path", path, blind)) /\ Readable(Loaded(blind))
          /\ errors' <= errors /\ errors' \in Int
          /\ UNCHANGED <<path, temporary, backup, acknowledged, observed>>
      BY <1>2 DEF Recover, Opening
    <2>2. CASE Missed(blind) \/ misread \/ errors < MaxErrors - 1
      BY <2>0, <2>1, <2>2
    <2>3. CASE ~Missed(blind) /\ ~misread /\ errors >= MaxErrors - 1
      <3>1. saving' = Stored /\ ~Readable(path) /\ Readable(Stored)
        BY <2>1, <2>3, LoadedIsStored DEF Missed, Seen
      <3>2. Newer(Stored)
        BY <2>3, <3>1 DEF Stored, Loaded, Seen
      <3> QED
        BY <2>1, <2>3, <3>1, <3>2
    <2> QED
      BY <2>2, <2>3
  <1>3. ASSUME NEW blind \in SUBSET FileNames, Update(blind)
        PROVE  Fresh'
    <2>0. misread => misread'
      BY <1>3, Zenon DEF Update
    <2>1. /\ saving' = saves + 1 /\ observed' \in {path, observed}
          /\ errors' <= errors /\ errors' \in Int
          /\ UNCHANGED <<path, temporary, backup, acknowledged>>
          /\ observed' = observed \/ Readable(path)
      BY <1>3 DEF Update, Opening, Seen
    <2>2. CASE misread \/ errors < MaxErrors - 1
      BY <2>0, <2>1, <2>2
    <2>3. CASE ~misread /\ errors >= MaxErrors - 1
      BY <2>1, <2>3
    <2> QED
      BY <2>2, <2>3
  <1>4. CASE Open
    BY <1>4 DEF Open
  <1>5. CASE OpenFails
    BY <1>5 DEF OpenFails
  <1>6. CASE Write
    BY <1>6 DEF Write
  <1>7. CASE WriteFails
    BY <1>7 DEF WriteFails
  <1>8. CASE FlushFails
    BY <1>8 DEF FlushFails
  <1>9. CASE DropBackup
    BY <1>9 DEF DropBackup
  <1>10. CASE DropBackupFails
    BY <1>10 DEF DropBackupFails
  <1>11. CASE BackUp
    BY <1>11 DEF BackUp
  <1>12. CASE BackUpFails \/ BackUpBlind
    BY <1>12 DEF BackUpFails, BackUpBlind
  <1>13. CASE Replace
    BY <1>13 DEF Replace
  <1>14. CASE ReplaceFails
    BY <1>14 DEF ReplaceFails
  <1>15. CASE Clean
    BY <1>15 DEF Clean
  <1>16. CASE CleanFails
    BY <1>16 DEF CleanFails
  <1>17. CASE PowerCut
    BY <1>17 DEF PowerCut
  <1>18. CASE UNCHANGED vars
    BY <1>18
  <1> QED
    BY <1>1, <1>2, <1>3, <1>4, <1>5, <1>6, <1>7, <1>8, <1>9, <1>10, <1>11, <1>12,
        <1>13, <1>14, <1>15, <1>16, <1>17, <1>18 DEF Next

\* No step but a failing one, or a power cut too many, loses what was stored.
LEMMA SafeStep ==
    ASSUME Counts, Numbered, Placed, Safe, [Next]_vars
    PROVE  Safe'
  <1> USE StoreAssumption DEF Counts, Numbered, Placed, Safe, Known, Kept, Copied,
      Working, Contents, Saves, Steps, Absent, Torn, Readable, files, call, seen,
      faults, vars, Error, Fail, Proceed, Over
  <1>1. CASE Look
    BY <1>1 DEF Look
  <1>2. ASSUME NEW blind \in SUBSET FileNames, Recover(blind)
        PROVE  Safe'
    BY <1>2 DEF Recover, Opening, Loaded, Missed, Seen
  <1>3. ASSUME NEW blind \in SUBSET FileNames, Update(blind)
        PROVE  Safe'
    BY <1>3 DEF Update, Opening, Loaded, Missed, Seen
  <1>4. CASE Open
    BY <1>4 DEF Open
  <1>5. CASE OpenFails
    BY <1>5 DEF OpenFails
  <1>6. CASE Write
    BY <1>6 DEF Write
  <1>7. CASE WriteFails
    BY <1>7 DEF WriteFails
  <1>8. CASE FlushFails
    BY <1>8 DEF FlushFails
  <1>9. CASE DropBackup
    BY <1>9 DEF DropBackup
  <1>10. CASE DropBackupFails
    BY <1>10 DEF DropBackupFails
  <1>11. CASE BackUp
    BY <1>11 DEF BackUp
  <1>12. CASE BackUpFails \/ BackUpBlind
    BY <1>12 DEF BackUpFails, BackUpBlind
  <1>13. CASE Replace
    BY <1>13 DEF Replace
  <1>14. CASE ReplaceFails
    BY <1>14 DEF ReplaceFails
  <1>15. CASE Clean
    BY <1>15 DEF Clean
  <1>16. CASE CleanFails
    BY <1>16 DEF CleanFails
  <1>17. CASE PowerCut
    BY <1>17 DEF PowerCut
  <1>18. CASE UNCHANGED vars
    BY <1>18
  <1> QED
    BY <1>1, <1>2, <1>3, <1>4, <1>5, <1>6, <1>7, <1>8, <1>9, <1>10, <1>11, <1>12,
        <1>13, <1>14, <1>15, <1>16, <1>17, <1>18 DEF Next

\* While a save may be refused, what was in the queue before it stays.
LEMMA UnchangedStep ==
    ASSUME Counts, Placed, Unchanged, [Next]_vars
    PROVE  Unchanged'
  <1> USE StoreAssumption DEF Counts, Placed, Unchanged, Copied, Working,
      Contents, Saves, Steps, Absent, Torn, Readable, files, call, seen, faults,
      vars, Error, Fail, Proceed, Over
  <1>1. CASE Look
    BY <1>1 DEF Look
  <1>2. ASSUME NEW blind \in SUBSET FileNames, Recover(blind)
        PROVE  Unchanged'
    BY <1>2 DEF Recover, Opening, Loaded, Missed, Seen
  <1>3. ASSUME NEW blind \in SUBSET FileNames, Update(blind)
        PROVE  Unchanged'
    BY <1>3 DEF Update, Opening, Loaded, Missed, Seen
  <1>4. CASE Open
    BY <1>4 DEF Open
  <1>5. CASE OpenFails
    BY <1>5 DEF OpenFails
  <1>6. CASE Write
    BY <1>6 DEF Write
  <1>7. CASE WriteFails
    BY <1>7 DEF WriteFails
  <1>8. CASE FlushFails
    BY <1>8 DEF FlushFails
  <1>9. CASE DropBackup
    BY <1>9 DEF DropBackup
  <1>10. CASE DropBackupFails
    BY <1>10 DEF DropBackupFails
  <1>11. CASE BackUp
    BY <1>11 DEF BackUp
  <1>12. CASE BackUpFails \/ BackUpBlind
    BY <1>12 DEF BackUpFails, BackUpBlind
  <1>13. CASE Replace
    BY <1>13 DEF Replace
  <1>14. CASE ReplaceFails
    BY <1>14 DEF ReplaceFails
  <1>15. CASE Clean
    BY <1>15 DEF Clean
  <1>16. CASE CleanFails
    BY <1>16 DEF CleanFails
  <1>17. CASE PowerCut
    BY <1>17 DEF PowerCut
  <1>18. CASE UNCHANGED vars
    BY <1>18
  <1> QED
    BY <1>1, <1>2, <1>3, <1>4, <1>5, <1>6, <1>7, <1>8, <1>9, <1>10, <1>11, <1>12,
        <1>13, <1>14, <1>15, <1>16, <1>17, <1>18 DEF Next

-----------------------------------------------------------------------------
(* Theorems.                                                               *)

\* The strengthening that the theorems below rest on is an invariant.
THEOREM StoreInvariant == Spec => []IInv
  <1>1. IInv <=> Truths /\ Counts /\ Numbered /\ Placed /\ Fresh /\ Safe /\ Unchanged
    BY DEF IInv, TypeOK, Truths, Counts
  <1>2. ASSUME Init PROVE IInv
    <2>1. Truths
      BY <1>2 DEF Init, Truths
    <2>2. Counts /\ Numbered
      BY <1>2, StoreAssumption
         DEF Init, Counts, Numbered, Contents, Steps, Saves, Absent
    <2>3. Placed /\ Unchanged
      BY <1>2 DEF Init, Placed, Unchanged, Working, Copied, Readable, Saves, Absent
    <2>4. Fresh /\ Safe
      BY <1>2 DEF Init, Fresh, Newer, Safe, Known, Kept, Readable, Saves, Absent
    <2> QED
      BY <1>1, <2>1, <2>2, <2>3, <2>4
  <1>3. ASSUME IInv, [Next]_vars PROVE IInv'
    <2>1. Truths' /\ Counts' /\ Numbered'
      BY <1>1, <1>3, TruthsStep, CountsStep
    <2>2. Placed' /\ Fresh' /\ Safe' /\ Unchanged'
      BY <1>1, <1>3, PlacedStep, FreshStep, SafeStep, UnchangedStep
    <2> QED
      BY <2>1, <2>2 DEF IInv, TypeOK, Truths, Counts
  <1> QED
    BY <1>2, <1>3, PTL DEF Spec

\* The files hold what they may hold, and nothing is acknowledged or seen that no
\* update began.
THEOREM StoreTypeCorrect == Spec => []TypeOK
  <1>1. IInv => TypeOK
    BY DEF IInv
  <1> QED
    BY <1>1, StoreInvariant, PTL

\* Without failures, one power cut and then another at any moment lose nothing
\* that was acknowledged or seen.
THEOREM CutsLoseNothing == Spec => []CutLosesNothing
  <1>1. ASSUME IInv PROVE CutLosesNothing
    <2> USE <1>1, StoreAssumption DEF IInv, TypeOK, Numbered, Placed, Fresh, Newer, Safe,
            Known, Kept, Copied, Working, Contents, Saves, Steps, Absent, Torn, Readable
    <2>1. CASE step \in {"done", "open", "write"}
      BY <2>1 DEF CutLosesNothing, Stored, Loaded, Seen
    <2>2. CASE step \in {"dropBackup", "backUp", "replace", "clean"}
      BY <2>2 DEF CutLosesNothing, Stored, Loaded, Seen
    <2> QED
      BY <2>1, <2>2
  <1> QED
    BY <1>1, StoreInvariant, PTL

\* With any power cuts and one failure, unless it was to open a file and a save
\* followed, a load never goes back to an older state.
THEOREM NothingStale == Spec => []NeverStale
  <1>1. ASSUME IInv PROVE NeverStale
    BY <1>1, StoreAssumption DEF IInv, TypeOK, Fresh, Newer, NeverStale, Stored, Loaded, Seen,
       Contents, Saves, Absent, Torn, Readable
  <1> QED
    BY <1>1, StoreInvariant, PTL

\* Whatever fails, a refused edit leaves the queue as it was.
THEOREM RefusalsChangeNothing == Spec => []RefusedMeansUnchanged
  <1>1. ASSUME IInv PROVE RefusedMeansUnchanged
    BY <1>1, StoreAssumption DEF IInv, TypeOK, Unchanged, RefusedMeansUnchanged,
       Stored, Loaded, Seen, Contents, Saves, Absent, Torn, Readable
  <1> QED
    BY <1>1, StoreInvariant, PTL
=============================================================================
