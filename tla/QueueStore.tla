----------------------------- MODULE QueueStore -----------------------------
(***************************************************************************)
(* How lua/sync_operation_queue.lua keeps the queue in three files: the    *)
(* queue itself, a copy being written and a backup.  Every file operation  *)
(* is a step, between any two of which the device may lose power; the      *)
(* steps of save_state follow each other in the order of the code.  A      *)
(* stored state is the number of the save that made it.                    *)
(***************************************************************************)
EXTENDS Integers

CONSTANTS
    MaxSaves,     \* bound: updates the user and the server cause
    MaxCuts,      \* bound: power cuts
    MaxErrors     \* bound: failing file operations

ASSUME StoreAssumption ==
    /\ MaxSaves \in Nat
    /\ MaxCuts \in Nat
    /\ MaxErrors \in Nat

Saves == 1..MaxSaves

Absent == 0         \* no such file
Torn == -1          \* a file that decode_state does not accept
Contents == {Absent, Torn} \cup Saves

VARIABLES
    path, temporary, backup,   \* contents of the three files
    step,                      \* what save_state does next, "done" outside it
    saving,                    \* the state it is to store
    recovering,                \* is it called by load_state?
    before,                    \* what the queue file held before an update
    failed,                    \* did the last one return false?
    saves,                     \* updates begun
    acknowledged,              \* the last update reported as stored
    observed,                  \* the last state any caller got to see
    misread,                   \* did a save follow a load that did not see all?
    cuts, errors               \* power cuts and failures left

files == <<path, temporary, backup>>
call == <<saving, recovering, before>>
seen == <<acknowledged, observed, misread>>
faults == <<cuts, errors>>
vars == <<files, step, call, failed, saves, seen, faults>>

Steps == {"done", "open", "write", "dropBackup", "backUp", "replace", "clean"}

TypeOK ==
    /\ path \in Contents /\ temporary \in Contents /\ backup \in Contents
    /\ step \in Steps
    /\ saving \in Saves \cup {0}
    /\ recovering \in BOOLEAN
    /\ before \in Contents
    /\ failed \in BOOLEAN
    /\ saves \in 0..MaxSaves
    /\ acknowledged \in 0..saves
    /\ observed \in 0..saves
    /\ misread \in BOOLEAN
    /\ cuts \in 0..MaxCuts
    /\ errors \in 0..MaxErrors

Init ==
    /\ path = Absent /\ temporary = Absent /\ backup = Absent
    /\ step = "done"
    /\ saving = 0
    /\ recovering = FALSE
    /\ before = Absent
    /\ failed = FALSE
    /\ saves = 0
    /\ acknowledged = 0
    /\ observed = 0
    /\ misread = FALSE
    /\ cuts = MaxCuts
    /\ errors = MaxErrors

Error == errors > 0 /\ errors' = errors - 1 /\ UNCHANGED cuts

Readable(contents) == contents \in Saves

\* read_file: a file that cannot be opened is taken for one that is not there.
\* blind are the files a load fails to open, one failure of the card.
FileNames == {"path", "temporary", "backup"}
Seen(name, contents, blind) == IF name \in blind THEN Absent ELSE contents

Opening(blind) == IF blind = {} THEN UNCHANGED faults ELSE Error

\* A mutation: the backup is tried before the queue file.
LoadedBackupFirst(blind) ==
    LET first == Seen("backup", backup, blind)
        second == Seen("path", path, blind)
        third == Seen("temporary", temporary, blind)
    IN  IF Readable(first) THEN first
        ELSE IF Readable(second) THEN second
        ELSE IF Readable(third) THEN third
        ELSE IF {first, second, third} = {Absent} THEN Absent
        ELSE Torn

\* What load_state finds: the first readable candidate; Absent when it sees no
\* file at all (default_state), Torn for "operation queue is corrupted".
Loaded(blind) ==
    LET first == Seen("path", path, blind)
        second == Seen("backup", backup, blind)
        third == Seen("temporary", temporary, blind)
    IN  IF Readable(first) THEN first
        ELSE IF Readable(second) THEN second
        ELSE IF Readable(third) THEN third
        ELSE IF {first, second, third} = {Absent} THEN Absent
        ELSE Torn

\* What it finds when it can open every file.
Stored == Loaded({})

\* It passes over a file that holds a state.
Missed(blind) ==
    \/ "path" \in blind /\ Readable(path)
    \/ "backup" \in blind /\ Readable(backup)
    \/ "temporary" \in blind /\ Readable(temporary)

\* load_state finds the queue file in order: a caller sees it. (One that sees
\* no file gets an empty queue, and does nothing with it but Update.)
Look ==
    /\ step = "done"
    /\ Readable(path)
    /\ observed' = path
    /\ UNCHANGED <<files, step, call, failed, saves, acknowledged, misread,
                   faults>>

\* load_state falls back on another file, and stores it before returning it.
Recover(blind) ==
    /\ step = "done"
    /\ ~Readable(Seen("path", path, blind)) /\ Readable(Loaded(blind))
    /\ Opening(blind)
    /\ misread' = (misread \/ Missed(blind))
    /\ step' = "open"
    /\ saving' = Loaded(blind)
    /\ recovering' = TRUE
    /\ UNCHANGED <<files, before, failed, saves, acknowledged, observed>>

\* enqueue, apply_results, mark_failure or clear_failure: load, change, store.
Update(blind) ==
    /\ step = "done"
    /\ saves < MaxSaves
    /\ LET found == Seen("path", path, blind)
       IN  /\ Readable(found) \/ Loaded(blind) = Absent
           /\ observed' = IF Readable(found) THEN found ELSE observed
    /\ Opening(blind)
    /\ misread' = (misread \/ Missed(blind))
    /\ step' = "open"
    /\ saves' = saves + 1
    /\ saving' = saves + 1
    /\ recovering' = FALSE
    /\ before' = path
    /\ UNCHANGED <<files, failed, acknowledged>>

Fail == step' = "done" /\ failed' = TRUE /\ UNCHANGED <<saves, seen, call>>

Proceed(next) == step' = next /\ UNCHANGED <<call, failed, saves, seen>>

\* io.open with "wb" truncates the copy.
Open ==
    /\ step = "open"
    /\ temporary' = Torn
    /\ Proceed("write")
    /\ UNCHANGED <<path, backup, faults>>

OpenFails ==
    /\ step = "open"
    /\ Error
    /\ Fail
    /\ UNCHANGED files

\* write, flush, close: complete ...
Write ==
    /\ step = "write"
    /\ temporary' = saving
    /\ Proceed("dropBackup")
    /\ UNCHANGED <<path, backup, faults>>

\* ... or write reports an error ...
WriteFails ==
    /\ step = "write"
    /\ Error
    /\ Fail
    /\ UNCHANGED files

\* ... or the buffered data fails to reach the card in flush or close, whose
\* results nobody looks at.
FlushFails ==
    /\ step = "write"
    /\ Error
    /\ Proceed("dropBackup")
    /\ UNCHANGED files

\* os.remove of the last backup; whether it worked is not looked at.
DropBackup ==
    /\ step = "dropBackup"
    /\ backup' = Absent
    /\ Proceed("backUp")
    /\ UNCHANGED <<path, temporary, faults>>

DropBackupFails ==
    /\ step = "dropBackup" /\ backup # Absent
    /\ Error
    /\ Proceed("backUp")
    /\ UNCHANGED files

\* A mutation: the queue file is removed instead of kept as the backup.
BackUpRemoves ==
    /\ step = "backUp"
    /\ path' = Absent
    /\ Proceed("replace")
    /\ UNCHANGED <<backup, temporary, faults>>

\* The old queue file, if there is one, becomes the backup. The card's FAT does
\* not rename a file onto another.
BackUp ==
    /\ step = "backUp" /\ (path = Absent \/ backup = Absent)
    /\ IF path = Absent THEN UNCHANGED <<path, backup>>
                        ELSE path' = Absent /\ backup' = path
    /\ Proceed("replace")
    /\ UNCHANGED <<temporary, faults>>

\* io.open, which asks whether there is an old queue file, fails.
BackUpBlind ==
    /\ step = "backUp" /\ path # Absent
    /\ Error
    /\ Proceed("replace")
    /\ UNCHANGED files

BackUpFails ==
    /\ step = "backUp" /\ path # Absent
    /\ Error \/ (backup # Absent /\ UNCHANGED faults)
    /\ temporary' = Absent
    /\ Fail
    /\ UNCHANGED <<path, backup>>

Replace ==
    /\ step = "replace" /\ path = Absent
    /\ path' = temporary
    /\ temporary' = Absent
    /\ Proceed("clean")
    /\ UNCHANGED <<backup, faults>>

\* A mutation: the new copy is kept and the backup thrown away.
ReplaceFailsForward ==
    /\ step = "replace"
    /\ Error \/ (path # Absent /\ UNCHANGED faults)
    /\ backup' = Absent
    /\ Fail
    /\ UNCHANGED <<path, temporary>>

\* The backup becomes the queue file again, or that fails too.
ReplaceFails ==
    /\ step = "replace"
    /\ Error \/ (path # Absent /\ UNCHANGED faults)
    /\ temporary' = Absent
    /\ \/ /\ path = Absent /\ backup # Absent
          /\ path' = backup /\ backup' = Absent
       \/ UNCHANGED <<path, backup>>
    /\ Fail

Over ==
    /\ step' = "done"
    /\ failed' = FALSE
    /\ acknowledged' = IF recovering THEN acknowledged ELSE saving
    /\ observed' = saving
    /\ UNCHANGED <<path, temporary, call, saves, misread>>

\* save_state is over: the update is reported as stored, or load_state returns.
Clean ==
    /\ step = "clean"
    /\ backup' = Absent
    /\ Over
    /\ UNCHANGED faults

CleanFails ==
    /\ step = "clean" /\ backup # Absent
    /\ Error
    /\ Over
    /\ UNCHANGED backup

PowerCut ==
    /\ step # "done"
    /\ cuts > 0
    /\ cuts' = cuts - 1
    /\ step' = "done"
    /\ failed' = FALSE
    /\ UNCHANGED <<files, call, saves, seen, errors>>

Next ==
    \/ Look
    \/ \E blind \in SUBSET FileNames : Recover(blind) \/ Update(blind)
    \/ Open \/ OpenFails
    \/ Write \/ WriteFails \/ FlushFails
    \/ DropBackup \/ DropBackupFails
    \/ BackUp \/ BackUpBlind \/ BackUpFails
    \/ Replace \/ ReplaceFails
    \/ Clean \/ CleanFails
    \/ PowerCut

Spec == Init /\ [][Next]_vars

-----------------------------------------------------------------------------
\* While no file operation fails: if power is cut once, in a save, and again at
\* any moment of the recovery or of a later save, neither an update reported as
\* stored is lost nor a state that some caller saw (and may have uploaded the
\* operations of).  (save_state keeps the backup until the new file is in place;
\* load_state tries all three files)
CutLosesNothing ==
    errors = MaxErrors /\ cuts >= MaxCuts - 1 =>
        /\ acknowledged # 0 => Readable(Stored) /\ Stored >= acknowledged
        /\ observed # 0 => Readable(Stored) /\ Stored >= observed

\* Wherever power is cut, and whichever file operation fails: a load returns the
\* newest state that anybody was told of or saw, or it returns none at all; it
\* never goes back to an older one, in which operation ids already used would be
\* given out again. It takes two unnoticed failures, a lost flush and a failed
\* removal, to break this; or one, if it is that of opening a file to read it,
\* and a save follows: load_state takes the file for one that is not there, and
\* the save is made from what is left.  (load_state, read_file)
NeverStale ==
    errors >= MaxErrors - 1 /\ ~misread /\ Readable(Stored) =>
        Stored >= acknowledged /\ Stored >= observed

\* An edit that the user is told could not be queued is not in the queue after
\* all, and what the queue file held before is still there, even where the edit
\* was made to a queue that was not seen.  (save_state's early returns)
RefusedMeansUnchanged ==
    failed /\ ~recovering /\ step = "done" /\ Readable(before) => Stored = before
=============================================================================
