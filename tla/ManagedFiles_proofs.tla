------------------------- MODULE ManagedFiles_proofs -------------------------
(***************************************************************************)
(* What is proved of ManagedFiles, for any media, artwork, changes,         *)
(* removals and faults.                                                     *)
(***************************************************************************)
EXTENDS ManagedFiles, TLAPS

\* Where the inventory is during a save, and what the save is for.
Placed ==
    /\ lua.step = "drop" => current # None
    /\ lua.step = "move" => current # None /\ backup = None
    /\ lua.step = "promote" => current = None /\ backup # None
    /\ lua.step = "create" => current = None \/ lua.blind = TRUE
    /\ lua.step = "clean" => current # None
    /\ lua.step \in Saving \ {"clean"} /\ lua.blind = FALSE =>
           lua.paths = (Stored \cup lua.added) \ lua.removed
    /\ lua.step \in Saving => lua.added \cup lua.removed # {}
    /\ lua.step = "remove" => lua.removed # {}
    /\ lua.step = "clean" /\ lua.blind = FALSE => lua.added \subseteq Stored

\* Whose turn it is: nothing is loaded while a loaded file is put in the
\* inventory, and without a session nothing is loaded at all.
Turns ==
    /\ lua.step = "idle" => lua = Idle
    /\ lua.step = "remove" => lua.added = {}
    /\ lua.added = {} \/ lua.removed = {}
    /\ lua.added # {} => session # None /\ download = NoDownload
    /\ session = None => download = NoDownload
    /\ session # None \/ plan # None => manifest # None
    /\ session # None => session # {}
    /\ download # NoDownload => download.path \in session

\* What is planned, and not yet loaded, is not on the card, or was not opened.
Planned ==
    /\ session = None /\ plan # None => plan \cap files \subseteq unopened
    /\ session # None => (session \ InHand) \cap files \subseteq unopened

\* What the user removed is gone, has just been loaded again, or was not opened.
Removed ==
    /\ lua.step = "remove" =>
           (lua.removed \ lua.paths) \cap files \subseteq InHand \cup lua.missed
    /\ lua.step \in Saving => lua.removed \cap files \subseteq InHand \cup lua.missed

IInv == TypeOK /\ Placed /\ Turns /\ Planned /\ Removed

-----------------------------------------------------------------------------
(* Every step keeps the invariant. *)

USE DEF LuaStates

LEMMA SetsExist == ASSUME NEW S \in SUBSET Paths PROVE S # None
BY FilesAssumption

\* What a save begins with: a new list in the temporary file, made from what is
\* stored or from a blind load, and the first of its renames or removals to come.
LEMMA StartSaveMakes ==
    ASSUME TypeOK, NEW added \in SUBSET Paths, NEW removed \in SUBSET Paths,
           StartSave(added, removed)
    PROVE  /\ lua' \in LuaStates
           /\ lua'.step \in {"create", "drop"}
           /\ lua'.step = "drop" => current # None
           /\ lua'.step = "create" => current = None \/ lua'.blind = TRUE
           /\ lua'.blind = FALSE => lua'.paths = (Stored \cup added) \ removed
           /\ lua'.added = added /\ lua'.removed = removed /\ lua'.missed = lua.missed
           /\ NoFault \/ Fault
<1>1. PICK found \in {Stored, backup, {}} \ {None}, step \in {"create", "drop"} :
          /\ step = "drop" => current # None
          /\ IF found # Stored \/ (step = "create" /\ current # None) THEN Fault ELSE NoFault
          /\ lua' = [lua EXCEPT !.step = step, !.paths = (found \cup added) \ removed,
                                !.added = added, !.removed = removed,
                                !.blind = found # Stored \/ (step = "create" /\ current # None)]
    BY DEF StartSave
<1>2. found \in SUBSET Paths
  <2>1. Stored \in SUBSET Paths
      BY DEF Stored, TypeOK
  <2>2. backup \in {None} \cup SUBSET Paths
      BY DEF TypeOK
  <2> QED BY <2>1, <2>2, FilesAssumption
<1>3. (found \cup added) \ removed \in SUBSET Paths
    BY <1>2
<1>4. step \in Saving
    BY DEF Saving
<1>5. lua \in LuaStates
    BY DEF TypeOK
<1>6. /\ lua'.step = step /\ lua'.paths = (found \cup added) \ removed
      /\ lua'.added = added /\ lua'.removed = removed /\ lua'.missed = lua.missed
      /\ lua'.blind = (found # Stored \/ (step = "create" /\ current # None))
    BY <1>1, <1>5
<1>7. lua' \in LuaStates
    BY <1>1, <1>3, <1>4, <1>5
<1> QED BY <1>1, <1>6, <1>7

LEMMA InitKeeps == Init => IInv
<1> SUFFICES ASSUME Init PROVE IInv
    OBVIOUS
<1> USE FilesAssumption DEF Init
<1>1. TypeOK
  <2>1. lua \in LuaStates
      BY DEF Idle
  <2>2. changes \in 0..MaxChanges /\ removals \in 0..MaxRemovals /\ faults \in 0..MaxFaults
      OBVIOUS
  <2> QED BY <2>1, <2>2 DEF TypeOK, Paths
<1>2. Placed /\ Turns /\ Planned /\ Removed
    BY DEF Placed, Turns, Planned, Removed, NoDownload, Idle, Saving, InHand
<1> QED BY <1>1, <1>2 DEF IInv

LEMMA DropBackupKeeps ==
    ASSUME IInv, DropBackup, UNCHANGED <<wanted, changes, removals>> PROVE IInv'
<1> USE FilesAssumption, SetsExist DEF DropBackup, NoFault, Fault, Failed, inventory, planVars, apply
<1>1. TypeOK'
    BY DEF IInv, TypeOK, Turns, Idle, NoDownload, Saving, Paths, GoOn
<1>2. Placed'
    BY DEF IInv, TypeOK, Placed, Turns, Stored, Saving, Idle, NoDownload, GoOn
<1>3. Turns'
    BY DEF IInv, TypeOK, Turns, Saving, Idle, NoDownload, GoOn
<1>4. Planned'
    BY DEF IInv, TypeOK, Turns, Planned, InHand, Saving, Idle, NoDownload, GoOn
<1>5. Removed'
    BY DEF IInv, TypeOK, Turns, Removed, InHand, Saving, Idle, NoDownload, GoOn
<1> QED BY <1>1, <1>2, <1>3, <1>4, <1>5 DEF IInv

LEMMA MoveCurrentKeeps ==
    ASSUME IInv, MoveCurrent, UNCHANGED <<wanted, changes, removals>> PROVE IInv'
<1> USE FilesAssumption, SetsExist DEF MoveCurrent, NoFault, Fault, Failed, inventory, planVars, apply
<1>1. TypeOK'
    BY DEF IInv, TypeOK, Turns, Idle, NoDownload, Saving, Paths, GoOn
<1>2. Placed'
    BY DEF IInv, TypeOK, Placed, Turns, Stored, Saving, Idle, NoDownload, GoOn
<1>3. Turns'
    BY DEF IInv, TypeOK, Turns, Saving, Idle, NoDownload, GoOn
<1>4. Planned'
    BY DEF IInv, TypeOK, Turns, Planned, InHand, Saving, Idle, NoDownload, GoOn
<1>5. Removed'
    BY DEF IInv, TypeOK, Turns, Removed, InHand, Saving, Idle, NoDownload, GoOn
<1> QED BY <1>1, <1>2, <1>3, <1>4, <1>5 DEF IInv

LEMMA PromoteKeeps ==
    ASSUME IInv, Promote, UNCHANGED <<wanted, changes, removals>> PROVE IInv'
<1> USE FilesAssumption, SetsExist DEF Promote, NoFault, Fault, Failed, inventory, planVars, apply
<1>1. TypeOK'
    BY DEF IInv, TypeOK, Turns, Idle, NoDownload, Saving, Paths, GoOn
<1>2. Placed'
    BY DEF IInv, TypeOK, Placed, Turns, Stored, Saving, Idle, NoDownload, GoOn
<1>3. Turns'
    BY DEF IInv, TypeOK, Turns, Saving, Idle, NoDownload, GoOn
<1>4. Planned'
    BY DEF IInv, TypeOK, Turns, Planned, InHand, Saving, Idle, NoDownload, GoOn
<1>5. Removed'
    BY DEF IInv, TypeOK, Turns, Removed, InHand, Saving, Idle, NoDownload, GoOn
<1> QED BY <1>1, <1>2, <1>3, <1>4, <1>5 DEF IInv

LEMMA SavedKeeps ==
    ASSUME IInv, Saved, UNCHANGED <<wanted, changes, removals>> PROVE IInv'
<1> USE FilesAssumption, SetsExist DEF Saved, NoFault, Fault, Failed, inventory, planVars, apply
<1>1. TypeOK'
  <2>1. files' \subseteq Paths /\ wanted' \subseteq Paths /\ {current, backup, cached, manifest, plan, session}' \subseteq {None} \cup SUBSET Paths
    BY DEF IInv, TypeOK, Turns, Idle, NoDownload, Saving, Paths, Advance, Finish, StartNext, First, Missing, MakePlan, NoPlan
  <2>2. authoritative' \in BOOLEAN
    BY DEF IInv, TypeOK, Turns, Idle, NoDownload, Saving, Paths, Advance, Finish, StartNext, First, Missing, MakePlan, NoPlan
  <2>3. download' \in {NoDownload} \cup [step : {"running", "ok", "failed"}, path : Paths]
    BY DEF IInv, TypeOK, Turns, Idle, NoDownload, Saving, Paths, Advance, Finish, StartNext, First, Missing, MakePlan, NoPlan
  <2>4. lua' \in LuaStates
    BY DEF IInv, TypeOK, Turns, Idle, NoDownload, Saving, Paths, Advance, Finish, StartNext, First, Missing, MakePlan, NoPlan
  <2>5. changes' \in 0..MaxChanges /\ removals' \in 0..MaxRemovals /\ faults' \in 0..MaxFaults
    BY DEF IInv, TypeOK, Turns, Idle, NoDownload, Saving, Paths, Advance, Finish, StartNext, First, Missing, MakePlan, NoPlan
  <2>6. unopened' \subseteq Paths
    BY DEF IInv, TypeOK, Turns, Idle, NoDownload, Saving, Paths, Advance, Finish, StartNext, First, Missing, MakePlan, NoPlan
  <2> QED BY <2>1, <2>2, <2>3, <2>4, <2>5, <2>6 DEF TypeOK
<1>2. Placed'
    BY DEF IInv, TypeOK, Placed, Turns, Stored, Saving, Idle, NoDownload, Advance, Finish, StartNext, First, Missing, MakePlan, NoPlan
<1>3. Turns'
    BY DEF IInv, TypeOK, Turns, Saving, Idle, NoDownload, Advance, Finish, StartNext, First, Missing, MakePlan, NoPlan
<1>4. Planned'
    BY DEF IInv, TypeOK, Turns, Planned, InHand, Saving, Idle, NoDownload, Advance, Finish, StartNext, First, Missing, MakePlan, NoPlan
<1>5. Removed'
    BY DEF IInv, TypeOK, Turns, Removed, InHand, Saving, Idle, NoDownload, Advance, Finish, StartNext, First, Missing, MakePlan, NoPlan
<1> QED BY <1>1, <1>2, <1>3, <1>4, <1>5 DEF IInv

LEMMA SaveFailsKeeps ==
    ASSUME IInv, SaveFails, UNCHANGED <<wanted, changes, removals>> PROVE IInv'
<1> USE FilesAssumption, SetsExist DEF SaveFails, NoFault, Fault, Failed, inventory, planVars, apply
<1>1. TypeOK'
  <2>1. files' \subseteq Paths /\ wanted' \subseteq Paths /\ {current, backup, cached, manifest, plan, session}' \subseteq {None} \cup SUBSET Paths
    BY DEF IInv, TypeOK, Turns, Idle, NoDownload, Saving, Paths, Finish, Missing, MakePlan, NoPlan
  <2>2. authoritative' \in BOOLEAN
    BY DEF IInv, TypeOK, Turns, Idle, NoDownload, Saving, Paths, Finish, Missing, MakePlan, NoPlan
  <2>3. download' \in {NoDownload} \cup [step : {"running", "ok", "failed"}, path : Paths]
    BY DEF IInv, TypeOK, Turns, Idle, NoDownload, Saving, Paths, Finish, Missing, MakePlan, NoPlan
  <2>4. lua' \in LuaStates
    BY DEF IInv, TypeOK, Turns, Idle, NoDownload, Saving, Paths, Finish, Missing, MakePlan, NoPlan
  <2>5. changes' \in 0..MaxChanges /\ removals' \in 0..MaxRemovals /\ faults' \in 0..MaxFaults
    BY DEF IInv, TypeOK, Turns, Idle, NoDownload, Saving, Paths, Finish, Missing, MakePlan, NoPlan
  <2>6. unopened' \subseteq Paths
    BY DEF IInv, TypeOK, Turns, Idle, NoDownload, Saving, Paths, Finish, Missing, MakePlan, NoPlan
  <2> QED BY <2>1, <2>2, <2>3, <2>4, <2>5, <2>6 DEF TypeOK
<1>2. Placed'
    BY DEF IInv, TypeOK, Placed, Turns, Stored, Saving, Idle, NoDownload, Finish, Missing, MakePlan, NoPlan
<1>3. Turns'
    BY DEF IInv, TypeOK, Turns, Saving, Idle, NoDownload, Finish, Missing, MakePlan, NoPlan
<1>4. Planned'
    BY DEF IInv, TypeOK, Turns, Planned, InHand, Saving, Idle, NoDownload, Finish, Missing, MakePlan, NoPlan
<1>5. Removed'
    BY DEF IInv, TypeOK, Turns, Removed, InHand, Saving, Idle, NoDownload, Finish, Missing, MakePlan, NoPlan
<1> QED BY <1>1, <1>2, <1>3, <1>4, <1>5 DEF IInv

LEMMA RemoveFileKeeps ==
    ASSUME IInv, RemoveFile, UNCHANGED <<wanted, changes, removals>> PROVE IInv'
<1> USE FilesAssumption, SetsExist DEF RemoveFile, NoFault, Fault, Failed, inventory, planVars, apply
<1>1. TypeOK'
    BY DEF IInv, TypeOK, Turns, Idle, NoDownload, Saving, Paths
<1>2. Placed'
    BY DEF IInv, TypeOK, Placed, Turns, Stored, Saving, Idle, NoDownload
<1>3. Turns'
    BY DEF IInv, TypeOK, Turns, Saving, Idle, NoDownload
<1>4. Planned'
    BY DEF IInv, TypeOK, Turns, Planned, InHand, Saving, Idle, NoDownload
<1>5. Removed'
    BY DEF IInv, TypeOK, Turns, Removed, InHand, Saving, Idle, NoDownload
<1> QED BY <1>1, <1>2, <1>3, <1>4, <1>5 DEF IInv

LEMMA RemoveMissesFileKeeps ==
    ASSUME IInv, RemoveMissesFile, UNCHANGED <<wanted, changes, removals>> PROVE IInv'
<1> USE FilesAssumption, SetsExist DEF RemoveMissesFile, NoFault, Fault, Failed, inventory, planVars, apply
<1>1. TypeOK'
  <2>1. PICK path \in Paths :
            lua' = [lua EXCEPT !.paths = @ \ {path}, !.missed = @ \cup {path}]
      BY DEF IInv, TypeOK
  <2>2. lua' \in LuaStates
      BY <2>1 DEF IInv, TypeOK
  <2> QED BY <2>2 DEF IInv, TypeOK
<1>2. Placed'
    BY DEF IInv, TypeOK, Placed, Turns, Stored, Saving, Idle, NoDownload
<1>3. Turns'
    BY DEF IInv, TypeOK, Turns, Saving, Idle, NoDownload
<1>4. Planned'
    BY DEF IInv, TypeOK, Turns, Planned, InHand, Saving, Idle, NoDownload
<1>5. Removed'
    BY DEF IInv, TypeOK, Turns, Removed, InHand, Saving, Idle, NoDownload
<1> QED BY <1>1, <1>2, <1>3, <1>4, <1>5 DEF IInv

LEMMA RemoveFailsKeeps ==
    ASSUME IInv, RemoveFails, UNCHANGED <<wanted, changes, removals>> PROVE IInv'
<1> USE FilesAssumption, SetsExist DEF RemoveFails, NoFault, Fault, Failed, inventory, planVars, apply
<1>1. TypeOK'
    BY DEF IInv, TypeOK, Turns, Idle, NoDownload, Saving, Paths
<1>2. Placed'
    BY DEF IInv, TypeOK, Placed, Turns, Stored, Saving, Idle, NoDownload
<1>3. Turns'
    BY DEF IInv, TypeOK, Turns, Saving, Idle, NoDownload
<1>4. Planned'
    BY DEF IInv, TypeOK, Turns, Planned, InHand, Saving, Idle, NoDownload
<1>5. Removed'
    BY DEF IInv, TypeOK, Turns, Removed, InHand, Saving, Idle, NoDownload
<1> QED BY <1>1, <1>2, <1>3, <1>4, <1>5 DEF IInv

LEMMA RemovedAllKeeps ==
    ASSUME IInv, RemovedAll, UNCHANGED <<wanted, changes, removals>> PROVE IInv'
<1> USE FilesAssumption, SetsExist
<1>1. lua.removed \in SUBSET Paths /\ lua.step = "remove" /\ lua.paths = {}
    BY DEF RemovedAll, IInv, TypeOK
<1>2. StartSave({}, lua.removed) /\ UNCHANGED <<files, inventory, cached, planVars, apply>>
    BY DEF RemovedAll
<1>3. /\ lua' \in LuaStates
      /\ lua'.step \in {"create", "drop"}
      /\ lua'.step = "drop" => current # None
      /\ lua'.step = "create" => current = None \/ lua'.blind = TRUE
      /\ lua'.blind = FALSE => lua'.paths = (Stored \cup {}) \ lua.removed
      /\ lua'.added = {} /\ lua'.removed = lua.removed /\ lua'.missed = lua.missed
      /\ NoFault \/ Fault
    BY <1>1, <1>2, StartSaveMakes DEF IInv
<1>4. TypeOK'
  <2>1. faults' \in 0..MaxFaults
      BY <1>3 DEF NoFault, Fault, IInv, TypeOK
  <2> QED BY <1>2, <1>3, <2>1 DEF IInv, TypeOK, inventory, planVars, apply
<1>5. Placed'
    BY <1>1, <1>2, <1>3 DEF IInv, Placed, Stored, Saving, inventory
<1>6. Turns'
    BY <1>1, <1>2, <1>3 DEF IInv, Turns, inventory, planVars, apply
<1>7. InHand' = InHand
    BY <1>1, <1>2, <1>3 DEF IInv, Turns, InHand, apply
<1>8. Planned'
    BY <1>2, <1>7 DEF IInv, Planned, planVars, apply
<1>9. Removed'
    BY <1>1, <1>2, <1>3, <1>7 DEF IInv, Removed
<1> QED BY <1>4, <1>5, <1>6, <1>8, <1>9 DEF IInv

LEMMA StartApplyKeeps ==
    ASSUME IInv, StartApply, UNCHANGED <<wanted, changes, removals>> PROVE IInv'
<1> USE FilesAssumption, SetsExist DEF StartApply, NoFault, Fault, Failed, inventory, planVars, apply
<1>1. TypeOK'
    BY DEF IInv, TypeOK, Turns, Idle, NoDownload, Saving, Paths, StartNext, First
<1>2. Placed'
    BY DEF IInv, TypeOK, Placed, Turns, Stored, Saving, Idle, NoDownload, StartNext, First
<1>3. Turns'
    BY DEF IInv, TypeOK, Turns, Saving, Idle, NoDownload, StartNext, First
<1>4. Planned'
    BY DEF IInv, TypeOK, Turns, Planned, InHand, Saving, Idle, NoDownload, StartNext, First
<1>5. Removed'
    BY DEF IInv, TypeOK, Turns, Removed, InHand, Saving, Idle, NoDownload, StartNext, First
<1> QED BY <1>1, <1>2, <1>3, <1>4, <1>5 DEF IInv

LEMMA PollFailedKeeps ==
    ASSUME IInv, PollFailed, UNCHANGED <<wanted, changes, removals>> PROVE IInv'
<1> USE FilesAssumption, SetsExist DEF PollFailed, NoFault, Fault, Failed, inventory, planVars, apply
<1>1. TypeOK'
  <2>1. files' \subseteq Paths /\ wanted' \subseteq Paths /\ {current, backup, cached, manifest, plan, session}' \subseteq {None} \cup SUBSET Paths
    BY DEF IInv, TypeOK, Turns, Idle, NoDownload, Saving, Paths, Advance, Finish, StartNext, First, Missing, MakePlan, NoPlan
  <2>2. authoritative' \in BOOLEAN
    BY DEF IInv, TypeOK, Turns, Idle, NoDownload, Saving, Paths, Advance, Finish, StartNext, First, Missing, MakePlan, NoPlan
  <2>3. download' \in {NoDownload} \cup [step : {"running", "ok", "failed"}, path : Paths]
    BY DEF IInv, TypeOK, Turns, Idle, NoDownload, Saving, Paths, Advance, Finish, StartNext, First, Missing, MakePlan, NoPlan
  <2>4. lua' \in LuaStates
    BY DEF IInv, TypeOK, Turns, Idle, NoDownload, Saving, Paths, Advance, Finish, StartNext, First, Missing, MakePlan, NoPlan
  <2>5. changes' \in 0..MaxChanges /\ removals' \in 0..MaxRemovals /\ faults' \in 0..MaxFaults
    BY DEF IInv, TypeOK, Turns, Idle, NoDownload, Saving, Paths, Advance, Finish, StartNext, First, Missing, MakePlan, NoPlan
  <2>6. unopened' \subseteq Paths
    BY DEF IInv, TypeOK, Turns, Idle, NoDownload, Saving, Paths, Advance, Finish, StartNext, First, Missing, MakePlan, NoPlan
  <2> QED BY <2>1, <2>2, <2>3, <2>4, <2>5, <2>6 DEF TypeOK
<1>2. Placed'
    BY DEF IInv, TypeOK, Placed, Turns, Stored, Saving, Idle, NoDownload, Advance, Finish, StartNext, First, Missing, MakePlan, NoPlan
<1>3. Turns'
    BY DEF IInv, TypeOK, Turns, Saving, Idle, NoDownload, Advance, Finish, StartNext, First, Missing, MakePlan, NoPlan
<1>4. Planned'
    BY DEF IInv, TypeOK, Turns, Planned, InHand, Saving, Idle, NoDownload, Advance, Finish, StartNext, First, Missing, MakePlan, NoPlan
<1>5. Removed'
    BY DEF IInv, TypeOK, Turns, Removed, InHand, Saving, Idle, NoDownload, Advance, Finish, StartNext, First, Missing, MakePlan, NoPlan
<1> QED BY <1>1, <1>2, <1>3, <1>4, <1>5 DEF IInv

\* A loaded file is to be put in the inventory.
LEMMA PollSavesKeeps ==
    ASSUME IInv, PollLoaded, UNCHANGED <<wanted, changes, removals>>,
           StartSave({download.path}, {}), download' = NoDownload,
           UNCHANGED <<planVars, session>>
    PROVE  IInv'
<1> USE FilesAssumption, SetsExist
<1>1. /\ lua = Idle /\ session # None /\ download.step = "ok"
      /\ UNCHANGED <<files, inventory, cached>>
    BY DEF PollLoaded
<1>2. download.path \in Paths /\ download # NoDownload
    BY <1>1 DEF IInv, TypeOK, NoDownload
<1>3. /\ lua' \in LuaStates
      /\ lua'.step \in {"create", "drop"}
      /\ lua'.step = "drop" => current # None
      /\ lua'.step = "create" => current = None \/ lua'.blind = TRUE
      /\ lua'.blind = FALSE => lua'.paths = (Stored \cup {download.path}) \ {}
      /\ lua'.added = {download.path} /\ lua'.removed = {} /\ lua'.missed = lua.missed
      /\ NoFault \/ Fault
  <2>1. {download.path} \in SUBSET Paths /\ {} \in SUBSET Paths
      BY <1>2
  <2> QED BY <2>1, StartSaveMakes DEF IInv
<1>4. TypeOK'
  <2>1. faults' \in 0..MaxFaults
      BY <1>3 DEF NoFault, Fault, IInv, TypeOK
  <2> QED BY <1>1, <1>3, <2>1 DEF IInv, TypeOK, inventory, planVars
<1>5. Placed'
    BY <1>1, <1>3 DEF IInv, Placed, Stored, Saving, inventory
<1>6. Turns'
    BY <1>1, <1>3 DEF IInv, Turns, planVars
<1>7. InHand = {download.path} /\ InHand' = {download.path}
    BY <1>1, <1>3 DEF InHand, Idle, NoDownload
<1>8. Planned'
    BY <1>1, <1>7 DEF IInv, Planned, planVars
<1>9. Removed'
    BY <1>1, <1>3 DEF Removed, Saving
<1> QED BY <1>4, <1>5, <1>6, <1>8, <1>9 DEF IInv

LEMMA PollLoadedKeeps ==
    ASSUME IInv, PollLoaded, UNCHANGED <<wanted, changes, removals>> PROVE IInv'
<1>1. CASE /\ StartSave({download.path}, {}) /\ download' = NoDownload
           /\ UNCHANGED <<planVars, session>>
    BY <1>1, PollSavesKeeps
<1>2. CASE Fault /\ Finish /\ UNCHANGED lua
  <2> USE <1>2, FilesAssumption, SetsExist
      DEF PollLoaded, Fault, Failed, inventory, planVars, apply, Finish, Missing, MakePlan, NoPlan
  <2>1. TypeOK'
    <3>1. {current, backup, cached, manifest, plan, session}' \subseteq {None} \cup SUBSET Paths
        BY DEF IInv, TypeOK, Turns
    <3>2. unopened' \subseteq Paths /\ files' \subseteq Paths
        BY DEF IInv, TypeOK, Turns
    <3>3. authoritative' \in BOOLEAN
        BY DEF IInv, TypeOK
    <3>4. lua' \in LuaStates
        BY DEF IInv, TypeOK
    <3>5. wanted' \subseteq Paths /\ download' = NoDownload
        BY DEF IInv, TypeOK
    <3>6. changes' \in 0..MaxChanges /\ removals' \in 0..MaxRemovals /\ faults' \in 0..MaxFaults
        BY DEF IInv, TypeOK
    <3> QED BY ONLY <3>1, <3>2, <3>3, <3>4, <3>5, <3>6 DEF TypeOK
  <2>2. Placed' /\ Removed'
      BY DEF IInv, Placed, Removed, Stored, Idle, Saving
  <2>3. Turns'
      BY DEF IInv, Turns, Idle, NoDownload
  <2>4. Planned'
      BY DEF IInv, Turns, Planned
  <2> QED BY <2>1, <2>2, <2>3, <2>4 DEF IInv
<1> QED BY <1>1, <1>2 DEF PollLoaded

LEMMA RefreshKeeps ==
    ASSUME IInv, Refresh, UNCHANGED <<wanted, changes, removals>> PROVE IInv'
<1> USE FilesAssumption, SetsExist DEF Refresh, NoFault, Fault, Failed, inventory, planVars, apply
<1>1. TypeOK'
  <2>1. files' \subseteq Paths /\ wanted' \subseteq Paths /\ {current, backup, cached, manifest, plan, session}' \subseteq {None} \cup SUBSET Paths
    BY DEF IInv, TypeOK, Turns, Idle, NoDownload, Saving, Paths, StartNext, First, Missing, MakePlan, NoPlan
  <2>2. authoritative' \in BOOLEAN
    BY DEF IInv, TypeOK, Turns, Idle, NoDownload, Saving, Paths, StartNext, First, Missing, MakePlan, NoPlan
  <2>3. download' \in {NoDownload} \cup [step : {"running", "ok", "failed"}, path : Paths]
    BY DEF IInv, TypeOK, Turns, Idle, NoDownload, Saving, Paths, StartNext, First, Missing, MakePlan, NoPlan
  <2>4. lua' \in LuaStates
    BY DEF IInv, TypeOK, Turns, Idle, NoDownload, Saving, Paths, StartNext, First, Missing, MakePlan, NoPlan
  <2>5. changes' \in 0..MaxChanges /\ removals' \in 0..MaxRemovals /\ faults' \in 0..MaxFaults
    BY DEF IInv, TypeOK, Turns, Idle, NoDownload, Saving, Paths, StartNext, First, Missing, MakePlan, NoPlan
  <2>6. unopened' \subseteq Paths
    BY DEF IInv, TypeOK, Turns, Idle, NoDownload, Saving, Paths, StartNext, First, Missing, MakePlan, NoPlan
  <2> QED BY <2>1, <2>2, <2>3, <2>4, <2>5, <2>6 DEF TypeOK
<1>2. Placed'
    BY DEF IInv, TypeOK, Placed, Turns, Stored, Saving, Idle, NoDownload, StartNext, First, Missing, MakePlan, NoPlan
<1>3. Turns'
    BY DEF IInv, TypeOK, Turns, Saving, Idle, NoDownload, StartNext, First, Missing, MakePlan, NoPlan
<1>4. Planned'
    BY DEF IInv, TypeOK, Turns, Planned, InHand, Saving, Idle, NoDownload, StartNext, First, Missing, MakePlan, NoPlan
<1>5. Removed'
    BY DEF IInv, TypeOK, Turns, Removed, InHand, Saving, Idle, NoDownload, StartNext, First, Missing, MakePlan, NoPlan
<1> QED BY <1>1, <1>2, <1>3, <1>4, <1>5 DEF IInv

LEMMA LoadKeeps ==
    ASSUME IInv, Load, UNCHANGED <<wanted, changes, removals>> PROVE IInv'
<1> USE FilesAssumption, SetsExist DEF Load, NoFault, Fault, Failed, inventory, planVars, apply
<1>1. TypeOK'
    BY DEF IInv, TypeOK, Turns, Idle, NoDownload, Saving, Paths
<1>2. Placed'
    BY DEF IInv, TypeOK, Placed, Turns, Stored, Saving, Idle, NoDownload
<1>3. Turns'
    BY DEF IInv, TypeOK, Turns, Saving, Idle, NoDownload
<1>4. Planned'
    BY DEF IInv, TypeOK, Turns, Planned, InHand, Saving, Idle, NoDownload
<1>5. Removed'
    BY DEF IInv, TypeOK, Turns, Removed, InHand, Saving, Idle, NoDownload
<1> QED BY <1>1, <1>2, <1>3, <1>4, <1>5 DEF IInv

LEMMA LoadFailsKeeps ==
    ASSUME IInv, LoadFails, UNCHANGED <<wanted, changes, removals>> PROVE IInv'
<1> USE FilesAssumption, SetsExist DEF LoadFails, NoFault, Fault, Failed, inventory, planVars, apply
<1>1. TypeOK'
    BY DEF IInv, TypeOK, Turns, Idle, NoDownload, Saving, Paths
<1>2. Placed'
    BY DEF IInv, TypeOK, Placed, Turns, Stored, Saving, Idle, NoDownload
<1>3. Turns'
    BY DEF IInv, TypeOK, Turns, Saving, Idle, NoDownload
<1>4. Planned'
    BY DEF IInv, TypeOK, Turns, Planned, InHand, Saving, Idle, NoDownload
<1>5. Removed'
    BY DEF IInv, TypeOK, Turns, Removed, InHand, Saving, Idle, NoDownload
<1> QED BY <1>1, <1>2, <1>3, <1>4, <1>5 DEF IInv

LEMMA RemoveKeeps ==
    ASSUME IInv, Remove, UNCHANGED <<wanted, changes>> PROVE IInv'
<1> USE FilesAssumption, SetsExist DEF Remove, NoFault, Fault, Failed, inventory, planVars, apply
<1>0. PICK S \in SUBSET Paths : S # {} /\ lua' = Removing(S)
  <2>1. Listed \subseteq Paths
      BY DEF Listed, IInv, TypeOK
  <2> QED BY <2>1
<1>1. TypeOK'
  <2>1. lua' \in LuaStates
      BY <1>0 DEF Removing, Idle
  <2>2. removals' \in 0..MaxRemovals
      BY DEF IInv, TypeOK
  <2> QED BY <2>1, <2>2 DEF IInv, TypeOK
<1>2. Placed'
    BY <1>0 DEF IInv, TypeOK, Placed, Stored, Saving, Idle, Removing
<1>3. Turns'
    BY <1>0 DEF IInv, TypeOK, Turns, Saving, Idle, NoDownload, Removing
<1>4. Planned'
    BY <1>0 DEF IInv, TypeOK, Turns, Planned, InHand, Saving, Idle, NoDownload, Removing
<1>5. Removed'
    BY <1>0 DEF IInv, TypeOK, Turns, Removed, InHand, Saving, Idle, NoDownload, Removing
<1> QED BY <1>1, <1>2, <1>3, <1>4, <1>5 DEF IInv

LEMMA ServerChangesKeeps ==
    ASSUME IInv, ServerChanges PROVE IInv'
<1> USE FilesAssumption, SetsExist DEF ServerChanges, NoFault, Fault, Failed, inventory, planVars, apply
<1>1. TypeOK'
    BY DEF IInv, TypeOK, Turns, Idle, NoDownload, Saving, Paths
<1>2. Placed'
    BY DEF IInv, TypeOK, Placed, Turns, Stored, Saving, Idle, NoDownload
<1>3. Turns'
    BY DEF IInv, TypeOK, Turns, Saving, Idle, NoDownload
<1>4. Planned'
    BY DEF IInv, TypeOK, Turns, Planned, InHand, Saving, Idle, NoDownload
<1>5. Removed'
    BY DEF IInv, TypeOK, Turns, Removed, InHand, Saving, Idle, NoDownload
<1> QED BY <1>1, <1>2, <1>3, <1>4, <1>5 DEF IInv

LEMMA PowerCutKeeps ==
    ASSUME IInv, PowerCut PROVE IInv'
<1> USE FilesAssumption, SetsExist DEF PowerCut, NoFault, Fault, Failed, inventory, planVars, apply
<1>1. TypeOK'
  <2>1. {manifest, plan, session}' \subseteq {None} \cup SUBSET Paths
      BY DEF IInv, TypeOK, Missing, MakePlan, NoPlan
  <2>2. lua' \in LuaStates
      BY DEF Idle
  <2>3. faults' \in 0..MaxFaults
      BY DEF IInv, TypeOK
  <2>4. unopened' \subseteq Paths
      BY DEF IInv, TypeOK, MakePlan, NoPlan
  <2> QED BY <2>1, <2>2, <2>3, <2>4 DEF IInv, TypeOK
<1>2. Placed'
    BY DEF IInv, TypeOK, Placed, Turns, Stored, Saving, Idle, NoDownload, Missing, MakePlan, NoPlan
<1>3. Turns'
    BY DEF IInv, TypeOK, Turns, Saving, Idle, NoDownload, Missing, MakePlan, NoPlan
<1>4. Planned'
    BY DEF IInv, TypeOK, Turns, Planned, InHand, Saving, Idle, NoDownload, Missing, MakePlan, NoPlan
<1>5. Removed'
    BY DEF IInv, TypeOK, Turns, Removed, InHand, Saving, Idle, NoDownload, Missing, MakePlan, NoPlan
<1> QED BY <1>1, <1>2, <1>3, <1>4, <1>5 DEF IInv

LEMMA NextKeeps == ASSUME IInv, [Next]_vars PROVE IInv'
<1>1. CASE DropBackup /\ UNCHANGED <<wanted, changes, removals>>
    BY <1>1, DropBackupKeeps
<1>2. CASE MoveCurrent /\ UNCHANGED <<wanted, changes, removals>>
    BY <1>2, MoveCurrentKeeps
<1>3. CASE Promote /\ UNCHANGED <<wanted, changes, removals>>
    BY <1>3, PromoteKeeps
<1>4. CASE Saved /\ UNCHANGED <<wanted, changes, removals>>
    BY <1>4, SavedKeeps
<1>5. CASE SaveFails /\ UNCHANGED <<wanted, changes, removals>>
    BY <1>5, SaveFailsKeeps
<1>6. CASE RemoveFile /\ UNCHANGED <<wanted, changes, removals>>
    BY <1>6, RemoveFileKeeps
<1>7. CASE RemoveFails /\ UNCHANGED <<wanted, changes, removals>>
    BY <1>7, RemoveFailsKeeps
<1>8. CASE RemovedAll /\ UNCHANGED <<wanted, changes, removals>>
    BY <1>8, RemovedAllKeeps
<1>9. CASE StartApply /\ UNCHANGED <<wanted, changes, removals>>
    BY <1>9, StartApplyKeeps
<1>10. CASE PollFailed /\ UNCHANGED <<wanted, changes, removals>>
    BY <1>10, PollFailedKeeps
<1>11. CASE PollLoaded /\ UNCHANGED <<wanted, changes, removals>>
    BY <1>11, PollLoadedKeeps
<1>12. CASE Refresh /\ UNCHANGED <<wanted, changes, removals>>
    BY <1>12, RefreshKeeps
<1>13. CASE Load /\ UNCHANGED <<wanted, changes, removals>>
    BY <1>13, LoadKeeps
<1>14. CASE LoadFails /\ UNCHANGED <<wanted, changes, removals>>
    BY <1>14, LoadFailsKeeps
<1>15. CASE Remove /\ UNCHANGED <<wanted, changes>>
    BY <1>15, RemoveKeeps
<1>16. CASE ServerChanges
    BY <1>16, ServerChangesKeeps
<1>17. CASE PowerCut
    BY <1>17, PowerCutKeeps
<1>18. CASE UNCHANGED vars
    BY <1>18 DEF vars, inventory, planVars, apply, IInv, TypeOK, Placed, Turns, Planned,
        Removed, Stored, InHand
<1>19. CASE RemoveMissesFile /\ UNCHANGED <<wanted, changes, removals>>
    BY <1>19, RemoveMissesFileKeeps
<1> QED BY <1>1, <1>2, <1>3, <1>4, <1>5, <1>6, <1>7, <1>8, <1>9, <1>10, <1>11, <1>12, <1>13, <1>14, <1>15, <1>16, <1>17, <1>18, <1>19
       DEF Next, LuaStep, Poll

(* The inductive invariant is an invariant.  The names of the paths, of the      *)
(* manifests and the order of the downloads are arbitrary.                       *)
THEOREM FilesInvariant == Spec => []IInv
<1>1. IInv /\ [Next]_vars => IInv'
    BY NextKeeps
<1> QED BY InitKeeps, <1>1, PTL DEF Spec

-----------------------------------------------------------------------------

(* Type correctness: the plan, the session and the inventory hold paths that    *)
(* some manifest may list, and Lua is between two callbacks or in the middle of *)
(* one removal or one save.                                                     *)
THEOREM FilesTypeCorrect == Spec => []TypeOK
<1>1. IInv => TypeOK
    BY DEF IInv
<1> QED BY FilesInvariant, <1>1, PTL

(* A download is started for a path that has a file only where that file could   *)
(* not be opened when the plan was made (default_file_exists): for no other      *)
(* reason, whatever was loaded, removed or planned since (finish_apply,          *)
(* sync_reconcile.plan, sync_apply.start_next).                                  *)
THEOREM PlacesFree == Spec => []FreePlace
<1>1. IInv => FreePlace
  <2> SUFFICES ASSUME IInv, download.step = "running"
                  PROVE  download.path \notin files \/ download.path \in unopened
      BY DEF FreePlace
  <2>1. download # NoDownload /\ lua.added = {}
      BY DEF IInv, Turns, NoDownload
  <2>2. download.path \in session /\ session # None
      BY <2>1 DEF IInv, Turns
  <2>3. InHand = {}
      BY <2>1 DEF InHand
  <2> QED BY <2>2, <2>3 DEF IInv, Planned
<1> QED BY FilesInvariant, <1>1, PTL

-----------------------------------------------------------------------------
(* A save leaves the old inventory or the new one.                              *)

Sound ==
    Stored' # Stored /\ ~lua.blind =>
        /\ lua.added \cup lua.removed # {}
        /\ Stored' = (Stored \cup lua.added) \ lua.removed

\* Only two actions touch the inventory so that a load finds something else, or
\* could.
LEMMA SaveStepsSound ==
    ASSUME IInv, DropBackup \/ MoveCurrent \/ Promote PROVE Sound
<1> USE FilesAssumption, SetsExist
<1>1. CASE DropBackup
    BY <1>1 DEF DropBackup, IInv, Placed, Stored, Sound
<1>2. CASE MoveCurrent
    BY <1>2 DEF MoveCurrent, IInv, Placed, Stored, Sound
<1>3. CASE Promote
  <2>1. lua.paths # None
      BY DEF IInv, TypeOK
  <2>2. Stored' = lua.paths
      BY <1>3, <2>1 DEF Promote, Stored
  <2>3. lua.step \in Saving \ {"clean"}
      BY <1>3 DEF Promote, Saving
  <2>4. lua.blind \in BOOLEAN
      BY DEF IInv, TypeOK
  <2> QED BY <2>2, <2>3, <2>4 DEF IInv, Placed, Sound
<1> QED BY <1>1, <1>2, <1>3

LEMMA SaveEndsSound == ASSUME IInv, Saved \/ SaveFails PROVE Stored' = Stored
<1> USE FilesAssumption, SetsExist
<1>1. CASE Saved
    BY <1>1 DEF Saved, IInv, Placed, Stored
<1>2. CASE SaveFails
    BY <1>2 DEF SaveFails, IInv, Placed, Stored, inventory
<1> QED BY <1>1, <1>2

LEMMA OthersSound ==
    ASSUME \/ RemoveFile \/ RemoveMissesFile \/ RemoveFails \/ RemovedAll \/ Poll \/ Refresh
           \/ Load \/ LoadFails \/ Remove \/ ServerChanges \/ PowerCut \/ UNCHANGED vars
    PROVE  Stored' = Stored
<1>1. UNCHANGED inventory
    BY DEF RemoveFile, RemoveMissesFile, RemoveFails, RemovedAll, Poll, StartApply, PollFailed, PollLoaded,
        Refresh, Load, LoadFails, Remove, ServerChanges, PowerCut, vars
<1> QED BY <1>1 DEF Stored, inventory

(* Through power cuts and failures at any step of a save, the inventory that a  *)
(* load finds changes by the file that was loaded or the files that were        *)
(* removed (sync_managed_paths.save, load).                                     *)
THEOREM InventoryNeverTorn == Spec => InventoryAtomic
<1>1. IInv /\ [Next]_vars => Sound
  <2> SUFFICES ASSUME IInv, [Next]_vars PROVE Sound
      OBVIOUS
  <2>1. CASE DropBackup \/ MoveCurrent \/ Promote
      BY <2>1, SaveStepsSound
  <2>2. CASE Saved \/ SaveFails
      BY <2>2, SaveEndsSound DEF Sound
  <2>3. CASE \/ RemoveFile \/ RemoveMissesFile \/ RemoveFails \/ RemovedAll \/ Poll \/ Refresh
             \/ Load \/ LoadFails \/ Remove \/ ServerChanges \/ PowerCut \/ UNCHANGED vars
      BY <2>3, OthersSound DEF Sound
  <2> QED BY <2>1, <2>2, <2>3 DEF Next, LuaStep
<1>2. IInv /\ [Next]_vars => [Sound]_vars
    BY <1>1
<1> QED BY FilesInvariant, <1>2, PTL DEF Spec, InventoryAtomic, Sound

-----------------------------------------------------------------------------
(* No loaded file is forgotten. *)

Kept == Failed \/ lua.blind \/ Forgotten' \subseteq Forgotten \cup lua.missed

\* Where neither the files nor the inventory nor what is in hand changes.
LEMMA NothingForgotten ==
    ASSUME UNCHANGED <<files, Stored, InHand>> PROVE Kept
BY DEF Kept, Forgotten

LEMMA StepsKeep ==
    ASSUME IInv,
           \/ LuaStep \/ Poll \/ Refresh \/ Load \/ LoadFails
           \/ Remove \/ ServerChanges \/ PowerCut \/ UNCHANGED vars
    PROVE  Kept
<1> USE FilesAssumption, SetsExist
<1>1. CASE DropBackup \/ MoveCurrent
  <2>1. Stored' = Stored
      BY <1>1 DEF DropBackup, MoveCurrent, IInv, Placed, Stored
  <2>2. UNCHANGED <<files, InHand>>
      BY <1>1 DEF DropBackup, MoveCurrent, GoOn, InHand, apply, IInv, TypeOK
  <2> QED BY <2>1, <2>2, NothingForgotten
<1>2. CASE Promote
  <2>1. UNCHANGED <<files, InHand>>
      BY <1>2 DEF Promote, GoOn, InHand, apply, IInv, TypeOK
  <2>2. lua.step \in Saving \ {"clean"} /\ lua.paths # None
      BY <1>2 DEF Promote, Saving, IInv, TypeOK
  <2>3. Stored' = lua.paths
      BY <1>2, <2>2 DEF Promote, Stored
  <2>4. CASE lua.blind = FALSE
    <3>1. Stored' = (Stored \cup lua.added) \ lua.removed
        BY <2>2, <2>3, <2>4 DEF IInv, Placed
    <3>2. lua.removed \cap files \subseteq InHand \cup lua.missed
        BY <2>2 DEF IInv, Removed
    <3> QED BY <2>1, <3>1, <3>2 DEF Kept, Forgotten
  <2>5. CASE lua.blind = TRUE
      BY <2>5 DEF Kept
  <2> QED BY <2>4, <2>5 DEF IInv, TypeOK
<1>3. CASE Saved
  <2>1. Stored' = Stored /\ files' = files
      BY <1>3, SaveEndsSound DEF Saved
  <2>2. CASE lua.blind = FALSE
    <3>1. lua.added \subseteq Stored
        BY <1>3, <2>2 DEF Saved, IInv, Placed
    <3>2. InHand \subseteq InHand' \cup lua.added
      <4>1. CASE lua.added # {}
          BY <4>1 DEF IInv, Turns, InHand, NoDownload
      <4>2. CASE lua.added = {}
          BY <1>3, <4>2 DEF Saved, InHand, apply
      <4> QED BY <4>1, <4>2
    <3> QED BY <2>1, <3>1, <3>2 DEF Kept, Forgotten
  <2>3. CASE lua.blind = TRUE
      BY <2>3 DEF Kept
  <2> QED BY <2>2, <2>3 DEF IInv, TypeOK
<1>4. CASE SaveFails \/ RemoveMissesFile \/ RemoveFails \/ LoadFails \/ PowerCut
  <2>1. CASE Fault
      BY <2>1 DEF Fault, Failed, Kept, IInv, TypeOK
  <2>2. CASE lua.step = "create" /\ current # None
      BY <2>2 DEF IInv, Placed, Kept
  <2> QED BY <1>4, <2>1, <2>2 DEF SaveFails, RemoveMissesFile, RemoveFails, LoadFails, PowerCut
<1>5. CASE RemoveFile
  <2>1. files' \subseteq files /\ Stored' = Stored
      BY <1>5, OthersSound DEF RemoveFile
  <2>2. InHand' = InHand
      BY <1>5 DEF RemoveFile, InHand, apply, IInv, TypeOK
  <2> QED BY <2>1, <2>2 DEF Kept, Forgotten
<1>6. CASE RemovedAll
  <2>1. lua.added = {} /\ lua'.added = {}
      BY <1>6 DEF RemovedAll, StartSave, IInv, Turns
  <2>2. UNCHANGED <<files, Stored, InHand>>
      BY <1>6, <2>1, OthersSound DEF RemovedAll, InHand, apply
  <2> QED BY <2>2, NothingForgotten
<1>7. CASE PollLoaded
  <2>1. UNCHANGED <<files, Stored>>
      BY <1>7, OthersSound DEF PollLoaded, Poll
  <2>2. CASE StartSave({download.path}, {})
    <3>1. lua.added = {} /\ lua'.added = {download.path}
        BY <1>7, <2>2 DEF PollLoaded, StartSave, Idle
    <3>2. InHand = {download.path} /\ InHand \subseteq InHand'
        BY <1>7, <3>1 DEF PollLoaded, InHand
    <3> QED BY <2>1, <3>2 DEF Kept, Forgotten
  <2>3. CASE Fault
      BY <2>3 DEF Fault, Failed, Kept, IInv, TypeOK
  <2> QED BY <1>7, <2>2, <2>3 DEF PollLoaded
<1>8. CASE StartApply \/ PollFailed \/ Refresh
  <2>1. UNCHANGED <<files, Stored, lua>>
      BY <1>8, OthersSound DEF StartApply, PollFailed, Refresh, Poll
  <2>2. download.step # "ok"
      BY <1>8 DEF StartApply, PollFailed, Refresh, IInv, Turns, NoDownload
  <2> QED BY <2>1, <2>2 DEF Kept, Forgotten, InHand
<1>9. CASE Load
  <2>1. Stored' = Stored /\ lua' = lua
      BY <1>9, OthersSound DEF Load
  <2>2. files' \subseteq files \cup InHand' /\ InHand \subseteq InHand'
      BY <1>9, <2>1 DEF Load, InHand, IInv, TypeOK, NoDownload
  <2> QED BY <2>1, <2>2 DEF Kept, Forgotten
<1>10. CASE Remove
  <2>1. lua.added = {} /\ lua'.added = {}
      BY <1>10 DEF Remove, Removing, Idle
  <2>2. UNCHANGED <<files, Stored, InHand>>
      BY <1>10, <2>1, OthersSound DEF Remove, InHand, apply
  <2> QED BY <2>2, NothingForgotten
<1>11. CASE ServerChanges \/ UNCHANGED vars
  <2>1. UNCHANGED <<files, Stored, InHand>>
      BY <1>11, OthersSound DEF ServerChanges, vars, InHand, apply
  <2> QED BY <2>1, NothingForgotten
<1> QED BY <1>1, <1>2, <1>3, <1>4, <1>5, <1>6, <1>7, <1>8, <1>9, <1>10, <1>11
       DEF LuaStep, Poll

(* A loaded file is in the inventory or in hand, whatever the user removes      *)
(* while it is being loaded.  What makes the inventory forget one is a fault in  *)
(* that step, a save after a load that could not open the inventory, or the      *)
(* removal of a file that could not be opened: that one is still there and no    *)
(* longer listed (sync_download.poll, remove_local_paths, file_size).            *)
THEOREM LoadedFilesKept == Spec => NoneForgotten
<1>1. IInv /\ [Next]_vars => Kept
    BY StepsKeep DEF Next
<1>2. IInv /\ [Next]_vars => [Kept]_vars
    BY <1>1
<1> QED BY FilesInvariant, <1>2, PTL DEF Spec, NoneForgotten, Kept
=============================================================================
