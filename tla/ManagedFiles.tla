----------------------------- MODULE ManagedFiles -----------------------------
(***************************************************************************)
(* The files that the synchronisation keeps on the card: which of those the *)
(* manifest lists are missing (lua/sync_reconcile.lua), their loading       *)
(* (lua/sync_apply.lua, lua/sync_download.lua, lua_download.cpp), the       *)
(* inventory of managed paths with its backup (lua/sync_managed_paths.lua), *)
(* and their removal by the user (lua/jellyfin_storage.lua).                *)
(*                                                                         *)
(* Lua runs in one thread.  Its file operations are steps all the same, as  *)
(* the native download goes on between them and power can be cut.  A file   *)
(* is complete when it gets its name: before, it is a ".part" that nobody   *)
(* reads, as the ".tmp" of the inventory.                                   *)
(***************************************************************************)
EXTENDS Integers, FiniteSets

CONSTANTS
    Media, Artwork,     \* paths of files that a manifest may list
    None,               \* nil; a file that does not exist
    MaxChanges,         \* changes of the server's manifest, at most
    MaxRemovals,        \* removals by the user, at most
    MaxFaults           \* power cuts and failed operations, at most

Paths == Media \cup Artwork

ASSUME FilesAssumption ==
    /\ Media \cap Artwork = {}
    /\ None \notin Paths /\ \A S \in SUBSET Paths : None # S
    /\ {MaxChanges, MaxRemovals, MaxFaults} \subseteq Nat

VARIABLES
    files,          \* paths with a file on the card
    current,        \* .tangara_sync_managed_paths
    backup,         \* .tangara_sync_managed_paths.bak
    cached,         \* the manifest on the card
    wanted,         \* the manifest of the server
    manifest,       \* active_manifest
    authoritative,  \* active_plan_authoritative
    plan,           \* active_plan.actions
    unopened,       \* those of it whose file is there, but could not be opened
    session,        \* sync_apply: the actions that are left
    download,       \* the native download, or its result that waits for poll
    lua,            \* what the Lua thread is in the middle of
    changes, removals, faults       \* counts for the bounds

inventory == <<current, backup>>
planVars == <<manifest, authoritative, plan, unopened>>
apply == <<session, download>>
vars == <<files, inventory, cached, wanted, planVars, apply, lua, changes, removals, faults>>

\* Between two callbacks; a removal of files; a save of the inventory.
\* missed: files to remove that could not be opened; blind: nor the inventory.
Idle == [step |-> "idle", paths |-> {}, added |-> {}, removed |-> {}, missed |-> {},
         blind |-> FALSE]
Removing(S) == [Idle EXCEPT !.step = "remove", !.paths = S, !.removed = S]
Saving == {"drop", "move", "promote", "create", "clean"}
LuaStates ==
    [step : {"idle", "remove"} \cup Saving, paths : SUBSET Paths, added : SUBSET Paths,
     removed : SUBSET Paths, missed : SUBSET Paths, blind : BOOLEAN]
NoDownload == [step |-> "idle", path |-> None]

(* Where the bounds are. *)
NoFault == UNCHANGED faults
Fault == faults < MaxFaults /\ faults' = faults + 1
Failed == faults' # faults

TypeOK ==
    /\ files \subseteq Paths
    /\ {current, backup, cached, manifest, plan, session} \subseteq {None} \cup SUBSET Paths
    /\ wanted \subseteq Paths /\ authoritative \in BOOLEAN /\ unopened \subseteq Paths
    /\ download \in {NoDownload} \cup [step : {"running", "ok", "failed"}, path : Paths]
    /\ lua \in LuaStates
    /\ changes \in 0..MaxChanges /\ removals \in 0..MaxRemovals /\ faults \in 0..MaxFaults

Init ==
    /\ files \in SUBSET Media       \* the user may have copied some
    /\ current = None /\ backup = None /\ cached = None
    /\ wanted \in SUBSET Paths
    /\ manifest = None /\ authoritative = FALSE /\ plan = None /\ unopened = {}
    /\ session = None /\ download = NoDownload /\ lua = Idle
    /\ changes = 0 /\ removals = 0 /\ faults = 0

-----------------------------------------------------------------------------
(* The inventory. *)

\* What a load finds: the backup counts only where there is no current file.
Stored ==
    IF current # None THEN current ELSE IF backup # None THEN backup ELSE {}

\* load, then save: from here on the new list is in the temporary file.  A file
\* that cannot be opened is taken for none at all: a blind load finds the backup,
\* or nothing, and a blind save does not see the file it is to replace.
StartSave(added, removed) ==
    \E found \in {Stored, backup, {}} \ {None}, step \in {"create", "drop"} :
        LET blind == found # Stored \/ (step = "create" /\ current # None)
        IN  /\ step = "drop" => current # None
            /\ IF blind THEN Fault ELSE NoFault
            /\ lua' = [lua EXCEPT !.step = step, !.paths = (found \cup added) \ removed,
                                  !.added = added, !.removed = removed, !.blind = blind]

GoOn(step) == lua' = [lua EXCEPT !.step = step]

DropBackup ==
    /\ lua.step = "drop" /\ GoOn("move")
    /\ backup' = None
    /\ NoFault /\ UNCHANGED <<files, current, cached, planVars, apply>>

(* A mutation: the old inventory is removed instead of renamed. *)
RemoveCurrent ==
    /\ lua.step = "move" /\ GoOn("promote")
    /\ current' = None
    /\ NoFault /\ UNCHANGED <<files, backup, cached, planVars, apply>>

MoveCurrent ==
    /\ lua.step = "move" /\ GoOn("promote")
    /\ backup' = current /\ current' = None
    /\ NoFault /\ UNCHANGED <<files, cached, planVars, apply>>

Promote ==
    /\ lua.step \in {"promote", "create"} /\ current = None /\ GoOn("clean")
    /\ current' = lua.paths
    /\ NoFault /\ UNCHANGED <<files, backup, cached, planVars, apply>>

-----------------------------------------------------------------------------
(* The plan, and the session that carries it out. *)

(* A mutation: what the inventory lists counts as on the card. *)
MissingInInventory(listed) == listed \ Stored

\* plan: the paths that are listed and not on the card.  What should be deleted
\* is computed as well, and never used.
Missing(listed) == listed \ files

\* default_file_exists: a file that cannot be opened counts as missing as well.
MakePlan(listed) ==
    /\ unopened' \in {{}} \cup {{path} : path \in listed \cap files}
    /\ unopened' # {} => Failed
    /\ plan' = Missing(listed) \cup unopened'

NoPlan == plan' = None /\ unopened' = {}

\* Media come before artwork.
First(left) == IF left \cap Media # {} THEN left \cap Media ELSE left

StartNext(left) ==
    /\ session' = left
    /\ \E path \in First(left) : download' = [step |-> "running", path |-> path]

(* A mutation: the plan stays as it was made by the refresh. *)
FinishKeepingPlan ==
    /\ session' = None /\ download' = NoDownload
    /\ UNCHANGED planVars

\* finish, finish_apply, update_plan; the inventory may be unreadable.
Finish ==
    /\ session' = None /\ download' = NoDownload
    /\ \/ MakePlan(manifest) /\ UNCHANGED authoritative
       \/ Failed /\ NoPlan /\ authoritative' = FALSE
    /\ UNCHANGED manifest

\* The next action, unless it cannot be started or there is none.
Advance(left) ==
    \/ left # {} /\ NoFault /\ StartNext(left) /\ UNCHANGED planVars
    \/ left # {} /\ Fault /\ Finish
    \/ left = {} /\ (NoFault \/ Fault) /\ Finish

StartApply ==
    /\ lua = Idle /\ session = None
    /\ authoritative /\ plan \notin {None, {}}
    /\ StartNext(plan)
    /\ NoFault /\ UNCHANGED <<files, inventory, cached, planVars, lua>>

\* The answer of the server: save it, plan, and start at once or later.
Refresh ==
    /\ lua = Idle /\ session = None
    /\ NoFault \/ Fault
    /\ \/ cached' = wanted
       \/ Failed /\ UNCHANGED cached
    /\ manifest' = wanted
    /\ \/ /\ MakePlan(wanted) /\ authoritative' = TRUE
          /\ UNCHANGED apply \/ (plan' # {} /\ StartNext(plan'))
       \/ /\ Failed /\ NoPlan /\ authoritative' = FALSE
          /\ UNCHANGED apply
    /\ UNCHANGED <<files, inventory, lua>>

\* The result of a download.  An artwork that fails is left out.
PollFailed ==
    /\ lua = Idle /\ session # None /\ download.step = "failed"
    /\ IF download.path \in Artwork
       THEN Advance(session \ {download.path})
       ELSE (NoFault \/ Fault) /\ Finish
    /\ UNCHANGED <<files, inventory, cached, lua>>

PollLoaded ==
    /\ lua = Idle /\ session # None /\ download.step = "ok"
    /\ \/ /\ StartSave({download.path}, {}) /\ download' = NoDownload
          /\ UNCHANGED <<planVars, session>>
       \/ Fault /\ Finish /\ UNCHANGED lua
    /\ UNCHANGED <<files, inventory, cached>>

\* The end of a save: back in the session, or in the user's removal.
Saved ==
    /\ lua.step = "clean" /\ lua' = Idle
    /\ IF lua.added # {}
       THEN Advance(session \ lua.added)
       ELSE (NoFault \/ Fault) /\ UNCHANGED <<planVars, apply>>
    /\ \/ backup' = None
       \/ Failed /\ UNCHANGED backup
    /\ UNCHANGED <<files, current, cached>>

\* What was moved is moved back, when that works.  The name of a file that is
\* there cannot be taken on FAT.
SaveFails ==
    /\ lua.step \in Saving \ {"clean"} /\ lua' = Idle
    /\ Fault \/ (lua.step = "create" /\ current # None /\ NoFault)
    /\ \/ UNCHANGED inventory
       \/ lua.step = "promote" /\ current' = backup /\ backup' = None
    /\ IF lua.added # {} THEN Finish ELSE UNCHANGED <<planVars, apply>>
    /\ UNCHANGED <<files, cached>>

-----------------------------------------------------------------------------
(* The native download: the file gets its name at the end.                     *)

Load ==
    /\ download.step = "running"
    /\ IF download.path \in files
       THEN download' = [download EXCEPT !.step = "failed"] /\ UNCHANGED files
       ELSE download' = [download EXCEPT !.step = "ok"] /\ files' = files \cup {download.path}
    /\ NoFault /\ UNCHANGED <<inventory, cached, planVars, session, lua>>

LoadFails ==
    /\ download.step = "running" /\ download' = [download EXCEPT !.step = "failed"]
    /\ Fault /\ UNCHANGED <<files, inventory, cached, planVars, session, lua>>

-----------------------------------------------------------------------------
(* The user removes tracks and albums, all artwork, or the items that the       *)
(* manifest calls incomplete.                                                   *)

Listed == IF cached = None THEN {} ELSE cached

Removable(S) == S \subseteq Media \cap Listed \/ S = Artwork \cap Listed

Remove ==
    /\ lua = Idle /\ removals < MaxRemovals /\ removals' = removals + 1
    /\ \E S \in SUBSET Listed : S # {} /\ Removable(S) /\ lua' = Removing(S)
    /\ NoFault /\ UNCHANGED <<files, inventory, cached, planVars, apply>>

RemoveFile ==
    /\ lua.step = "remove"
    /\ \E path \in lua.paths :
           files' = files \ {path} /\ lua' = [lua EXCEPT !.paths = @ \ {path}]
    /\ NoFault /\ UNCHANGED <<inventory, cached, planVars, apply>>

\* file_size cannot open the file: it is passed over as if it was not there.
RemoveMissesFile ==
    /\ lua.step = "remove"
    /\ \E path \in lua.paths \cap files :
           lua' = [lua EXCEPT !.paths = @ \ {path}, !.missed = @ \cup {path}]
    /\ Fault /\ UNCHANGED <<files, inventory, cached, planVars, apply>>

(* A mutation: a file that os.remove cannot remove is passed over as well. *)
RemoveFailsGoingOn ==
    /\ lua.step = "remove"
    /\ \E path \in lua.paths : lua' = [lua EXCEPT !.paths = @ \ {path}]
    /\ Fault /\ UNCHANGED <<files, inventory, cached, planVars, apply>>

\* A file stays, or the inventory cannot be read: nothing more is done.
RemoveFails ==
    /\ lua.step = "remove" /\ (lua.paths \cap files # {} \/ lua.paths = {})
    /\ lua' = Idle
    /\ Fault /\ UNCHANGED <<files, inventory, cached, planVars, apply>>

RemovedAll ==
    /\ lua.step = "remove" /\ lua.paths = {}
    /\ StartSave({}, lua.removed)
    /\ UNCHANGED <<files, inventory, cached, planVars, apply>>

-----------------------------------------------------------------------------
(* The surroundings. *)

ServerChanges ==
    /\ changes < MaxChanges /\ changes' = changes + 1
    /\ \E listed \in SUBSET Paths \ {wanted} : wanted' = listed
    /\ NoFault /\ UNCHANGED <<files, inventory, cached, planVars, apply, lua, removals>>

\* Power is cut, and the device starts with the manifest on its card, if it can
\* read it, which it shows and does not load.
PowerCut ==
    /\ Fault
    /\ lua' = Idle /\ session' = None /\ download' = NoDownload
    /\ manifest' \in {cached, None} /\ authoritative' = FALSE
    /\ IF manifest' = None THEN NoPlan ELSE MakePlan(cached) \/ NoPlan
    /\ UNCHANGED <<files, inventory, cached, wanted, changes, removals>>

\* Lua goes on with what it is in the middle of.
LuaStep ==
    \/ DropBackup \/ MoveCurrent \/ Promote \/ Saved \/ SaveFails
    \/ RemoveFile \/ RemoveMissesFile \/ RemoveFails \/ RemovedAll

\* A poll of the runtime.
Poll == StartApply \/ PollFailed \/ PollLoaded

Next ==
    \/ (LuaStep \/ Poll \/ Refresh \/ Load \/ LoadFails) /\ UNCHANGED <<wanted, changes, removals>>
    \/ Remove /\ UNCHANGED <<wanted, changes>>
    \/ ServerChanges
    \/ PowerCut

\* The timer polls and refreshes for ever; the worker finishes what it has.
Fairness ==
    /\ WF_vars(LuaStep /\ UNCHANGED <<wanted, changes, removals>>)
    /\ WF_vars(Poll /\ UNCHANGED <<wanted, changes, removals>>)
    /\ WF_vars(Refresh /\ UNCHANGED <<wanted, changes, removals>>)
    /\ WF_vars((Load \/ LoadFails) /\ UNCHANGED <<wanted, changes, removals>>)

Spec == Init /\ [][Next]_vars /\ Fairness

-----------------------------------------------------------------------------
(* What is loaded has a free place on the card, unless the file there could not *)
(* be opened when the plan was made: it is made anew whenever files may have    *)
(* come, as a name that is taken makes the load fail, and with it every later   *)
(* one (finish_apply, update_plan).                                             *)
FreePlace ==
    download.step = "running" => download.path \notin files \/ download.path \in unopened

(* Every step of a save leaves an inventory that is the old one or the new one: *)
(* through power cuts and failures, with the backup in between, it changes by   *)
(* the one file that was loaded or by the files that were removed, unless the   *)
(* load before the save was blind (save, load).                                 *)
InventoryAtomic ==
    [][Stored' # Stored /\ ~lua.blind =>
           /\ lua.added \cup lua.removed # {}
           /\ Stored' = (Stored \cup lua.added) \ lua.removed]_vars

(* A file that was loaded is in the inventory or about to be put there.  None   *)
(* is forgotten but by a fault in between, a save after a blind load, or as one *)
(* to remove that could not be opened: not by removals during its load, nor as  *)
(* one that could not be removed (sync_download.poll, remove_local_paths).      *)
InHand == lua.added \cup (IF download.step = "ok" THEN {download.path} ELSE {})
Forgotten == files \ (Stored \cup InHand)
NoneForgotten ==
    [][Failed \/ lua.blind \/ Forgotten' \subseteq Forgotten \cup lua.missed]_vars

(* When the server and the user are done with changes and the faults are over,  *)
(* everything that the server lists gets on the card, what the user removed     *)
(* included, and stays there (poll, start_apply, finish_apply).                 *)
Converges == <>[](wanted \subseteq files)
=============================================================================
