------------------------ MODULE SyncRuntime_proofs ------------------------
(***************************************************************************)
(* Theorems of SyncRuntime, for every number of files, pages, covers,      *)
(* inputs, intervals and faults, whichever screens the user visits,        *)
(* whatever artwork the server lacks and whatever tracks the library comes *)
(* to list: its state is well typed, every                                 *)
(* answer of the HTTP client has the listener that asked for it, the       *)
(* finalization on show has something that ends it, and the runtime never  *)
(* takes an answer away from the screen that waits for it.                 *)
(***************************************************************************)
EXTENDS SyncRuntime, TLAPS

\* What is under way is part of what there is to do, and what the user can
\* still ask for is left by the bound.
Bounded ==
    /\ edits + inputs <= MaxInputs
    /\ cacheQueue + inputs <= MaxInputs
    /\ flush <= edits
    /\ applyMedia <= media /\ applyArtwork <= artwork

IInv == TypeOK /\ Bounded /\ AnswerHasListener /\ FinalizationCanEnd

\* TypeOK in four parts: truth values, names, selections and numbers, each
\* inductive (the numbers with Bounded).
Flags ==
    /\ newerSearch \in BOOLEAN
    /\ inventory \in BOOLEAN
    /\ coversDone \in BOOLEAN /\ cacheActive \in BOOLEAN
    /\ reportPending \in BOOLEAN
    /\ authoritative \in BOOLEAN
    /\ libraryReady \in BOOLEAN
    /\ active \in BOOLEAN /\ finalizing \in BOOLEAN
    /\ needsLibrary \in BOOLEAN /\ waitingArtwork \in BOOLEAN
    /\ retryLink \in BOOLEAN

Names ==
    /\ http \in {"idle", "busy", "answered"}
    /\ owner \in Owners
    /\ download \in {"idle", "busy", "finished"}
    /\ user \in {"none", "apply", "covers", "cache"}
    /\ catalog \in ScreenKinds \cup {"none", "queue", "requests"}
    /\ link \in {"idle", "starting", "waiting", "polling"}
    /\ due \subseteq Timers
    /\ refresh \in {"none", "wanted", "asked", "askedAgain"}
    /\ head \in {"none", "queued", "posting", "downloading"}
    /\ screen \in Screens \cup {"none"}

Selected ==
    /\ bootstrap \in Selections \cup {None} /\ selection \in Selections \cup {None}
    /\ completed \subseteq Selections

Numbers ==
    /\ pages \in 0..MaxPages
    /\ flush \in 0..MaxInputs
    /\ applyMedia \in 0..MaxMedia /\ applyArtwork \in 0..MaxArtwork
    /\ covers \in 0..MaxCovers
    /\ cacheQueue \in 0..MaxInputs
    /\ edits \in 0..MaxInputs
    /\ media \in 0..MaxMedia /\ artwork \in 0..MaxArtwork
    /\ inputs \in 0..MaxInputs
    /\ expiries \in 0..MaxExpiries
    /\ faults \in 0..MaxFaults

\* The parts together are TypeOK.
LEMMA TypeParts == TypeOK <=> Flags /\ Names /\ Selected /\ Numbers
  BY DEF TypeOK, Flags, Names, Selected, Numbers

-----------------------------------------------------------------------------
(* Truth values *)

\* The flags of the operation on show.
OperationFlags ==
    /\ active \in BOOLEAN /\ finalizing \in BOOLEAN
    /\ needsLibrary \in BOOLEAN /\ waitingArtwork \in BOOLEAN

\* fail_operation keeps the flags of the operation truth values.
LEMMA FailFlags ==
    ASSUME OperationFlags, NEW item \in BOOLEAN, NEW remaining \in BOOLEAN,
           FailOperation(item, remaining)
    PROVE  OperationFlags'
  BY DEF OperationFlags, FailOperation

\* So does complete_operation.
LEMMA CompleteFlags ==
    ASSUME CompleteOperation
    PROVE  OperationFlags'
  BY DEF OperationFlags, CompleteOperation

\* So does an answer to sync_catalog.
LEMMA PollCatalogFlags ==
    ASSUME newerSearch \in BOOLEAN, OperationFlags, PollCatalog
    PROVE  newerSearch' \in BOOLEAN /\ OperationFlags'
  <1>1. CASE HearRequests
    <2>1. newerSearch' = newerSearch
      BY <1>1 DEF HearRequests
    <2>2. CASE UNCHANGED operation
      BY <2>1, <2>2 DEF OperationFlags, operation
    <2>3. CASE /\ active' = TRUE
               /\ UNCHANGED <<head, finalizing, needsLibrary, waitingArtwork>>
      BY <2>1, <2>3 DEF OperationFlags
    <2>4. CASE FailOperation(TRUE, FALSE)
      BY <2>1, <2>4, FailFlags
    <2> QED
      BY <1>1, <2>2, <2>3, <2>4 DEF HearRequests
  <1>2. CASE HearQueue
    <2>1. UNCHANGED <<newerSearch, finalizing, needsLibrary, waitingArtwork>>
      BY <1>2 DEF HearQueue
    <2>2. active' = TRUE \/ active' = active
      BY <1>2 DEF HearQueue
    <2> QED
      BY <2>1, <2>2 DEF OperationFlags
  <1>3. CASE HearScreen
    <2>1. newerSearch' = FALSE /\ UNCHANGED operation
      BY <1>3 DEF HearScreen
    <2> QED
      BY <2>1 DEF OperationFlags, operation
  <1> QED
    BY <1>1, <1>2, <1>3 DEF PollCatalog

\* The poll of sync_artwork_cache keeps its flag a truth value.
LEMMA PollCacheFlags ==
    ASSUME cacheActive \in BOOLEAN, PollCache
    PROVE  cacheActive' \in BOOLEAN
  BY DEF PollCache, CacheNext, cache

\* The result of a download changes the flags of its session and its operation.
LEMMA ApplyResultFlags ==
    ASSUME reportPending \in BOOLEAN, OperationFlags, ApplyResult
    PROVE  reportPending' \in BOOLEAN /\ OperationFlags'
  <1>1. CASE ApplySucceeds
    BY <1>1 DEF ApplySucceeds, OperationFlags
  <1>2. CASE ApplyFails
    <2>1. reportPending' \in BOOLEAN
      BY <1>2 DEF ApplyFails
    <2>2. UNCHANGED operation \/ FailOperation(TRUE, head' # "none")
      BY <1>2 DEF ApplyFails
    <2>3. OperationFlags'
      BY <2>2, FailFlags DEF OperationFlags, operation
    <2> QED
      BY <2>1, <2>3
  <1>3. CASE reportPending' = reportPending /\ UNCHANGED operation
    BY <1>3 DEF OperationFlags, operation
  <1> QED
    BY <1>1, <1>2, <1>3 DEF ApplyResult, ApplyGoesOn

\* What the last page of the library does to them.
LEMMA LibraryFlags ==
    ASSUME Flags, OperationFlags, LibraryGoesOn \/ LibraryDone \/ LibraryFails
    PROVE  coversDone' \in BOOLEAN /\ libraryReady' \in BOOLEAN /\ OperationFlags'
  <1>0. coversDone \in BOOLEAN /\ libraryReady \in BOOLEAN
    BY DEF Flags
  <1>1. CASE LibraryGoesOn
    <2>1. UNCHANGED <<coversDone, libraryReady>> /\ UNCHANGED operation
      BY <1>1 DEF LibraryGoesOn, cover
    <2> QED
      BY <1>0, <2>1 DEF OperationFlags, operation
  <1>2. CASE LibraryDone
    <2>1. libraryReady' \in BOOLEAN
      BY <1>2 DEF LibraryDone
    <2>2. coversDone' \in BOOLEAN
      BY <1>0, <1>2 DEF LibraryDone, StartCovers, cover
    <2>3. \/ CompleteOperation \/ UNCHANGED operation
          \/ /\ needsLibrary' = FALSE /\ waitingArtwork' = TRUE
             /\ UNCHANGED <<active, finalizing>>
      BY <1>2 DEF LibraryDone
    <2>4. OperationFlags'
      BY <2>3, CompleteFlags DEF OperationFlags, operation
    <2> QED
      BY <2>1, <2>2, <2>4
  <1>3. CASE LibraryFails
    <2>1. UNCHANGED <<coversDone, libraryReady>>
      BY <1>3 DEF LibraryFails, cover
    <2>2. UNCHANGED operation \/ FailOperation(FALSE, head # "none")
      BY <1>3 DEF LibraryFails
    <2>3. OperationFlags'
      BY <2>2, FailFlags DEF OperationFlags, operation
    <2> QED
      BY <1>0, <2>1, <2>3
  <1> QED
    BY <1>1, <1>2, <1>3

\* Every step of the system keeps the flags truth values.
LEMMA FlagsStep ==
    ASSUME Flags, Next
    PROVE  Flags'
  <1> USE DEF client, slot, search, requests, apply, cover, cache, files, library,
          operation, settings, bounds
  <1>0. /\ OperationFlags
        /\ newerSearch \in BOOLEAN /\ cacheActive \in BOOLEAN
        /\ inventory \in BOOLEAN /\ reportPending \in BOOLEAN
        /\ authoritative \in BOOLEAN /\ coversDone \in BOOLEAN
        /\ retryLink \in BOOLEAN
    BY DEF Flags, OperationFlags
  <1>1. CASE HttpDone
    BY <1>1 DEF Flags, HttpDone
  <1>2. CASE DownloadDone
    BY <1>2 DEF Flags, DownloadDone
  <1>3. CASE RuntimeCatalog
    <2>1. newerSearch' \in BOOLEAN /\ OperationFlags'
      BY <1>0, <1>3, PollCatalogFlags DEF RuntimeCatalog
    <2> QED
      BY <2>1, <1>3 DEF Flags, RuntimeCatalog, OperationFlags
  <1>4. CASE StartRequests
    BY <1>4 DEF Flags, StartRequests
  <1>5. CASE RuntimeCache
    <2>1. cacheActive' \in BOOLEAN
      BY <1>0, <1>5, PollCacheFlags DEF RuntimeCache
    <2> QED
      BY <2>1, <1>5 DEF Flags, RuntimeCache
  <1>6. CASE RuntimeInventory
    <2>1. inventory' \in BOOLEAN
      BY <1>0, <1>6 DEF RuntimeInventory
    <2> QED
      BY <2>1, <1>6 DEF Flags, RuntimeInventory
  <1>7. CASE RuntimeCovers
    <2>1. coversDone' \in BOOLEAN
      BY <1>0, <1>7 DEF RuntimeCovers, EndCovers
    <2>2. CompleteOperation \/ UNCHANGED operation
      BY <1>7 DEF RuntimeCovers, EndCovers
    <2>3. OperationFlags'
      BY <1>0, <2>2, CompleteFlags DEF OperationFlags
    <2> QED
      BY <2>1, <2>3, <1>7 DEF Flags, OperationFlags, RuntimeCovers
  <1>8. CASE RuntimeBootstrap
    <2>2. \/ active' = TRUE /\ UNCHANGED <<finalizing, needsLibrary, waitingArtwork>>
          \/ FailOperation(FALSE, head # "none")
      BY <1>8 DEF RuntimeBootstrap
    <2>3. OperationFlags'
      BY <1>0, <2>2, FailFlags DEF OperationFlags
    <2> QED
      BY <2>3, <1>8 DEF Flags, OperationFlags, RuntimeBootstrap
  <1>9. CASE RuntimeApply
    <2>1. inventory' \in BOOLEAN
      BY <1>0, <1>9 DEF RuntimeApply, ReportProgress
    <2>2. ApplyResult \/ UNCHANGED <<reportPending, operation>>
      BY <1>9 DEF RuntimeApply
    <2>3. reportPending' \in BOOLEAN /\ OperationFlags'
      BY <1>0, <2>2, ApplyResultFlags DEF OperationFlags
    <2> QED
      BY <2>1, <2>3, <1>9 DEF Flags, OperationFlags, RuntimeApply
  <1>10. CASE RuntimeFlush
    BY <1>10 DEF Flags, RuntimeFlush
  <1>11. CASE RuntimeLibrary
    <2>1. coversDone' \in BOOLEAN /\ libraryReady' \in BOOLEAN /\ OperationFlags'
      BY <1>0, <1>11, LibraryFlags DEF RuntimeLibrary
    <2> QED
      BY <2>1, <1>11 DEF Flags, OperationFlags, RuntimeLibrary
  <1>12. CASE RuntimeManifest
    <2>1. authoritative' \in BOOLEAN /\ reportPending' \in BOOLEAN
      BY <1>0, <1>12 DEF RuntimeManifest
    <2>2. OperationFlags'
      BY <1>0, <1>12 DEF RuntimeManifest, StartApply, OperationFlags
    <2> QED
      BY <2>1, <2>2, <1>12 DEF Flags, OperationFlags, RuntimeManifest
  <1>13. CASE StartRequestedRefresh
    BY <1>13 DEF Flags, StartRequestedRefresh
  <1>14. CASE StartReport
    BY <1>14 DEF Flags, StartReport
  <1>15. CASE StartOperations
    BY <1>15 DEF Flags, StartOperations
  <1>16. CASE StartLibrary
    BY <1>16 DEF Flags, StartLibrary, DueAfterOperations
  <1>17. CASE StartBootstrap
    BY <1>17 DEF Flags, StartBootstrap, DueAfterOperations
  <1>18. CASE RetryApply
    BY <1>18 DEF Flags, RetryApply, StartApply
  <1>19. CASE DispatchAndRefresh
    BY <1>19 DEF Flags, DispatchAndRefresh, Dispatch
  <1>20. CASE SyncScreenPoll
    <2>1. cacheActive' \in BOOLEAN
      BY <1>0, <1>20, PollCacheFlags DEF SyncScreenPoll
    <2>2. newerSearch' \in BOOLEAN /\ OperationFlags'
      BY <1>0, <1>20, PollCatalogFlags DEF SyncScreenPoll, OperationFlags
    <2> QED
      BY <2>1, <2>2, <1>20 DEF Flags, OperationFlags, SyncScreenPoll
  <1>21. CASE SettingsPoll
    <2>1. retryLink' \in BOOLEAN
      BY <1>0, <1>21 DEF SettingsPoll, BeginLink
    <2> QED
      BY <2>1, <1>21 DEF Flags, SettingsPoll
  <1>22. CASE Edit
    BY <1>22 DEF Flags, Edit
  <1>23. CASE Enter
    BY <1>23 DEF Flags, Enter
  <1>24. CASE Leave
    <2>1. retryLink' \in BOOLEAN
      BY <1>0, <1>24 DEF Leave
    <2> QED
      BY <2>1, <1>24 DEF Flags, Leave
  <1>25. CASE ScreenRequest
    BY <1>25 DEF Flags, ScreenRequest
  <1>26. CASE SearchAgain
    BY <1>26 DEF Flags, SearchAgain
  <1>27. CASE ScreenArtwork
    <2>1. cacheActive' \in BOOLEAN
      BY <1>0, <1>27 DEF ScreenArtwork, CacheNext
    <2> QED
      BY <2>1, <1>27 DEF Flags, ScreenArtwork
  <1>28. CASE ScreenDownload
    BY <1>28 DEF Flags, ScreenDownload, Dispatch
  <1>29. CASE ClickLink
    <2>1. retryLink' \in BOOLEAN
      BY <1>0, <1>29 DEF ClickLink, BeginLink
    <2> QED
      BY <2>1, <1>29 DEF Flags, ClickLink
  <1>30. CASE Expire
    BY <1>30 DEF Flags, Expire
  <1> QED
    BY <1>1, <1>2, <1>3, <1>4, <1>5, <1>6, <1>7, <1>8, <1>9, <1>10, <1>11,
       <1>12, <1>13, <1>14, <1>15, <1>16, <1>17, <1>18, <1>19, <1>20, <1>21,
       <1>22, <1>23, <1>24, <1>25, <1>26, <1>27, <1>28, <1>29, <1>30
       DEF Next, RuntimePoll, ScreenPoll, User

-----------------------------------------------------------------------------
(* The states of the components *)

\* An answer to sync_catalog leaves the client, the request, the timers, the
\* refresh and the album download in one of their states.
LEMMA PollCatalogNames ==
    ASSUME Names, PollCatalog
    PROVE  /\ http' \in {"idle", "busy", "answered"} /\ owner' \in Owners
           /\ catalog' \in ScreenKinds \cup {"none", "queue", "requests"}
           /\ due' \subseteq Timers
           /\ refresh' \in {"none", "wanted", "asked", "askedAgain"}
           /\ head' \in {"none", "queued", "posting", "downloading"}
  <1> USE DEF Names, Release, Ask, Owners, ScreenKinds, Timers
  <1>1. CASE HearRequests
    BY <1>1 DEF HearRequests
  <1>2. CASE HearQueue
    <2>1. PICK ok \in BOOLEAN :
            IF ok THEN /\ head' = IF head = "posting" THEN "downloading" ELSE head
                       /\ RequestRefresh
                       /\ due' = due \cup {"refresh", "apply"}
                  ELSE /\ head' = IF head = "posting" THEN "none" ELSE head
                       /\ UNCHANGED <<refresh, due>>
      BY <1>2 DEF HearQueue
    <2>2. Release /\ catalog' = "none"
      BY <1>2 DEF HearQueue
    <2> QED
      BY <2>1, <2>2 DEF RequestRefresh
  <1>3. CASE HearScreen
    BY <1>3 DEF HearScreen
  <1> QED
    BY <1>1, <1>2, <1>3 DEF PollCatalog

\* The poll of sync_artwork_cache leaves the download slot in one of its states.
LEMMA PollCacheNames ==
    ASSUME Names, PollCache
    PROVE  /\ download' \in {"idle", "busy", "finished"}
           /\ user' \in {"none", "apply", "covers", "cache"}
  BY DEF Names, PollCache, CacheNext, StartDownload, TakeDownload, slot

\* So does the result of a download of sync_apply, with the timers and the
\* album.
LEMMA ApplyResultNames ==
    ASSUME Names, ApplyResult
    PROVE  /\ download' \in {"idle", "busy", "finished"}
           /\ user' \in {"none", "apply", "covers", "cache"}
           /\ due' \subseteq Timers
           /\ head' \in {"none", "queued", "posting", "downloading"}
  <1> USE DEF Names, StartDownload, TakeDownload, DueAfterReport, Timers
  <1>1. CASE ApplySucceeds
    BY <1>1 DEF ApplySucceeds
  <1>2. CASE ApplyFails
    BY <1>2 DEF ApplyFails
  <1>3. CASE StartDownload("apply") /\ due' = DueAfterReport /\ UNCHANGED head
    BY <1>3
  <1> QED
    BY <1>1, <1>2, <1>3 DEF ApplyResult, ApplyGoesOn

\* The library refresh leaves both slots and the timers in one of their states.
LEMMA LibraryNames ==
    ASSUME Names, LibraryGoesOn \/ LibraryDone \/ LibraryFails
    PROVE  /\ http' \in {"idle", "busy", "answered"} /\ owner' \in Owners
           /\ download' \in {"idle", "busy", "finished"}
           /\ user' \in {"none", "apply", "covers", "cache"}
           /\ due' \subseteq Timers
  <1> USE DEF Names, Release, Ask, Owners, StartDownload, slot
  <1>1. CASE LibraryGoesOn
    BY <1>1 DEF LibraryGoesOn
  <1>2. CASE LibraryDone
    <2>1. UNCHANGED slot \/ StartDownload("covers")
      BY <1>2 DEF LibraryDone, StartCovers
    <2>2. Release /\ due' = due \ {"library"}
      BY <1>2 DEF LibraryDone
    <2> QED
      BY <2>1, <2>2
  <1>3. CASE LibraryFails
    BY <1>3 DEF LibraryFails
  <1> QED
    BY <1>1, <1>2, <1>3

\* Every step of the system leaves every component in one of its states.
LEMMA NamesStep ==
    ASSUME Names, Next
    PROVE  Names'
  <1> USE DEF client, slot, search, requests, apply, cover, cache, files, library,
          operation, settings, bounds,
          Ask, Release, StartDownload, TakeDownload, Owners, ScreenKinds, Timers
  <1>1. CASE HttpDone
    BY <1>1 DEF Names, HttpDone
  <1>2. CASE DownloadDone
    BY <1>2 DEF Names, DownloadDone
  <1>3. CASE RuntimeCatalog
    BY <1>3, PollCatalogNames DEF Names, RuntimeCatalog
  <1>4. CASE StartRequests
    BY <1>4 DEF Names, StartRequests
  <1>5. CASE RuntimeCache
    BY <1>5, PollCacheNames DEF Names, RuntimeCache
  <1>6. CASE RuntimeInventory
    BY <1>6 DEF Names, RuntimeInventory
  <1>7. CASE RuntimeCovers
    BY <1>7 DEF Names, RuntimeCovers
  <1>8. CASE RuntimeBootstrap
    <2>1. /\ due' \subseteq Timers
          /\ refresh' \in {"none", "wanted", "asked", "askedAgain"}
      BY <1>8 DEF Names, RuntimeBootstrap, RequestRefresh
    <2>2. Release /\ UNCHANGED <<download, user, catalog, link, head, screen>>
      BY <1>8 DEF RuntimeBootstrap
    <2> QED
      BY <2>1, <2>2 DEF Names
  <1>9. CASE RuntimeApply
    <2>1. http' \in {"idle", "busy", "answered"} /\ owner' \in Owners
      BY <1>9 DEF Names, RuntimeApply, ReportProgress
    <2>2. \/ ApplyResult
          \/ due' = DueAfterReport /\ UNCHANGED <<slot, head>>
      BY <1>9 DEF RuntimeApply
    <2>3. /\ download' \in {"idle", "busy", "finished"}
          /\ user' \in {"none", "apply", "covers", "cache"}
          /\ due' \subseteq Timers
          /\ head' \in {"none", "queued", "posting", "downloading"}
      BY <2>2, ApplyResultNames DEF Names, DueAfterReport
    <2>4. UNCHANGED <<catalog, link, refresh, screen>>
      BY <1>9 DEF RuntimeApply
    <2> QED
      BY <2>1, <2>3, <2>4 DEF Names
  <1>10. CASE RuntimeFlush
    <2>1. /\ Release
          /\ UNCHANGED <<download, user, catalog, link, refresh, head, screen>>
      BY <1>10 DEF RuntimeFlush
    <2>2. due' \subseteq Timers
      BY <1>10 DEF Names, RuntimeFlush
    <2> QED
      BY <2>1, <2>2 DEF Names
  <1>11. CASE RuntimeLibrary
    BY <1>11, LibraryNames DEF Names, RuntimeLibrary
  <1>12. CASE RuntimeManifest
    BY <1>12 DEF Names, RuntimeManifest, StartApply
  <1>13. CASE StartRequestedRefresh
    BY <1>13 DEF Names, StartRequestedRefresh
  <1>14. CASE StartReport
    BY <1>14 DEF Names, StartReport
  <1>15. CASE StartOperations
    BY <1>15 DEF Names, StartOperations
  <1>16. CASE StartLibrary
    BY <1>16 DEF Names, StartLibrary, DueAfterOperations
  <1>17. CASE StartBootstrap
    BY <1>17 DEF Names, StartBootstrap, DueAfterOperations
  <1>18. CASE RetryApply
    BY <1>18 DEF Names, RetryApply, DueAfterOperations, StartApply
  <1>19. CASE DispatchAndRefresh
    <2>1. due' \subseteq Timers
      BY <1>19 DEF Names, DispatchAndRefresh, DueAfterOperations
    <2>2. /\ http' \in {"idle", "busy", "answered"} /\ owner' \in Owners
          /\ catalog' \in ScreenKinds \cup {"none", "queue", "requests"}
          /\ head' \in {"none", "queued", "posting", "downloading"}
      BY <1>19 DEF Names, DispatchAndRefresh, Dispatch
    <2>3. UNCHANGED <<download, user, link, refresh, screen>>
      BY <1>19 DEF DispatchAndRefresh
    <2> QED
      BY <2>1, <2>2, <2>3 DEF Names
  <1>20. CASE SyncScreenPoll
    <2>1. /\ download' \in {"idle", "busy", "finished"}
          /\ user' \in {"none", "apply", "covers", "cache"}
      BY <1>20, PollCacheNames DEF SyncScreenPoll
    <2>2. PollCatalog \/ UNCHANGED <<http, owner, catalog, due, refresh, head>>
      BY <1>20 DEF SyncScreenPoll
    <2>3. UNCHANGED <<link, screen>>
      BY <1>20 DEF SyncScreenPoll
    <2>4. CASE PollCatalog
      BY <2>1, <2>3, <2>4, PollCatalogNames DEF Names
    <2>5. CASE UNCHANGED <<http, owner, catalog, due, refresh, head>>
      BY <2>1, <2>3, <2>5 DEF Names
    <2> QED
      BY <2>2, <2>4, <2>5
  <1>21. CASE SettingsPoll
    BY <1>21 DEF Names, SettingsPoll, BeginLink
  <1>22. CASE Edit
    BY <1>22 DEF Names, Edit
  <1>23. CASE Enter
    BY <1>23 DEF Names, Enter
  <1>24. CASE Leave
    BY <1>24 DEF Names, Leave
  <1>25. CASE ScreenRequest
    BY <1>25 DEF Names, ScreenRequest
  <1>26. CASE SearchAgain
    BY <1>26 DEF Names, SearchAgain
  <1>27. CASE ScreenArtwork
    BY <1>27 DEF Names, ScreenArtwork, CacheNext
  <1>28. CASE ScreenDownload
    BY <1>28 DEF Names, ScreenDownload, Dispatch
  <1>29. CASE ClickLink
    BY <1>29 DEF Names, ClickLink, BeginLink
  <1>30. CASE Expire
    BY <1>30 DEF Names, Expire
  <1> QED
    BY <1>1, <1>2, <1>3, <1>4, <1>5, <1>6, <1>7, <1>8, <1>9, <1>10, <1>11,
       <1>12, <1>13, <1>14, <1>15, <1>16, <1>17, <1>18, <1>19, <1>20, <1>21,
       <1>22, <1>23, <1>24, <1>25, <1>26, <1>27, <1>28, <1>29, <1>30
       DEF Next, RuntimePoll, ScreenPoll, User

-----------------------------------------------------------------------------
(* Numbers *)

\* An answer to sync_catalog uses up at most one of the faults that are left.
LEMMA PollCatalogFaults ==
    ASSUME Numbers, PollCatalog
    PROVE  faults' \in 0..MaxFaults
  <1> USE RuntimeAssumption DEF RuntimeAssumption, Numbers
  <1>1. faults' = faults \/ (faults > 0 /\ faults' = faults - 1)
    <2>1. CASE HearRequests
      BY <2>1 DEF HearRequests, Outcome
    <2>2. CASE HearQueue
      BY <2>2 DEF HearQueue, Outcome
    <2>3. CASE HearScreen
      BY <2>3 DEF HearScreen, Outcome
    <2> QED
      BY <2>1, <2>2, <2>3 DEF PollCatalog
  <1> QED
    BY <1>1

\* The poll of sync_artwork_cache only takes jobs off its queue.
LEMMA PollCacheNumbers ==
    ASSUME Numbers, PollCache
    PROVE  cacheQueue' \in 0..MaxInputs /\ cacheQueue' <= cacheQueue
  BY RuntimeAssumption
     DEF RuntimeAssumption, Numbers, PollCache, CacheNext, cache

\* A result of sync_apply leaves no more actions in the session than files that
\* the device lacks.
LEMMA ApplyResultNumbers ==
    ASSUME Numbers, Bounded, Applying, ApplyResult
    PROVE  /\ applyMedia' \in 0..MaxMedia /\ applyArtwork' \in 0..MaxArtwork
           /\ media' \in 0..MaxMedia /\ artwork' \in 0..MaxArtwork
           /\ applyMedia' <= media' /\ applyArtwork' <= artwork'
           /\ faults' \in 0..MaxFaults
  <1> USE RuntimeAssumption
      DEF RuntimeAssumption, Numbers, Bounded, Applying
  <1>1. faults' \in 0..MaxFaults
    BY DEF ApplyResult, Outcome
  <1>2. ASSUME ApplyFails \/ ApplySucceeds
        PROVE  applyMedia' = 0 /\ applyArtwork' = 0
    BY <1>2 DEF ApplyFails, ApplySucceeds
  <1>3. ASSUME FileStored
        PROVE  /\ media' \in 0..MaxMedia /\ artwork' \in 0..MaxArtwork
               /\ applyMedia > 0 => media' = media - 1 /\ artwork' = artwork
               /\ applyMedia = 0 => media' = media /\ artwork' = artwork - 1
    BY <1>3 DEF FileStored
  <1>4. ASSUME ApplyGoesOn
        PROVE  \/ applyMedia' = 0 /\ applyArtwork' = 0
               \/ applyMedia > 0 /\ applyMedia' = applyMedia - 1
                  /\ applyArtwork' = applyArtwork
               \/ applyMedia = 0 /\ applyMedia' = 0
                  /\ applyArtwork' = applyArtwork - 1
    BY <1>2, <1>4 DEF ApplyGoesOn
  <1>5. CASE FileStored /\ ApplyGoesOn
    BY <1>1, <1>3, <1>4, <1>5
  <1>6. CASE applyMedia = 0 /\ UNCHANGED <<media, artwork>> /\ ApplyGoesOn
    BY <1>1, <1>4, <1>6
  <1>7. CASE FileStored /\ ApplyFails
    BY <1>1, <1>2, <1>3, <1>7
  <1>8. CASE UNCHANGED <<media, artwork>> /\ ApplyFails
    BY <1>1, <1>2, <1>8
  <1> QED
    BY <1>5, <1>6, <1>7, <1>8 DEF ApplyResult

\* What leaves the queue leaves the bound alone.
LEMMA LessThanBound ==
    ASSUME NEW max \in Nat, NEW n \in Nat, NEW m \in Nat, NEW i \in Nat,
           n <= m, m + i <= max
    PROVE  n + i <= max
  OBVIOUS

\* Every step of the system keeps the numbers in their ranges: no queue, session
\* or counter passes its bound or goes below zero.
LEMMA NumbersStep ==
    ASSUME Numbers, Bounded, Next
    PROVE  Numbers' /\ Bounded'
  <1> USE RuntimeAssumption
      DEF RuntimeAssumption, Numbers, Bounded, Outcome, client, slot, search,
          requests, apply, cover, cache, files, library, operation, settings,
          bounds, Input
  <1>1. CASE HttpDone
    BY <1>1 DEF HttpDone
  <1>2. CASE DownloadDone
    BY <1>2 DEF DownloadDone
  <1>3. CASE RuntimeCatalog
    BY <1>3, PollCatalogFaults DEF RuntimeCatalog
  <1>4. CASE StartRequests
    BY <1>4 DEF StartRequests
  <1>5. CASE RuntimeCache
    BY <1>5, PollCacheNumbers DEF RuntimeCache
  <1>6. CASE RuntimeInventory
    BY <1>6 DEF RuntimeInventory
  <1>7. CASE RuntimeCovers
    BY <1>7 DEF RuntimeCovers, EndCovers
  <1>8. CASE RuntimeBootstrap
    BY <1>8 DEF RuntimeBootstrap
  <1>9. CASE RuntimeApply
    <2>1. \/ Applying /\ ApplyResult
          \/ UNCHANGED <<apply, media, artwork, faults>>
      BY <1>9 DEF RuntimeApply
    <2>2. UNCHANGED <<pages, flush, covers, cacheQueue, edits, inputs, expiries>>
      BY <1>9 DEF RuntimeApply
    <2>3. CASE Applying /\ ApplyResult
      BY <2>2, <2>3, ApplyResultNumbers
    <2> QED
      BY <2>1, <2>2, <2>3
  <1>10. CASE RuntimeFlush
    BY <1>10 DEF RuntimeFlush
  <1>11. CASE RuntimeLibrary
    <2>1. UNCHANGED <<flush, apply, media, artwork, cacheQueue, edits, inputs,
                      expiries>>
      BY <1>11 DEF RuntimeLibrary
    <2>2. CASE LibraryGoesOn
      BY <2>1, <2>2 DEF LibraryGoesOn
    <2>3. CASE LibraryDone
      <3>1. pages' = 0 /\ covers' \in 0..MaxCovers
        BY <2>3 DEF LibraryDone, StartCovers
      <3>2. faults' \in 0..MaxFaults
        BY <2>3 DEF LibraryDone
      <3> QED
        BY <2>1, <3>1, <3>2
    <2>4. CASE LibraryFails
      BY <2>1, <2>4 DEF LibraryFails
    <2> QED
      BY <1>11, <2>2, <2>3, <2>4 DEF RuntimeLibrary
  <1>12. CASE RuntimeManifest
    BY <1>12
       DEF RuntimeManifest, StartApply, MayApply, PastLibrary, PastFlush,
           PastApply, ApplyBusy, Applying
  <1>13. CASE StartRequestedRefresh
    BY <1>13 DEF StartRequestedRefresh
  <1>14. CASE StartReport
    BY <1>14 DEF StartReport
  <1>15. CASE StartOperations
    BY <1>15 DEF StartOperations
  <1>16. CASE StartLibrary
    BY <1>16 DEF StartLibrary
  <1>17. CASE StartBootstrap
    BY <1>17 DEF StartBootstrap
  <1>18. CASE RetryApply
    BY <1>18 DEF RetryApply, StartApply, ApplyDue, MayApply
  <1>19. CASE DispatchAndRefresh
    BY <1>19 DEF DispatchAndRefresh
  <1>20. CASE SyncScreenPoll
    <2>1. faults' \in 0..MaxFaults
      BY <1>20, PollCatalogFaults DEF SyncScreenPoll
    <2>2. cacheQueue' \in 0..MaxInputs /\ cacheQueue' <= cacheQueue
      BY <1>20, PollCacheNumbers DEF SyncScreenPoll
    <2>3. UNCHANGED <<pages, flush, apply, covers, edits, media, artwork, inputs,
                      expiries>>
      BY <1>20 DEF SyncScreenPoll
    <2>4. cacheQueue' + inputs <= MaxInputs
      <3>1. /\ MaxInputs \in Nat /\ cacheQueue' \in Nat
            /\ cacheQueue \in Nat /\ inputs \in Nat
        BY <2>2
      <3>2. cacheQueue' <= cacheQueue /\ cacheQueue + inputs <= MaxInputs
        BY <2>2
      <3> QED
        BY ONLY <3>1, <3>2, LessThanBound
    <2> QED
      BY <2>1, <2>2, <2>3, <2>4
  <1>21. CASE SettingsPoll
    BY <1>21 DEF SettingsPoll, BeginLink
  <1>22. CASE Edit
    BY <1>22 DEF Edit
  <1>23. CASE Enter
    BY <1>23 DEF Enter
  <1>24. CASE Leave
    BY <1>24 DEF Leave
  <1>25. CASE ScreenRequest
    BY <1>25 DEF ScreenRequest
  <1>26. CASE SearchAgain
    BY <1>26 DEF SearchAgain
  <1>27. CASE ScreenArtwork
    BY <1>27 DEF ScreenArtwork, CacheNext
  <1>28. CASE ScreenDownload
    BY <1>28 DEF ScreenDownload
  <1>29. CASE ClickLink
    BY <1>29 DEF ClickLink
  <1>30. CASE Expire
    BY <1>30 DEF Expire
  <1> QED
    BY <1>1, <1>2, <1>3, <1>4, <1>5, <1>6, <1>7, <1>8, <1>9, <1>10, <1>11,
       <1>12, <1>13, <1>14, <1>15, <1>16, <1>17, <1>18, <1>19, <1>20, <1>21,
       <1>22, <1>23, <1>24, <1>25, <1>26, <1>27, <1>28, <1>29, <1>30
       DEF Next, RuntimePoll, ScreenPoll, User

-----------------------------------------------------------------------------
(* Selections *)

\* Every step of the system leaves what is asked for, listed and completed
\* among what the library may list.
LEMMA SelectedStep ==
    ASSUME Selected, Next
    PROVE  Selected'
  <1> USE DEF requests, library
  <1>1. CASE RuntimeBootstrap
    BY <1>1 DEF Selected, RuntimeBootstrap
  <1>2. CASE StartBootstrap
    BY <1>2 DEF Selected, StartBootstrap
  <1>3. CASE RuntimeFlush
    BY <1>3 DEF Selected, RuntimeFlush, LibraryMayChange
  <1>4. CASE RuntimeLibrary
    BY <1>4 DEF Selected, RuntimeLibrary, LibraryGoesOn, LibraryDone, LibraryFails,
                LibraryMayChange
  <1>5. CASE Edit
    BY <1>5 DEF Selected, Edit, LibraryMayChange
  <1>6. CASE UNCHANGED <<bootstrap, selection, completed>>
    BY <1>6 DEF Selected
  <1> QED
    BY <1>1, <1>2, <1>3, <1>4, <1>5, <1>6
       DEF Next, RuntimePoll, ScreenPoll, User, HttpDone, DownloadDone, Expire,
           RuntimeCatalog, StartRequests, RuntimeCache, RuntimeInventory, RuntimeCovers,
           RuntimeApply, RuntimeManifest, StartRequestedRefresh, StartReport,
           StartOperations, StartLibrary, RetryApply, DispatchAndRefresh,
           SyncScreenPoll, SettingsPoll, Enter, Leave, ScreenRequest, SearchAgain,
           ScreenArtwork, ScreenDownload, ClickLink

-----------------------------------------------------------------------------
(* Who waits for an answer *)

\* AnswerHasListener, owner by owner.
Listeners ==
    /\ catalog # "none" <=> owner = "catalog"
    /\ inventory <=> owner = "inventory"
    /\ pages > 0 <=> owner = "library"
    /\ link \in {"starting", "polling"} <=> owner = "link"
    /\ bootstrap # None <=> owner = "bootstrap"
    /\ flush > 0 <=> owner = "flush"
    /\ owner = "none" <=> http = "idle"

\* Its two forms agree.
LEMMA ListenerParts == AnswerHasListener <=> Listeners
  <1>1. /\ Waiting("catalog") <=> catalog # "none"
        /\ Waiting("inventory") <=> inventory
        /\ Waiting("library") <=> pages > 0
        /\ Waiting("link") <=> link \in {"starting", "polling"}
        /\ Waiting("bootstrap") <=> bootstrap # None
        /\ Waiting("flush") <=> flush > 0
    BY DEF Waiting
  <1>2. Owners \ {"none", "manifest"} =
            {"catalog", "inventory", "library", "link", "bootstrap", "flush"}
    BY DEF Owners
  <1> QED
    BY <1>1, <1>2 DEF AnswerHasListener, Listeners

\* The client's answer goes to sync_catalog, which asks again or is done.
LEMMA PollCatalogListener ==
    ASSUME PollCatalog
    PROVE  /\ owner = "catalog"
           /\ \/ http' = "idle" /\ owner' = "none" /\ catalog' = "none"
              \/ http' = "busy" /\ owner' = "catalog" /\ catalog' # "none"
  <1>1. owner = "catalog"
    BY DEF PollCatalog, Heard
  <1>2. CASE HearRequests
    BY <1>1, <1>2 DEF HearRequests, Release
  <1>3. CASE HearQueue
    BY <1>1, <1>3 DEF HearQueue, Release
  <1>4. CASE HearScreen
    BY <1>1, <1>4 DEF HearScreen, Release, Ask
  <1> QED
    BY <1>2, <1>3, <1>4 DEF PollCatalog

\* Every step of the system keeps the owner of the slot and the component that
\* waits for it the same.
LEMMA ListenersStep ==
    ASSUME Names, Numbers, Listeners, Next
    PROVE  Listeners'
  <1> USE DEF client, search, requests, settings, Ask, Release, Heard
  <1>0. ClientIdle => http = "idle" /\ owner = "none"
    BY DEF ClientIdle, Listeners
  <1>1. CASE HttpDone
    BY <1>1 DEF Listeners, HttpDone
  <1>2. CASE DownloadDone
    BY <1>2 DEF Listeners, DownloadDone
  <1>3. CASE RuntimeCatalog
    BY <1>3, PollCatalogListener DEF Listeners, RuntimeCatalog
  <1>4. CASE StartRequests
    BY <1>0, <1>4 DEF Listeners, StartRequests, RequestsDue
  <1>5. CASE RuntimeCache
    BY <1>5 DEF Listeners, RuntimeCache
  <1>6. CASE RuntimeInventory
    BY <1>6 DEF Listeners, RuntimeInventory
  <1>7. CASE RuntimeCovers
    BY <1>7 DEF Listeners, RuntimeCovers
  <1>8. CASE RuntimeBootstrap
    BY <1>8 DEF Listeners, RuntimeBootstrap
  <1>9. CASE RuntimeApply
    BY <1>0, <1>9 DEF Listeners, RuntimeApply, ReportProgress, CanReport
  <1>10. CASE RuntimeFlush
    BY <1>10 DEF Listeners, RuntimeFlush
  <1>11. CASE RuntimeLibrary
    <2>1. /\ owner = "library"
          /\ UNCHANGED <<catalog, inventory, link, bootstrap, flush>>
      BY <1>11 DEF RuntimeLibrary
    <2>2. \/ http' = "idle" /\ owner' = "none" /\ pages' = 0
          \/ http' = "busy" /\ owner' = "library" /\ pages > 1 /\ pages' = pages - 1
      BY <1>11, <2>1
         DEF RuntimeLibrary, LibraryGoesOn, LibraryDone, LibraryFails
    <2>3. pages > 1 /\ pages' = pages - 1 => pages' > 0
      BY RuntimeAssumption DEF Numbers, RuntimeAssumption
    <2> QED
      BY <2>1, <2>2, <2>3 DEF Listeners
  <1>12. CASE RuntimeManifest
    BY <1>12 DEF Listeners, RuntimeManifest
  <1>13. CASE StartRequestedRefresh
    BY <1>0, <1>13 DEF Listeners, StartRequestedRefresh, PastManifest
  <1>14. CASE StartReport
    BY <1>0, <1>14 DEF Listeners, StartReport, PastManifest, PastRefresh
  <1>15. CASE StartOperations
    BY <1>0, <1>15, RuntimeAssumption
       DEF Listeners, StartOperations, PastManifest, PastRefresh, PastReport,
           RuntimeAssumption, Numbers
  <1>16. CASE StartLibrary
    BY <1>0, <1>16, RuntimeAssumption
       DEF Listeners, StartLibrary, PastManifest, PastRefresh, PastReport,
           PastOperations, RuntimeAssumption
  <1>17. CASE StartBootstrap
    BY <1>0, <1>17, RuntimeAssumption
       DEF Listeners, StartBootstrap, PastManifest, PastRefresh, PastReport,
           PastOperations, PastStartLibrary, BootstrapDue, RuntimeAssumption
  <1>18. CASE RetryApply
    BY <1>18 DEF Listeners, RetryApply
  <1>19. CASE DispatchAndRefresh
    BY <1>0, <1>19
       DEF Listeners, DispatchAndRefresh, PastManifest, PastRefresh,
           PastReport, PastOperations, PastStartLibrary, PastStartBootstrap,
           Dispatch
  <1>20. CASE SyncScreenPoll
    BY <1>20, PollCatalogListener DEF Listeners, SyncScreenPoll
  <1>21. CASE SettingsPoll
    BY <1>0, <1>21 DEF Listeners, SettingsPoll, BeginLink
  <1>22. CASE Edit
    BY <1>22 DEF Listeners, Edit
  <1>23. CASE Enter
    BY <1>23 DEF Listeners, Enter
  <1>24. CASE Leave
    BY <1>24 DEF Listeners, Leave
  <1>25. CASE ScreenRequest
    BY <1>0, <1>25 DEF Listeners, ScreenRequest
  <1>26. CASE SearchAgain
    BY <1>26 DEF Listeners, SearchAgain
  <1>27. CASE ScreenArtwork
    BY <1>27 DEF Listeners, ScreenArtwork
  <1>28. CASE ScreenDownload
    BY <1>0, <1>28 DEF Listeners, ScreenDownload, Dispatch
  <1>29. CASE ClickLink
    BY <1>0, <1>29 DEF Listeners, ClickLink, BeginLink
  <1>30. CASE Expire
    BY <1>30 DEF Listeners, Expire
  <1> QED
    BY <1>1, <1>2, <1>3, <1>4, <1>5, <1>6, <1>7, <1>8, <1>9, <1>10, <1>11,
       <1>12, <1>13, <1>14, <1>15, <1>16, <1>17, <1>18, <1>19, <1>20, <1>21,
       <1>22, <1>23, <1>24, <1>25, <1>26, <1>27, <1>28, <1>29, <1>30
       DEF Next, RuntimePoll, ScreenPoll, User

-----------------------------------------------------------------------------
(* What ends a finalization *)

\* The state FinalizationCanEnd relates.
shown == <<finalizing, needsLibrary, waitingArtwork>>

\* CompleteOperation and FailOperation leave a finalization alone or end it.
LEMMA EndsOrStays ==
    ASSUME NEW item \in BOOLEAN, NEW remaining \in BOOLEAN,
           CompleteOperation \/ FailOperation(item, remaining)
    PROVE  UNCHANGED shown \/ (~finalizing' /\ ~needsLibrary' /\ ~waitingArtwork')
  BY DEF CompleteOperation, FailOperation, shown

\* An answer to sync_catalog leaves the finalization alone or ends it.
LEMMA PollCatalogFinalization ==
    ASSUME PollCatalog
    PROVE  /\ UNCHANGED shown \/ (~finalizing' /\ ~needsLibrary' /\ ~waitingArtwork')
           /\ "library" \in due => "library" \in due'
  <1>1. CASE HearRequests
    <2>1. UNCHANGED shown \/ FailOperation(TRUE, FALSE)
      BY <1>1 DEF HearRequests, shown, operation
    <2> QED
      BY <1>1, <2>1, EndsOrStays DEF HearRequests
  <1>2. CASE HearQueue
    BY <1>2 DEF HearQueue, shown
  <1>3. CASE HearScreen
    BY <1>3 DEF HearScreen, shown, operation
  <1> QED
    BY <1>1, <1>2, <1>3 DEF PollCatalog

\* A step that leaves the finalization alone, or ends it, and neither takes the
\* library's timer away nor ends the covers, leaves it endable.
LEMMA FinalizationStays ==
    ASSUME FinalizationCanEnd,
           UNCHANGED shown \/ (~finalizing' /\ ~needsLibrary' /\ ~waitingArtwork'),
           "library" \in due => "library" \in due',
           CoversBusy => CoversBusy'
    PROVE  FinalizationCanEnd'
  BY DEF FinalizationCanEnd, shown

\* Every step of the system leaves a finalization that something ends.
LEMMA FinalizationStep ==
    ASSUME Numbers, FinalizationCanEnd, Next
    PROVE  FinalizationCanEnd'
  <1> USE DEF shown, operation, cover
  <1>1. CASE HttpDone
    BY <1>1, FinalizationStays DEF HttpDone, CoversBusy
  <1>2. CASE DownloadDone
    BY <1>2, FinalizationStays DEF DownloadDone, CoversBusy
  <1>3. CASE RuntimeCatalog
    BY <1>3, PollCatalogFinalization, FinalizationStays
       DEF RuntimeCatalog, CoversBusy
  <1>4. CASE StartRequests
    BY <1>4, FinalizationStays DEF StartRequests, CoversBusy
  <1>5. CASE RuntimeCache
    BY <1>5, FinalizationStays DEF RuntimeCache, CoversBusy
  <1>6. CASE RuntimeInventory
    BY <1>6, FinalizationStays DEF RuntimeInventory, CoversBusy
  <1>7. CASE RuntimeCovers
    <2>1. due' = due
      BY <1>7 DEF RuntimeCovers
    <2>2. CASE EndCovers
      BY <2>1, <2>2 DEF EndCovers, CompleteOperation, FinalizationCanEnd
    <2>3. CASE covers > 1 /\ covers' = covers - 1 /\ UNCHANGED operation
      <3>1. covers' > 0
        BY <2>3, RuntimeAssumption DEF Numbers, RuntimeAssumption
      <3> QED
        BY <2>1, <2>3, <3>1, FinalizationStays DEF CoversBusy
    <2> QED
      BY <1>7, <2>2, <2>3 DEF RuntimeCovers
  <1>8. CASE RuntimeBootstrap
    <2>1. UNCHANGED shown \/ FailOperation(FALSE, head # "none")
      BY <1>8 DEF RuntimeBootstrap
    <2>2. "library" \in due => "library" \in due'
      BY <1>8 DEF RuntimeBootstrap
    <2>3. UNCHANGED cover
      BY <1>8 DEF RuntimeBootstrap
    <2> QED
      BY <2>1, <2>2, <2>3, EndsOrStays, FinalizationStays DEF CoversBusy
  <1>9. CASE RuntimeApply
    <2>1. UNCHANGED cover
      BY <1>9 DEF RuntimeApply
    <2>2. CASE ApplySucceeds
      BY <2>2 DEF ApplySucceeds, FinalizationCanEnd
    <2>3. CASE ApplyFails
      <3>1. UNCHANGED shown \/ FailOperation(TRUE, head' # "none")
        BY <2>3 DEF ApplyFails
      <3>2. "library" \in due => "library" \in due'
        BY <2>3 DEF ApplyFails, DueAfterReport
      <3> QED
        BY <2>1, <3>1, <3>2, EndsOrStays, FinalizationStays DEF CoversBusy
    <2>4. CASE due' = DueAfterReport /\ UNCHANGED operation
      BY <2>1, <2>4, FinalizationStays DEF CoversBusy, DueAfterReport
    <2> QED
      BY <1>9, <2>2, <2>3, <2>4 DEF RuntimeApply, ApplyResult, ApplyGoesOn
  <1>10. CASE RuntimeFlush
    BY <1>10, FinalizationStays DEF RuntimeFlush, CoversBusy
  <1>11. CASE RuntimeLibrary
    <2>1. CASE LibraryGoesOn
      BY <2>1, FinalizationStays DEF LibraryGoesOn, CoversBusy
    <2>2. CASE LibraryDone
      <3>1. CASE /\ \E n \in 0..MaxCovers : StartCovers(n)
                 /\ IF needsLibrary
                    THEN /\ needsLibrary' = FALSE /\ waitingArtwork' = TRUE
                         /\ UNCHANGED <<active, finalizing>>
                    ELSE UNCHANGED operation
        <4>1. CoversBusy'
          BY <3>1, RuntimeAssumption
             DEF StartCovers, CoversBusy, RuntimeAssumption
        <4> QED
          BY <3>1, <4>1 DEF FinalizationCanEnd
      <3>2. CASE /\ UNCHANGED cover
                 /\ IF needsLibrary THEN CompleteOperation ELSE UNCHANGED operation
        BY <3>2 DEF FinalizationCanEnd, CompleteOperation, CoversBusy
      <3> QED
        BY <2>2, <3>1, <3>2 DEF LibraryDone
    <2>3. CASE LibraryFails
      BY <2>3 DEF LibraryFails, FailOperation, FinalizationCanEnd, CoversBusy
    <2> QED
      BY <1>11, <2>1, <2>2, <2>3 DEF RuntimeLibrary
  <1>12. CASE RuntimeManifest
    BY <1>12, FinalizationStays
       DEF RuntimeManifest, FinalizationCanEnd, CoversBusy, StartApply
  <1>13. CASE StartRequestedRefresh
    BY <1>13, FinalizationStays DEF StartRequestedRefresh, CoversBusy
  <1>14. CASE StartReport
    BY <1>14, FinalizationStays DEF StartReport, CoversBusy
  <1>15. CASE StartOperations
    BY <1>15, FinalizationStays DEF StartOperations, CoversBusy
  <1>16. CASE StartLibrary
    BY <1>16, FinalizationStays DEF StartLibrary, CoversBusy, DueAfterOperations
  <1>17. CASE StartBootstrap
    BY <1>17, FinalizationStays
       DEF StartBootstrap, CoversBusy, DueAfterOperations
  <1>18. CASE RetryApply
    BY <1>18, FinalizationStays DEF RetryApply, CoversBusy, DueAfterOperations
  <1>19. CASE DispatchAndRefresh
    BY <1>19, FinalizationStays
       DEF DispatchAndRefresh, CoversBusy, DueAfterOperations
  <1>20. CASE SyncScreenPoll
    BY <1>20, PollCatalogFinalization, FinalizationStays
       DEF SyncScreenPoll, CoversBusy
  <1>21. CASE SettingsPoll
    BY <1>21, FinalizationStays DEF SettingsPoll, CoversBusy
  <1>22. CASE Edit
    BY <1>22, FinalizationStays DEF Edit, CoversBusy
  <1>23. CASE Enter
    BY <1>23, FinalizationStays DEF Enter, CoversBusy
  <1>24. CASE Leave
    BY <1>24, FinalizationStays DEF Leave, CoversBusy
  <1>25. CASE ScreenRequest
    BY <1>25, FinalizationStays DEF ScreenRequest, CoversBusy
  <1>26. CASE SearchAgain
    BY <1>26, FinalizationStays DEF SearchAgain, CoversBusy
  <1>27. CASE ScreenArtwork
    BY <1>27, FinalizationStays DEF ScreenArtwork, CoversBusy
  <1>28. CASE ScreenDownload
    BY <1>28, FinalizationStays DEF ScreenDownload, CoversBusy
  <1>29. CASE ClickLink
    BY <1>29, FinalizationStays DEF ClickLink, CoversBusy
  <1>30. CASE Expire
    BY <1>30, FinalizationStays DEF Expire, CoversBusy
  <1> QED
    BY <1>1, <1>2, <1>3, <1>4, <1>5, <1>6, <1>7, <1>8, <1>9, <1>10, <1>11,
       <1>12, <1>13, <1>14, <1>15, <1>16, <1>17, <1>18, <1>19, <1>20, <1>21,
       <1>22, <1>23, <1>24, <1>25, <1>26, <1>27, <1>28, <1>29, <1>30
       DEF Next, RuntimePoll, ScreenPoll, User

-----------------------------------------------------------------------------
(* The theorems *)

\* After start() nobody waits, and there is nothing to finalize.
LEMMA InitIInv == Init => IInv
  <1> SUFFICES ASSUME Init PROVE IInv
    OBVIOUS
  <1>1. Flags
    BY DEF Init, Flags
  <1>2. Names
    BY DEF Init, Names, Owners, ScreenKinds
  <1>3. Numbers /\ Bounded
    BY RuntimeAssumption DEF Init, Numbers, Bounded, RuntimeAssumption
  <1>4. Listeners
    BY DEF Init, Listeners
  <1>5. FinalizationCanEnd
    BY DEF Init, FinalizationCanEnd
  <1>6. Selected
    BY DEF Init, Selected
  <1> QED
    BY <1>1, <1>2, <1>3, <1>4, <1>5, <1>6, TypeParts, ListenerParts DEF IInv

\* The parts of a state are the parts of the next one.
LEMMA PartsNext ==
    /\ TypeOK' <=> (Flags /\ Names /\ Selected /\ Numbers)'
    /\ AnswerHasListener' <=> Listeners'
  BY TypeParts, ListenerParts, PTL

\* The inductive step, and the step in which nothing changes.
LEMMA StepIInv == IInv /\ [Next]_vars => IInv'
  <1>1. ASSUME IInv, Next PROVE IInv'
    <2>1. Flags /\ Names /\ Selected /\ Numbers /\ Bounded /\ Listeners /\ FinalizationCanEnd
      BY <1>1, TypeParts, ListenerParts DEF IInv
    <2>2. Flags' /\ Names' /\ Selected'
      BY <1>1, <2>1, FlagsStep, NamesStep, SelectedStep
    <2>3. Numbers' /\ Bounded'
      BY <1>1, <2>1, NumbersStep
    <2>4. Listeners' /\ FinalizationCanEnd'
      BY <1>1, <2>1, ListenersStep, FinalizationStep
    <2>5. TypeOK' /\ AnswerHasListener'
      BY <2>2, <2>3, <2>4, PartsNext
    <2> QED
      BY <2>3, <2>4, <2>5 DEF IInv
  <1>2. ASSUME IInv, UNCHANGED vars PROVE IInv'
    <2> USE DEF vars, client, slot, search, requests, apply, cover, cache, files,
            library, operation, settings, bounds
    <2>1. TypeOK'
      BY <1>2 DEF IInv, TypeOK
    <2>2. Bounded'
      BY <1>2 DEF IInv, Bounded
    <2>3. Listeners'
      BY <1>2, ListenerParts DEF IInv, Listeners
    <2>4. FinalizationCanEnd'
      BY <1>2 DEF IInv, FinalizationCanEnd, CoversBusy
    <2>5. AnswerHasListener'
      BY <2>3, PartsNext
    <2> QED
      BY <2>1, <2>2, <2>4, <2>5 DEF IInv
  <1> QED
    BY <1>1, <1>2

\* IInv holds in every state of the device.
THEOREM RuntimeInvariant == Spec => []IInv
  BY InitIInv, StepIInv, PTL DEF Spec

\* Every component stays in one of its states and every counter in its range.
THEOREM RuntimeTypeCorrect == Spec => []TypeOK
  <1>1. IInv => TypeOK
    BY DEF IInv
  <1> QED
    BY <1>1, RuntimeInvariant, PTL

\* However the timers of the runtime and of the screens interleave, the answer
\* in the HTTP slot belongs to the one component that waits for it.
THEOREM AnswersHeard == Spec => []AnswerHasListener
  <1>1. IInv => AnswerHasListener
    BY DEF IInv
  <1> QED
    BY <1>1, RuntimeInvariant, PTL

\* Whichever callbacks ran, a finalization on show is waiting for a library
\* refresh that is due or for covers that are being loaded.
THEOREM FinalizationEndable == Spec => []FinalizationCanEnd
  <1>1. IInv => FinalizationCanEnd
    BY DEF IInv
  <1> QED
    BY <1>1, RuntimeInvariant, PTL

\* The runtime's timer never takes an answer a screen asked for:
\* poll_shared_catalog, and the requests that find sync_catalog busy, leave it.
THEOREM ScreensAnswered == Spec => ScreenKeepsAnswer
  <1>1. [Next]_vars => [(catalog \in ScreenKinds /\ catalog' # catalog
                            => screen = "sync")]_vars
    <2> SUFFICES ASSUME Next, catalog \in ScreenKinds, catalog' # catalog
                 PROVE  screen = "sync"
      OBVIOUS
    <2> USE DEF ScreenKinds, search
    <2>1. ~RuntimePoll
      BY DEF RuntimePoll, RuntimeCatalog, StartRequests, RuntimeCache,
             RuntimeInventory, RuntimeCovers, RuntimeBootstrap, RuntimeApply,
             RuntimeFlush, RuntimeLibrary, RuntimeManifest,
             StartRequestedRefresh, StartReport, StartOperations, StartLibrary,
             StartBootstrap, RetryApply, DispatchAndRefresh, Dispatch,
             PastStartBootstrap, PastStartLibrary, PastOperations, PastReport,
             PastRefresh, PastManifest, PastLibrary, PastFlush, PastApply,
             PastBootstrap, PastCovers, PastInventory, PastCache, PastCatalog
    <2>2. ~SettingsPoll
      BY DEF SettingsPoll
    <2>3. ~(HttpDone \/ DownloadDone \/ Expire)
      BY DEF HttpDone, DownloadDone, Expire
    <2>4. User => ScreenRequest \/ ScreenDownload
      BY DEF User, Edit, Enter, Leave, SearchAgain, ScreenArtwork, ClickLink
    <2> QED
      BY <2>1, <2>2, <2>3, <2>4
         DEF Next, ScreenPoll, SyncScreenPoll, ScreenRequest, ScreenDownload
  <1> QED
    BY <1>1, PTL DEF Spec, ScreenKeepsAnswer
=============================================================================
