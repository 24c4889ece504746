----------------------------- MODULE SyncRuntime -----------------------------
(***************************************************************************)
(* Who uses the device's two transports, and when.  lua/sync_client.lua    *)
(* lends the one native HTTP slot to an owner at a time; the native        *)
(* download slot is used by sync_apply (through sync_download), by         *)
(* sync_library_artwork and by sync_artwork_cache.  The timer of           *)
(* lua/sync_runtime.lua polls the first of them that is busy, and starts   *)
(* new work only when nobody is; the Sync and Settings screens have timers *)
(* of their own.  All timers and callbacks run in one Lua thread, so a     *)
(* timer's call is one step; the native transfers go on in between.        *)
(*                                                                         *)
(* Wi-Fi stays connected: a drop shows as a request that fails.            *)
(***************************************************************************)
EXTENDS Integers, FiniteSets

CONSTANTS
    MaxMedia,         \* media files a manifest may list that the device lacks
    MaxArtwork,       \* artwork files it may list that the device lacks
    MaxPages,         \* requests of one library refresh
    MaxCovers,        \* covers one library refresh leads to
    MaxInputs,        \* bound: what the user does
    MaxExpiries,      \* bound: retry and refresh intervals that elapse
    MaxFaults,        \* bound: failing requests and downloads
    Screens,          \* screens the user visits, of {"sync", "settings"}
    Selections,       \* what favourites and playlists may list: ids, by signature
    None,             \* they list nothing; nil
    MissingArtwork    \* does the server lack the artwork it lists?

ASSUME RuntimeAssumption ==
    /\ MaxMedia \in Nat /\ MaxArtwork \in Nat
    /\ MaxPages \in Nat \ {0}
    /\ MaxCovers \in Nat
    /\ MaxInputs \in Nat /\ MaxExpiries \in Nat /\ MaxFaults \in Nat
    /\ Screens \subseteq {"sync", "settings"}
    /\ None \notin Selections
    /\ MissingArtwork \in BOOLEAN

Owners == {"none", "catalog", "inventory", "library", "link", "bootstrap",
           "flush", "manifest"}

ScreenKinds == {"catalog", "search", "external"}

\* The times now is compared with: next_durable_requests_at,
\* next_operation_at, next_library_at, next_attempt_at of the bootstrap,
\* next_apply_at, next_refresh_at, next_inventory_progress_at.
Timers == {"requests", "operations", "library", "bootstrap", "apply",
           "refresh", "progress"}

VARIABLES
    \* the native slots and their Lua guards
    http,          \* "idle", "busy", or "answered" until polled
    owner,         \* active_owner of sync_client
    download,      \* "idle", "busy", or "finished" until polled
    user,          \* who started the download the slot is about
    \* users of the HTTP slot
    catalog,       \* request_kind of sync_catalog
    newerSearch,   \* its pending_search
    inventory,     \* active of sync_inventory_report
    pages,         \* requests left in the session of sync_library_refresh
    link,          \* phase of sync_link
    bootstrap,     \* active of sync_offline_bootstrap: the selection it asks for
    flush,         \* length of active_batch of sync_operation_flush
    \* users of the download slot
    applyMedia, applyArtwork,  \* actions left in the session of sync_apply
    covers,        \* jobs left in the session of sync_library_artwork
    coversDone,    \* its completed_result
    cacheQueue, cacheActive,   \* queue and active of sync_artwork_cache
    \* what there is to do
    due,           \* timers that have elapsed
    refresh,       \* manifest_refresh_*_generation, see RequestRefresh
    reportPending, \* inventory_report_pending
    edits,         \* operations in the queue
    media, artwork,  \* files of the manifest that the device lacks
    authoritative,   \* active_plan_authoritative
    libraryReady,  \* there is a library cache
    selection,     \* what the library lists, the user's edits included
    completed,     \* completed_signatures
    head,          \* the user's album download in sync_download_state
    \* the state shown by the status bar
    active, finalizing, needsLibrary, waitingArtwork,  \* download_operation_*
    \* the user
    screen,        \* the screen shown, of those with a timer
    retryLink,     \* retry_force of the Settings screen
    \* bounds
    inputs, expiries, faults

client == <<http, owner>>
slot == <<download, user>>
search == <<catalog, newerSearch>>
requests == <<inventory, pages, bootstrap, flush>>
apply == <<applyMedia, applyArtwork>>
cover == <<covers, coversDone>>
cache == <<cacheQueue, cacheActive>>
files == <<media, artwork, authoritative>>
library == <<libraryReady, selection, completed>>
operation == <<active, finalizing, needsLibrary, waitingArtwork>>
settings == <<link, retryLink>>
bounds == <<inputs, expiries>>
vars == <<client, slot, search, requests, apply, cover, cache, due, refresh,
          reportPending, edits, files, library, head, operation, screen,
          settings, bounds, faults>>

TypeOK ==
    /\ http \in {"idle", "busy", "answered"}
    /\ owner \in Owners
    /\ download \in {"idle", "busy", "finished"}
    /\ user \in {"none", "apply", "covers", "cache"}
    /\ catalog \in ScreenKinds \cup {"none", "queue", "requests"}
    /\ newerSearch \in BOOLEAN
    /\ inventory \in BOOLEAN /\ bootstrap \in Selections \cup {None}
    /\ pages \in 0..MaxPages
    /\ flush \in 0..MaxInputs
    /\ link \in {"idle", "starting", "waiting", "polling"}
    /\ applyMedia \in 0..MaxMedia /\ applyArtwork \in 0..MaxArtwork
    /\ covers \in 0..MaxCovers /\ coversDone \in BOOLEAN
    /\ cacheQueue \in 0..MaxInputs /\ cacheActive \in BOOLEAN
    /\ due \subseteq Timers
    /\ refresh \in {"none", "wanted", "asked", "askedAgain"}
    /\ reportPending \in BOOLEAN
    /\ edits \in 0..MaxInputs
    /\ media \in 0..MaxMedia /\ artwork \in 0..MaxArtwork
    /\ authoritative \in BOOLEAN
    /\ libraryReady \in BOOLEAN
    /\ selection \in Selections \cup {None} /\ completed \subseteq Selections
    /\ head \in {"none", "queued", "posting", "downloading"}
    /\ active \in BOOLEAN /\ finalizing \in BOOLEAN
    /\ needsLibrary \in BOOLEAN /\ waitingArtwork \in BOOLEAN
    /\ screen \in Screens \cup {"none"}
    /\ retryLink \in BOOLEAN
    /\ inputs \in 0..MaxInputs
    /\ expiries \in 0..MaxExpiries
    /\ faults \in 0..MaxFaults

\* After start(): every timer is at zero, a report is pending, and there may be
\* a library of an earlier run.
Init ==
    /\ http = "idle" /\ owner = "none"
    /\ download = "idle" /\ user = "none"
    /\ catalog = "none" /\ newerSearch = FALSE
    /\ inventory = FALSE /\ pages = 0 /\ bootstrap = None /\ flush = 0
    /\ link = "idle" /\ retryLink = FALSE
    /\ applyMedia = 0 /\ applyArtwork = 0
    /\ covers = 0 /\ coversDone = FALSE
    /\ cacheQueue = 0 /\ cacheActive = FALSE
    /\ due = Timers
    /\ refresh = "none"
    /\ reportPending = TRUE
    /\ edits = 0
    /\ media = 0 /\ artwork = 0 /\ authoritative = FALSE
    /\ libraryReady \in BOOLEAN /\ completed = {}
    /\ selection \in IF libraryReady THEN Selections \cup {None} ELSE {None}
    /\ head = "none"
    /\ active = FALSE /\ finalizing = FALSE
    /\ needsLibrary = FALSE /\ waitingArtwork = FALSE
    /\ screen = "none"
    /\ inputs = MaxInputs /\ expiries = MaxExpiries /\ faults = MaxFaults

\* A request or download fails.
Outcome(ok) == IF ok THEN UNCHANGED faults ELSE faults > 0 /\ faults' = faults - 1

-----------------------------------------------------------------------------
(* The slots *)

\* Mutated ClientIdle: the owner that has not polled its answer yet is forgotten.
ClientIdleNative == http # "busy"

\* Neither sync_client nor the native HTTP client is busy.
ClientIdle == owner = "none" /\ http # "busy"

\* sync_client's start_request for owner c.
Ask(c) == http' = "busy" /\ owner' = c

\* sync_client.poll by owner c finds the response.
Heard(c) == owner = c /\ http = "answered"

\* Mutated Release: the response is consumed but its owner kept.
ReleaseSlotOnly == http' = "idle" /\ UNCHANGED owner

Release == http' = "idle" /\ owner' = "none"

\* The native start drops a result nobody has polled.
StartDownload(u) == download' = "busy" /\ user' = u

TakeDownload == download' = "idle" /\ user' = "none"

HttpDone ==
    /\ http = "busy"
    /\ http' = "answered"
    /\ UNCHANGED <<owner, slot, search, requests, apply, cover, cache, due,
                   refresh, reportPending, edits, files, library, head,
                   operation, screen, settings, bounds, faults>>

DownloadDone ==
    /\ download = "busy"
    /\ download' = "finished"
    /\ UNCHANGED <<client, user, search, requests, apply, cover, cache, due,
                   refresh, reportPending, edits, files, library, head,
                   operation, screen, settings, bounds, faults>>

-----------------------------------------------------------------------------
(* State shared by the callbacks *)

\* request_refresh: a generation more than the one a manifest request in flight
\* was started for, if one was.
RequestRefresh ==
    refresh' = CASE refresh = "none" -> "wanted"
                 [] refresh = "asked" -> "askedAgain"
                 [] OTHER -> refresh

\* Mutated CompleteOperation: a flag is forgotten.
CompleteOperationButArtwork ==
    /\ active' = (head # "none")
    /\ finalizing' = FALSE /\ needsLibrary' = FALSE
    /\ UNCHANGED waitingArtwork

\* complete_operation
CompleteOperation ==
    /\ active' = (head # "none")
    /\ finalizing' = FALSE /\ needsLibrary' = FALSE /\ waitingArtwork' = FALSE

\* Mutated FailOperation: the finalization stays on show.
FailOperationOnShow(item, remaining) ==
    /\ active' = remaining
    /\ needsLibrary' = FALSE /\ waitingArtwork' = FALSE
    /\ UNCHANGED finalizing

\* fail_operation: an item's failure does not cancel a finalization under way.
FailOperation(item, remaining) ==
    IF item /\ (finalizing \/ needsLibrary \/ waitingArtwork)
    THEN active' = TRUE /\ UNCHANGED <<finalizing, needsLibrary, waitingArtwork>>
    ELSE /\ active' = remaining
         /\ finalizing' = FALSE /\ needsLibrary' = FALSE
         /\ waitingArtwork' = FALSE

-----------------------------------------------------------------------------
(* sync_catalog: requests of the screens, of dispatch_download and of the    *)
(* runtime itself                                                            *)

\* finish_durable_requests: the companion's list says how the album download
\* is getting on, or the request failed.
HearRequests ==
    /\ Release
    /\ catalog' = "none"
    /\ due' = due \ {"requests"}
    /\ \/ Outcome(FALSE) /\ UNCHANGED <<head, operation>>
       \/ /\ Outcome(TRUE)
          /\ \/ UNCHANGED <<head, operation>>
             \/ active' = TRUE
                /\ UNCHANGED <<head, finalizing, needsLibrary, waitingArtwork>>
             \/ head = "downloading" /\ head' = "none" /\ UNCHANGED operation
             \/ head = "downloading" /\ head' = "none" /\ FailOperation(TRUE, FALSE)
    /\ UNCHANGED <<newerSearch, refresh>>

\* The callback of dispatch_download: the companion accepts the album, or the
\* attempt is over.
HearQueue ==
    /\ Release
    /\ catalog' = "none"
    /\ \E ok \in BOOLEAN :
        /\ Outcome(ok)
        /\ IF ok
           THEN /\ head' = IF head = "posting" THEN "downloading" ELSE head
                /\ active' = TRUE
                /\ RequestRefresh
                /\ due' = due \cup {"refresh", "apply"}
           ELSE /\ head' = IF head = "posting" THEN "none" ELSE head
                /\ UNCHANGED <<active, refresh, due>>
    /\ UNCHANGED <<newerSearch, finalizing, needsLibrary, waitingArtwork>>

\* A screen's answer: a search goes on with its external phase, or with the
\* newer search the user asked for meanwhile.
HearScreen ==
    /\ newerSearch' = FALSE
    /\ \E ok \in BOOLEAN :
        /\ Outcome(ok)
        /\ IF catalog \in {"search", "external"} /\ newerSearch
           THEN Ask("catalog") /\ catalog' = "search"
           ELSE IF catalog = "search" /\ ok
           THEN Ask("catalog") /\ catalog' = "external"
           ELSE Release /\ catalog' = "none"
    /\ UNCHANGED <<due, refresh, head, operation>>

PollCatalog ==
    /\ catalog # "none" /\ Heard("catalog")
    /\ \/ catalog = "requests" /\ HearRequests
       \/ catalog = "queue" /\ HearQueue
       \/ catalog \in ScreenKinds /\ HearScreen

\* try_dispatch_head hands the queued album to sync_catalog.queue. It stays
\* queued when the transport is busy.
Dispatch(album) ==
    IF album = "queued" /\ catalog = "none" /\ ClientIdle
    THEN Ask("catalog") /\ catalog' = "queue" /\ head' = "posting"
    ELSE head' = album /\ UNCHANGED <<client, catalog>>

-----------------------------------------------------------------------------
(* sync_artwork_cache: covers of the rows on the Sync screen *)

\* start_next, with n jobs queued, once no job of the cache is active: it looks
\* at busy() of the native slot only.
CacheNext(n) ==
    IF n > 0
    THEN StartDownload("cache") /\ cacheActive' = TRUE /\ cacheQueue' = n - 1
    ELSE cacheActive' = FALSE /\ cacheQueue' = n /\ UNCHANGED slot

PollCache ==
    \/ /\ cacheActive /\ download = "finished"
       /\ IF cacheQueue > 0 THEN CacheNext(cacheQueue)
          ELSE TakeDownload /\ cacheActive' = FALSE /\ UNCHANGED cacheQueue
    \/ ~cacheActive /\ download # "busy" /\ CacheNext(cacheQueue)
    \/ /\ IF cacheActive THEN download # "finished" ELSE download = "busy"
       /\ UNCHANGED <<slot, cache>>

-----------------------------------------------------------------------------
(* The branches of the runtime's poll, in their order. Each is reached when  *)
(* none of those before it is busy.                                          *)

Applying == applyMedia + applyArtwork > 0

CoversBusy == covers > 0 \/ coversDone

\* Mutated RuntimeCatalog: whatever sync_catalog has is polled.
RuntimeCatalogAny ==
    /\ PollCatalog
    /\ UNCHANGED <<slot, requests, apply, cover, cache, reportPending, edits,
                   files, library, screen, settings, bounds>>

\* poll_shared_catalog: a request of the runtime or of dispatch_download is
\* polled; one of a screen is left to that screen's timer.
RuntimeCatalog ==
    /\ catalog \in {"requests", "queue"}
    /\ PollCatalog
    /\ UNCHANGED <<slot, requests, apply, cover, cache, reportPending, edits,
                   files, library, screen, settings, bounds>>

RequestsDue == "requests" \in due /\ ClientIdle

\* poll_shared_catalog asks for the companion's list of durable requests.
StartRequests ==
    /\ catalog = "none" /\ RequestsDue
    /\ Ask("catalog")
    /\ catalog' = "requests"
    /\ UNCHANGED <<newerSearch, slot, requests, apply, cover, cache, due, refresh,
                   reportPending, edits, files, library, head, operation,
                   screen, settings, bounds, faults>>

PastCatalog == catalog = "none" /\ ~RequestsDue

RuntimeCache ==
    /\ PastCatalog
    /\ cacheActive
    /\ PollCache
    /\ UNCHANGED <<client, search, requests, apply, cover, due, refresh,
                   reportPending, edits, files, library, head, operation,
                   screen, settings, bounds, faults>>

PastCache == PastCatalog /\ ~cacheActive

RuntimeInventory ==
    /\ PastCache
    /\ inventory /\ Heard("inventory")
    /\ Release
    /\ inventory' = FALSE
    /\ \E ok \in BOOLEAN : Outcome(ok)
    /\ UNCHANGED <<slot, search, pages, bootstrap, flush, apply, cover, cache,
                   due, refresh, reportPending, edits, files, library, head,
                   operation, screen, settings, bounds>>

PastInventory == PastCache /\ ~inventory

EndCovers ==
    /\ covers' = 0 /\ coversDone' = FALSE
    /\ IF waitingArtwork THEN CompleteOperation ELSE UNCHANGED operation

\* sync_library_artwork.poll: a failed cover is skipped; the session ends with
\* the last one, with a download that cannot be started, or at once when there
\* was no cover to load.
RuntimeCovers ==
    /\ PastInventory
    /\ \/ coversDone /\ EndCovers /\ UNCHANGED <<slot, faults>>
       \/ /\ covers > 1 /\ download = "finished"
          /\ \E ok \in BOOLEAN : Outcome(ok)
          /\ covers' = covers - 1
          /\ StartDownload("covers")
          /\ UNCHANGED <<coversDone, operation>>
       \/ /\ covers > 0 /\ download = "finished"
          /\ \E ok \in BOOLEAN : Outcome(ok) /\ (ok => covers = 1)
          /\ TakeDownload
          /\ EndCovers
    /\ UNCHANGED <<client, search, requests, apply, cache, due, refresh,
                   reportPending, edits, files, library, head, screen,
                   settings, bounds>>

PastCovers == PastInventory /\ ~CoversBusy

RuntimeBootstrap ==
    /\ PastCovers
    /\ bootstrap # None /\ Heard("bootstrap")
    /\ Release
    /\ bootstrap' = None
    /\ \E ok \in BOOLEAN :
        /\ Outcome(ok)
        /\ IF ok
           THEN /\ completed' = completed \cup {bootstrap}
                /\ active' = TRUE
                /\ RequestRefresh
                /\ due' = due \cup {"refresh", "apply"}
                /\ UNCHANGED <<finalizing, needsLibrary, waitingArtwork>>
           ELSE /\ FailOperation(FALSE, head # "none")
                /\ due' = due \ {"bootstrap"}
                /\ UNCHANGED <<refresh, completed>>
    /\ UNCHANGED <<slot, search, inventory, pages, flush, apply, cover, cache,
                   reportPending, edits, files, libraryReady, selection, head, screen,
                   settings, bounds>>

PastBootstrap == PastCovers /\ bootstrap = None

ApplyBusy == Applying \/ download = "busy"

CanReport == "progress" \in due /\ ClientIdle

\* The runtime reports progress every two seconds while files are loaded.
ReportProgress ==
    IF CanReport THEN Ask("inventory") /\ inventory' = TRUE
                 ELSE UNCHANGED <<client, inventory>>

DueAfterReport == IF CanReport THEN due \ {"progress"} ELSE due

\* Mutated FileStored: the plan made anew does not see the file.
FileNotSeen == UNCHANGED <<media, artwork>>

\* The current action's file is on the device: media comes before artwork.
FileStored ==
    IF applyMedia > 0 THEN media' = media - 1 /\ UNCHANGED artwork
                      ELSE artwork' = artwork - 1 /\ UNCHANGED media

LastAction == applyMedia + applyArtwork = 1

\* finish_apply: the plan is made anew from the files that are there, and the
\* next apply is due at once.
ApplySucceeds ==
    /\ applyMedia' = 0 /\ applyArtwork' = 0
    /\ TakeDownload
    /\ due' = DueAfterReport \cup {"apply", "library"}
    /\ reportPending' = TRUE
    /\ head' \in {head, IF head = "downloading" THEN "none" ELSE head}
    /\ active' = TRUE /\ finalizing' = TRUE
    /\ needsLibrary' = TRUE /\ waitingArtwork' = FALSE

\* finish_apply of a failure: it ends the attempt it belongs to, or is stale.
ApplyFails ==
    /\ applyMedia' = 0 /\ applyArtwork' = 0
    /\ TakeDownload
    /\ due' = DueAfterReport \ {"apply"}
    /\ reportPending' = TRUE
    /\ \/ UNCHANGED <<head, operation>>
       \/ /\ head' \in {head, IF head = "downloading" THEN "none" ELSE head}
          /\ FailOperation(TRUE, head' # "none")

ApplyGoesOn ==
    IF LastAction THEN ApplySucceeds
    ELSE /\ IF applyMedia > 0
            THEN applyMedia' = applyMedia - 1 /\ UNCHANGED applyArtwork
            ELSE applyArtwork' = applyArtwork - 1 /\ UNCHANGED applyMedia
         /\ StartDownload("apply")
         /\ due' = DueAfterReport
         /\ UNCHANGED <<reportPending, head, operation>>

\* sync_apply.poll with a result: artwork that cannot be loaded is skipped;
\* media that cannot, a file that cannot be added to the inventory, and a next
\* download that cannot be started end the session.
ApplyResult ==
    \/ /\ applyMedia > 0 \/ ~MissingArtwork
       /\ Outcome(TRUE) /\ FileStored /\ ApplyGoesOn
    \/ /\ applyMedia = 0
       /\ Outcome(MissingArtwork) /\ UNCHANGED <<media, artwork>> /\ ApplyGoesOn
    \/ /\ applyMedia > 0 \/ ~MissingArtwork
       /\ Outcome(FALSE) /\ FileStored /\ ApplyFails
    \/ /\ applyMedia > 0 \/ ~LastAction
       /\ Outcome(FALSE) /\ UNCHANGED <<media, artwork>> /\ ApplyFails

RuntimeApply ==
    /\ PastBootstrap
    /\ ApplyBusy
    /\ ReportProgress
    /\ IF Applying /\ download = "finished"
       THEN ApplyResult
       ELSE /\ due' = DueAfterReport
            /\ UNCHANGED <<slot, apply, media, artwork, reportPending, head,
                           operation, faults>>
    /\ UNCHANGED <<search, pages, bootstrap, flush, cover, cache, refresh, edits,
                   authoritative, library, screen, settings, bounds>>

PastApply == PastBootstrap /\ ~ApplyBusy

\* The library has other favourites or playlists, or others are laid over it.
LibraryMayChange == selection' \in Selections \cup {None}

\* finish_operations: what was uploaded leaves the queue, and the library and
\* the manifest are asked for anew.
RuntimeFlush ==
    /\ PastApply
    /\ flush > 0 /\ Heard("flush")
    /\ Release
    /\ flush' = 0
    /\ \E ok \in BOOLEAN :
        /\ Outcome(ok)
        /\ IF ok
           THEN /\ edits' = edits - flush /\ LibraryMayChange
                /\ due' = (due \ (IF edits > flush THEN {} ELSE {"operations"}))
                              \cup {"refresh", "library"}
           ELSE due' = due \ {"operations"} /\ UNCHANGED <<edits, selection>>
    /\ UNCHANGED <<slot, search, inventory, pages, bootstrap, apply, cover, cache,
                   refresh, reportPending, files, libraryReady, completed, head,
                   operation, screen, settings, bounds>>

PastFlush == PastApply /\ flush = 0

\* sync_library_artwork.start, with n covers to load.
StartCovers(n) ==
    IF n = 0 THEN coversDone' = TRUE /\ UNCHANGED <<covers, slot>>
    ELSE covers' = n /\ StartDownload("covers") /\ UNCHANGED coversDone

\* finish_library of the last page: covers follow, unless they cannot start.
LibraryDone ==
    /\ Release
    /\ pages' = 0
    /\ due' = due \ {"library"}
    /\ libraryReady' = TRUE /\ LibraryMayChange
    /\ \/ /\ download # "busy"
          /\ \E n \in 0..MaxCovers : StartCovers(n)
          /\ Outcome(TRUE)
          /\ IF needsLibrary
             THEN /\ needsLibrary' = FALSE /\ waitingArtwork' = TRUE
                  /\ UNCHANGED <<active, finalizing>>
             ELSE UNCHANGED operation
       \/ /\ Outcome(download = "busy")
          /\ UNCHANGED <<slot, cover>>
          /\ IF needsLibrary THEN CompleteOperation ELSE UNCHANGED operation

LibraryFails ==
    /\ Release
    /\ pages' = 0
    /\ due' = due \ {"library"}
    /\ Outcome(FALSE)
    /\ IF needsLibrary THEN FailOperation(FALSE, head # "none")
                       ELSE UNCHANGED operation
    /\ UNCHANGED <<slot, cover, libraryReady, selection>>

LibraryGoesOn ==
    /\ pages > 1
    /\ Ask("library")
    /\ pages' = pages - 1
    /\ UNCHANGED <<slot, cover, due, libraryReady, selection, operation, faults>>

RuntimeLibrary ==
    /\ PastFlush
    /\ pages > 0 /\ Heard("library")
    /\ LibraryGoesOn \/ (pages = 1 /\ LibraryDone) \/ LibraryFails
    /\ UNCHANGED <<search, inventory, bootstrap, flush, apply, cache, refresh,
                   reportPending, edits, files, completed, head, screen,
                   settings, bounds>>

PastLibrary == PastFlush /\ pages = 0

\* start_apply and sync_apply.start of a plan with m media and a artwork files.
MayApply(m, a) == m + a > 0 /\ download # "busy"

StartApply(m, a) ==
    /\ applyMedia' = m /\ applyArtwork' = a
    /\ StartDownload("apply")
    /\ active' = TRUE

\* sync_manifest_state.poll: a manifest makes an authoritative plan, which is
\* applied in the same call; if an operation is under way and there is nothing
\* to load, it goes on to its finalization. A failure leaves the plan alone.
RuntimeManifest ==
    /\ PastLibrary
    /\ Heard("manifest")
    /\ Release
    /\ \/ /\ Outcome(TRUE)
          /\ media' \in 0..MaxMedia /\ artwork' \in 0..MaxArtwork
          /\ authoritative' = TRUE
       \/ Outcome(FALSE) /\ UNCHANGED files
    /\ refresh' = CASE refresh = "asked" -> "none"
                    [] refresh = "askedAgain" -> "wanted"
                    [] OTHER -> refresh
    /\ reportPending' = TRUE
    /\ IF authoritative' /\ MayApply(media', artwork') /\ "apply" \in due
       THEN /\ StartApply(media', artwork')
            /\ due' = due \ {"refresh"}
            /\ UNCHANGED <<finalizing, needsLibrary>>
       ELSE /\ UNCHANGED <<slot, apply, active>>
            /\ IF active /\ media' + artwork' = 0
               THEN /\ finalizing' = TRUE /\ needsLibrary' = TRUE
                    /\ due' = (due \ {"refresh"}) \cup {"library"}
               ELSE /\ UNCHANGED <<finalizing, needsLibrary>>
                    /\ due' = due \ {"refresh"}
    /\ UNCHANGED <<search, requests, cover, cache, edits, library, head,
                   waitingArtwork, screen, settings, bounds>>

\* sync_manifest_state.busy() is true whoever uses the client.
PastManifest == PastLibrary /\ ClientIdle

-----------------------------------------------------------------------------
(* The rest of the runtime's poll: nobody is busy, so something is started *)

\* start_operations finds the queue empty, and looks again in five seconds.
DueAfterOperations ==
    IF edits = 0 THEN due \ {"operations"} ELSE due

\* Mutated StartRequestedRefresh: the generation asked for is not noted.
StartRefreshUnnoted ==
    /\ PastManifest
    /\ refresh = "wanted"
    /\ Ask("manifest")
    /\ UNCHANGED <<slot, search, requests, apply, cover, cache, due, refresh,
                   reportPending, edits, files, library, head, operation,
                   screen, settings, bounds, faults>>

StartRequestedRefresh ==
    /\ PastManifest
    /\ refresh = "wanted"
    /\ Ask("manifest")
    /\ refresh' = "asked"
    /\ UNCHANGED <<slot, search, requests, apply, cover, cache, due,
                   reportPending, edits, files, library, head, operation,
                   screen, settings, bounds, faults>>

PastRefresh == PastManifest /\ refresh # "wanted"

StartReport ==
    /\ PastRefresh
    /\ reportPending
    /\ Ask("inventory")
    /\ inventory' = TRUE /\ reportPending' = FALSE
    /\ UNCHANGED <<slot, search, pages, bootstrap, flush, apply, cover, cache,
                   due, refresh, edits, files, library, head, operation,
                   screen, settings, bounds, faults>>

PastReport == PastRefresh /\ ~reportPending

StartOperations ==
    /\ PastReport
    /\ "operations" \in due /\ edits > 0
    /\ Ask("flush")
    /\ flush' = edits
    /\ UNCHANGED <<slot, search, inventory, pages, bootstrap, apply, cover,
                   cache, due, refresh, reportPending, edits, files, library,
                   head, operation, screen, settings, bounds, faults>>

PastOperations == PastReport /\ ~("operations" \in due /\ edits > 0)

StartLibrary ==
    /\ PastOperations
    /\ "library" \in due
    /\ Ask("library")
    /\ pages' \in 1..MaxPages
    /\ due' = DueAfterOperations
    /\ UNCHANGED <<slot, search, inventory, bootstrap, flush, apply, cover, cache,
                   refresh, reportPending, edits, files, library, head,
                   operation, screen, settings, bounds, faults>>

BootstrapDue ==
    libraryReady /\ selection \in Selections \ completed /\ "bootstrap" \in due

PastStartLibrary == PastOperations /\ "library" \notin due

StartBootstrap ==
    /\ PastStartLibrary
    /\ BootstrapDue
    /\ Ask("bootstrap")
    /\ bootstrap' = selection
    /\ active' = TRUE
    /\ due' = DueAfterOperations
    /\ UNCHANGED <<slot, search, inventory, pages, flush, apply, cover, cache,
                   refresh, reportPending, edits, files, library, head,
                   finalizing, needsLibrary, waitingArtwork, screen, settings,
                   bounds, faults>>

ApplyDue == authoritative /\ MayApply(media, artwork) /\ "apply" \in due

PastStartBootstrap == PastStartLibrary /\ ~BootstrapDue

RetryApply ==
    /\ PastStartBootstrap
    /\ ApplyDue
    /\ StartApply(media, artwork)
    /\ due' = DueAfterOperations
    /\ UNCHANGED <<client, search, requests, cover, cache, refresh,
                   reportPending, edits, files, library, head, finalizing,
                   needsLibrary, waitingArtwork, screen, settings, bounds,
                   faults>>

\* pump_dispatch, and then the periodic refresh: when the dispatch has taken the
\* client, the refresh fails for it and waits for the retry interval.
DispatchAndRefresh ==
    /\ PastStartBootstrap
    /\ ~ApplyDue
    /\ IF head = "queued"
       THEN /\ Dispatch(head)
            /\ due' = DueAfterOperations \ {"refresh"}
       ELSE /\ UNCHANGED <<catalog, head>>
            /\ due' = DueAfterOperations
            /\ IF "refresh" \in due THEN Ask("manifest") ELSE UNCHANGED client
    /\ UNCHANGED <<newerSearch, slot, requests, apply, cover, cache, refresh,
                   reportPending, edits, files, library, operation, screen,
                   settings, bounds, faults>>

RuntimePoll ==
    \/ RuntimeCatalog \/ StartRequests
    \/ RuntimeCache
    \/ RuntimeInventory
    \/ RuntimeCovers
    \/ RuntimeBootstrap
    \/ RuntimeApply
    \/ RuntimeFlush
    \/ RuntimeLibrary
    \/ RuntimeManifest
    \/ StartRequestedRefresh \/ StartReport \/ StartOperations \/ StartLibrary
    \/ StartBootstrap \/ RetryApply \/ DispatchAndRefresh

-----------------------------------------------------------------------------
(* The screens *)

Input == inputs > 0 /\ inputs' = inputs - 1 /\ UNCHANGED expiries

\* enqueue of sync_operation_queue: the user edits the library.
Edit ==
    /\ Input
    /\ edits' = edits + 1 /\ LibraryMayChange
    /\ UNCHANGED <<client, slot, search, requests, apply, cover, cache, due,
                   refresh, reportPending, files, libraryReady, completed, head,
                   operation, screen, settings, faults>>

Enter ==
    /\ screen = "none"
    /\ Input
    /\ screen' \in Screens
    /\ UNCHANGED <<client, slot, search, requests, apply, cover, cache, due,
                   refresh, reportPending, edits, files, library, head,
                   operation, settings, faults>>

\* The screen is hidden: its timer no longer polls, the artwork its rows waited
\* for is no longer wanted. A request in flight stays.
Leave ==
    /\ screen # "none"
    /\ screen' = "none"
    /\ retryLink' = FALSE
    /\ cacheQueue' = IF screen = "sync" THEN 0 ELSE cacheQueue
    /\ UNCHANGED <<client, slot, search, requests, apply, cover, cacheActive, due,
                   refresh, reportPending, edits, files, library, head,
                   operation, link, bounds, faults>>

\* The Sync screen asks for a page of the catalog or for a search.
ScreenRequest ==
    /\ screen = "sync"
    /\ catalog = "none" /\ ClientIdle
    /\ Input
    /\ Ask("catalog")
    /\ catalog' \in {"catalog", "search"}
    /\ UNCHANGED <<newerSearch, slot, requests, apply, cover, cache, due, refresh,
                   reportPending, edits, files, library, head, operation,
                   screen, settings, faults>>

SearchAgain ==
    /\ screen = "sync"
    /\ catalog \in {"search", "external"}
    /\ Input
    /\ newerSearch' = TRUE
    /\ UNCHANGED <<client, slot, catalog, requests, apply, cover, cache, due,
                   refresh, reportPending, edits, files, library, head,
                   operation, screen, settings, faults>>

\* A row of the Sync screen that comes into view requests its cover.
ScreenArtwork ==
    /\ screen = "sync"
    /\ Input
    /\ IF ~cacheActive /\ download # "busy"
       THEN CacheNext(cacheQueue + 1)
       ELSE cacheQueue' = cacheQueue + 1 /\ UNCHANGED <<slot, cacheActive>>
    /\ UNCHANGED <<client, search, requests, apply, cover, due, refresh,
                   reportPending, edits, files, library, head, operation,
                   screen, settings, faults>>

\* The user asks for an album; it is dispatched at once if the client is free.
ScreenDownload ==
    /\ screen = "sync"
    /\ head = "none"
    /\ Input
    /\ Dispatch("queued")
    /\ UNCHANGED <<newerSearch, slot, requests, apply, cover, cache, due, refresh,
                   reportPending, edits, files, library, operation, screen,
                   settings, faults>>

\* poll_active of the Sync screen: the artwork cache, then the catalog, whoever
\* of screen and runtime asked for it.
SyncScreenPoll ==
    /\ screen = "sync"
    /\ PollCache
    /\ IF catalog # "none" /\ Heard("catalog") THEN PollCatalog
       ELSE UNCHANGED <<client, search, due, refresh, head, operation, faults>>
    /\ UNCHANGED <<requests, apply, cover, reportPending, edits, files, library,
                   screen, settings, bounds>>

\* begin_link: refused while the client is busy, and retried by the timer.
BeginLink ==
    IF ClientIdle THEN Ask("link") /\ link' = "starting" /\ retryLink' = FALSE
                  ELSE retryLink' = TRUE /\ UNCHANGED <<client, link>>

ClickLink ==
    /\ screen = "settings" /\ link = "idle"
    /\ Input
    /\ BeginLink
    /\ UNCHANGED <<slot, search, requests, apply, cover, cache, due, refresh,
                   reportPending, edits, files, library, head, operation,
                   screen, faults>>

\* poll_active_screen: sync_link asks for the status again and again until the
\* link is made or fails.
SettingsPoll ==
    /\ screen = "settings"
    /\ IF retryLink THEN BeginLink /\ UNCHANGED faults
       ELSE \/ /\ link \in {"starting", "polling"} /\ Heard("link")
               /\ Release
               /\ \E ok \in BOOLEAN :
                   Outcome(ok) /\ link' \in {"idle"} \cup
                                      (IF ok THEN {"waiting"} ELSE {})
               /\ UNCHANGED retryLink
            \/ /\ link = "waiting" /\ ClientIdle
               /\ Ask("link")
               /\ link' = "polling"
               /\ UNCHANGED <<retryLink, faults>>
    /\ UNCHANGED <<slot, search, requests, apply, cover, cache, due, refresh,
                   reportPending, edits, files, library, head, operation,
                   screen, bounds>>

User ==
    \/ Edit \/ Enter \/ Leave
    \/ ScreenRequest \/ SearchAgain \/ ScreenArtwork \/ ScreenDownload
    \/ ClickLink

ScreenPoll == SyncScreenPoll \/ SettingsPoll

\* An interval elapses.
Expire ==
    /\ expiries > 0 /\ expiries' = expiries - 1
    /\ \E timer \in Timers \ due : due' = due \cup {timer}
    /\ UNCHANGED <<client, slot, search, requests, apply, cover, cache, refresh,
                   reportPending, edits, files, library, head, operation,
                   screen, settings, inputs, faults>>

Next == HttpDone \/ DownloadDone \/ RuntimePoll \/ ScreenPoll \/ User \/ Expire

Spec == Init /\ [][Next]_vars

\* The native transfers end, in success or by their timeouts; the timers of the
\* runtime and of a screen that is shown go on.
Fairness ==
    /\ WF_vars(HttpDone) /\ WF_vars(DownloadDone)
    /\ WF_vars(RuntimePoll)
    /\ WF_vars(ScreenPoll)

FairSpec == Spec /\ Fairness

-----------------------------------------------------------------------------
(* Safety *)

Waiting(c) ==
    CASE c = "catalog" -> catalog # "none"
      [] c = "inventory" -> inventory
      [] c = "library" -> pages > 0
      [] c = "link" -> link \in {"starting", "polling"}
      [] c = "bootstrap" -> bootstrap # None
      [] c = "flush" -> flush > 0

\* Whoever waits for an answer owns the HTTP slot, and the slot's owner waits for
\* it: no answer goes to another component and none stays there unclaimed.
\* (sync_client's active_owner against the flag each component keeps)
AnswerHasListener ==
    /\ \A c \in Owners \ {"none", "manifest"} : Waiting(c) <=> owner = c
    /\ owner = "none" <=> http = "idle"

\* A session that waits for a download finds its own in the slot. (sync_apply,
\* sync_library_artwork and sync_artwork_cache over lua_download.cpp)
DownloadHasListener ==
    /\ Applying => download # "idle" /\ user = "apply"
    /\ covers > 0 => download # "idle" /\ user = "covers"
    /\ cacheActive => download # "idle" /\ user = "cache"

\* The finalization shown to the user has something that ends it: a library
\* refresh that is due or under way, or the covers that follow it.
\* (finish_apply, finish_library, complete_operation, fail_operation)
FinalizationCanEnd ==
    /\ finalizing => needsLibrary \/ waitingArtwork
    /\ needsLibrary => "library" \in due
    /\ waitingArtwork => CoversBusy

\* What a screen asked for is taken from the slot while that screen is shown:
\* "rather than stealing a screen result here". (poll_shared_catalog)
ScreenKeepsAnswer ==
    [][(catalog \in ScreenKinds /\ catalog' # catalog => screen = "sync")]_vars

-----------------------------------------------------------------------------
(* Liveness *)

Quiet ==
    /\ owner = "none" /\ download = "idle"
    /\ ~Applying /\ ~CoversBusy /\ ~cacheActive

\* With nobody at the screens, finitely many failures and intervals, and a
\* server that has what it lists, the runtime comes to rest: a library that
\* changes makes the bootstrap, the refresh and the apply start over, and they
\* the library, but for each selection of tracks once.
Settles == <>[]Quiet

\* A refresh that was asked for is made, or its failure is recorded.
RefreshHappens == refresh = "wanted" ~> refresh # "wanted"

\* "Let its mounted poller consume the response".
MountedPollerConsumes == catalog \in ScreenKinds ~> catalog \notin ScreenKinds
=============================================================================
