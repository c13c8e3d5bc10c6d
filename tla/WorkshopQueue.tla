--------------------------- MODULE WorkshopQueue ---------------------------
(***************************************************************************)
(* The Workshop download queue of CGameUIViewport, composed with its list  *)
(* of addons (WorkshopMount): OnThink runs once per frame and either works *)
(* through m_QueryRequests or, when there is nothing to download, polls    *)
(* the user's subscriptions; Steam answers through one call result         *)
(* (OnSendQueryUGCRequest) and a callback per download                     *)
(* (OnDownloadItemResult), in any order relative to the frames             *)
(* (cl_dll/gameui/gameui_viewport.cpp).                                    *)
(*                                                                         *)
(* m_flQueryWait counts frames down; only the order of its values and      *)
(* whether it has run out matter, so its settings are small constants.     *)
(***************************************************************************)
EXTENDS WorkshopMount, Sequences

CONSTANTS
  NoItem,         \* m_CurrentQueryItem.WorkshopID = 0
  DoneWait,       \* frames after a finished download   (code: 2.0 / 0.25)
  ResultWait,     \* after a DownloadItemResult         (1.00 * 60 / 0.25)
  RequestWait,    \* after a new request                (1.15 * 60 / 0.25)
  PollWait,       \* between two polls                  (1.55 * 60)
  IdleStep,       \* an idle frame counts this many of a busy one (1.0 / 0.25)
  MAX_WORKSHOP_ITEMS,   \* subscriptions a poll looks at, at most (100)
  MayRefuse,      \* may ISteamUGC::DownloadItem return false
  MayFail,        \* may a download end with a failure, the query too
  AutoDownload,   \* does Steam also download subscriptions on its own
  Updates         \* may the author of an installed item publish an update

ASSUME QueueAssumption ==
  /\ NoItem \notin Items
  /\ {DoneWait, ResultWait, RequestWait, PollWait, IdleStep} \subseteq Nat \ {0}
  /\ MAX_WORKSHOP_ITEMS \in Nat
  /\ {MayRefuse, MayFail, AutoDownload, Updates} \subseteq BOOLEAN

VARIABLES
  m_QueryRequests,               \* sequence of [WorkshopID, IsDownloading]
  m_CurrentQueryItem,            \* id of the download OnThink watches, or NoItem
  m_bPrepareForQueryDownload,    \* working through the queue (else: polling)
  m_bDownloadedItemsReady,       \* an answer came since the last new request
  m_flQueryWait,                 \* frames to wait
  m_SubscribedItems,             \* the subscriptions seen by the last poll
  steam,        \* Steam: what GetItemState reports of each item
  subscribed,   \* Steam: the user's subscriptions
  asked,        \* Steam: DownloadItem calls that are not answered yet
  results,      \* Steam: DownloadItemResult_t callbacks that are not delivered
  query         \* the call result of LoadWorkshop: "none", "pending", "ok", "failed"

requestVars == <<m_QueryRequests, m_CurrentQueryItem>>
flagVars    == <<m_bPrepareForQueryDownload, m_bDownloadedItemsReady, m_flQueryWait>>
queueVars   == <<requestVars, flagVars, m_SubscribedItems>>
steamVars   == <<steam, subscribed, asked, results>>
vars        == <<mountVars, queueVars, steamVars, query>>

-----------------------------------------------------------------------------
(* ISteamUGC, as the client uses it.                                       *)

ItemStates == {"absent", "fetching", "installed", "stale", "updating"}

IsInstalled(i)   == steam[i] \in {"installed", "stale", "updating"}
NeedsUpdate(i)   == steam[i] \in {"stale", "updating"}
IsDownloading(i) == steam[i] \in {"fetching", "updating"}
Current(i)       == IsInstalled(i) /\ ~NeedsUpdate(i)

\* DownloadItem accepted for the items of G: Steam owes one result for each.
DownloadItems(G) ==
  /\ asked' = asked \cup G
  /\ steam' = [i \in Items |->
       CASE i \in G /\ steam[i] = "absent" -> "fetching"
         [] i \in G /\ steam[i] = "stale"  -> "updating"
         [] OTHER -> steam[i]]

-----------------------------------------------------------------------------
(* Requests.                                                               *)

Request(i) == [WorkshopID |-> i, IsDownloading |-> FALSE]

RequestSet == [WorkshopID : Items, IsDownloading : BOOLEAN]

Queued(i) == \E n \in DOMAIN m_QueryRequests : m_QueryRequests[n].WorkshopID = i

\* The items of S, as requests, in some order.
Orders(S) ==
  {o \in [1..Cardinality(S) -> {Request(i) : i \in S}] :
     \A i \in S : \E n \in DOMAIN o : o[n] = Request(i)}

Waiting == {n \in DOMAIN m_QueryRequests : ~m_QueryRequests[n].IsDownloading}

\* Mutant: the request that was accepted is left unmarked.
MarkBefore(k) ==
  [n \in DOMAIN m_QueryRequests |->
     IF n < k THEN [m_QueryRequests[n] EXCEPT !.IsDownloading = TRUE]
              ELSE m_QueryRequests[n]]

\* Mutant: every request is marked at once.
MarkAll(k) ==
  [n \in DOMAIN m_QueryRequests |-> [m_QueryRequests[n] EXCEPT !.IsDownloading = TRUE]]

\* PrepareForQueryDownload marks the requests it tried, those it left behind.
MarkUpTo(k) ==
  [n \in DOMAIN m_QueryRequests |->
     IF n <= k THEN [m_QueryRequests[n] EXCEPT !.IsDownloading = TRUE]
               ELSE m_QueryRequests[n]]

\* Mutant: the list is rebuilt instead of extended.
ScanAfresh == LoadWorkshopItems([i \in {} |-> FALSE], content, threads)

ScanContent == LoadWorkshopItems(m_Items, content, threads)

NoScan == UNCHANGED <<m_Items, addonList, threads, unsettled>>

-----------------------------------------------------------------------------
(* OnThink, in queue mode.                                                 *)

\* The watched download is over: Steam reports the item as installed, or the
\* progress reads 1.0.  GetItemDownloadInfo leaves its outputs alone when Steam
\* knows of no download, and they are not initialised, so the progress may read
\* as anything while the item is not installed.
WatchDone(full) ==
  /\ full \/ IsInstalled(m_CurrentQueryItem)
  /\ m_flQueryWait' = DoneWait
  /\ m_CurrentQueryItem' = NoItem
  /\ UNCHANGED <<m_QueryRequests, m_bPrepareForQueryDownload, m_bDownloadedItemsReady, steam, asked>>
  /\ NoScan

WaitForQuery ==
  /\ m_flQueryWait > 0
  /\ m_flQueryWait' = m_flQueryWait - 1
  /\ UNCHANGED <<requestVars, m_bPrepareForQueryDownload, m_bDownloadedItemsReady, steam, asked>>
  /\ NoScan

\* PrepareForQueryDownload starts the first request that Steam accepts.
PrepareForQueryDownload(k) ==
  /\ m_flQueryWait = 0
  /\ k \in Waiting
  /\ (\E n \in Waiting : n < k) => MayRefuse
  /\ m_QueryRequests' = MarkUpTo(k)
  /\ m_CurrentQueryItem' = m_QueryRequests[k].WorkshopID
  /\ DownloadItems({m_QueryRequests[k].WorkshopID})
  /\ UNCHANGED flagVars
  /\ NoScan

\* Mutant: m_QueryRequests is not cleared.
EndWithoutClear ==
  /\ m_flQueryWait = 0
  /\ Waiting # {} => MayRefuse
  /\ IF m_bDownloadedItemsReady
     THEN m_bPrepareForQueryDownload' = FALSE /\ ScanContent
     ELSE UNCHANGED m_bPrepareForQueryDownload /\ NoScan
  /\ UNCHANGED <<requestVars, m_bDownloadedItemsReady, m_flQueryWait, steam, asked>>

\* Mutant: m_bDownloadedItemsReady is not tested.
EndUnanswered ==
  /\ m_flQueryWait = 0
  /\ Waiting # {} => MayRefuse
  /\ m_QueryRequests' = <<>>
  /\ m_bPrepareForQueryDownload' = FALSE
  /\ ScanContent
  /\ UNCHANGED <<m_CurrentQueryItem, m_bDownloadedItemsReady, m_flQueryWait, steam, asked>>

\* Mutant: the folder is not scanned at the end.
EndWithoutScan ==
  /\ m_flQueryWait = 0
  /\ Waiting # {} => MayRefuse
  /\ m_QueryRequests' = <<>>
  /\ IF m_bDownloadedItemsReady
     THEN m_bPrepareForQueryDownload' = FALSE
     ELSE UNCHANGED m_bPrepareForQueryDownload
  /\ NoScan
  /\ UNCHANGED <<m_CurrentQueryItem, m_bDownloadedItemsReady, m_flQueryWait, steam, asked>>

\* No request is left, or Steam refuses every one that is.
EndOfQueue ==
  /\ m_flQueryWait = 0
  /\ Waiting # {} => MayRefuse
  /\ m_QueryRequests' = <<>>
  /\ IF m_bDownloadedItemsReady
     THEN m_bPrepareForQueryDownload' = FALSE /\ ScanContent
     ELSE UNCHANGED m_bPrepareForQueryDownload /\ NoScan
  /\ UNCHANGED <<m_CurrentQueryItem, m_bDownloadedItemsReady, m_flQueryWait, steam, asked>>

\* Mutant: the frame goes on after looking at a download that is not done.
ThinkWithoutReturn(full) ==
  /\ m_bPrepareForQueryDownload
  /\ \/ m_CurrentQueryItem # NoItem /\ WatchDone(full)
     \/ WaitForQuery
     \/ \E k \in Waiting : PrepareForQueryDownload(k)
     \/ EndOfQueue
  /\ UNCHANGED m_SubscribedItems

ThinkQueue(full) ==
  /\ m_bPrepareForQueryDownload
  /\ IF m_CurrentQueryItem # NoItem
     THEN WatchDone(full)
     ELSE \/ WaitForQuery
          \/ \E k \in Waiting : PrepareForQueryDownload(k)
          \/ EndOfQueue
  /\ UNCHANGED m_SubscribedItems

-----------------------------------------------------------------------------
(* OnThink, polling: CheckWorkshopSubscriptions.                           *)

IdleWait ==
  /\ m_flQueryWait > 0
  /\ m_flQueryWait' = IF m_flQueryWait > IdleStep THEN m_flQueryWait - IdleStep ELSE 0
  /\ UNCHANGED <<requestVars, m_bPrepareForQueryDownload, m_bDownloadedItemsReady,
                 m_SubscribedItems, steam, asked>>
  /\ NoScan

\* Steam fills the array with some of the subscriptions when there are more.
FirstPage ==
  {seen \in SUBSET subscribed :
     Cardinality(seen) = IF Cardinality(subscribed) <= MAX_WORKSHOP_ITEMS
                         THEN Cardinality(subscribed) ELSE MAX_WORKSHOP_ITEMS}

\* Those for which DownloadWorkshopAddon gets as far as DownloadItem.
Wanted(seen) == {i \in seen : ~IsDownloading(i) /\ ~Current(i)
                               /\ ~Queued(i) /\ i # m_CurrentQueryItem}

\* Those that Steam installed before this poll noticed them.
NewlyInstalled(seen) == {i \in seen \ m_SubscribedItems : Current(i)}

CheckWorkshopSubscriptions(seen) ==
  /\ m_flQueryWait = 0
  /\ \E accepted \in SUBSET Wanted(seen) :
       /\ accepted # Wanted(seen) => MayRefuse
       /\ \E new \in Orders(accepted) : m_QueryRequests' = m_QueryRequests \o new
       /\ DownloadItems(accepted)
       /\ IF accepted # {}
          THEN /\ m_flQueryWait' = RequestWait
               /\ m_bDownloadedItemsReady' = FALSE
               /\ m_bPrepareForQueryDownload' = TRUE
          ELSE /\ m_flQueryWait' = PollWait
               /\ UNCHANGED <<m_bDownloadedItemsReady, m_bPrepareForQueryDownload>>
  /\ IF NewlyInstalled(seen) # {} THEN ScanContent ELSE NoScan
  /\ m_SubscribedItems' = seen
  /\ UNCHANGED m_CurrentQueryItem

ThinkIdle ==
  /\ ~m_bPrepareForQueryDownload
  /\ IdleWait \/ \E seen \in FirstPage : CheckWorkshopSubscriptions(seen)

\* One frame; `full' is what the progress of the watched download reads.
OnThink(full) ==
  /\ starts > 0
  /\ ThinkQueue(full) \/ ThinkIdle
  /\ UNCHANGED <<addonDir, content, starts, subscribed, results, query>>

-----------------------------------------------------------------------------
(* Steam's answers.                                                        *)

\* Mutant: the answer is not noted.
ResultNotNoted(i) ==
  /\ starts > 0
  /\ i \in results
  /\ results' = results \ {i}
  /\ m_flQueryWait' = ResultWait
  /\ m_bPrepareForQueryDownload' = TRUE
  /\ UNCHANGED <<mountVars, requestVars, m_bDownloadedItemsReady, m_SubscribedItems,
                 steam, subscribed, asked, query>>

\* The handler looks neither at the item nor at the result.
OnDownloadItemResult(i) ==
  /\ starts > 0
  /\ i \in results
  /\ results' = results \ {i}
  /\ m_flQueryWait' = ResultWait
  /\ m_bDownloadedItemsReady' = TRUE
  /\ m_bPrepareForQueryDownload' = TRUE
  /\ UNCHANGED <<mountVars, requestVars, m_SubscribedItems, steam, subscribed, asked, query>>

OnSendQueryFailed ==
  /\ query = "pending" /\ MayFail
  /\ query' = "failed"
  /\ m_bDownloadedItemsReady' = TRUE
  /\ m_bPrepareForQueryDownload' = FALSE
  /\ UNCHANGED <<mountVars, requestVars, m_flQueryWait, m_SubscribedItems, steamVars>>

\* `got' are the items of the page Steam returns for which GetQueryUGCResult
\* succeeds.  The page was made before: it may miss subscriptions and name items
\* that are subscribed no more.  Unlike DownloadWorkshopAddon, requests are added
\* unconditionally.
OnSendQueryUGCRequest(got) ==
  /\ query = "pending"
  /\ query' = "ok"
  /\ m_SubscribedItems' = m_SubscribedItems \cup got
  /\ \E new \in Orders({i \in got : ~Current(i)}) : m_QueryRequests' = m_QueryRequests \o new
  /\ m_bDownloadedItemsReady' = TRUE
  /\ IF m_QueryRequests' # <<>>
     THEN /\ m_flQueryWait' = RequestWait
          /\ m_bPrepareForQueryDownload' = TRUE
          /\ NoScan
     ELSE /\ m_bPrepareForQueryDownload' = FALSE
          /\ UNCHANGED m_flQueryWait
          /\ ScanContent
  /\ UNCHANGED <<m_CurrentQueryItem, addonDir, content, starts, steamVars>>

-----------------------------------------------------------------------------
(* The constructor, and Steam itself.                                      *)

\* A new process: LoadWorkshop sends the query; callbacks the old process did
\* not receive are lost.
StartClient ==
  /\ Start
  /\ m_QueryRequests' = <<>> /\ m_CurrentQueryItem' = NoItem
  /\ m_bPrepareForQueryDownload' = FALSE /\ m_bDownloadedItemsReady' = FALSE
  /\ m_flQueryWait' = ResultWait
  /\ m_SubscribedItems' = {}
  /\ query' = "pending" /\ results' = {}
  /\ UNCHANGED <<steam, subscribed, asked>>

\* The user subscribes, or unsubscribes, in the Steam overlay.
ToggleSubscription(i) ==
  /\ subscribed' = IF i \in subscribed THEN subscribed \ {i} ELSE subscribed \cup {i}
  /\ UNCHANGED <<mountVars, queueVars, steam, asked, results, query>>

\* A download of Steam's own, for which no DownloadItemResult is sent.
SteamDownloads(i) ==
  /\ AutoDownload /\ i \in subscribed
  /\ steam[i] \in {"absent", "stale"}
  /\ steam' = [steam EXCEPT ![i] = IF @ = "absent" THEN "fetching" ELSE "updating"]
  /\ UNCHANGED <<mountVars, queueVars, subscribed, asked, results, query>>

Answer(i) ==
  /\ asked' = asked \ {i}
  /\ results' = results \cup ({i} \cap asked)

SteamSucceeds(i) ==
  /\ IsDownloading(i) \/ i \in asked
  /\ Answer(i)
  /\ steam' = [steam EXCEPT ![i] = "installed"]
  /\ content' = content \cup {i}
  /\ UNCHANGED <<m_Items, addonList, addonDir, threads, starts, unsettled, queueVars,
                 subscribed, query>>

SteamFails(i) ==
  /\ MayFail /\ IsDownloading(i)
  /\ Answer(i)
  /\ steam' = [steam EXCEPT ![i] = IF @ = "fetching" THEN "absent" ELSE "stale"]
  /\ UNCHANGED <<mountVars, queueVars, subscribed, query>>

AuthorUpdates(i) ==
  /\ Updates /\ steam[i] = "installed"
  /\ steam' = [steam EXCEPT ![i] = "stale"]
  /\ UNCHANGED <<mountVars, queueVars, subscribed, asked, results, query>>

SteamRemoves(i) ==
  /\ i \notin subscribed /\ ContentVanishes(i)
  /\ steam' = [steam EXCEPT ![i] = IF IsDownloading(i) THEN "fetching" ELSE "absent"]
  /\ UNCHANGED <<queueVars, subscribed, asked, results, query>>

Steam ==
  \E i \in Items :
    \/ ToggleSubscription(i) \/ SteamDownloads(i) \/ SteamSucceeds(i) \/ SteamFails(i)
    \/ AuthorUpdates(i) \/ SteamRemoves(i)

-----------------------------------------------------------------------------
Init ==
  /\ steam \in [Items -> {"absent", "installed", "stale"}]
  /\ subscribed \in SUBSET Items
  /\ MountInit
  /\ content = {i \in Items : IsInstalled(i)}
  /\ m_QueryRequests = <<>> /\ m_CurrentQueryItem = NoItem
  /\ m_bPrepareForQueryDownload = FALSE /\ m_bDownloadedItemsReady = FALSE
  /\ m_flQueryWait = 0
  /\ m_SubscribedItems = {}
  /\ asked = {} /\ results = {} /\ query = "none"

QueryAnswered == OnSendQueryFailed \/ \E got \in SUBSET Items : OnSendQueryUGCRequest(got)

Next ==
  \/ StartClient
  \/ \E full \in BOOLEAN : OnThink(full)
  \/ \E i \in Items : OnDownloadItemResult(i)
  \/ QueryAnswered
  \/ Steam
  \/ MountClient /\ UNCHANGED <<queueVars, steamVars, query>>

Spec == Init /\ [][Next]_vars

\* Frames keep coming (a progress that happens to read 1.0 is never relied on),
\* SteamAPI_RunCallbacks delivers what Steam posted, Steam answers the query and
\* ends every download it has started.
Fairness ==
  /\ WF_vars(OnThink(FALSE))
  /\ WF_vars(QueryAnswered)
  /\ \A i \in Items : /\ WF_vars(OnDownloadItemResult(i))
                      /\ WF_vars(SteamSucceeds(i) \/ SteamFails(i))

FairSpec == Spec /\ Fairness

-----------------------------------------------------------------------------
(* Properties.                                                             *)

\* Every variable of the queue holds a value the code can put there.
QueueTypeOK ==
  /\ m_QueryRequests \in Seq(RequestSet)
  /\ m_CurrentQueryItem \in Items \cup {NoItem}
  /\ m_bPrepareForQueryDownload \in BOOLEAN
  /\ m_bDownloadedItemsReady \in BOOLEAN
  /\ m_flQueryWait \in Nat
  /\ m_SubscribedItems \in SUBSET Items
  /\ steam \in [Items -> ItemStates]
  /\ subscribed \in SUBSET Items /\ asked \in SUBSET Items /\ results \in SUBSET Items
  /\ query \in {"none", "pending", "ok", "failed"}

\* The download OnThink watches is a request of the queue that is marked as
\* downloading: callbacks and polls add requests while it runs, and the queue is
\* emptied in one place, but never from under it.
CurrentIsStarted ==
  m_CurrentQueryItem # NoItem =>
    \E n \in DOMAIN m_QueryRequests :
      /\ m_QueryRequests[n].WorkshopID = m_CurrentQueryItem
      /\ m_QueryRequests[n].IsDownloading

\* While the client polls subscriptions, no request is left over and no download
\* is watched: every way out of queue mode has finished the queue.  (Only the
\* failure of the query leaves queue mode with work in hand.)
PollingMeansDone ==
  query # "failed" /\ ~m_bPrepareForQueryDownload =>
    m_QueryRequests = <<>> /\ m_CurrentQueryItem = NoItem

\* A client that has seen no answer since its last new request is in queue mode,
\* once the query is answered: it does not go back to polling, nor scan the
\* folder, before the answer.  And in queue mode the answer is still to come:
\* Steam owes it, or has posted it, so queue mode can end.
UnansweredIsAwaited ==
  ~m_bDownloadedItemsReady =>
    /\ query \in {"ok", "failed"} => m_bPrepareForQueryDownload
    /\ m_bPrepareForQueryDownload => asked \cup results # {}

\* The content folder is not scanned while a download is watched, whose folder
\* may be half written (again unless the query has failed).
NoScanDuringDownload ==
  [][DOMAIN m_Items' # DOMAIN m_Items /\ starts' = starts =>
       query = "failed" \/ m_CurrentQueryItem = NoItem]_vars

\* A request that was never tried stays where it is in the queue until Steam has
\* been asked for it: no answer, poll or end of queue drops it, unless Steam
\* refuses downloads.
UntriedRequestsStay ==
  [][starts' = starts /\ ~MayRefuse =>
       \A n \in Waiting :
         /\ n \in DOMAIN m_QueryRequests'
         /\ m_QueryRequests'[n].WorkshopID = m_QueryRequests[n].WorkshopID
         /\ m_QueryRequests'[n].IsDownloading =>
              m_CurrentQueryItem' = m_QueryRequests[n].WorkshopID]_vars

\* Queue mode always ends, so the client notices new subscriptions again.
QueueDrains == m_bPrepareForQueryDownload ~> ~m_bPrepareForQueryDownload

\* An item the client has a request for ends up in the list of addons, although
\* the request is thrown away with the queue, whatever Steam downloads by itself
\* and in whatever order its answers meet the frames.
RequestBecomesVisible ==
  \A i \in Items : (starts > 0 /\ Queued(i)) ~> i \in DOMAIN m_Items

\* A subscription the user keeps appears in the list of addons: the poll is there
\* to "Make it visible to the Workshop UI without asking Steam to download it
\* again."  False of the code: a poll that meets the item while Steam downloads
\* it by itself does nothing but remember it, and the next no longer calls it new.
SubscriptionBecomesVisible ==
  \A i \in Items :
    (starts > 0 /\ i \in subscribed) ~> (i \in DOMAIN m_Items \/ i \notin subscribed)

=============================================================================
