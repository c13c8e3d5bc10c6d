------------------------ MODULE WorkshopQueueProofs ------------------------
(***************************************************************************)
(* What holds of the Workshop download queue for every set of items, every *)
(* setting of the waits and everything Steam may do, and that the queue    *)
(* implements the list of addons.                                          *)
(***************************************************************************)
EXTENDS WorkshopQueue, WorkshopMountProofs, FiniteSetTheorems, TLAPS

-----------------------------------------------------------------------------
(* Lemmas about the operators of the queue.                                *)

\* A list of new requests is a sequence of requests not yet started.
LEMMA OrdersType ==
  ASSUME NEW S \in SUBSET Items, NEW o \in Orders(S)
  PROVE  /\ o \in Seq(RequestSet)
         /\ S = {} => o = <<>>
<1>1. IsFiniteSet(S)
  BY MountAssumption, FS_Subset
<1>2. Cardinality(S) \in Nat
  BY <1>1, FS_CardinalityType
<1>3. {Request(i) : i \in S} \subseteq RequestSet
  <2>1. \A i \in S : Request(i) \in RequestSet
    BY DEF Request, RequestSet
  <2> QED BY <2>1
<1>4. o \in [1..Cardinality(S) -> RequestSet]
  BY <1>3 DEF Orders
<1>5. o \in Seq(RequestSet)
  BY <1>2, <1>4
<1>6. ASSUME S = {} PROVE o = <<>>
  <2>1. Cardinality(S) = 0
    BY <1>6, FS_EmptySet
  <2>2. Len(o) = 0
    BY <2>1, <1>4, <1>5
  <2> QED BY <2>2, <1>5
<1> QED BY <1>5, <1>6

\* Marking requests as tried changes neither their number nor their items.
LEMMA MarkUpToType ==
  ASSUME NEW k \in Nat, m_QueryRequests \in Seq(RequestSet)
  PROVE  /\ MarkUpTo(k) \in Seq(RequestSet)
         /\ Len(MarkUpTo(k)) = Len(m_QueryRequests)
         /\ \A n \in DOMAIN m_QueryRequests :
              /\ MarkUpTo(k)[n].WorkshopID = m_QueryRequests[n].WorkshopID
              /\ n <= k => MarkUpTo(k)[n].IsDownloading
              /\ m_QueryRequests[n].IsDownloading => MarkUpTo(k)[n].IsDownloading
<1> DEFINE s == m_QueryRequests
<1>1. DOMAIN s = 1..Len(s) /\ Len(s) \in Nat
  OBVIOUS
<1>2. \A n \in DOMAIN s : s[n] \in RequestSet
  OBVIOUS
<1>3. MarkUpTo(k) \in [1..Len(s) -> RequestSet]
  BY <1>1, <1>2 DEF MarkUpTo, RequestSet
<1>4. MarkUpTo(k) \in Seq(RequestSet) /\ Len(MarkUpTo(k)) = Len(s)
  BY <1>1, <1>3
<1>5. ASSUME NEW n \in DOMAIN s
      PROVE  /\ MarkUpTo(k)[n].WorkshopID = s[n].WorkshopID
             /\ n <= k => MarkUpTo(k)[n].IsDownloading
             /\ s[n].IsDownloading => MarkUpTo(k)[n].IsDownloading
  BY <1>2, <1>5 DEF MarkUpTo, RequestSet
<1> QED BY <1>4, <1>5

\* DownloadItem moves items between the states GetItemState reports.
LEMMA DownloadItemsType ==
  ASSUME steam \in [Items -> ItemStates], asked \in SUBSET Items,
         NEW G \in SUBSET Items, DownloadItems(G)
  PROVE  steam' \in [Items -> ItemStates] /\ asked' \in SUBSET Items
<1>1. \A i \in Items : steam[i] \in ItemStates
  OBVIOUS
<1>2. \A i \in Items : steam'[i] \in ItemStates
  BY <1>1 DEF DownloadItems, ItemStates
<1>3. steam' = [i \in Items |-> steam'[i]]
  BY DEF DownloadItems
<1> QED BY <1>2, <1>3 DEF DownloadItems

-----------------------------------------------------------------------------
(* Type correctness, one lemma per actor.                                  *)

\* A frame keeps every variable of the queue in its type.
LEMMA ThinkType ==
  ASSUME QueueTypeOK, NEW full \in BOOLEAN, OnThink(full)
  PROVE  QueueTypeOK'
<1> USE DEF QueueTypeOK
<1>0. /\ subscribed' = subscribed /\ results' = results /\ query' = query
      /\ ThinkQueue(full) \/ ThinkIdle
  BY DEF OnThink
<1>1. CASE ThinkQueue(full) /\ WatchDone(full)
  BY <1>0, <1>1, QueueAssumption DEF ThinkQueue, WatchDone
<1>2. CASE ThinkQueue(full) /\ WaitForQuery
  BY <1>0, <1>2 DEF ThinkQueue, WaitForQuery, requestVars
<1>3. CASE ThinkQueue(full) /\ \E k \in Waiting : PrepareForQueryDownload(k)
  <2>1. PICK k \in Waiting : PrepareForQueryDownload(k)
    BY <1>3
  <2>2. k \in Nat /\ m_QueryRequests[k] \in RequestSet
    BY DEF Waiting
  <2>3. m_QueryRequests[k].WorkshopID \in Items
    BY <2>2 DEF RequestSet
  <2>4. m_QueryRequests' \in Seq(RequestSet)
    BY <2>1, <2>2, MarkUpToType DEF PrepareForQueryDownload
  <2>5. steam' \in [Items -> ItemStates] /\ asked' \in SUBSET Items
    BY <2>1, <2>3, DownloadItemsType DEF PrepareForQueryDownload
  <2> QED BY <1>0, <1>3, <2>1, <2>3, <2>4, <2>5
          DEF ThinkQueue, PrepareForQueryDownload, flagVars
<1>4. CASE ThinkQueue(full) /\ EndOfQueue
  <2>1. m_QueryRequests' \in Seq(RequestSet)
    BY <1>4 DEF EndOfQueue
  <2> QED BY <1>0, <1>4, <2>1 DEF ThinkQueue, EndOfQueue
<1>5. CASE ThinkIdle /\ IdleWait
  BY <1>0, <1>5, QueueAssumption DEF ThinkIdle, IdleWait, requestVars
<1>6. CASE ThinkIdle /\ \E seen \in FirstPage : CheckWorkshopSubscriptions(seen)
  <2>0. PICK seen \in FirstPage : CheckWorkshopSubscriptions(seen)
    BY <1>6
  <2> seen \in SUBSET subscribed
    BY DEF FirstPage
  <2>1. PICK accepted \in SUBSET Wanted(seen) :
          /\ \E new \in Orders(accepted) : m_QueryRequests' = m_QueryRequests \o new
          /\ DownloadItems(accepted)
          /\ IF accepted # {}
             THEN /\ m_flQueryWait' = RequestWait
                  /\ m_bDownloadedItemsReady' = FALSE
                  /\ m_bPrepareForQueryDownload' = TRUE
             ELSE /\ m_flQueryWait' = PollWait
                  /\ UNCHANGED <<m_bDownloadedItemsReady, m_bPrepareForQueryDownload>>
    BY <2>0 DEF CheckWorkshopSubscriptions
  <2>2. accepted \in SUBSET Items
    BY DEF Wanted
  <2>3. m_QueryRequests' \in Seq(RequestSet)
    BY <2>1, <2>2, OrdersType
  <2>4. steam' \in [Items -> ItemStates] /\ asked' \in SUBSET Items
    BY <2>1, <2>2, DownloadItemsType
  <2>5. /\ m_SubscribedItems' = seen
        /\ m_CurrentQueryItem' = m_CurrentQueryItem
    BY <2>0 DEF CheckWorkshopSubscriptions
  <2>6. /\ m_flQueryWait' \in Nat
        /\ m_bDownloadedItemsReady' \in BOOLEAN
        /\ m_bPrepareForQueryDownload' \in BOOLEAN
    BY <2>1, QueueAssumption
  <2> QED BY <1>0, <2>3, <2>4, <2>5, <2>6
<1> QED BY <1>0, <1>1, <1>2, <1>3, <1>4, <1>5, <1>6 DEF ThinkQueue, ThinkIdle

\* The query's answer, a download's callback and a restart do.
LEMMA AnswerType ==
  ASSUME QueueTypeOK,
         QueryAnswered \/ StartClient \/ \E i \in Items : OnDownloadItemResult(i)
  PROVE  QueueTypeOK'
<1> USE DEF QueueTypeOK
<1>1. CASE OnSendQueryFailed
  BY <1>1 DEF OnSendQueryFailed, requestVars, steamVars
<1>2. CASE \E got \in SUBSET Items : OnSendQueryUGCRequest(got)
  <2>1. PICK got \in SUBSET Items : OnSendQueryUGCRequest(got)
    BY <1>2
  <2> DEFINE late == {i \in got : ~Current(i)}
  <2>2. PICK new \in Orders(late) : m_QueryRequests' = m_QueryRequests \o new
    BY <2>1 DEF OnSendQueryUGCRequest
  <2>3. new \in Seq(RequestSet)
    <3>1. late \in SUBSET Items
      OBVIOUS
    <3> HIDE DEF late
    <3> QED BY <3>1, OrdersType
  <2>4. m_QueryRequests' \in Seq(RequestSet)
    BY <2>2, <2>3
  <2>5. /\ m_flQueryWait' \in Nat
        /\ m_bPrepareForQueryDownload' \in BOOLEAN
    BY <2>1, QueueAssumption DEF OnSendQueryUGCRequest
  <2> QED BY <2>1, <2>4, <2>5 DEF OnSendQueryUGCRequest, steamVars
<1>3. CASE StartClient
  <2>1. m_QueryRequests' \in Seq(RequestSet)
    BY <1>3 DEF StartClient
  <2> QED BY <1>3, <2>1, QueueAssumption DEF StartClient
<1>4. CASE \E i \in Items : OnDownloadItemResult(i)
  BY <1>4, QueueAssumption DEF OnDownloadItemResult, requestVars
<1> QED BY <1>1, <1>2, <1>3, <1>4 DEF QueryAnswered

\* Steam, its users and the mounting threads leave the queue alone.
LEMMA SteamLeavesQueue ==
  ASSUME Steam \/ (MountClient /\ UNCHANGED <<queueVars, steamVars, query>>)
  PROVE  UNCHANGED <<queueVars, query>>
<1>1. ASSUME NEW i \in Items,
             \/ ToggleSubscription(i) \/ SteamDownloads(i) \/ SteamSucceeds(i)
             \/ SteamFails(i) \/ AuthorUpdates(i) \/ SteamRemoves(i)
      PROVE  UNCHANGED <<queueVars, query>>
  BY <1>1 DEF ToggleSubscription, SteamDownloads, SteamSucceeds, SteamFails,
              AuthorUpdates, SteamRemoves
<1> QED BY <1>1 DEF Steam

\* Steam keeps its own variables in their types.
LEMMA SteamType ==
  ASSUME QueueTypeOK, Steam
  PROVE  QueueTypeOK'
<1>1. UNCHANGED <<queueVars, query>>
  BY SteamLeavesQueue
<1>2. PICK i \in Items :
        \/ ToggleSubscription(i) \/ SteamDownloads(i) \/ SteamSucceeds(i)
        \/ SteamFails(i) \/ AuthorUpdates(i) \/ SteamRemoves(i)
  BY DEF Steam
<1>3. steam' \in [Items -> ItemStates]
  <2>1. \/ steam' = steam
        \/ \E x \in ItemStates : steam' = [steam EXCEPT ![i] = x]
    BY <1>2 DEF ToggleSubscription, SteamDownloads, SteamSucceeds, SteamFails,
                AuthorUpdates, SteamRemoves, ItemStates
  <2> QED BY <2>1 DEF QueueTypeOK
<1>4. /\ subscribed' \in SUBSET Items
      /\ asked' \in SUBSET Items
      /\ results' \in SUBSET Items
  BY <1>2 DEF QueueTypeOK, ToggleSubscription, SteamDownloads, SteamSucceeds, SteamFails,
              AuthorUpdates, SteamRemoves, Answer
<1> QED BY <1>1, <1>3, <1>4 DEF QueueTypeOK, queueVars, requestVars, flagVars

\* Every step keeps every variable of the queue in its type.
LEMMA NextType == QueueTypeOK /\ [Next]_vars => QueueTypeOK'
<1> SUFFICES ASSUME QueueTypeOK, [Next]_vars PROVE QueueTypeOK'
  OBVIOUS
<1>1. CASE \E full \in BOOLEAN : OnThink(full)
  BY <1>1, ThinkType
<1>2. CASE QueryAnswered \/ StartClient \/ \E i \in Items : OnDownloadItemResult(i)
  BY <1>2, AnswerType
<1>3. CASE Steam
  BY <1>3, SteamType
<1>4. CASE \/ MountClient /\ UNCHANGED <<queueVars, steamVars, query>>
           \/ UNCHANGED vars
  BY <1>4 DEF QueueTypeOK, vars, queueVars, steamVars, requestVars, flagVars
<1> QED BY <1>1, <1>2, <1>3, <1>4 DEF Next

\* The variables of the queue always hold values of their types, whatever Steam
\* answers and in whatever order.
THEOREM QueueTypeCorrect == Spec => []QueueTypeOK
<1>1. Init => QueueTypeOK
  <2> SUFFICES ASSUME Init PROVE QueueTypeOK
    OBVIOUS
  <2>1. steam \in [Items -> ItemStates]
    BY DEF Init, ItemStates
  <2>2. m_QueryRequests \in Seq(RequestSet)
    BY DEF Init
  <2> QED BY <2>1, <2>2 DEF Init, QueueTypeOK
<1> QED BY <1>1, NextType, PTL DEF Spec

-----------------------------------------------------------------------------
(* The queue's safety invariants.  PollingMeansDone is not inductive alone: *)
(* an answered query that finds no request stops queue mode, and only       *)
(* CurrentIsStarted says that no download is watched then.                  *)

QueueInv ==
  /\ QueueTypeOK
  /\ CurrentIsStarted
  /\ PollingMeansDone
  /\ UnansweredIsAwaited

Invs == CurrentIsStarted /\ PollingMeansDone /\ UnansweredIsAwaited

\* A queue that grew at its end still holds the request of the watched download.
LEMMA AppendKeepsCurrent ==
  ASSUME QueueTypeOK, CurrentIsStarted, NEW new \in Seq(RequestSet),
         m_QueryRequests' = m_QueryRequests \o new,
         m_CurrentQueryItem' = m_CurrentQueryItem
  PROVE  CurrentIsStarted'
<1> SUFFICES ASSUME m_CurrentQueryItem # NoItem
             PROVE  \E n \in DOMAIN m_QueryRequests' :
                      /\ m_QueryRequests'[n].WorkshopID = m_CurrentQueryItem
                      /\ m_QueryRequests'[n].IsDownloading
  BY DEF CurrentIsStarted
<1>1. PICK n \in DOMAIN m_QueryRequests :
        /\ m_QueryRequests[n].WorkshopID = m_CurrentQueryItem
        /\ m_QueryRequests[n].IsDownloading
  BY DEF CurrentIsStarted
<1>2. n \in DOMAIN m_QueryRequests' /\ m_QueryRequests'[n] = m_QueryRequests[n]
  BY DEF QueueTypeOK
<1> QED BY <1>1, <1>2

\* A frame keeps the invariants.
LEMMA ThinkInv ==
  ASSUME QueueInv, NEW full \in BOOLEAN, OnThink(full)
  PROVE  Invs'
<1> USE DEF QueueInv, Invs, CurrentIsStarted, PollingMeansDone, UnansweredIsAwaited
<1>0. /\ query' = query /\ results' = results
      /\ ThinkQueue(full) \/ ThinkIdle
  BY DEF OnThink
<1>1. CASE ThinkQueue(full) /\ WatchDone(full)
  BY <1>0, <1>1 DEF ThinkQueue, WatchDone
<1>2. CASE ThinkQueue(full) /\ WaitForQuery
  BY <1>0, <1>2 DEF ThinkQueue, WaitForQuery, requestVars
<1>3. CASE ThinkQueue(full) /\ \E k \in Waiting : PrepareForQueryDownload(k)
  <2>1. PICK k \in Waiting : PrepareForQueryDownload(k)
    BY <1>3
  <2>2. m_bPrepareForQueryDownload /\ UNCHANGED flagVars
    BY <1>3, <2>1 DEF ThinkQueue, PrepareForQueryDownload
  <2>3. k \in Nat /\ k \in DOMAIN m_QueryRequests
    BY DEF Waiting, QueueTypeOK
  <2>4. m_QueryRequests' = MarkUpTo(k)
    BY <2>1 DEF PrepareForQueryDownload
  <2>5. k \in DOMAIN m_QueryRequests'
    BY <2>3, <2>4 DEF MarkUpTo
  <2>6. /\ m_QueryRequests'[k].WorkshopID = m_QueryRequests[k].WorkshopID
        /\ m_QueryRequests'[k].IsDownloading
    BY <2>3, <2>4, MarkUpToType DEF QueueTypeOK
  <2>7. CurrentIsStarted'
    BY <2>1, <2>5, <2>6 DEF PrepareForQueryDownload
  <2>8. asked' = asked \cup {m_QueryRequests[k].WorkshopID}
    BY <2>1 DEF PrepareForQueryDownload, DownloadItems
  <2> QED BY <1>0, <2>2, <2>7, <2>8 DEF flagVars
<1>4. CASE ThinkQueue(full) /\ m_CurrentQueryItem = NoItem /\ EndOfQueue
  BY <1>0, <1>4 DEF ThinkQueue, EndOfQueue
<1>5. CASE ThinkIdle /\ IdleWait
  BY <1>0, <1>5 DEF ThinkIdle, IdleWait, requestVars
<1>6. CASE ThinkIdle /\ \E seen \in FirstPage : CheckWorkshopSubscriptions(seen)
  <2>0. PICK seen \in FirstPage : CheckWorkshopSubscriptions(seen)
    BY <1>6
  <2> seen \in SUBSET subscribed
    BY DEF FirstPage
  <2>1. PICK accepted \in SUBSET Wanted(seen) :
          /\ \E new \in Orders(accepted) : m_QueryRequests' = m_QueryRequests \o new
          /\ asked' = asked \cup accepted
          /\ IF accepted # {}
             THEN /\ m_bDownloadedItemsReady' = FALSE
                  /\ m_bPrepareForQueryDownload' = TRUE
             ELSE UNCHANGED <<m_bDownloadedItemsReady, m_bPrepareForQueryDownload>>
    BY <2>0 DEF CheckWorkshopSubscriptions, DownloadItems
  <2>2. PICK new \in Orders(accepted) : m_QueryRequests' = m_QueryRequests \o new
    BY <2>1
  <2>3. /\ new \in Seq(RequestSet)
        /\ accepted = {} => new = <<>>
    BY OrdersType DEF Wanted, QueueTypeOK
  <2>4. m_CurrentQueryItem' = m_CurrentQueryItem
    BY <2>0 DEF CheckWorkshopSubscriptions
  <2>5. CurrentIsStarted'
    BY <2>2, <2>3, <2>4, AppendKeepsCurrent
  <2>6. accepted = {} => m_QueryRequests' = m_QueryRequests
    BY <2>2, <2>3 DEF QueueTypeOK
  <2> QED BY <1>0, <2>1, <2>4, <2>5, <2>6
<1> HIDE DEF QueueInv, Invs, CurrentIsStarted, PollingMeansDone, UnansweredIsAwaited
<1> QED BY <1>0, <1>1, <1>2, <1>3, <1>4, <1>5, <1>6 DEF ThinkQueue, ThinkIdle

\* So do the answers, and a restart.
LEMMA AnswerInv ==
  ASSUME QueueInv,
         QueryAnswered \/ StartClient \/ \E i \in Items : OnDownloadItemResult(i)
  PROVE  Invs'
<1> USE DEF QueueInv, Invs, CurrentIsStarted, PollingMeansDone, UnansweredIsAwaited
<1>1. CASE OnSendQueryFailed
  BY <1>1 DEF OnSendQueryFailed, requestVars
<1>2. CASE \E got \in SUBSET Items : OnSendQueryUGCRequest(got)
  <2>1. PICK got \in SUBSET Items : OnSendQueryUGCRequest(got)
    BY <1>2
  <2> DEFINE late == {i \in got : ~Current(i)}
  <2>2. PICK new \in Orders(late) : m_QueryRequests' = m_QueryRequests \o new
    BY <2>1 DEF OnSendQueryUGCRequest
  <2>3. new \in Seq(RequestSet)
    <3>1. late \in SUBSET Items
      OBVIOUS
    <3> HIDE DEF late
    <3> QED BY <3>1, OrdersType
  <2>4. m_CurrentQueryItem' = m_CurrentQueryItem
    BY <2>1 DEF OnSendQueryUGCRequest
  <2>5. CurrentIsStarted'
    BY <2>2, <2>3, <2>4, AppendKeepsCurrent
  <2>6. m_QueryRequests' = <<>> => m_CurrentQueryItem' = NoItem
    BY <2>5
  <2>7. /\ m_bDownloadedItemsReady' = TRUE
        /\ m_QueryRequests' # <<>> => m_bPrepareForQueryDownload' = TRUE
    BY <2>1 DEF OnSendQueryUGCRequest
  <2> QED BY <2>5, <2>6, <2>7
<1>3. CASE StartClient
  BY <1>3 DEF StartClient
<1>4. CASE \E i \in Items : OnDownloadItemResult(i)
  BY <1>4 DEF OnDownloadItemResult, requestVars
<1> QED BY <1>1, <1>2, <1>3, <1>4 DEF QueryAnswered

\* Steam forgets no answer it owes: it posts it.
LEMMA SteamOwes ==
  ASSUME Steam \/ (MountClient /\ UNCHANGED <<queueVars, steamVars, query>>)
  PROVE  asked \cup results \subseteq (asked \cup results)'
<1>1. ASSUME NEW i \in Items,
             \/ ToggleSubscription(i) \/ SteamDownloads(i) \/ SteamSucceeds(i)
             \/ SteamFails(i) \/ AuthorUpdates(i) \/ SteamRemoves(i)
      PROVE  asked \cup results \subseteq (asked \cup results)'
  BY <1>1 DEF ToggleSubscription, SteamDownloads, SteamSucceeds, SteamFails,
              AuthorUpdates, SteamRemoves, Answer
<1> QED BY <1>1 DEF Steam, steamVars

\* The invariant is inductive.
LEMMA NextInv == QueueInv /\ [Next]_vars => QueueInv'
<1> SUFFICES ASSUME QueueInv, [Next]_vars PROVE Invs'
  BY NextType DEF QueueInv, Invs
<1>1. CASE \E full \in BOOLEAN : OnThink(full)
  BY <1>1, ThinkInv
<1>2. CASE QueryAnswered \/ StartClient \/ \E i \in Items : OnDownloadItemResult(i)
  BY <1>2, AnswerInv
<1>3. CASE \/ Steam
           \/ MountClient /\ UNCHANGED <<queueVars, steamVars, query>>
           \/ UNCHANGED vars
  <2>1. UNCHANGED <<queueVars, query>>
    BY <1>3, SteamLeavesQueue DEF vars
  <2>2. asked \cup results \subseteq (asked \cup results)'
    BY <1>3, SteamOwes DEF vars, steamVars
  <2> QED BY <2>1, <2>2 DEF QueueInv, Invs, queueVars, requestVars, flagVars,
                      CurrentIsStarted, PollingMeansDone, UnansweredIsAwaited
<1> QED BY <1>1, <1>2, <1>3 DEF Next

LEMMA InvHolds == Spec => []QueueInv
<1>1. Init => QueueInv
  <2> SUFFICES ASSUME Init PROVE QueueInv
    OBVIOUS
  <2>1. QueueTypeOK
    <3>1. steam \in [Items -> ItemStates]
      BY DEF Init, ItemStates
    <3>2. m_QueryRequests \in Seq(RequestSet)
      BY DEF Init
    <3> QED BY <3>1, <3>2 DEF Init, QueueTypeOK
  <2> QED BY <2>1 DEF Init, QueueInv, CurrentIsStarted, PollingMeansDone, UnansweredIsAwaited
<1> QED BY <1>1, NextInv, PTL DEF Spec

\* The watched download is always a request marked as downloading.
THEOREM WatchedIsQueued == Spec => []CurrentIsStarted
BY InvHolds, PTL DEF QueueInv

\* Outside queue mode there is no request and no watched download, unless the
\* query failed.
THEOREM PollingIsIdle == Spec => []PollingMeansDone
BY InvHolds, PTL DEF QueueInv

\* A client without an answer since its last request stays in queue mode, and Steam
\* owes it that answer: the safety half of QueueDrains.
THEOREM QueueAwaitsAnswer == Spec => []UnansweredIsAwaited
BY InvHolds, PTL DEF QueueInv

-----------------------------------------------------------------------------
(***************************************************************************)
(* The download queue implements the list of addons: whatever the frames,  *)
(* the answers and Steam do to m_Items, addonlist.txt and zamnhlmp_addon   *)
(* is a step MountSpec allows.  So the properties proved of MountSpec hold *)
(* of the queue as well.                                                   *)
(***************************************************************************)

\* An answer can only reach a running client.
Running == query # "none" => starts > 0

RefInv == QueueInv /\ MountTypeOK /\ Running

\* A scan of the content folder by a running client is Rescan.
LEMMA ScanIsRescan ==
  ASSUME starts > 0, ScanContent \/ NoScan, UNCHANGED <<addonDir, content, starts>>
  PROVE  [MountNext]_mountVars
<1>1. CASE ScanContent
  BY <1>1 DEF ScanContent, MountNext, Rescan
<1>2. CASE NoScan
  BY <1>2 DEF NoScan, mountVars
<1> QED BY <1>1, <1>2

\* Every frame scans the folder or leaves the list of addons alone.
LEMMA ThinkScans ==
  ASSUME NEW full \in BOOLEAN, OnThink(full)
  PROVE  ScanContent \/ NoScan
<1>1. ThinkQueue(full) \/ ThinkIdle
  BY DEF OnThink
<1>2. CASE ThinkQueue(full)
  BY <1>2 DEF ThinkQueue, WatchDone, WaitForQuery, PrepareForQueryDownload, EndOfQueue
<1>3. CASE ThinkIdle
  BY <1>3 DEF ThinkIdle, IdleWait, CheckWorkshopSubscriptions
<1> QED BY <1>1, <1>2, <1>3

\* Steam only lets folders come and go.
LEMMA SteamRefines ==
  ASSUME MountTypeOK, Steam
  PROVE  [MountNext]_mountVars /\ starts' = starts
<1>1. PICK i \in Items :
        \/ ToggleSubscription(i) \/ SteamDownloads(i) \/ SteamSucceeds(i)
        \/ SteamFails(i) \/ AuthorUpdates(i) \/ SteamRemoves(i)
  BY DEF Steam
<1>2. CASE SteamSucceeds(i)
  <2>1. CASE i \in content
    <3>1. content' = content
      BY <1>2, <2>1 DEF SteamSucceeds
    <3> QED BY <1>2, <3>1 DEF SteamSucceeds, mountVars
  <2>2. CASE i \notin content
    BY <1>2, <2>2 DEF SteamSucceeds, ContentAppears, MountNext
  <2> QED BY <2>1, <2>2
<1>3. CASE SteamRemoves(i)
  <2>1. ContentVanishes(i)
    BY <1>3 DEF SteamRemoves
  <2> QED BY <2>1 DEF ContentVanishes, MountNext
<1>4. CASE ToggleSubscription(i) \/ SteamDownloads(i) \/ SteamFails(i) \/ AuthorUpdates(i)
  BY <1>4 DEF ToggleSubscription, SteamDownloads, SteamFails, AuthorUpdates, mountVars
<1> QED BY <1>1, <1>2, <1>3, <1>4

\* Every step of the queue is a step of MountSpec or none of its business.
LEMMA NextRefines ==
  ASSUME RefInv, [Next]_vars
  PROVE  [MountNext]_mountVars /\ Running'
<1>0. Running /\ MountTypeOK /\ starts \in Nat
  BY DEF RefInv, MountTypeOK
<1>1. CASE StartClient
  <2>1. Start
    BY <1>1 DEF StartClient
  <2>2. starts' = starts + 1
    BY <2>1 DEF Start
  <2> QED BY <1>0, <2>1, <2>2 DEF MountNext, Running
<1>2. CASE \E full \in BOOLEAN : OnThink(full)
  <2>1. PICK full \in BOOLEAN : OnThink(full)
    BY <1>2
  <2>2. starts > 0 /\ UNCHANGED <<addonDir, content, starts>>
    BY <2>1 DEF OnThink
  <2>3. [MountNext]_mountVars
    BY <2>1, <2>2, ThinkScans, ScanIsRescan
  <2> QED BY <2>2, <2>3 DEF Running
<1>3. CASE \E i \in Items : OnDownloadItemResult(i)
  BY <1>0, <1>3 DEF OnDownloadItemResult, mountVars, Running
<1>4. CASE OnSendQueryFailed
  BY <1>0, <1>4 DEF OnSendQueryFailed, mountVars, Running
<1>5. CASE \E got \in SUBSET Items : OnSendQueryUGCRequest(got)
  <2>1. PICK got \in SUBSET Items : OnSendQueryUGCRequest(got)
    BY <1>5
  <2>2. query = "pending" /\ UNCHANGED <<addonDir, content, starts>>
    BY <2>1 DEF OnSendQueryUGCRequest
  <2>3. starts > 0
    BY <1>0, <2>2 DEF Running
  <2>4. ScanContent \/ NoScan
    BY <2>1 DEF OnSendQueryUGCRequest
  <2>5. [MountNext]_mountVars
    BY <2>2, <2>3, <2>4, ScanIsRescan
  <2> QED BY <2>2, <2>3, <2>5 DEF Running
<1>6. CASE Steam
  <2>1. query' = query
    BY <1>6, SteamLeavesQueue
  <2> QED BY <1>0, <1>6, <2>1, SteamRefines DEF Running
<1>7. CASE MountClient /\ UNCHANGED <<queueVars, steamVars, query>>
  <2>1. starts' = starts
    BY <1>7 DEF MountClient, ThreadStep, MountWorkshopItem, CopyCompare, CopyWrite, RemoveFile
  <2> QED BY <1>0, <1>7, <2>1 DEF MountNext, Running
<1>8. CASE UNCHANGED vars
  BY <1>0, <1>8 DEF vars, mountVars, Running
<1> QED BY <1>1, <1>2, <1>3, <1>4, <1>5, <1>6, <1>7, <1>8 DEF Next, QueryAnswered

LEMMA InitRefines == Init => MountInit /\ Running
BY DEF Init, Running

LEMMA RefInvHolds == Spec => []RefInv
<1>1. Init => MountTypeOK /\ Running
  BY InitRefines, MountInitType
<1>2. Spec => []QueueInv
  BY InvHolds
<1>3. (QueueInv /\ MountTypeOK /\ Running) /\ [Next]_vars => (MountTypeOK /\ Running)'
  BY NextRefines, MountNextType DEF RefInv
<1> QED BY <1>1, <1>2, <1>3, PTL DEF Spec, RefInv

\* The queue, with its frames, answers, Steam and restarts, implements the list
\* of addons: it changes m_Items, addonlist.txt and zamnhlmp_addon only as
\* MountSpec allows.
THEOREM QueueImplementsMount == Spec => MountSpec
<1>1. Init => MountInit
  BY InitRefines
<1>2. RefInv /\ [Next]_vars => [MountNext]_mountVars
  BY NextRefines
<1> QED BY <1>1, <1>2, RefInvHolds, PTL DEF Spec, MountSpec

\* So the check boxes and addonlist.txt agree while downloads come and go.
THEOREM QueueKeepsListAgrees == Spec => []AddonListAgrees
BY QueueImplementsMount, ListAgrees, PTL

\* What is mounted is recorded as mounted, while addons are loaded by polls and answers.
THEOREM QueueKeepsRecord == Spec => []MountedIsRecorded
BY QueueImplementsMount, MountedStaysRecorded, PTL

\* And the files of a settled addon are as its box says, whatever is downloaded meanwhile.
THEOREM QueueKeepsFiles == Spec => []FilesFollowBox
BY QueueImplementsMount, FilesAsShown, PTL

-----------------------------------------------------------------------------
(* No scan while a download is watched.                                    *)

LEMMA NextScans ==
  ASSUME RefInv, RefInv', [Next]_vars, DOMAIN m_Items' # DOMAIN m_Items, starts' = starts
  PROVE  query = "failed" \/ m_CurrentQueryItem = NoItem
<1>0. /\ MountTypeOK /\ starts \in Nat /\ PollingMeansDone /\ CurrentIsStarted'
      /\ m_Items' # m_Items
  BY DEF RefInv, QueueInv, MountTypeOK
<1>1. CASE StartClient
  BY <1>0, <1>1 DEF StartClient, Start
<1>2. CASE \E full \in BOOLEAN : OnThink(full)
  <2>1. PICK full \in BOOLEAN : ThinkQueue(full) \/ ThinkIdle
    BY <1>2 DEF OnThink
  <2>2. CASE ThinkIdle
    BY <1>0, <2>2 DEF ThinkIdle, PollingMeansDone
  <2>3. CASE ThinkQueue(full)
    BY <1>0, <2>3 DEF ThinkQueue, WatchDone, NoScan
  <2> QED BY <2>1, <2>2, <2>3
<1>3. CASE \E got \in SUBSET Items : OnSendQueryUGCRequest(got)
  <2>1. PICK got \in SUBSET Items : OnSendQueryUGCRequest(got)
    BY <1>3
  <2>2. m_QueryRequests' = <<>> /\ m_CurrentQueryItem' = m_CurrentQueryItem
    BY <1>0, <2>1 DEF OnSendQueryUGCRequest, NoScan
  <2> QED BY <1>0, <2>2 DEF CurrentIsStarted
<1>4. CASE MountClient
  <2>1. CASE ThreadStep
    BY <1>0, <2>1, ThreadType DEF ThreadStep
  <2>2. CASE \E i \in Items : MountWorkshopItem(i)
    BY <1>0, <2>2, ToggleProps
  <2> QED BY <1>4, <2>1, <2>2 DEF MountClient
<1>5. CASE Steam
  <2>1. m_Items' = m_Items
    BY <1>5 DEF Steam, ToggleSubscription, SteamDownloads, SteamSucceeds, SteamFails,
                AuthorUpdates, SteamRemoves, ContentVanishes, mountVars
  <2> QED BY <1>0, <2>1
<1>6. CASE \/ OnSendQueryFailed \/ \E i \in Items : OnDownloadItemResult(i)
           \/ UNCHANGED vars
  BY <1>0, <1>6 DEF OnSendQueryFailed, OnDownloadItemResult, mountVars, vars
<1> QED BY <1>1, <1>2, <1>3, <1>4, <1>5, <1>6 DEF Next, QueryAnswered

\* The content folder is never scanned while a download is watched, unless the
\* query has failed.
THEOREM WatchedIsNotScanned == Spec => NoScanDuringDownload
<1>1. RefInv /\ RefInv' /\ [Next]_vars =>
        [DOMAIN m_Items' # DOMAIN m_Items /\ starts' = starts =>
           query = "failed" \/ m_CurrentQueryItem = NoItem]_vars
  BY NextScans
<1> QED BY <1>1, RefInvHolds, PTL DEF Spec, NoScanDuringDownload

-----------------------------------------------------------------------------
(* No request is forgotten.                                                *)

\* What UntriedRequestsStay says of one request.
Stays(n) ==
  /\ n \in DOMAIN m_QueryRequests'
  /\ m_QueryRequests'[n].WorkshopID = m_QueryRequests[n].WorkshopID
  /\ m_QueryRequests'[n].IsDownloading =>
       m_CurrentQueryItem' = m_QueryRequests[n].WorkshopID

\* Requests added at the end leave the others where they are.
LEMMA AppendStays ==
  ASSUME QueueTypeOK, NEW new \in Seq(RequestSet),
         m_QueryRequests' = m_QueryRequests \o new, NEW n \in Waiting
  PROVE  Stays(n)
<1>1. n \in DOMAIN m_QueryRequests /\ ~m_QueryRequests[n].IsDownloading
  BY DEF Waiting
<1>2. n \in DOMAIN m_QueryRequests' /\ m_QueryRequests'[n] = m_QueryRequests[n]
  BY <1>1 DEF QueueTypeOK
<1> QED BY <1>1, <1>2 DEF Stays

\* When Steam refuses nothing, the first request that waits is the one that is tried.
LEMMA PrepareStays ==
  ASSUME QueueTypeOK, MayRefuse = FALSE, NEW k \in Waiting, PrepareForQueryDownload(k),
         NEW n \in Waiting
  PROVE  Stays(n)
<1>1. /\ m_QueryRequests' = MarkUpTo(k)
      /\ m_CurrentQueryItem' = m_QueryRequests[k].WorkshopID
      /\ ~(n < k)
  BY DEF PrepareForQueryDownload
<1>2. /\ n \in DOMAIN m_QueryRequests /\ ~m_QueryRequests[n].IsDownloading
      /\ n \in Nat /\ k \in Nat
  BY DEF Waiting, QueueTypeOK
<1>3. /\ DOMAIN m_QueryRequests' = DOMAIN m_QueryRequests
      /\ m_QueryRequests'[n].WorkshopID = m_QueryRequests[n].WorkshopID
      /\ n > k => m_QueryRequests'[n] = m_QueryRequests[n]
  BY <1>1, <1>2, MarkUpToType DEF MarkUpTo, QueueTypeOK
<1>4. CASE n = k
  BY <1>1, <1>2, <1>3, <1>4 DEF Stays
<1>5. CASE n > k
  BY <1>2, <1>3, <1>5 DEF Stays
<1> QED BY <1>1, <1>2, <1>4, <1>5

LEMMA NextStays ==
  ASSUME RefInv, [Next]_vars, MayRefuse = FALSE, starts' = starts, NEW n \in Waiting
  PROVE  Stays(n)
<1>0. QueueTypeOK /\ starts \in Nat
  BY DEF RefInv, QueueInv, MountTypeOK
<1>1. ASSUME m_QueryRequests' = m_QueryRequests PROVE Stays(n)
  BY <1>1 DEF Waiting, Stays
<1>2. CASE StartClient
  BY <1>0, <1>2 DEF StartClient, Start
<1>3. ASSUME NEW full \in BOOLEAN, ThinkQueue(full) PROVE Stays(n)
  <2>1. CASE WatchDone(full) \/ WaitForQuery
    BY <1>1, <2>1 DEF WatchDone, WaitForQuery, requestVars
  <2>2. CASE \E k \in Waiting : PrepareForQueryDownload(k)
    BY <1>0, <2>2, PrepareStays
  <2>3. CASE EndOfQueue
    BY <2>3 DEF EndOfQueue
  <2> QED BY <1>3, <2>1, <2>2, <2>3 DEF ThinkQueue
<1>4. CASE ThinkIdle
  <2>1. CASE IdleWait
    BY <1>1, <2>1 DEF IdleWait, requestVars
  <2>2. CASE \E seen \in FirstPage : CheckWorkshopSubscriptions(seen)
    <3>0. PICK seen \in FirstPage : CheckWorkshopSubscriptions(seen)
      BY <2>2
    <3> seen \in SUBSET subscribed
      BY DEF FirstPage
    <3>1. PICK accepted \in SUBSET Wanted(seen) :
            \E new \in Orders(accepted) : m_QueryRequests' = m_QueryRequests \o new
      BY <3>0 DEF CheckWorkshopSubscriptions
    <3>2. accepted \in SUBSET Items
      BY <1>0 DEF Wanted, QueueTypeOK
    <3>3. PICK new \in Seq(RequestSet) : m_QueryRequests' = m_QueryRequests \o new
      BY <3>1, <3>2, OrdersType
    <3> QED BY <1>0, <3>3, AppendStays
  <2> QED BY <1>4, <2>1, <2>2 DEF ThinkIdle
<1>5. CASE \E got \in SUBSET Items : OnSendQueryUGCRequest(got)
  <2>1. PICK got \in SUBSET Items :
          \E new \in Orders({i \in got : ~Current(i)}) : m_QueryRequests' = m_QueryRequests \o new
    BY <1>5 DEF OnSendQueryUGCRequest
  <2> DEFINE late == {i \in got : ~Current(i)}
  <2>2. late \in SUBSET Items /\ \E new \in Orders(late) : m_QueryRequests' = m_QueryRequests \o new
    BY <2>1
  <2> HIDE DEF late
  <2>3. PICK new \in Seq(RequestSet) : m_QueryRequests' = m_QueryRequests \o new
    BY <2>2, OrdersType
  <2> QED BY <1>0, <2>3, AppendStays
<1>6. CASE \/ OnSendQueryFailed \/ \E i \in Items : OnDownloadItemResult(i)
           \/ UNCHANGED vars
  BY <1>1, <1>6 DEF OnSendQueryFailed, OnDownloadItemResult, requestVars, vars, queueVars
<1>7. CASE \/ Steam
           \/ MountClient /\ UNCHANGED <<queueVars, steamVars, query>>
  <2>1. UNCHANGED queueVars
    BY <1>7, SteamLeavesQueue
  <2> QED BY <1>1, <2>1 DEF queueVars, requestVars
<1> QED BY <1>2, <1>3, <1>4, <1>5, <1>6, <1>7 DEF Next, QueryAnswered, OnThink

\* Where Steam refuses no download, a request waits in its place until it is the one the
\* client watches: neither an answer, nor a poll, nor the end of the queue drops it.
THEOREM RequestsAreTried == Spec => UntriedRequestsStay
<1>1. RefInv /\ [Next]_vars =>
        [starts' = starts /\ ~MayRefuse =>
           \A n \in Waiting :
             /\ n \in DOMAIN m_QueryRequests'
             /\ m_QueryRequests'[n].WorkshopID = m_QueryRequests[n].WorkshopID
             /\ m_QueryRequests'[n].IsDownloading =>
                  m_CurrentQueryItem' = m_QueryRequests[n].WorkshopID]_vars
  <2> SUFFICES ASSUME RefInv, [Next]_vars, starts' = starts, ~MayRefuse, NEW n \in Waiting
               PROVE  Stays(n)
    BY DEF Stays
  <2>1. MayRefuse = FALSE
    BY QueueAssumption
  <2> QED BY <2>1, NextStays
<1> QED BY <1>1, RefInvHolds, PTL DEF Spec, UntriedRequestsStay

-----------------------------------------------------------------------------
(* The watched download.  OnThink looks at nothing else until it is over,  *)
(* so queue mode can only end if it arrives.  It is lost when Steam fails  *)
(* it (see the run queue_stuck) or deletes its folder, and in no other way: *)
(* not by a restart, an update, an unsubscription or a download of Steam's *)
(* own.                                                                    *)

WatchedArrives ==
  m_CurrentQueryItem # NoItem =>
    \/ m_CurrentQueryItem \in asked
    \/ IsDownloading(m_CurrentQueryItem) \/ IsInstalled(m_CurrentQueryItem)

\* What it says of an item, watched or not.
Arrives(i) == i \in asked \/ IsDownloading(i) \/ IsInstalled(i)

\* Steam only ever brings an item nearer.
LEMMA SteamBrings ==
  ASSUME QueueTypeOK, MayFail = FALSE, ContentLost = FALSE, Steam, NEW i \in Items, Arrives(i)
  PROVE  Arrives(i)'
<1>1. PICK k \in Items :
        \/ ToggleSubscription(k) \/ SteamDownloads(k) \/ SteamSucceeds(k)
        \/ SteamFails(k) \/ AuthorUpdates(k) \/ SteamRemoves(k)
  BY DEF Steam
<1>2. steam \in [Items -> ItemStates]
  BY DEF QueueTypeOK
<1>3. CASE ToggleSubscription(k)
  BY <1>3 DEF ToggleSubscription, Arrives, IsDownloading, IsInstalled
<1>4. CASE SteamSucceeds(k)
  <2>1. CASE i = k
    BY <1>2, <1>4, <2>1 DEF SteamSucceeds, Arrives, IsInstalled
  <2>2. CASE i # k
    BY <1>2, <1>4, <2>2 DEF SteamSucceeds, Answer, Arrives, IsDownloading, IsInstalled
  <2> QED BY <2>1, <2>2
<1>5. CASE SteamDownloads(k) \/ AuthorUpdates(k)
  <2>1. asked' = asked /\ \E x \in {"fetching", "updating", "stale"} : steam' = [steam EXCEPT ![k] = x]
    BY <1>5 DEF SteamDownloads, AuthorUpdates
  <2> QED BY <1>2, <2>1 DEF Arrives, IsDownloading, IsInstalled
<1>6. ~SteamFails(k) /\ ~SteamRemoves(k)
  BY DEF SteamFails, SteamRemoves, ContentVanishes
<1> QED BY <1>1, <1>3, <1>4, <1>5, <1>6

\* DownloadItem does, too, and it is called for the item that is watched from then on.
LEMMA ThinkBrings ==
  ASSUME QueueTypeOK, WatchedArrives, NEW full \in BOOLEAN, OnThink(full)
  PROVE  WatchedArrives'
<1>0. steam \in [Items -> ItemStates]
  BY DEF QueueTypeOK
<1>1. ASSUME NEW G \in SUBSET Items, DownloadItems(G), NEW i \in Items, Arrives(i)
      PROVE  Arrives(i)'
  BY <1>0, <1>1 DEF DownloadItems, Arrives, IsDownloading, IsInstalled
<1>2. CASE ThinkQueue(full)
  <2>1. CASE WatchDone(full)
    BY <2>1 DEF WatchDone, WatchedArrives
  <2>2. CASE WaitForQuery \/ EndOfQueue
    BY <2>2 DEF WaitForQuery, EndOfQueue, requestVars, WatchedArrives, IsDownloading, IsInstalled
  <2>3. CASE \E k \in Waiting : PrepareForQueryDownload(k)
    BY <2>3 DEF PrepareForQueryDownload, DownloadItems, WatchedArrives
  <2> QED BY <1>2, <2>1, <2>2, <2>3 DEF ThinkQueue
<1>3. CASE ThinkIdle
  <2>1. CASE IdleWait
    BY <2>1 DEF IdleWait, requestVars, WatchedArrives, IsDownloading, IsInstalled
  <2>2. CASE \E seen \in FirstPage : CheckWorkshopSubscriptions(seen)
    <3>0. PICK seen \in FirstPage : CheckWorkshopSubscriptions(seen)
      BY <2>2
    <3> seen \in SUBSET subscribed
      BY DEF FirstPage
    <3>1. PICK accepted \in SUBSET Wanted(seen) : DownloadItems(accepted)
      BY <3>0 DEF CheckWorkshopSubscriptions
    <3>2. accepted \in SUBSET Items /\ m_CurrentQueryItem' = m_CurrentQueryItem
      BY <3>0 DEF CheckWorkshopSubscriptions, Wanted, QueueTypeOK
    <3>3. CASE m_CurrentQueryItem = NoItem
      BY <3>2, <3>3 DEF WatchedArrives
    <3>4. CASE m_CurrentQueryItem # NoItem
      <4>1. m_CurrentQueryItem \in Items /\ Arrives(m_CurrentQueryItem)
        BY <3>4 DEF QueueTypeOK, WatchedArrives, Arrives
      <4>2. \A i \in Items : Arrives(i) => Arrives(i)'
        BY <1>1, <3>1, <3>2
      <4> QED BY <3>2, <4>1, <4>2 DEF WatchedArrives, Arrives, IsDownloading, IsInstalled
    <3> QED BY <3>3, <3>4
  <2> QED BY <1>3, <2>1, <2>2 DEF ThinkIdle
<1> QED BY <1>2, <1>3 DEF OnThink

LEMMA NextBrings ==
  ASSUME QueueTypeOK, WatchedArrives, [Next]_vars, MayFail = FALSE, ContentLost = FALSE
  PROVE  WatchedArrives'
<1>1. CASE \E full \in BOOLEAN : OnThink(full)
  BY <1>1, ThinkBrings
<1>2. CASE StartClient
  BY <1>2 DEF StartClient, WatchedArrives
<1>3. CASE QueryAnswered \/ \E i \in Items : OnDownloadItemResult(i)
  BY <1>3 DEF QueryAnswered, OnSendQueryFailed, OnSendQueryUGCRequest, OnDownloadItemResult,
              requestVars, steamVars, WatchedArrives, IsDownloading, IsInstalled
<1>4. CASE Steam
  <2>1. m_CurrentQueryItem' = m_CurrentQueryItem
    BY <1>4, SteamLeavesQueue DEF queueVars, requestVars
  <2>2. CASE m_CurrentQueryItem = NoItem
    BY <2>1, <2>2 DEF WatchedArrives
  <2>3. CASE m_CurrentQueryItem # NoItem
    <3>1. m_CurrentQueryItem \in Items /\ Arrives(m_CurrentQueryItem)
      BY <2>3 DEF QueueTypeOK, WatchedArrives, Arrives
    <3>2. \A i \in Items : Arrives(i) => Arrives(i)'
      BY <1>4, SteamBrings
    <3> QED BY <2>1, <3>1, <3>2 DEF WatchedArrives, Arrives, IsDownloading, IsInstalled
  <2> QED BY <2>2, <2>3
<1>5. CASE \/ MountClient /\ UNCHANGED <<queueVars, steamVars, query>>
           \/ UNCHANGED vars
  BY <1>5 DEF vars, queueVars, steamVars, requestVars, WatchedArrives, IsDownloading, IsInstalled
<1> QED BY <1>1, <1>2, <1>3, <1>4, <1>5 DEF Next

\* Where no download fails and no folder is deleted, the download that OnThink watches
\* has arrived or is on its way.
THEOREM WatchedIsOnItsWay ==
  ASSUME MayFail = FALSE, ContentLost = FALSE
  PROVE  Spec => []WatchedArrives
<1>1. Init => WatchedArrives
  BY DEF Init, WatchedArrives
<1>2. QueueTypeOK /\ WatchedArrives /\ [Next]_vars => WatchedArrives'
  BY NextBrings
<1> QED BY <1>1, <1>2, QueueTypeCorrect, PTL DEF Spec

=============================================================================
