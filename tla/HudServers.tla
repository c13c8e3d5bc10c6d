----------------------------- MODULE HudServers -----------------------------
(***************************************************************************)
(* The server list of the old browser, CHudServers (cl_dll/hud_servers.cpp *)
(* with the buttons of cl_dll/vgui_ServerBrowser.cpp): the addresses the   *)
(* master server sends wait in m_pServerList, at most MAX_QUERIES + 1 of   *)
(* them are asked for details at a time (m_pActiveList), and what answers, *)
(* on the LAN too, is inserted into m_pServers by its ping.                *)
(*                                                                         *)
(* A request is known by the entry of the master's list it was copied from *)
(* instead of its context number, and two entries may name one address:    *)
(* ListResponse copies them all.  The engine's network API is external: it *)
(* keeps a request until it is answered, times out or is cancelled.        *)
(***************************************************************************)
EXTENDS Naturals, Sequences, FiniteSets

CONSTANTS
  Entries,     \* entries of the list the master server may send
  AddressOf,   \* the address in an entry
  Lan,         \* addresses of the servers on the LAN
  NameOf,      \* the place of an address in the order of the host names
  Columns,     \* the columns a click sorts by, "ping" among them
  Pings,       \* pings that occur
  MAX_QUERIES, \* the code: 20
  Garbage,     \* what m_nServerCount may hold before it is first set
  Resolves,    \* may LoadMasterAddresses succeed, may it fail
  MaxPresses   \* bound: buttons pressed

Addresses == {AddressOf[e] : e \in Entries} \cup Lan

ASSUME ServersAssumption ==
  /\ IsFiniteSet(Entries)
  /\ NameOf \in [Addresses -> Nat]
  /\ Pings \subseteq Nat /\ MAX_QUERIES \in Nat /\ Garbage \subseteq Nat
  /\ Resolves \subseteq BOOLEAN /\ MaxPresses \in Nat

ASSUME ColumnsAssumption == "" \notin Columns

VARIABLES
  m_nRequesting,     \* a search is on: the browser shows "Waiting for servers"
  m_nQuerying,       \* the master server's list has come
  m_nDone,           \* the search was stopped
  m_nActiveQueries,  \* how many requests for details are thought to be out
  m_pServerList,     \* entries still to be asked
  m_pActiveList,     \* entries asked for details
  m_pServers,        \* the list shown: sequence of [remote_address, ping]
  m_nServerCount,    \* its length, kept apart
  g_fieldname,       \* the column it was last sorted by
  listRequest,       \* engine: the master server has been asked
  detailRequests,    \* engine: entries that have been asked for details
  lanRequests,       \* engine: broadcasts each LAN server may still answer
  presses,           \* buttons pressed so far
  \* History variables: no guard reads them.
  listed,            \* the entries the master server has sent for this search
  answered           \* the pings of the answers since the list shown was cleared

flags   == <<m_nRequesting, m_nQuerying, m_nDone>>
lists   == <<m_nActiveQueries, m_pServerList, m_pActiveList>>
browser == <<m_pServers, m_nServerCount>>
history == <<listed, answered>>
network == <<listRequest, detailRequests, lanRequests>>
vars    == <<flags, lists, browser, g_fieldname, network, presses, history>>

-----------------------------------------------------------------------------
(* The list shown. *)

\* What the list was last sorted by; g_fieldname is empty before the first click.
Fieldnames == Columns \cup {""}

Server == [remote_address : Addresses, ping : Pings]

CompareServers(p, q) ==
  \/ p.ping < q.ping
  \/ p.ping = q.ping /\ NameOf[p.remote_address] < NameOf[q.remote_address]

\* AddServer walks past the servers p does not belong before.
Passed(list, p) == {n \in 1..Len(list) : \A k \in 1..n : ~CompareServers(p, list[k])}

InsertPlace(list, p) == Cardinality(Passed(list, p)) + 1

\* Mutant: the order of the pings is not looked at.
Appended(list, p) == Append(list, p)

\* Mutant: the server in front of the place is dropped as well.
DropTwo(list, p) ==
  LET n == InsertPlace(list, p)
  IN SubSeq(list, 1, n - 2) \o <<p>> \o SubSeq(list, IF n = 1 THEN 1 ELSE n + 1, Len(list))

\* AddServer.  Behind the head, the new server replaces the one it belongs
\* before (p->next = list->next->next).
Inserted(list, p) ==
  LET n == InsertPlace(list, p)
  IN SubSeq(list, 1, n - 1) \o <<p>> \o SubSeq(list, IF n = 1 THEN 1 ELSE n + 1, Len(list))

AddServer(p) ==
  /\ m_pServers' = Inserted(m_pServers, p)
  /\ m_nServerCount' = m_nServerCount + 1
  /\ answered' = answered \cup {p.ping}

Rearranged(list) ==
  LET places == 1..Len(list)
  IN {[n \in places |-> list[f[n]]] :
        f \in {g \in [places -> places] : \A n, k \in places : g[n] = g[k] => n = k}}

InPingOrder(list) == \A n, k \in 1..Len(list) : n < k => list[n].ping <= list[k].ping

\* SortServers.  What a server shows in the columns other than the ping is left open, and
\* what happens to equal ones is up to qsort.
SortServers(fieldname) ==
  /\ g_fieldname' = IF m_pServers = <<>> THEN g_fieldname ELSE fieldname
  /\ \E list \in Rearranged(m_pServers) :
       /\ fieldname = "ping" => InPingOrder(list)
       /\ m_pServers' = list
  /\ UNCHANGED <<flags, lists, m_nServerCount, network, presses, history>>

-----------------------------------------------------------------------------
(* The buttons. *)

Press == presses < MaxPresses /\ presses' = presses + 1

ClearLists ==
  /\ m_pActiveList' = {} /\ m_pServerList' = {} /\ listed' = {}
  /\ m_pServers' = <<>> /\ m_nServerCount' = 0 /\ answered' = {}

CancelAllRequests == listRequest' = FALSE /\ detailRequests' = {}

\* A search begins.
Requesting ==
  /\ m_nRequesting' = TRUE /\ m_nDone' = FALSE
  /\ UNCHANGED <<m_nQuerying, m_nActiveQueries>>

\* Mutant: the list shown is kept.
RequestWithoutClear ==
  /\ m_pActiveList' = {} /\ m_pServerList' = {} /\ listed' = {}
  /\ listRequest' = TRUE /\ detailRequests' = {}
  /\ UNCHANGED <<browser, answered>>

\* RequestList, when LoadMasterAddresses finds an address.
RequestList == ClearLists /\ listRequest' = TRUE /\ detailRequests' = {}

\* RequestList, then a broadcast that clears nothing.
DoRefresh(resolves) ==
  /\ Press /\ Requesting /\ UNCHANGED g_fieldname
  /\ IF resolves
     THEN /\ RequestList
          /\ lanRequests' = [s \in Lan |-> 1]
     ELSE /\ lanRequests' = [s \in Lan |-> lanRequests[s] + 1]
          /\ UNCHANGED <<m_pServerList, m_pActiveList, browser, listRequest, detailRequests,
                         history>>

DoBroadcastRefresh ==
  /\ Press /\ Requesting /\ UNCHANGED g_fieldname
  /\ ClearLists
  /\ CancelAllRequests
  /\ lanRequests' = [s \in Lan |-> 1]

\* Mutant: the engine keeps its requests.
StopQuietly ==
  /\ Press
  /\ m_nRequesting' = FALSE /\ m_nQuerying' = FALSE /\ m_nDone' = TRUE
  /\ UNCHANGED <<lists, browser, g_fieldname, network, history>>

\* CancelRequest: the lists stay as they are.
DoStop ==
  /\ Press
  /\ m_nRequesting' = FALSE /\ m_nQuerying' = FALSE /\ m_nDone' = TRUE
  /\ CancelAllRequests
  /\ lanRequests' = [s \in Lan |-> 0]
  /\ UNCHANGED <<lists, browser, g_fieldname, history>>

-----------------------------------------------------------------------------
(* A frame. *)

\* How many requests QueryThink may send before more than MAX_QUERIES are active.
Room ==
  IF m_nDone \/ m_nActiveQueries > MAX_QUERIES
  THEN 0 ELSE MAX_QUERIES + 1 - m_nActiveQueries

\* Mutant: the loop does not count.
QueryAll == {m_pServerList}

\* The entries QueryThink asks, in whichever order they wait.
Batches ==
  {b \in SUBSET m_pServerList :
     Cardinality(b) = IF Cardinality(m_pServerList) < Room
                      THEN Cardinality(m_pServerList) ELSE Room}

\* The search is over when nothing waits and nothing is out.
EndOfSearch ==
  /\ m_nRequesting' = FALSE /\ m_nDone' = FALSE /\ m_nQuerying' = FALSE
  /\ m_nActiveQueries' = 0

Think ==
  /\ m_nRequesting /\ m_nQuerying
  /\ \E b \in Batches :
       /\ m_pServerList' = m_pServerList \ b
       /\ m_pActiveList' = m_pActiveList \cup b
       /\ detailRequests' = detailRequests \cup b
       /\ IF m_pServerList' \cup m_pActiveList' = {}
          THEN EndOfSearch
          ELSE m_nActiveQueries' = m_nActiveQueries + Cardinality(b) /\ UNCHANGED flags
  /\ UNCHANGED <<browser, g_fieldname, listRequest, lanRequests, presses, history>>

-----------------------------------------------------------------------------
(* The engine's answers. *)

\* The master server's list has come: every entry of it is copied, whatever its address.
ListResponse(got) ==
  /\ listRequest
  /\ listRequest' = FALSE
  /\ m_pServerList' = m_pServerList \cup got /\ listed' = listed \cup got
  /\ m_nQuerying' = TRUE /\ m_nActiveQueries' = 0
  /\ UNCHANGED <<m_nRequesting, m_nDone, m_pActiveList, browser, g_fieldname, detailRequests,
                 lanRequests, presses, answered>>

\* It does not come: the handler returns at once.
ListTimeout ==
  /\ listRequest
  /\ listRequest' = FALSE
  /\ UNCHANGED <<flags, lists, browser, g_fieldname, detailRequests, lanRequests, presses,
                 history>>

\* Mutant: the request is taken off the list but not off the count.
ForgetToCount(e) == m_pActiveList' = m_pActiveList \ {e} /\ UNCHANGED m_nActiveQueries

\* ServerResponse takes the request off the active list, if it is there.
Answered(e) ==
  /\ m_pActiveList' = m_pActiveList \ {e}
  /\ m_nActiveQueries' = IF e \in m_pActiveList THEN m_nActiveQueries - 1 ELSE m_nActiveQueries

ServerResponse(e, ping) ==
  /\ e \in detailRequests
  /\ detailRequests' = detailRequests \ {e}
  /\ Answered(e)
  /\ AddServer([remote_address |-> AddressOf[e], ping |-> ping])
  /\ UNCHANGED <<flags, m_pServerList, g_fieldname, listRequest, lanRequests, presses, listed>>

\* An error, a time-out or an answer with nothing in it.
ServerTimeout(e) ==
  /\ e \in detailRequests
  /\ detailRequests' = detailRequests \ {e}
  /\ Answered(e)
  /\ UNCHANGED <<flags, m_pServerList, browser, g_fieldname, listRequest, lanRequests, presses,
                 history>>

\* A server on the LAN answers a broadcast, whose context is in no list.
LanResponse(s, ping) ==
  /\ lanRequests[s] > 0
  /\ lanRequests' = [lanRequests EXCEPT ![s] = @ - 1]
  /\ AddServer([remote_address |-> s, ping |-> ping])
  /\ UNCHANGED <<flags, lists, g_fieldname, listRequest, detailRequests, presses, listed>>

LanTimeout(s) ==
  /\ lanRequests[s] > 0
  /\ lanRequests' = [lanRequests EXCEPT ![s] = @ - 1]
  /\ UNCHANGED <<flags, lists, browser, g_fieldname, listRequest, detailRequests, presses,
                 history>>

ListAnswer == ListTimeout \/ \E got \in SUBSET Entries : ListResponse(got)
Answer(e)  == ServerTimeout(e) \/ \E ping \in Pings : ServerResponse(e, ping)
LanAnswer(s) == LanTimeout(s) \/ \E ping \in Pings : LanResponse(s, ping)

-----------------------------------------------------------------------------
Init ==
  /\ m_nRequesting = FALSE /\ m_nQuerying = FALSE /\ m_nDone = FALSE
  /\ m_nActiveQueries = 0 /\ m_pServerList = {} /\ m_pActiveList = {}
  /\ m_pServers = <<>> /\ m_nServerCount \in Garbage /\ g_fieldname = ""
  /\ listRequest = FALSE /\ detailRequests = {} /\ lanRequests = [s \in Lan |-> 0]
  /\ presses = 0 /\ listed = {} /\ answered = {}

Next ==
  \/ \E resolves \in Resolves : DoRefresh(resolves)
  \/ DoBroadcastRefresh
  \/ DoStop
  \/ \E fieldname \in Columns : SortServers(fieldname)
  \/ Think
  \/ ListAnswer
  \/ \E e \in Entries : Answer(e)
  \/ \E s \in Lan : LanAnswer(s)

Spec == Init /\ [][Next]_vars

\* HUD_Frame runs in every frame, and the engine answers every request or gives
\* it up after its 2 or 5 seconds.
Fairness ==
  /\ WF_vars(Think)
  /\ WF_vars(ListAnswer)
  /\ \A e \in Entries : WF_vars(Answer(e))
  /\ \A s \in Lan : WF_vars(LanAnswer(s))

FairSpec == Spec /\ Fairness

-----------------------------------------------------------------------------
(* Properties. *)

\* Every variable holds a value the code can put there.
ServersTypeOK ==
  /\ {m_nRequesting, m_nQuerying, m_nDone, listRequest} \subseteq BOOLEAN
  /\ m_nActiveQueries \in Nat
  /\ m_pServerList \in SUBSET Entries /\ m_pActiveList \in SUBSET Entries
  /\ m_pServers \in Seq(Server)
  /\ m_nServerCount \in Nat
  /\ g_fieldname \in Fieldnames
  /\ detailRequests \in SUBSET Entries
  /\ lanRequests \in [Lan -> Nat]
  /\ presses \in Nat
  /\ listed \in SUBSET Entries /\ answered \in SUBSET Pings

\* The count of active queries is right whenever it matters: RequestList clears
\* the active list and leaves the count, so it is stale until the list comes.
ActiveIsCounted ==
  m_pServerList \cup m_pActiveList # {} => m_nActiveQueries = Cardinality(m_pActiveList)

\* However responses, stops and new searches interleave, no more requests for
\* details are out than the limit of QueryThink, which is MAX_QUERIES and one.
QueriesWithinLimit == Cardinality(detailRequests) <= MAX_QUERIES + 1

\* No answer can arrive for a request of an earlier search, and none after Stop.
OnlyThisSearch == detailRequests \subseteq m_pActiveList /\ (m_nDone => detailRequests = {})

\* How often an address is shown, and how many of a set of entries name it.
ShownAt(a)        == {n \in DOMAIN m_pServers : m_pServers[n].remote_address = a}
Naming(a, entries) == {e \in entries : AddressOf[e] = a}

\* Through repeated, stopped and failed searches, an address is shown no more often than
\* the list of this search holds it: AddServer compares pings and names, never addresses,
\* so this rests on every entry being asked, and answering, once.  (An address on the LAN
\* answers broadcasts too, and Refresh broadcasts into a list it has not cleared when no
\* master server can be resolved.)
ShownAsListed ==
  \A a \in Addresses \ Lan : Cardinality(ShownAt(a)) <= Cardinality(Naming(a, listed))

\* Answers are inserted in the order of the pings, whichever servers they replace, until
\* the user sorts by another column: from then on AddServer inserts into another order.
PingOrder == g_fieldname \in {"", "ping"} => InPingOrder(m_pServers)

\* Whatever the list was sorted by when an answer came, and however many servers were
\* dropped for others, one as fast as any that has answered is still shown: what AddServer
\* drops is replaced by a server it compared less than that.
FastestIsShown ==
  \A ping \in answered : \E n \in DOMAIN m_pServers : m_pServers[n].ping <= ping

\* While the search goes on, the servers that wait are asked, however few may be asked
\* at a time and however many of them do not answer.
WaitingAreAsked ==
  (m_nRequesting /\ m_nQuerying /\ m_pServerList # {}) ~> (m_pServerList = {} \/ m_nDone)

\* Every server the master server sent is asked, unless the user stops the search:
\* DoRefresh says "Request server list and refresh servers...".
EveryServerIsAsked == m_pServerList # {} ~> (m_pServerList = {} \/ m_nDone)

=============================================================================
