----------------------------- MODULE ServerTab -----------------------------
(***************************************************************************)
(* One tab of the server browser: CBaseTab and the five tabs derived from  *)
(* it (Internet, Favorites, History, LAN and Friends).                     *)
(*                                                                         *)
(* Steam owns the list of servers of a request and numbers them; it calls  *)
(* the tab back when a server answers, when it fails to answer, and when   *)
(* the whole list has been asked.  The tab keeps three structures about    *)
(* these servers: m_mapServers (by number), m_mapServerIP (number by       *)
(* address) and the rows of the list panel.  A row is removed or only      *)
(* hidden, and the panel gives the number of a removed row to a later one. *)
(* Callbacks, filter changes and the commands of the user arrive in any    *)
(* order.                                                                  *)
(***************************************************************************)
EXTENDS Integers

CONSTANTS
    Servers,        \* the numbers Steam gives to the servers of a request
    Addresses,      \* the servers, by address and query port
    Rows,           \* the numbers the list panel gives to its rows
    Infos,          \* what a server may say of itself when it answers
    FilterSettings, \* what the filter controls may be set to
    Types,          \* the tabs: values of EPageType
    None            \* no row, no server, no entry (-1 in the code)

PageTypes == {"eInternetServer", "eFavoritesServer", "eHistoryServer",
              "eLANServer", "eFriendsServer"}

\* gameserveritem_t of a server that has never answered
NoInfo == [m_nPlayers |-> 0, m_nMaxPlayers |-> 0, m_nBotPlayers |-> 0,
           m_nPing |-> 0, m_bPassword |-> FALSE, m_steamID |-> FALSE,
           m_bSecure |-> FALSE, m_szMap |-> None]

\* ServerData_t, a row of the list panel, and gameserveritem_t; the index
\* m_iServerID of an entry is the number it is stored under
Entry == [m_iListID : Rows \cup {None}, m_bDoNotRefresh : BOOLEAN]
RowType == [id : Rows, userData : Servers, visible : BOOLEAN]
Details == [m_NetAdr : Addresses, info : Infos \cup {NoInfo},
            m_bHadSuccessfulResponse : BOOLEAN]

ASSUME TabAssumption ==
    /\ None \notin Servers \cup Rows \cup Entry \cup Details
    /\ Types \subseteq PageTypes

VARIABLES
    m_eMatchMakingType, \* which tab this is
    m_mapServers,       \* Servers -> its row and m_bDoNotRefresh, or None
    m_mapServerIP,      \* Addresses -> the number of that server, or None
    m_pServerList,      \* the rows of the list panel
    m_pRefreshAll,      \* the command of the refresh button
    m_bRefreshOnListReload,
    controls,           \* what the filter controls are set to
    filters,            \* m_szMapFilter, m_iPingFilter, m_bFilter*, ...
    filtered,           \* history: the rows were filtered with filters
    request,            \* what Steam does for m_hRequest
    details,            \* Steam's gameserveritem_t of each server
    active              \* the tab is the active page of the browser

tabVars == <<m_mapServers, m_mapServerIP, m_pServerList>>
filterVars == <<controls, filters, filtered>>
vars == <<m_eMatchMakingType, m_mapServers, m_mapServerIP, m_pServerList,
          m_pRefreshAll, m_bRefreshOnListReload, controls, filters, filtered,
          request, details, active>>

-----------------------------------------------------------------------------
(***************************************************************************)
(* The filters.  A filter setting holds the five switches, the ping limit  *)
(* (0: any) and the set of the maps whose names start with the text typed. *)
(***************************************************************************)

CheckSecondaryFilters(f, server) ==
    /\ f.NoEmpty => server.m_nPlayers - server.m_nBotPlayers >= 1
    /\ f.NoFull => server.m_nPlayers < server.m_nMaxPlayers
    /\ f.ping # 0 => server.m_nPing <= f.ping
    /\ f.NoPassword => ~server.m_bPassword
    /\ f.HasAssociatedSteamAccount => server.m_steamID
    /\ f.Secure = "secure" => server.m_bSecure
    /\ f.Secure = "insecure" => ~server.m_bSecure
    /\ f.map # {} => server.m_szMap \in f.map

Passes(f, i) == CheckSecondaryFilters(f, details[i].info)

\* The controls are read, whatever the rows were filtered with.
UpdateFilterSettings ==
    /\ filters' = controls
    /\ filtered' = (filtered /\ controls = filters)

-----------------------------------------------------------------------------
(***************************************************************************)
(* The rows of the list panel: the code reaches a row by its number.       *)
(***************************************************************************)

RowIds(list) == {row.id : row \in list}
FreeRows(list) == Rows \ RowIds(list)
WithoutRow(list, id) == {row \in list : row.id # id}
Row(id, i) == [id |-> id, userData |-> i, visible |-> TRUE]

Known == {i \in Servers : m_mapServers[i] # None}

NewEntry == [m_iListID |-> None, m_bDoNotRefresh |-> FALSE]

\* Mutant: the entry under the old number stays.
KeptUnderBoth(i, adr) ==
    IF i \in Known THEN m_mapServers ELSE [m_mapServers EXCEPT ![i] = NewEntry]

(***************************************************************************)
(* A server the tab does not know yet is entered under its number; if its  *)
(* address is known under another number, that entry and its row go.       *)
(***************************************************************************)
Registered(i, adr) ==
    IF i \in Known
    THEN m_mapServers
    ELSE [j \in Servers |->
            IF j = i THEN NewEntry
            ELSE IF j = m_mapServerIP[adr] THEN None
            ELSE m_mapServers[j]]

RegisteredIP(i, adr) ==
    IF i \in Known THEN m_mapServerIP ELSE [m_mapServerIP EXCEPT ![adr] = i]

\* Mutant: the row of the old number stays.
DuplicateRowStays(i, adr) == m_pServerList

RowsWithoutDuplicate(i, adr) ==
    IF i \in Known \/ m_mapServerIP[adr] \notin Known
    THEN m_pServerList
    ELSE WithoutRow(m_pServerList, m_mapServers[m_mapServerIP[adr]].m_iListID)

-----------------------------------------------------------------------------
(***************************************************************************)
(* The refresh button and the request.                                     *)
(***************************************************************************)

SetRefreshing(state) ==
    m_pRefreshAll' = IF state THEN "stoprefresh" ELSE "GetNewList"

ClearServerList ==
    /\ m_mapServers' = [i \in Servers |-> None]
    /\ m_mapServerIP' = [adr \in Addresses |-> None]
    /\ m_pServerList' = {}
    /\ filtered' = TRUE

\* the old request is released, and its servers with it
StartRefresh ==
    /\ ClearServerList
    /\ request' = "refreshing"
    /\ details' = [i \in Servers |-> None]
    /\ SetRefreshing(TRUE)

\* RefreshComplete of a tab: the Internet tab reads its filter controls again.
EndRefresh ==
    /\ SetRefreshing(FALSE)
    /\ IF m_eMatchMakingType = "eInternetServer"
       THEN UpdateFilterSettings
       ELSE UNCHANGED <<filters, filtered>>

\* Mutant: Steam is not told.
StopWithoutCancel ==
    /\ EndRefresh
    /\ UNCHANGED <<tabVars, controls, details, request>>

\* CancelQuery, and RefreshComplete called by the tab itself
StopRefresh ==
    /\ request' = IF request = "none" THEN "none" ELSE "idle"
    /\ EndRefresh
    /\ UNCHANGED <<tabVars, controls, details>>

-----------------------------------------------------------------------------
(***************************************************************************)
(* The user and the browser.                                               *)
(***************************************************************************)

\* The page becomes the active one.  The Internet tab asks only when it has
\* nothing to show, and only while the browser is visible; so does F5 and the
\* button GetNewList, whichever page it is.
OnPageShow ==
    /\ ~active
    /\ active' = TRUE
    /\ \/ /\ m_eMatchMakingType = "eInternetServer"
          /\ UNCHANGED <<tabVars, m_pRefreshAll, filtered, request, details>>
       \/ /\ m_eMatchMakingType = "eInternetServer" => m_pServerList = {}
          /\ StartRefresh
    /\ UNCHANGED <<m_eMatchMakingType, m_bRefreshOnListReload, controls, filters>>

OnPageHide ==
    /\ active
    /\ active' = FALSE
    /\ StopRefresh
    /\ UNCHANGED <<m_eMatchMakingType, m_bRefreshOnListReload>>

\* F5, the button with the command GetNewList, and the message the Internet
\* tab posts to itself when it is first laid out
GetNewServerList ==
    /\ active \/ m_eMatchMakingType = "eInternetServer"
    /\ StartRefresh
    /\ UNCHANGED <<m_eMatchMakingType, m_bRefreshOnListReload, controls, filters,
                   active>>

\* The button with the command stoprefresh, and the commands that join or
\* describe the server of a row: each stops the refresh first.
OnStopRefresh ==
    /\ active
    /\ m_pRefreshAll = "stoprefresh" \/ m_pServerList # {}
    /\ StopRefresh
    /\ UNCHANGED <<m_eMatchMakingType, m_bRefreshOnListReload, active>>

\* The command refresh: the servers of the request are asked again.
OnRefresh ==
    /\ active
    /\ request' = IF request = "none" THEN "none" ELSE "refreshing"
    /\ SetRefreshing(TRUE)
    /\ UNCHANGED <<m_eMatchMakingType, tabVars, m_bRefreshOnListReload,
                   filterVars, details, active>>

\* The selected rows are asked again.  Whether Steam then calls the list
\* "refreshing" is Steam's affair; the button follows what it says.
OnRefreshServer ==
    /\ active
    /\ m_pServerList # {}
    /\ \/ request = "refreshing" /\ request' = "refreshing"
       \/ request # "refreshing" /\ request' \in {"pinging", "refreshing"}
    /\ SetRefreshing(request' = "refreshing")
    /\ UNCHANGED <<m_eMatchMakingType, tabVars, m_bRefreshOnListReload,
                   filterVars, details, active>>

(***************************************************************************)
(* The browser is opened again: the saved filters f are loaded into every  *)
(* tab, and the list of the active tab is asked for anew.  f is what the   *)
(* controls then hold and UpdateFilterSettings reads back: a saved ping of *)
(* 0 leaves the ping's control alone (CBaseTab.cpp:331).  Favorites and    *)
(* History do so too when one of their servers was added meanwhile.  The   *)
(* rows of the other tabs stay as they are.                                *)
(***************************************************************************)
OpenBrowser(f) ==
    /\ controls' = f
    /\ filters' = f
    /\ m_bRefreshOnListReload' = FALSE
    /\ \/ /\ active \/ m_bRefreshOnListReload
          /\ StartRefresh
       \/ /\ ~active /\ ~m_bRefreshOnListReload
          /\ filtered' = (filtered /\ f = filters)
          /\ UNCHANGED <<tabVars, m_pRefreshAll, request, details>>
    /\ UNCHANGED <<m_eMatchMakingType, active>>

\* OnAddCurrentServer of the favorites, SetRefreshOnReload of the history
AddConnectedServer ==
    /\ m_eMatchMakingType \in {"eFavoritesServer", "eHistoryServer"}
    /\ m_bRefreshOnListReload' = TRUE
    /\ UNCHANGED <<m_eMatchMakingType, tabVars, m_pRefreshAll, filterVars,
                   request, details, active>>

-----------------------------------------------------------------------------
\* The user changes a filter control, which posts a message to the tab.
ChangeControl(f) ==
    /\ active
    /\ controls' = f
    /\ UNCHANGED <<m_eMatchMakingType, tabVars, m_pRefreshAll,
                   m_bRefreshOnListReload, filters, filtered, request, details,
                   active>>

(***************************************************************************)
(* The message arrives, or one that an earlier change or load of the       *)
(* filters posted: the controls are read and every known server is         *)
(* checked.  One that fails is hidden and marked; one that passes is shown *)
(* again if it was marked, in its old row or, if it had none, in a new     *)
(* one.                                                                    *)
(***************************************************************************)
Failing(f) == {i \in Known : ~Passes(f, i)}
ShownAgain(f) == {i \in Known : Passes(f, i) /\ m_mapServers[i].m_bDoNotRefresh}
ReAdded(f) == {i \in ShownAgain(f) :
                 m_mapServers[i].m_iListID \notin RowIds(m_pServerList)}

RowsOf(S) == {m_mapServers[i].m_iListID : i \in S}

ApplyGameFilters(f) ==
    \E newRow \in [ReAdded(f) -> FreeRows(m_pServerList)] :
      /\ \A i, j \in ReAdded(f) : i # j => newRow[i] # newRow[j]
      /\ m_mapServers' = [i \in Servers |->
           IF i \in Failing(f)
           THEN [m_mapServers[i] EXCEPT !.m_bDoNotRefresh = TRUE]
           ELSE IF i \in ReAdded(f)
           THEN [m_iListID |-> newRow[i], m_bDoNotRefresh |-> FALSE]
           ELSE IF i \in ShownAgain(f)
           THEN [m_mapServers[i] EXCEPT !.m_bDoNotRefresh = FALSE]
           ELSE m_mapServers[i]]
      /\ m_pServerList' =
           {[row EXCEPT !.visible = /\ row.id \notin RowsOf(Failing(f))
                                    /\ @ \/ row.id \in RowsOf(ShownAgain(f))] :
              row \in m_pServerList}
           \cup {Row(newRow[i], i) : i \in ReAdded(f)}

\* Mutant: the list is filtered before the controls are read.
FilterThenRead ==
    /\ filters' = controls
    /\ filtered' = TRUE
    /\ ApplyGameFilters(filters)
    /\ UNCHANGED <<m_eMatchMakingType, m_mapServerIP, m_pRefreshAll, controls,
                   m_bRefreshOnListReload, request, details, active>>

OnTextChanged ==
    /\ filters' = controls
    /\ filtered' = TRUE
    /\ ApplyGameFilters(controls)
    /\ UNCHANGED <<m_eMatchMakingType, m_mapServerIP, m_pRefreshAll, controls,
                   m_bRefreshOnListReload, request, details, active>>

\* The message of the location, which goes to Steam with the request, while the
\* filters and the browser are visible: the list is asked for anew.
OnLocationChanged ==
    /\ filters' = controls
    /\ StartRefresh
    /\ UNCHANGED <<m_eMatchMakingType, m_bRefreshOnListReload, controls, active>>

-----------------------------------------------------------------------------
(***************************************************************************)
(* Steam.                                                                  *)
(***************************************************************************)

\* Steam may call back about server i: the list is being asked, or single
\* servers of it are.
MayAnswer(i) == \/ request = "refreshing"
                \/ request = "pinging" /\ details[i] # None

\* What Steam has of server i: its address never changes within a request.
Answered(i) ==
    [m_NetAdr : IF details[i] = None THEN Addresses ELSE {details[i].m_NetAdr},
     info : Infos, m_bHadSuccessfulResponse : {TRUE}]

Unanswered(i) ==
    IF details[i] # None
    THEN {details[i]}
    ELSE [m_NetAdr : Addresses, info : {NoInfo},
          m_bHadSuccessfulResponse : {FALSE}]

\* Mutant: the entry keeps the number of the row removed.
UnlistRowOnly(i, server) ==
    LET list == RowsWithoutDuplicate(i, server.m_NetAdr)
        entries == Registered(i, server.m_NetAdr)
    IN  /\ ~CheckSecondaryFilters(filters, server.info)
        /\ m_mapServers' = entries
        /\ m_pServerList' = WithoutRow(list, entries[i].m_iListID)

\* CBaseTab::ServerResponded for a server that fails the filters: its row is
\* removed.
Unlist(i, server) ==
    LET entries == Registered(i, server.m_NetAdr)
        list == RowsWithoutDuplicate(i, server.m_NetAdr)
        id == entries[i].m_iListID
    IN  /\ ~CheckSecondaryFilters(filters, server.info)
        /\ m_mapServers' = IF id \in RowIds(list)
                           THEN [entries EXCEPT ![i].m_iListID = None]
                           ELSE entries
        /\ m_pServerList' = WithoutRow(list, id)

\* Mutant: a row is added for every answer.
ListAnew(i, server) ==
    LET entries == Registered(i, server.m_NetAdr)
        list == RowsWithoutDuplicate(i, server.m_NetAdr)
    IN  /\ CheckSecondaryFilters(filters, server.info)
        /\ \E to \in FreeRows(list) :
             /\ m_mapServers' = [entries EXCEPT ![i].m_iListID = to]
             /\ m_pServerList' = list \cup {Row(to, i)}

\* ... and for one that passes: its row is updated and shown, or added.
List(i, server) ==
    LET entries == Registered(i, server.m_NetAdr)
        list == RowsWithoutDuplicate(i, server.m_NetAdr)
        id == entries[i].m_iListID
    IN  /\ CheckSecondaryFilters(filters, server.info)
        /\ \E to \in IF id \in RowIds(list) THEN {id} ELSE FreeRows(list) :
             /\ m_mapServers' = [entries EXCEPT ![i].m_iListID = to]
             /\ m_pServerList' = WithoutRow(list, to) \cup {Row(to, i)}

BaseServerResponded(i, server) ==
    /\ Unlist(i, server) \/ List(i, server)
    /\ m_mapServerIP' = RegisteredIP(i, server.m_NetAdr)

ServerResponded(i) ==
    /\ MayAnswer(i)
    /\ \E server \in Answered(i) :
         /\ details' = [details EXCEPT ![i] = server]
         /\ BaseServerResponded(i, server)
    /\ UNCHANGED <<m_eMatchMakingType, m_pRefreshAll, m_bRefreshOnListReload,
                   filterVars, request, active>>

\* RemoveServer: the row of a server that does not answer is hidden.
HideServer(i) ==
    /\ m_pServerList' =
         {[row EXCEPT !.visible = @ /\ row.id \notin RowsOf({i} \cap Known)] :
            row \in m_pServerList}
    /\ UNCHANGED <<m_mapServers, m_mapServerIP>>

\* Mutant: the Internet tab lists every server it failed to reach.
ListSilentServer(i) ==
    /\ MayAnswer(i)
    /\ \E server \in Unanswered(i) :
         /\ details' = [details EXCEPT ![i] = server]
         /\ IF m_eMatchMakingType = "eLANServer"
            THEN HideServer(i)
            ELSE BaseServerResponded(i, server)
    /\ UNCHANGED <<m_eMatchMakingType, m_pRefreshAll, m_bRefreshOnListReload,
                   filterVars, request, active>>

(***************************************************************************)
(* A server did not answer.  The LAN tab hides it; the Internet tab keeps  *)
(* it if it has answered before; the other tabs list it all the same.      *)
(***************************************************************************)
ServerFailedToRespond(i) ==
    /\ MayAnswer(i)
    /\ \E server \in Unanswered(i) :
         /\ details' = [details EXCEPT ![i] = server]
         /\ IF \/ m_eMatchMakingType = "eLANServer"
               \/ /\ m_eMatchMakingType = "eInternetServer"
                  /\ ~server.m_bHadSuccessfulResponse
            THEN HideServer(i)
            ELSE BaseServerResponded(i, server)
    /\ UNCHANGED <<m_eMatchMakingType, m_pRefreshAll, m_bRefreshOnListReload,
                   filterVars, request, active>>

\* Steam has asked every server, and calls RefreshComplete
RefreshComplete ==
    /\ request = "refreshing"
    /\ request' = "idle"
    /\ EndRefresh
    /\ UNCHANGED <<m_eMatchMakingType, tabVars, m_bRefreshOnListReload,
                   controls, details, active>>

\* The single servers have answered, with or without RefreshComplete
PingComplete ==
    /\ request = "pinging"
    /\ request' = "idle"
    /\ EndRefresh \/ UNCHANGED <<m_pRefreshAll, filters, filtered>>
    /\ UNCHANGED <<m_eMatchMakingType, tabVars, m_bRefreshOnListReload,
                   controls, details, active>>

-----------------------------------------------------------------------------
Init ==
    /\ m_eMatchMakingType \in Types
    /\ m_mapServers = [i \in Servers |-> None]
    /\ m_mapServerIP = [adr \in Addresses |-> None]
    /\ m_pServerList = {}
    /\ m_pRefreshAll = "none"
    /\ m_bRefreshOnListReload = FALSE
    /\ controls \in FilterSettings
    /\ filters = controls
    /\ filtered = TRUE
    /\ request = "none"
    /\ details = [i \in Servers |-> None]
    /\ active = FALSE

Next ==
    \/ OnPageShow \/ OnPageHide
    \/ GetNewServerList \/ OnStopRefresh \/ OnRefresh \/ OnRefreshServer
    \/ AddConnectedServer
    \/ \E f \in FilterSettings : OpenBrowser(f) \/ ChangeControl(f)
    \/ OnTextChanged \/ OnLocationChanged
    \/ \E i \in Servers : ServerResponded(i) \/ ServerFailedToRespond(i)
    \/ RefreshComplete \/ PingComplete

Spec == Init /\ [][Next]_vars

-----------------------------------------------------------------------------
(***************************************************************************)
(* Properties.                                                             *)
(***************************************************************************)

\* The types of the variables of a tab and of Steam's request.
TypeOK ==
    /\ m_eMatchMakingType \in Types
    /\ m_mapServers \in [Servers -> Entry \cup {None}]
    /\ m_mapServerIP \in [Addresses -> Servers \cup {None}]
    /\ m_pServerList \in SUBSET RowType
    /\ m_pRefreshAll \in {"none", "stoprefresh", "GetNewList"}
    /\ m_bRefreshOnListReload \in BOOLEAN
    /\ controls \in FilterSettings
    /\ filters \in FilterSettings
    /\ filtered \in BOOLEAN
    /\ request \in {"none", "idle", "pinging", "refreshing"}
    /\ details \in [Servers -> Details \cup {None}]
    /\ active \in BOOLEAN

\* Rows and entries agree: a row stands for one known server, whose entry
\* names that row, and the row an entry names is there.  The row numbers the
\* panel gives out again are why this could fail: an entry that keeps the
\* number of a removed row would take over the row of another server
\* (ServerResponded, CBaseTab.cpp:385-541, ApplyGameFilters, 672-743).
RowsMatchEntries ==
    /\ \A row \in m_pServerList :
         /\ row.userData \in Known
         /\ m_mapServers[row.userData].m_iListID = row.id
    /\ \A i \in Known :
         m_mapServers[i].m_iListID # None =>
           \E row \in m_pServerList :
             row.id = m_mapServers[i].m_iListID /\ row.userData = i
    /\ \A row, other \in m_pServerList : row.id = other.id => row = other

\* m_mapServerIP is the inverse of the addresses of m_mapServers: no server is
\* listed twice, although Steam may number one address twice and its answers
\* come in any order (the comment of CBaseTab.cpp:394).
AddressesMatchEntries ==
    /\ \A i \in Known : details[i] # None
    /\ \A adr \in Addresses, i \in Servers :
         m_mapServerIP[adr] = i <=> i \in Known /\ details[i].m_NetAdr = adr

\* Once a change of the filters has been applied, every row on the screen
\* passes them, whatever answered before and after the change.
VisibleRowsPass ==
    filtered =>
      \A row \in m_pServerList : row.visible => Passes(filters, row.userData)

\* The Internet and LAN tabs show only servers that have answered
\* (CTabInternet.cpp:139-158, CTabLan.cpp:122-127).
ShownHaveAnswered ==
    m_eMatchMakingType \in {"eInternetServer", "eLANServer"} =>
      \A row \in m_pServerList :
        row.visible => details[row.userData].m_bHadSuccessfulResponse

\* While a request exists, the button reads "stop" exactly while Steam
\* refreshes its list (SetRefreshing, CBaseTab.cpp:1013-1048).
StopButtonWhileRefreshing ==
    request # "none" =>
      (m_pRefreshAll = "stoprefresh" <=> request = "refreshing")

\* While a row stays on the panel it stands for the same server, even when
\* that server changes its number: the selection, from which the server to
\* join is taken (CBaseTab.cpp:1331-1344), is kept by row.
RowKeepsServer ==
    [][\A row \in m_pServerList, later \in m_pServerList' :
         row.id = later.id =>
           details[row.userData].m_NetAdr = details'[later.userData].m_NetAdr]_vars

\* The rows, hidden ones included, and the addresses Steam has for them
BoardOfTab == {[row |-> row.id, address |-> details[row.userData].m_NetAdr] :
                 row \in m_pServerList}

Board == INSTANCE ServerBoard WITH board <- BoardOfTab

\* The tab implements the board: whatever numbers Steam gives twice and
\* whatever row numbers the panel gives again, an answer moves no server but
\* the one that answered, a change of the filters drops and moves none, and
\* only a new list wipes them all (ServerResponded, CBaseTab.cpp:369-541,
\* ApplyGameFilters, 672-743, ClearServerList, 1272-1277).
ImplementsBoard == Board!BoardSpec

=============================================================================
