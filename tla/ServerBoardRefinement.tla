----------------------- MODULE ServerBoardRefinement -----------------------
(***************************************************************************)
(* A tab of the server browser implements ServerBoard: the board is what   *)
(* the rows of the list panel and Steam's addresses make together, and     *)
(* every step of the tab wipes it, posts on it, moves the one server that  *)
(* answered, or leaves it as it is.                                        *)
(***************************************************************************)
EXTENDS ServerTabProofs

\* The place a row gives its server, before a step and after it
At(row) == [row |-> row.id, address |-> details[row.userData].m_NetAdr]
AtNext(row) == [row |-> row.id, address |-> details'[row.userData].m_NetAdr]

LEMMA BoardRows ==
  /\ BoardOfTab = {At(row) : row \in m_pServerList}
  /\ BoardOfTab' = {AtNext(row) : row \in m_pServerList'}
BY DEF BoardOfTab, At, AtNext

\* What the invariant says of a row, its server and its address
LEMMA RowFacts ==
  ASSUME TabInv, NEW row \in m_pServerList
  PROVE  /\ row.id \in Rows /\ row.userData \in Servers
         /\ row.userData \in Known
         /\ details[row.userData] \in Details
         /\ m_mapServers[row.userData].m_iListID = row.id
         /\ m_mapServerIP[details[row.userData].m_NetAdr] = row.userData
<1>1. /\ m_pServerList \subseteq RowType
      /\ details \in [Servers -> Details \cup {None}]
  BY DEF TabInv, TypeOK
<1>2. row.id \in Rows /\ row.userData \in Servers
  BY <1>1 DEF RowType
<1>3. /\ row.userData \in Known /\ m_mapServers[row.userData].m_iListID = row.id
      /\ details[row.userData] # None
  BY DEF TabInv, RowsMatchEntries, AddressesMatchEntries
<1>4. details[row.userData] \in Details
  BY <1>1, <1>2, <1>3
<1>5. details[row.userData].m_NetAdr \in Addresses
  BY <1>4 DEF Details
<1>6. m_mapServerIP[details[row.userData].m_NetAdr] = row.userData
  BY <1>2, <1>3, <1>5 DEF TabInv, AddressesMatchEntries
<1> QED BY <1>2, <1>3, <1>4, <1>6

\* The rows that an answer from adr leaves alone are those of other addresses.
LEMMA OthersAreElsewhere ==
  ASSUME TabInv, NEW i \in Servers, NEW adr \in Addresses,
         details[i] # None => details[i].m_NetAdr = adr
  PROVE  Others(i, adr) =
           {row \in m_pServerList : details[row.userData].m_NetAdr # adr}
<1> DEFINE list == RowsWithoutDuplicate(i, adr)
           dup == m_mapServerIP[adr]
<1>1. /\ \A j \in Known : j \in Servers /\ details[j] # None
      /\ \A j \in Servers : dup = j <=> j \in Known /\ details[j].m_NetAdr = adr
      /\ \A row, other \in m_pServerList : row.id = other.id => row = other
      /\ \A j \in Known : m_mapServers[j].m_iListID # None =>
           \E row \in m_pServerList : row.id = m_mapServers[j].m_iListID /\ row.userData = j
  BY DEF TabInv, RowsMatchEntries, AddressesMatchEntries, Known
<1>2. ASSUME NEW row \in m_pServerList, row.userData = i
      PROVE  details[row.userData].m_NetAdr = adr
  BY <1>1, <1>2, RowFacts
<1>3. ASSUME NEW row \in m_pServerList, row.userData # i,
             details[row.userData].m_NetAdr = adr
      PROVE  row \notin list
  <2>1. /\ dup = row.userData /\ dup \in Known
        /\ m_mapServers[dup].m_iListID = row.id
    BY <1>3, RowFacts
  <2>2. i \notin Known
    BY <1>1, <1>3, <2>1
  <2> QED BY <2>1, <2>2 DEF RowsWithoutDuplicate, WithoutRow
<1>4. ASSUME NEW row \in m_pServerList, details[row.userData].m_NetAdr # adr
      PROVE  row \in list
  <2>1. CASE i \in Known \/ dup \notin Known
    BY <2>1 DEF RowsWithoutDuplicate
  <2>2. CASE i \notin Known /\ dup \in Known
    <3>1. dup \in Servers /\ details[dup].m_NetAdr = adr
      BY <1>1, <2>2
    <3>2. row.id # None
      BY RowFacts, TabAssumption
    <3>3. row.id # m_mapServers[dup].m_iListID
      <4>1. SUFFICES ASSUME row.id = m_mapServers[dup].m_iListID PROVE FALSE
        OBVIOUS
      <4>2. PICK other \in m_pServerList : other.id = row.id /\ other.userData = dup
        BY <1>1, <2>2, <3>2, <4>1
      <4> QED BY <1>1, <1>4, <3>1, <4>2
    <3> QED BY <2>2, <3>3 DEF RowsWithoutDuplicate, WithoutRow
  <2> QED BY <2>1, <2>2
<1>5. list \subseteq m_pServerList
  BY RegisteredType
<1> HIDE DEF list, dup
<1>6. Others(i, adr) = {row \in list : row.userData # i}
  BY DEF Others, list
<1> QED BY <1>2, <1>3, <1>4, <1>5, <1>6

-----------------------------------------------------------------------------
(* The three kinds of steps. *)

\* An answer, under whatever number, moves the server that gave it and no
\* other (CBaseTab::ServerResponded).
LEMMA AnswerRefines ==
  ASSUME TabInv, NEW i \in Servers, NEW server \in Answered(i) \cup Unanswered(i),
         BaseServerResponded(i, server),
         details' = [details EXCEPT ![i] = server]
  PROVE  Board!BoardNext
<1> DEFINE adr == server.m_NetAdr
           others == {p \in BoardOfTab : p.address # adr}
           rest == Others(i, adr)
<1>1. /\ server \in Details /\ adr \in Addresses
      /\ details[i] # None => details[i].m_NetAdr = adr
  BY AnswerType DEF Details
<1>2. rest = {row \in m_pServerList : details[row.userData].m_NetAdr # adr}
  BY <1>1, OthersAreElsewhere
<1>3. /\ details'[i] = server
      /\ \A j \in Servers : j # i => details'[j] = details[j]
  BY DEF TabInv, TypeOK
<1>4. \A row \in rest : AtNext(row) = At(row)
  <2>1. \A row \in rest : row.userData # i /\ row \in m_pServerList
    BY <1>2 DEF Others
  <2> QED BY <1>3, <2>1, RowFacts DEF At, AtNext
<1>5. others = {At(row) : row \in rest}
  <2>1. \A row \in m_pServerList : At(row).address = details[row.userData].m_NetAdr
    BY DEF At
  <2>2. BoardOfTab = {At(row) : row \in m_pServerList}
    BY BoardRows
  <2> HIDE DEF rest, adr
  <2> QED BY <1>2, <2>1, <2>2
<1>6. PICK to \in Rows \cup {None} :
           /\ to = None => m_pServerList' = rest
           /\ to # None => /\ m_pServerList' = rest \cup {Row(to, i)}
                           /\ to \notin RowIds(rest)
  BY <1>1, RespondedShape
<1>7. BoardOfTab' = {AtNext(row) : row \in m_pServerList'}
  BY BoardRows
<1>8. CASE to = None
  <2>1. BoardOfTab' = others
    BY <1>4, <1>5, <1>6, <1>7, <1>8
  <2> QED BY <1>1, <2>1 DEF Board!BoardNext, Board!Answer
<1>9. CASE to # None
  <2>1. AtNext(Row(to, i)) = [row |-> to, address |-> adr]
    BY <1>3 DEF AtNext, Row
  <2>2. to \in Rows \ {p.row : p \in others}
    <3>1. \A row \in rest : At(row).row = row.id
      BY DEF At
    <3>2. \A row \in rest : row.id # to
      BY <1>6, <1>9 DEF RowIds
    <3> HIDE DEF others, rest
    <3> QED BY <1>5, <1>6, <1>9, <3>1, <3>2
  <2> HIDE DEF others, rest
  <2>3. BoardOfTab' = others \cup {[row |-> to, address |-> adr]}
    BY <1>4, <1>5, <1>6, <1>7, <1>9, <2>1
  <2>4. Board!Answer(adr)
    BY <2>2, <2>3 DEF Board!Answer, others
  <2> QED BY <1>1, <2>4 DEF Board!BoardNext
<1> QED BY <1>8, <1>9

\* The board of a tab is one-to-one: rows have numbers of their own, and
\* m_mapServerIP knows one server for an address.
LEMMA BoardOfTabInv ==
  ASSUME TabInv
  PROVE  Board!BoardInv
<1>1. \A row \in m_pServerList : /\ At(row).row = row.id
                                 /\ At(row).address = details[row.userData].m_NetAdr
                                 /\ At(row) \in Board!Place
  BY RowFacts DEF At, Board!Place, Details
<1>2. \A row, other \in m_pServerList :
        \/ row.id = other.id
        \/ details[row.userData].m_NetAdr = details[other.userData].m_NetAdr
        => row = other
  <2>1. \A row, other \in m_pServerList : row.id = other.id => row = other
    BY DEF TabInv, RowsMatchEntries
  <2> QED BY <2>1, RowFacts
<1>3. BoardOfTab = {At(row) : row \in m_pServerList}
  BY BoardRows
<1> QED BY <1>1, <1>2, <1>3 DEF Board!BoardInv, Board!OneToOne

\* A change of the filters adds servers and moves none
\* (CBaseTab::ApplyGameFilters).
LEMMA FilterRefines ==
  ASSUME TabInv, TabInv', OnTextChanged
  PROVE  Board!BoardNext
<1>1. ApplyGameFilters(controls) /\ details' = details
  BY DEF OnTextChanged
<1>2. ASSUME NEW row \in m_pServerList
      PROVE  \E later \in m_pServerList' : later.id = row.id /\ later.userData = row.userData
  <2> DEFINE v == /\ row.id \notin RowsOf(Failing(controls))
                  /\ row.visible \/ row.id \in RowsOf(ShownAgain(controls))
             later == [row EXCEPT !.visible = v]
  <2>1. row \in RowType
    BY DEF TabInv, TypeOK
  <2>2. later \in m_pServerList'
    BY <1>1 DEF ApplyGameFilters
  <2> HIDE DEF v
  <2>3. later.id = row.id /\ later.userData = row.userData
    BY <2>1 DEF RowType
  <2> QED BY <2>2, <2>3
<1>3. BoardOfTab \subseteq BoardOfTab'
  <2>1. \A row \in m_pServerList, later \in m_pServerList' :
          later.id = row.id /\ later.userData = row.userData => AtNext(later) = At(row)
    BY <1>1 DEF At, AtNext
  <2> QED BY <1>2, <2>1, BoardRows
<1>4. BoardOfTab' \subseteq Board!Place /\ Board!OneToOne(BoardOfTab')
  <2>1. Board!BoardInv'
    BY BoardOfTabInv, PTL
  <2> QED BY <2>1 DEF Board!BoardInv
<1> QED BY <1>3, <1>4 DEF Board!BoardNext, Board!Post

LEMMA WipeRefines ==
  ASSUME StartRefresh
  PROVE  Board!BoardNext
<1>1. BoardOfTab' = {}
  BY BoardRows DEF StartRefresh, ClearServerList
<1> QED BY <1>1 DEF Board!BoardNext, Board!Clear

\* Hiding a server changes nothing but what is seen of its row.
LEMMA HideRefines ==
  ASSUME TabInv, NEW i \in Servers, NEW server \in Unanswered(i), HideServer(i),
         details' = [details EXCEPT ![i] = server]
  PROVE  BoardOfTab' = BoardOfTab
<1> DEFINE vis(row) == row.visible /\ row.id \notin RowsOf({i} \cap Known)
           upd(row) == [row EXCEPT !.visible = vis(row)]
<1>1. m_pServerList' = {upd(row) : row \in m_pServerList}
  BY DEF HideServer
<1>2. ASSUME NEW row \in m_pServerList
      PROVE  AtNext(upd(row)) = At(row)
  <2>1. row \in RowType
    BY DEF TabInv, TypeOK
  <2> HIDE DEF vis
  <2>2. upd(row).id = row.id /\ upd(row).userData = row.userData
    BY <2>1 DEF RowType
  <2>3. details'[row.userData] = details[row.userData]
    BY RowFacts, SilentDetails
  <2> QED BY <2>2, <2>3 DEF At, AtNext
<1> HIDE DEF upd
<1> QED BY <1>1, <1>2, BoardRows

-----------------------------------------------------------------------------
LEMMA BoardStep ==
  ASSUME TabInv, TabInv', [Next]_vars
  PROVE  [Board!BoardNext]_BoardOfTab
<1>1. ASSUME UNCHANGED <<m_pServerList, details>>
      PROVE  [Board!BoardNext]_BoardOfTab
  BY <1>1 DEF BoardOfTab
<1>2. CASE \/ OnPageShow \/ GetNewServerList
           \/ OnLocationChanged \/ \E f \in FilterSettings : OpenBrowser(f)
  BY <1>1, <1>2, WipeRefines
     DEF OnPageShow, GetNewServerList, OpenBrowser, OnLocationChanged, tabVars
<1>3. CASE \/ OnPageHide \/ OnStopRefresh \/ OnRefresh \/ OnRefreshServer
           \/ AddConnectedServer \/ RefreshComplete \/ PingComplete
           \/ \E f \in FilterSettings : ChangeControl(f)
  BY <1>1, <1>3 DEF OnPageHide, OnStopRefresh, StopRefresh, OnRefresh, OnRefreshServer,
                    AddConnectedServer, RefreshComplete, PingComplete, ChangeControl,
                    tabVars
<1>4. CASE OnTextChanged
  BY <1>4, FilterRefines
<1>5. ASSUME NEW i \in Servers, ServerResponded(i)
      PROVE  [Board!BoardNext]_BoardOfTab
  BY <1>5, AnswerRefines DEF ServerResponded
<1>6. ASSUME NEW i \in Servers, ServerFailedToRespond(i)
      PROVE  [Board!BoardNext]_BoardOfTab
  <2>1. PICK server \in Unanswered(i) :
          /\ details' = [details EXCEPT ![i] = server]
          /\ HideServer(i) \/ BaseServerResponded(i, server)
    BY <1>6 DEF ServerFailedToRespond
  <2>2. CASE HideServer(i)
    BY <2>1, <2>2, HideRefines
  <2>3. CASE BaseServerResponded(i, server)
    BY <2>1, <2>3, AnswerRefines
  <2> QED BY <2>1, <2>2, <2>3
<1>7. CASE UNCHANGED vars
  BY <1>1, <1>7 DEF vars
<1> QED BY <1>2, <1>3, <1>4, <1>5, <1>6, <1>7 DEF Next

\* The tab implements the board (ImplementsBoard of ServerTab): for any number
\* of servers, addresses and rows, answers under any numbers and changes of the
\* filters between them move only the server that answered.
THEOREM TabImplementsBoard == Spec => ImplementsBoard
<1>1. Init => Board!BoardInit
  BY DEF Init, BoardOfTab, Board!BoardInit
<1>2. TabInv /\ TabInv' /\ [Next]_vars => [Board!BoardNext]_BoardOfTab
  BY BoardStep
<1> QED BY <1>1, <1>2, TabInvHolds, PTL DEF Spec, ImplementsBoard, Board!BoardSpec

\* So no server is ever in two rows and no row stands for two servers.
THEOREM TabBoardOneToOne == Spec => []Board!BoardInv
<1>1. TabInv => Board!BoardInv
  BY BoardOfTabInv
<1> QED BY <1>1, TabInvHolds, PTL

=============================================================================
