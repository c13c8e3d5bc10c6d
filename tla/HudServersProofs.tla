------------------------- MODULE HudServersProofs -------------------------
(***************************************************************************)
(* Proofs about the server list of the old browser: its types, the count   *)
(* of active queries, the limit on them, that no answer reaches a list it  *)
(* does not belong to, that a search never waits for nothing, and what the *)
(* list shown holds: no address more often than the master's list does,    *)
(* the fastest that has answered, and its order while it is by ping.       *)
(***************************************************************************)
EXTENDS HudServers, FiniteSetTheorems, SequenceTheorems, TLAPS

\* There is a place for every server.
LEMMA InsertPlaceType ==
  ASSUME NEW list \in Seq(Server), NEW p
  PROVE  InsertPlace(list, p) \in 1..(Len(list) + 1)
<1>1. Len(list) \in Nat /\ Passed(list, p) \in SUBSET (1..Len(list))
  BY DEF Passed
<1>2. IsFiniteSet(1..Len(list)) /\ Cardinality(1..Len(list)) = Len(list)
  <2>1. 1 \in Int /\ Len(list) \in Int
    BY <1>1
  <2>2. Cardinality(1..Len(list)) = IF 1 > Len(list) THEN 0 ELSE Len(list) - 1 + 1
    BY <2>1, FS_Interval
  <2> QED BY <1>1, <2>1, <2>2, FS_Interval
<1>3. /\ IsFiniteSet(Passed(list, p))
      /\ Cardinality(Passed(list, p)) <= Len(list)
  BY <1>1, <1>2, FS_Subset
<1>4. Cardinality(Passed(list, p)) \in Nat
  BY <1>3, FS_CardinalityType
<1> QED BY <1>1, <1>3, <1>4 DEF InsertPlace

\* AddServer's insertion keeps a list of servers one.
LEMMA InsertedType ==
  ASSUME NEW list \in Seq(Server), NEW p \in Server
  PROVE  Inserted(list, p) \in Seq(Server)
<1> DEFINE n == InsertPlace(list, p)
           m == IF n = 1 THEN 1 ELSE n + 1
<1>1. n \in 1..(Len(list) + 1) /\ Len(list) \in Nat
  BY InsertPlaceType
<1>2. \A i \in 1..Len(list) : list[i] \in Server
  OBVIOUS
<1> HIDE DEF n
<1>3. SubSeq(list, 1, n - 1) \in Seq(Server)
  <2>1. \A i \in 1..(n - 1) : list[i] \in Server
    BY <1>1, <1>2
  <2> QED BY <1>1, <2>1, SubSeqProperties
<1>4. SubSeq(list, m, Len(list)) \in Seq(Server)
  <2>1. m \in Int /\ \A i \in m..Len(list) : list[i] \in Server
    BY <1>1, <1>2
  <2> HIDE DEF m
  <2> QED BY <1>1, <2>1, SubSeqProperties
<1>5. <<p>> \in Seq(Server)
  OBVIOUS
<1> HIDE DEF m
<1>6. (SubSeq(list, 1, n - 1) \o <<p>>) \o SubSeq(list, m, Len(list)) \in Seq(Server)
  BY <1>3, <1>4, <1>5, ConcatProperties
<1> QED BY <1>6 DEF Inserted, n, m

\* Sorting keeps it one, too.
LEMMA RearrangedType ==
  ASSUME NEW list \in Seq(Server), NEW sorted \in Rearranged(list)
  PROVE  sorted \in Seq(Server)
<1>1. PICK f \in [1..Len(list) -> 1..Len(list)] : sorted = [n \in 1..Len(list) |-> list[f[n]]]
  BY DEF Rearranged
<1>2. \A n \in 1..Len(list) : list[f[n]] \in Server
  OBVIOUS
<1>3. sorted \in [1..Len(list) -> Server] /\ Len(list) \in Nat
  BY <1>1, <1>2
<1> QED BY <1>3, SeqDef

-----------------------------------------------------------------------------
(* Type correctness. *)

\* A new entry of the list shown, as ServerResponse and the broadcasts make it.
LEMMA AddServerType ==
  ASSUME ServersTypeOK, NEW s \in Addresses, NEW ping \in Pings,
         AddServer([remote_address |-> s, ping |-> ping])
  PROVE  m_pServers' \in Seq(Server) /\ m_nServerCount' \in Nat /\ answered' \in SUBSET Pings
<1> DEFINE p == [remote_address |-> s, ping |-> ping]
<1>1. p \in Server
  BY DEF Server
<1>2. m_pServers \in Seq(Server) /\ m_nServerCount \in Nat
  BY DEF ServersTypeOK
<1>3. m_pServers' = Inserted(m_pServers, p) /\ m_nServerCount' = m_nServerCount + 1
  BY DEF AddServer
<1>4. answered' \in SUBSET Pings
  BY DEF AddServer, ServersTypeOK
<1> HIDE DEF p
<1> QED BY <1>1, <1>2, <1>3, <1>4, InsertedType

\* Sets of entries are finite.
LEMMA EntriesFinite ==
  ASSUME NEW S \in SUBSET Entries
  PROVE  IsFiniteSet(S) /\ Cardinality(S) \in Nat
<1>1. IsFiniteSet(S)
  BY ServersAssumption, FS_Subset
<1> QED BY <1>1, FS_CardinalityType

\* The invariant.  That a request for the master server's list is out means that
\* nothing waits and nothing is asked; so the list restarts the count from a
\* state in which it is right.
WaitingForList == listRequest => m_pServerList = {} /\ m_pActiveList = {}
Apart == m_pServerList \cap m_pActiveList = {}
ActiveWithinLimit == Cardinality(m_pActiveList) <= MAX_QUERIES + 1

ServersInv ==
  /\ ServersTypeOK
  /\ WaitingForList
  /\ Apart
  /\ ActiveIsCounted
  /\ ActiveWithinLimit
  /\ OnlyThisSearch

USE DEF WaitingForList, Apart, ActiveIsCounted, ActiveWithinLimit, OnlyThisSearch

\* A batch fits into the room there is.
LEMMA BatchProps ==
  ASSUME ServersInv, NEW b \in Batches
  PROVE  /\ b \in SUBSET m_pServerList
         /\ IsFiniteSet(b) /\ Cardinality(b) \in Nat
         /\ Cardinality(m_pActiveList \cup b) = Cardinality(m_pActiveList) + Cardinality(b)
         /\ b # {} => m_nActiveQueries + Cardinality(b) <= MAX_QUERIES + 1 /\ ~m_nDone
<1>1. b \in SUBSET m_pServerList
  BY DEF Batches
<1>2. m_pServerList \in SUBSET Entries /\ m_pActiveList \in SUBSET Entries /\ m_nActiveQueries \in Nat
  BY DEF ServersInv, ServersTypeOK
<1>3. /\ IsFiniteSet(b) /\ Cardinality(b) \in Nat
      /\ IsFiniteSet(m_pActiveList) /\ Cardinality(m_pActiveList) \in Nat
      /\ IsFiniteSet(m_pServerList) /\ Cardinality(m_pServerList) \in Nat
  BY <1>1, <1>2, EntriesFinite
<1>4. m_pActiveList \cap b = {}
  BY <1>1 DEF ServersInv
<1>5. Cardinality(m_pActiveList \cup b) = Cardinality(m_pActiveList) + Cardinality(b)
  <2>1. Cardinality(m_pActiveList \cup b) =
          Cardinality(m_pActiveList) + Cardinality(b) - Cardinality(m_pActiveList \cap b)
    BY <1>3, FS_Union
  <2>2. Cardinality(m_pActiveList \cap b) = 0
    BY <1>4, FS_EmptySet
  <2> QED BY <1>3, <2>1, <2>2
<1>6. Room \in Nat /\ Cardinality(b) <= Room
  BY <1>2, <1>3, ServersAssumption DEF Room, Batches
<1>7. ASSUME b # {} PROVE Cardinality(b) # 0
  BY <1>3, <1>7, FS_EmptySet
<1>8. ASSUME b # {} PROVE m_nActiveQueries + Cardinality(b) <= MAX_QUERIES + 1 /\ ~m_nDone
  BY <1>2, <1>3, <1>6, <1>7, <1>8, ServersAssumption DEF Room
<1> QED BY <1>1, <1>3, <1>5, <1>8

\* A frame keeps the invariant.
LEMMA ThinkInv ==
  ASSUME ServersInv, Think
  PROVE  ServersInv'
<1>1. PICK b \in Batches :
        /\ m_pServerList' = m_pServerList \ b
        /\ m_pActiveList' = m_pActiveList \cup b
        /\ detailRequests' = detailRequests \cup b
        /\ IF m_pServerList' \cup m_pActiveList' = {}
           THEN EndOfSearch
           ELSE m_nActiveQueries' = m_nActiveQueries + Cardinality(b) /\ UNCHANGED flags
  BY DEF Think
<1>2. /\ m_nRequesting /\ m_nQuerying
      /\ UNCHANGED <<browser, g_fieldname, listRequest, lanRequests, presses, history>>
  BY DEF Think
<1>3. /\ b \in SUBSET m_pServerList
      /\ IsFiniteSet(b) /\ Cardinality(b) \in Nat
      /\ Cardinality(m_pActiveList \cup b) = Cardinality(m_pActiveList) + Cardinality(b)
      /\ b # {} => m_nActiveQueries + Cardinality(b) <= MAX_QUERIES + 1 /\ ~m_nDone
  BY BatchProps
<1>4. /\ m_pServerList \in SUBSET Entries /\ m_pActiveList \in SUBSET Entries
      /\ m_nActiveQueries \in Nat /\ detailRequests \in SUBSET Entries
      /\ Cardinality(m_pActiveList) \in Nat
  BY EntriesFinite DEF ServersInv, ServersTypeOK
<1>5. ServersTypeOK'
  <2>1. m_nActiveQueries' \in Nat
    BY <1>1, <1>3, <1>4 DEF EndOfSearch
  <2>2. {m_nRequesting', m_nQuerying', m_nDone'} \subseteq BOOLEAN
    BY <1>1 DEF EndOfSearch, flags, ServersInv, ServersTypeOK
  <2> QED BY <1>1, <1>2, <1>3, <1>4, <2>1, <2>2 DEF ServersInv, ServersTypeOK, browser, history
<1>6. WaitingForList' /\ Apart'
  BY <1>1, <1>2, <1>3 DEF ServersInv
<1>7. ActiveIsCounted' /\ ActiveWithinLimit'
  <2>1. CASE m_pServerList \cup m_pActiveList = {}
    BY <1>1, <1>3, <2>1 DEF ServersInv
  <2>2. CASE m_pServerList \cup m_pActiveList # {}
    <3>1. m_nActiveQueries' = m_nActiveQueries + Cardinality(b)
      BY <1>1, <1>3, <2>2
    <3>2. m_nActiveQueries = Cardinality(m_pActiveList)
      BY <2>2 DEF ServersInv
    <3>3. CASE b = {}
      BY <1>1, <1>3, <3>1, <3>2, <3>3, FS_EmptySet, <1>4 DEF ServersInv
    <3>4. CASE b # {}
      BY <1>1, <1>3, <1>4, <3>1, <3>2, <3>4
    <3> QED BY <3>3, <3>4
  <2> QED BY <2>1, <2>2
<1>8. OnlyThisSearch'
  BY <1>1, <1>2, <1>3 DEF ServersInv, EndOfSearch, flags
<1> QED BY <1>5, <1>6, <1>7, <1>8 DEF ServersInv

\* An answer for details, or its time-out, keeps it.
LEMMA AnswerInv ==
  ASSUME ServersInv, NEW e \in Entries, Answer(e)
  PROVE  ServersInv'
<1>1. /\ e \in detailRequests
      /\ detailRequests' = detailRequests \ {e}
      /\ Answered(e)
      /\ UNCHANGED <<flags, m_pServerList, g_fieldname, listRequest, lanRequests, presses, listed>>
  BY DEF Answer, ServerTimeout, ServerResponse, history
<1>2. /\ m_pActiveList \in SUBSET Entries /\ m_nActiveQueries \in Nat
      /\ detailRequests \in SUBSET Entries
      /\ IsFiniteSet(m_pActiveList) /\ Cardinality(m_pActiveList) \in Nat
  BY EntriesFinite DEF ServersInv, ServersTypeOK
<1>3. e \in m_pActiveList /\ m_nActiveQueries = Cardinality(m_pActiveList)
  BY <1>1 DEF ServersInv
<1>4. /\ m_pActiveList' = m_pActiveList \ {e}
      /\ m_nActiveQueries' = m_nActiveQueries - 1
  BY <1>1, <1>3 DEF Answered
<1>5. Cardinality(m_pActiveList \ {e}) = Cardinality(m_pActiveList) - 1
  BY <1>2, <1>3, FS_RemoveElement
<1>6. Cardinality(m_pActiveList) # 0
  BY <1>2, <1>3, FS_EmptySet
<1>7. m_nActiveQueries' \in Nat
  BY <1>2, <1>3, <1>4, <1>6
<1>8. m_pServers' \in Seq(Server) /\ m_nServerCount' \in Nat /\ answered' \in SUBSET Pings
  <2>1. CASE ServerTimeout(e)
    BY <2>1 DEF ServerTimeout, browser, history, ServersInv, ServersTypeOK
  <2>2. CASE \E ping \in Pings : ServerResponse(e, ping)
    <3>1. AddressOf[e] \in Addresses
      BY DEF Addresses
    <3> QED BY <2>2, <3>1, AddServerType DEF ServerResponse, ServersInv
  <2> QED BY <2>1, <2>2 DEF Answer
<1>9. ServersTypeOK'
  BY <1>1, <1>2, <1>4, <1>7, <1>8 DEF ServersInv, ServersTypeOK, flags
<1>10. WaitingForList' /\ Apart' /\ OnlyThisSearch'
  BY <1>1, <1>3, <1>4 DEF ServersInv, flags
<1>11. ActiveIsCounted' /\ ActiveWithinLimit'
  BY <1>2, <1>3, <1>4, <1>5, ServersAssumption DEF ServersInv
<1> QED BY <1>9, <1>10, <1>11 DEF ServersInv

\* So does the master server's list, or its time-out.
LEMMA ListInv ==
  ASSUME ServersInv, ListAnswer
  PROVE  ServersInv'
<1>1. m_pServerList = {} /\ m_pActiveList = {} /\ detailRequests = {}
  BY DEF ListAnswer, ListTimeout, ListResponse, ServersInv
<1>2. CASE ListTimeout
  BY <1>2 DEF ListTimeout, ServersInv, ServersTypeOK, flags, lists, browser, history
<1>3. CASE \E got \in SUBSET Entries : ListResponse(got)
  <2>1. PICK got \in SUBSET Entries : ListResponse(got)
    BY <1>3
  <2>2. /\ m_pServerList' = got /\ m_pActiveList' = {} /\ detailRequests' = {}
        /\ listRequest' = FALSE /\ m_nQuerying' = TRUE /\ m_nActiveQueries' = 0
        /\ UNCHANGED <<m_nRequesting, m_nDone, browser, g_fieldname, lanRequests, presses, answered>>
        /\ listed' = listed \cup got
    BY <1>1, <2>1 DEF ListResponse
  <2>3. ServersTypeOK'
    BY <2>2 DEF ServersInv, ServersTypeOK, browser
  <2> QED BY <2>2, <2>3, FS_EmptySet, ServersAssumption DEF ServersInv
<1> QED BY <1>2, <1>3 DEF ListAnswer

\* So do the answers to a broadcast: they only add to the list shown.
LEMMA LanInv ==
  ASSUME ServersInv, NEW s \in Lan, LanAnswer(s)
  PROVE  ServersInv'
<1>1. /\ lanRequests' = [lanRequests EXCEPT ![s] = @ - 1] /\ lanRequests[s] > 0
      /\ UNCHANGED <<flags, lists, g_fieldname, listRequest, detailRequests, presses, listed>>
  BY DEF LanAnswer, LanTimeout, LanResponse, history
<1>2. m_pServers' \in Seq(Server) /\ m_nServerCount' \in Nat /\ answered' \in SUBSET Pings
  <2>1. CASE LanTimeout(s)
    BY <2>1 DEF LanTimeout, browser, history, ServersInv, ServersTypeOK
  <2>2. CASE \E ping \in Pings : LanResponse(s, ping)
    BY <2>2, AddServerType DEF LanResponse, Addresses, ServersInv
  <2> QED BY <2>1, <2>2 DEF LanAnswer
<1>3. lanRequests' \in [Lan -> Nat]
  <2>1. lanRequests \in [Lan -> Nat]
    BY DEF ServersInv, ServersTypeOK
  <2> QED BY <1>1, <2>1
<1>4. ServersTypeOK'
  BY <1>1, <1>2, <1>3 DEF ServersInv, ServersTypeOK, flags, lists
<1> QED BY <1>1, <1>4 DEF ServersInv, flags, lists

\* So do the buttons.
LEMMA ButtonInv ==
  ASSUME ServersInv,
         \/ DoBroadcastRefresh \/ DoStop
         \/ \E fieldname \in Columns : SortServers(fieldname)
         \/ \E r \in Resolves : DoRefresh(r)
  PROVE  ServersInv'
<1>0. ServersTypeOK /\ <<>> \in Seq(Server)
  BY ServersAssumption DEF ServersInv
<1>1. CASE DoBroadcastRefresh
  <2>1. /\ m_nRequesting' = TRUE /\ m_nDone' = FALSE /\ listRequest' = FALSE
        /\ m_pActiveList' = {} /\ m_pServerList' = {} /\ detailRequests' = {}
        /\ m_pServers' = <<>> /\ m_nServerCount' = 0
        /\ UNCHANGED <<m_nQuerying, m_nActiveQueries, g_fieldname>>
        /\ listed' = {} /\ answered' = {}
        /\ lanRequests' = [s \in Lan |-> 1] /\ presses' = presses + 1
    BY <1>1 DEF DoBroadcastRefresh, Press, Requesting, ClearLists, CancelAllRequests
  <2>2. lanRequests' \in [Lan -> Nat]
    BY <2>1
  <2>3. m_pServers' \in Seq(Server)
    BY <1>0, <2>1
  <2>4. {m_nRequesting', m_nQuerying', m_nDone', listRequest'} \subseteq BOOLEAN
    BY <1>0, <2>1 DEF ServersTypeOK
  <2>5. ServersTypeOK'
    BY <1>0, <2>1, <2>2, <2>3, <2>4 DEF ServersTypeOK
  <2> QED BY <2>1, <2>5, FS_EmptySet, ServersAssumption DEF ServersInv
<1>2. CASE DoStop
  <2>1. ServersTypeOK'
    <3>1. /\ m_nRequesting' = FALSE /\ m_nQuerying' = FALSE /\ m_nDone' = TRUE
          /\ listRequest' = FALSE /\ detailRequests' = {} /\ lanRequests' = [s \in Lan |-> 0]
          /\ presses' = presses + 1 /\ UNCHANGED <<lists, browser, g_fieldname, history>>
      BY <1>2 DEF DoStop, Press, CancelAllRequests
    <3>2. lanRequests' \in [Lan -> Nat]
      BY <3>1
    <3>3. {m_nRequesting', m_nQuerying', m_nDone', listRequest'} \subseteq BOOLEAN
      BY <3>1
    <3> QED BY <1>0, <3>1, <3>2, <3>3 DEF ServersTypeOK, lists, browser, history
  <2> QED BY <1>2, <2>1 DEF DoStop, CancelAllRequests, lists, ServersInv
<1>3. ASSUME NEW fieldname \in Columns, SortServers(fieldname) PROVE ServersInv'
  <2>1. m_pServers' \in Seq(Server)
    BY <1>0, <1>3, RearrangedType DEF SortServers, ServersTypeOK
  <2>2. UNCHANGED <<flags, lists, m_nServerCount, network, presses, history>>
    BY <1>3 DEF SortServers
  <2>3. g_fieldname \in Fieldnames
    BY <1>0 DEF ServersTypeOK
  <2>4. g_fieldname' \in Fieldnames
    BY <1>3, <2>3 DEF SortServers, Fieldnames
  <2> QED BY <2>1, <2>2, <2>4 DEF ServersInv, ServersTypeOK, flags, lists, network, history
<1>4. CASE \E r \in Resolves : DoRefresh(r)
  <2>1. PICK r \in Resolves : DoRefresh(r)
    BY <1>4
  <2>2. /\ m_nRequesting' = TRUE /\ m_nDone' = FALSE /\ presses' = presses + 1
        /\ UNCHANGED <<m_nQuerying, m_nActiveQueries, g_fieldname>>
    BY <2>1 DEF DoRefresh, Press, Requesting
  <2>3. CASE r
    <3>1. RequestList /\ lanRequests' = [s \in Lan |-> 1]
      BY <2>1, <2>3 DEF DoRefresh
    <3>2. ServersTypeOK'
      <4>1. /\ m_pActiveList' = {} /\ m_pServerList' = {} /\ detailRequests' = {}
            /\ m_pServers' = <<>> /\ m_nServerCount' = 0 /\ listRequest' = TRUE
            /\ listed' = {} /\ answered' = {}
        BY <3>1 DEF RequestList, ClearLists
      <4>2. lanRequests' \in [Lan -> Nat]
        BY <3>1
      <4>3. {m_nRequesting', m_nQuerying', m_nDone', listRequest'} \subseteq BOOLEAN
        BY <1>0, <2>2, <4>1 DEF ServersTypeOK
      <4>4. m_pServers' \in Seq(Server)
        BY <1>0, <4>1
      <4> QED BY <1>0, <2>2, <4>1, <4>2, <4>3, <4>4 DEF ServersTypeOK
    <3> QED BY <2>2, <3>1, <3>2, FS_EmptySet, ServersAssumption DEF RequestList, ClearLists, ServersInv
  <2>4. CASE ~r
    <3>1. /\ lanRequests' = [s \in Lan |-> lanRequests[s] + 1]
          /\ UNCHANGED <<m_pServerList, m_pActiveList, browser, listRequest, detailRequests,
                         history>>
      BY <2>1, <2>4 DEF DoRefresh
    <3>2. lanRequests' \in [Lan -> Nat]
      BY <1>0, <3>1 DEF ServersTypeOK
    <3>3. ServersTypeOK'
      <4>1. {m_nRequesting', m_nQuerying', m_nDone', listRequest'} \subseteq BOOLEAN
        BY <1>0, <2>2, <3>1 DEF ServersTypeOK
      <4> QED BY <1>0, <2>2, <3>1, <3>2, <4>1 DEF ServersTypeOK, browser, history
    <3> QED BY <2>2, <3>1, <3>3 DEF ServersInv
  <2> QED BY <2>3, <2>4
<1> QED BY <1>1, <1>2, <1>3, <1>4

LEMMA ServersNext == ServersInv /\ [Next]_vars => ServersInv'
<1> SUFFICES ASSUME ServersInv, [Next]_vars PROVE ServersInv'
  OBVIOUS
<1>1. CASE UNCHANGED vars
  BY <1>1 DEF vars, flags, lists, browser, network, history, ServersInv, ServersTypeOK
<1> QED BY <1>1, ThinkInv, AnswerInv, ListInv, LanInv, ButtonInv DEF Next

LEMMA ServersInit == Init => ServersInv
<1> SUFFICES ASSUME Init PROVE ServersInv
  OBVIOUS
<1>1. /\ m_nRequesting = FALSE /\ m_nQuerying = FALSE /\ m_nDone = FALSE
      /\ m_nActiveQueries = 0 /\ m_pServerList = {} /\ m_pActiveList = {}
      /\ m_pServers = <<>> /\ m_nServerCount \in Garbage
      /\ listRequest = FALSE /\ detailRequests = {} /\ lanRequests = [s \in Lan |-> 0]
      /\ presses = 0 /\ listed = {} /\ answered = {}
  BY Zenon DEF Init
<1>2. g_fieldname \in Fieldnames
  BY Zenon DEF Init, Fieldnames
<1>3. ServersTypeOK
  <2>1. m_pServers \in Seq(Server) /\ m_nServerCount \in Nat
    BY <1>1, ServersAssumption
  <2>2. lanRequests \in [Lan -> Nat]
    BY <1>1
  <2> QED BY <1>1, <1>2, <2>1, <2>2 DEF ServersTypeOK
<1> QED BY <1>1, <1>3, FS_EmptySet, ServersAssumption DEF ServersInv

LEMMA ServersInvHolds == Spec => []ServersInv
BY ServersInit, ServersNext, PTL DEF Spec

\* The variables of the server list hold values of their types.
THEOREM ServersTypeCorrect == Spec => []ServersTypeOK
BY ServersInvHolds, PTL DEF ServersInv

\* The count of active queries is the length of the active list whenever there is
\* something to query, although RequestList does not reset it.
THEOREM CountIsKept == Spec => []ActiveIsCounted
BY ServersInvHolds, PTL DEF ServersInv

\* No answer reaches a list of another search, and none comes after Stop.
THEOREM AnswersBelong == Spec => []OnlyThisSearch
BY ServersInvHolds, PTL DEF ServersInv

\* At most MAX_QUERIES + 1 requests for details are out.
THEOREM LimitIsKept == Spec => []QueriesWithinLimit
<1>1. ServersInv => QueriesWithinLimit
  <2> SUFFICES ASSUME ServersInv PROVE QueriesWithinLimit
    OBVIOUS
  <2>1. IsFiniteSet(m_pActiveList) /\ Cardinality(m_pActiveList) \in Nat
    BY EntriesFinite DEF ServersInv, ServersTypeOK
  <2>2. detailRequests \in SUBSET m_pActiveList
    BY DEF ServersInv
  <2>3. /\ Cardinality(detailRequests) <= Cardinality(m_pActiveList)
        /\ IsFiniteSet(detailRequests)
    BY <2>1, <2>2, FS_Subset
  <2>4. Cardinality(detailRequests) \in Nat
    BY <2>3, FS_CardinalityType
  <2> QED BY <2>1, <2>3, <2>4, ServersAssumption DEF ServersInv, QueriesWithinLimit
<1> QED BY <1>1, ServersInvHolds, PTL

-----------------------------------------------------------------------------
(* Why a waiting server is asked: the part of WaitingAreAsked that needs no fairness. *)

\* While servers wait in a search, the next frame asks some of them, or a request is out
\* whose answer makes room.
NeverBlocked ==
  m_nRequesting /\ m_nQuerying /\ m_pServerList # {} => Room > 0 \/ detailRequests # {}

\* Once the list has come, every server counted as active can still answer: Stop, which
\* leaves the active list and cancels the requests, ends the querying as well.
ActiveAreAsked ==
  /\ m_nQuerying => detailRequests = m_pActiveList /\ ~m_nDone
  /\ listRequest => ~m_nDone

LEMMA ActiveAreAskedNext == ServersInv /\ ActiveAreAsked /\ [Next]_vars => ActiveAreAsked'
<1> SUFFICES ASSUME ServersInv, ActiveAreAsked, [Next]_vars PROVE ActiveAreAsked'
  OBVIOUS
<1>1. ASSUME NEW resolves \in Resolves, DoRefresh(resolves) PROVE ActiveAreAsked'
  BY <1>1 DEF DoRefresh, Requesting, RequestList, ClearLists, ActiveAreAsked
<1>2. CASE DoBroadcastRefresh
  BY <1>2 DEF DoBroadcastRefresh, Requesting, ClearLists, CancelAllRequests, ActiveAreAsked
<1>3. CASE DoStop
  BY <1>3 DEF DoStop, CancelAllRequests, ActiveAreAsked
<1>4. CASE Think
  <2>1. m_nQuerying /\ detailRequests = m_pActiveList /\ ~m_nDone /\ listRequest' = listRequest
    BY <1>4 DEF Think, ActiveAreAsked
  <2>2. detailRequests' = m_pActiveList' /\ m_nDone' = FALSE
    BY <1>4, <2>1 DEF Think, EndOfSearch, flags, ServersInv, ServersTypeOK
  <2> QED BY <2>2 DEF ActiveAreAsked
<1>5. CASE ListAnswer
  <2>1. ASSUME NEW got \in SUBSET Entries, ListResponse(got) PROVE ActiveAreAsked'
    <3>1. listRequest /\ m_pActiveList = {} /\ detailRequests = {} /\ ~m_nDone
      BY <2>1 DEF ListResponse, ServersInv, ActiveAreAsked
    <3> QED BY <2>1, <3>1 DEF ListResponse, ActiveAreAsked
  <2>2. CASE ListTimeout
    BY <2>2 DEF ListTimeout, flags, lists, ActiveAreAsked
  <2> QED BY <1>5, <2>1, <2>2 DEF ListAnswer
<1>6. ASSUME NEW e \in Entries, Answer(e) PROVE ActiveAreAsked'
  <2>1. /\ UNCHANGED <<m_nQuerying, m_nDone, listRequest>>
        /\ detailRequests' = detailRequests \ {e}
        /\ m_pActiveList' = m_pActiveList \ {e}
    BY <1>6 DEF Answer, ServerTimeout, ServerResponse, Answered, flags
  <2> QED BY <2>1 DEF ActiveAreAsked
<1>7. ASSUME NEW s \in Lan, LanAnswer(s) PROVE ActiveAreAsked'
  <2>1. UNCHANGED <<m_nQuerying, m_nDone, m_pActiveList, listRequest, detailRequests>>
    BY <1>7 DEF LanAnswer, LanResponse, LanTimeout, flags, lists
  <2> QED BY <2>1 DEF ActiveAreAsked
<1>8. CASE (\E fieldname \in Columns : SortServers(fieldname)) \/ UNCHANGED vars
  BY <1>8 DEF SortServers, vars, flags, lists, network, ActiveAreAsked
<1> QED BY <1>1, <1>2, <1>3, <1>4, <1>5, <1>6, <1>7, <1>8 DEF Next

\* A search never waits for nothing: the count that closes QueryThink's loop
\* (hud_servers.cpp:452) is the number of requests that will still be answered.
THEOREM SearchGoesOn == Spec => []NeverBlocked
<1>1. Init => ActiveAreAsked
  BY DEF Init, ActiveAreAsked
<1>2. ServersInv /\ ActiveAreAsked => NeverBlocked
  <2> SUFFICES ASSUME ServersInv, ActiveAreAsked, m_nQuerying, m_pServerList # {},
                      detailRequests = {}
               PROVE  Room > 0
    BY DEF NeverBlocked
  <2>1. m_pActiveList = {} /\ ~m_nDone
    BY DEF ActiveAreAsked
  <2>2. m_nActiveQueries = 0
    BY <2>1, FS_EmptySet DEF ServersInv
  <2> QED BY <2>1, <2>2, ServersAssumption DEF Room
<1> QED BY <1>1, <1>2, ActiveAreAskedNext, ServersInvHolds, PTL DEF Spec

-----------------------------------------------------------------------------
(* The list shown. *)

\* AddServer stops at the first server p belongs before: the ones it walked past are
\* those in front of that place.
LEMMA PassedIsPrefix ==
  ASSUME NEW list \in Seq(Server), NEW p
  PROVE  Passed(list, p) = 1..(InsertPlace(list, p) - 1)
<1> DEFINE passed == Passed(list, p)
           c == Cardinality(passed)
<1>1. Len(list) \in Nat /\ passed \in SUBSET (1..Len(list))
  BY DEF Passed
<1>2. \A n \in passed : \A k \in 1..n : k \in passed
  BY <1>1 DEF Passed
<1>3. \A n \in Nat : IsFiniteSet(1..n) /\ Cardinality(1..n) = n
  <2> SUFFICES ASSUME NEW n \in Nat PROVE IsFiniteSet(1..n) /\ Cardinality(1..n) = n
    OBVIOUS
  <2>1. Cardinality(1..n) = IF 1 > n THEN 0 ELSE n - 1 + 1
    BY FS_Interval
  <2> QED BY <2>1, FS_Interval
<1>4. IsFiniteSet(passed) /\ c \in Nat
  BY <1>1, <1>3, FS_Subset, FS_CardinalityType
<1>5. InsertPlace(list, p) = c + 1
  BY DEF InsertPlace
<1> HIDE DEF passed
<1>6. c + 1 \notin passed
  <2> SUFFICES ASSUME c + 1 \in passed PROVE FALSE
    OBVIOUS
  <2>1. 1..(c + 1) \subseteq passed
    BY <1>2, <1>4
  <2>2. Cardinality(1..(c + 1)) <= c /\ c + 1 \in Nat
    BY <1>4, <2>1, FS_Subset
  <2> QED BY <1>3, <1>4, <2>2
<1>7. ASSUME NEW k \in 1..c PROVE k \in passed
  <2> SUFFICES ASSUME k \notin passed PROVE FALSE
    OBVIOUS
  <2>1. passed \subseteq 1..(k - 1)
    BY <1>1, <1>2, <1>4
  <2>2. k - 1 \in Nat
    BY <1>4
  <2>3. IsFiniteSet(1..(k - 1)) /\ Cardinality(1..(k - 1)) = k - 1
    BY <1>3, <2>2
  <2>4. c <= k - 1
    BY <2>1, <2>3, FS_Subset
  <2> QED BY <1>4, <2>4
<1>8. passed \subseteq 1..c
  BY <1>1, <1>2, <1>4, <1>6
<1>9. passed = 1..c
  BY <1>7, <1>8
<1>10. c = InsertPlace(list, p) - 1
  BY <1>4, <1>5
<1> HIDE DEF c
<1> QED BY <1>9, <1>10 DEF passed

\* What AddServer makes of a list, place by place.
LEMMA InsertedIs ==
  ASSUME NEW list \in Seq(Server), NEW p \in Server
  PROVE  LET n == InsertPlace(list, p)
             new == Inserted(list, p)
         IN  /\ n \in 1..(Len(list) + 1) /\ Len(list) \in Nat /\ Len(new) \in Nat
             /\ Len(list) <= Len(new) /\ (n = 1 => Len(new) = Len(list) + 1)
             /\ n \in 1..Len(new)
             /\ new[n] = p
             /\ \A k \in 1..Len(new) : k < n => k \in 1..Len(list) /\ new[k] = list[k]
             /\ \A k \in 1..Len(new) : (k > n /\ n = 1) =>
                  k - 1 \in 1..Len(list) /\ new[k] = list[k - 1]
             /\ \A k \in 1..Len(new) : (k > n /\ n # 1) =>
                  k \in 1..Len(list) /\ new[k] = list[k]
<1> DEFINE n == InsertPlace(list, p)
           m == IF n = 1 THEN 1 ELSE n + 1
           front == SubSeq(list, 1, n - 1)
           back == SubSeq(list, m, Len(list))
           new == (front \o <<p>>) \o back
<1>1. n \in 1..(Len(list) + 1) /\ Len(list) \in Nat
  BY InsertPlaceType
<1>2. \A i \in 1..Len(list) : list[i] \in Server
  OBVIOUS
<1>3. Inserted(list, p) = new
  <2>1. Inserted(list, p) = front \o <<p>> \o back
    BY DEF Inserted
  <2> QED BY <2>1
<1> HIDE DEF n
<1>4. /\ front \in Seq(Server) /\ Len(front) = n - 1
      /\ \A i \in 1..(n - 1) : front[i] = list[i]
  <2>1. \A i \in 1..(n - 1) : list[i] \in Server
    BY <1>1, <1>2
  <2>2. 1 \in Int /\ n - 1 \in Int
    BY <1>1
  <2>3. /\ front \in Seq(Server)
        /\ Len(front) = IF 1 <= n - 1 THEN (n - 1) - 1 + 1 ELSE 0
        /\ \A i \in 1..((n - 1) - 1 + 1) : front[i] = list[1 + i - 1]
    BY <2>1, <2>2, SubSeqProperties
  <2> HIDE DEF front
  <2> QED BY <1>1, <2>3
<1>5. /\ back \in Seq(Server)
      /\ Len(back) = IF m <= Len(list) THEN Len(list) - m + 1 ELSE 0
      /\ \A i \in 1..(Len(list) - m + 1) : back[i] = list[m + i - 1]
  <2>1. m \in Int /\ Len(list) \in Int /\ \A i \in m..Len(list) : list[i] \in Server
    BY <1>1, <1>2
  <2> HIDE DEF m
  <2> QED BY <2>1, SubSeqProperties
<1> HIDE DEF front, back
<1>6. m \in Nat /\ m >= 1 /\ m <= Len(list) + 2
  BY <1>1
<1>7. /\ front \o <<p>> \in Seq(Server) /\ Len(front \o <<p>>) = n
      /\ \A i \in 1..n : (front \o <<p>>)[i] = IF i < n THEN list[i] ELSE p
  <2>1. <<p>> \in Seq(Server) /\ Len(<<p>>) = 1 /\ <<p>>[1] = p
    OBVIOUS
  <2>2. /\ front \o <<p>> \in Seq(Server) /\ Len(front \o <<p>>) = Len(front) + 1
        /\ \A i \in 1..(Len(front) + 1) :
             (front \o <<p>>)[i] = IF i <= Len(front) THEN front[i] ELSE <<p>>[i - Len(front)]
    BY <1>4, <2>1, ConcatProperties
  <2>3. Len(front) = n - 1 /\ n \in Nat /\ n >= 1
    BY <1>1, <1>4
  <2> DEFINE joined == front \o <<p>>
  <2>4. \A i \in 1..n : joined[i] = IF i < n THEN list[i] ELSE p
    <3> SUFFICES ASSUME NEW i \in 1..n
                 PROVE  joined[i] = IF i < n THEN list[i] ELSE p
      OBVIOUS
    <3>1. joined[i] = IF i <= n - 1 THEN front[i] ELSE <<p>>[i - (n - 1)]
      BY <2>2, <2>3
    <3> HIDE DEF joined
    <3>2. CASE i < n
      <4>1. i \in 1..(n - 1) /\ i <= n - 1
        BY <2>3, <3>2
      <4> QED BY <1>4, <3>1, <3>2, <4>1
    <3>3. CASE ~(i < n)
      <4>1. i = n /\ ~(i <= n - 1) /\ i - (n - 1) = 1
        BY <2>3, <3>3
      <4> QED BY <2>1, <3>1, <3>3, <4>1
    <3> QED BY <3>2, <3>3
  <2>5. joined \in Seq(Server) /\ Len(joined) = n
    BY <2>2, <2>3
  <2> QED BY <2>4, <2>5
<1> DEFINE upto == front \o <<p>>
<1> HIDE DEF upto
<1>8. /\ Len(upto \o back) = n + Len(back)
      /\ \A i \in 1..(n + Len(back)) :
           (upto \o back)[i] = IF i <= n THEN upto[i] ELSE back[i - n]
  <2>1. upto \in Seq(Server) /\ Len(upto) = n
    BY <1>7 DEF upto
  <2> QED BY <1>5, <2>1, ConcatProperties
<1>9. new = upto \o back /\ Len(back) \in Nat
  BY <1>5 DEF upto
<1> HIDE DEF new
<1>10. /\ Len(new) \in Nat /\ n \in 1..Len(new)
       /\ new[n] = p
  <2>1. Len(new) = n + Len(back) /\ n \in Nat /\ n >= 1
    BY <1>1, <1>8, <1>9
  <2>2. n \in 1..(n + Len(back)) /\ n \in 1..n /\ ~(n < n)
    BY <1>9, <2>1
  <2>3. new[n] = upto[n]
    BY <1>8, <1>9, <2>2
  <2>4. upto[n] = p
    BY <1>7, <2>2 DEF upto
  <2> QED BY <1>9, <2>1, <2>2, <2>3, <2>4
<1>11. ASSUME NEW k \in 1..Len(new), k < n
       PROVE  k \in 1..Len(list) /\ new[k] = list[k]
  <2>1. k \in 1..n /\ k \in 1..(n + Len(back)) /\ k <= n
    BY <1>1, <1>8, <1>9, <1>11
  <2>2. new[k] = upto[k]
    BY <1>8, <1>9, <2>1
  <2>3. upto[k] = list[k]
    BY <1>7, <1>11, <2>1 DEF upto
  <2> QED BY <1>1, <1>11, <2>1, <2>2, <2>3
<1>12. ASSUME NEW k \in 1..Len(new), k > n
       PROVE  k - n \in 1..(Len(list) - m + 1) /\ new[k] = list[m + (k - n) - 1]
  <2>1. k \in 1..(n + Len(back)) /\ ~(k <= n) /\ k - n \in 1..Len(back)
    BY <1>1, <1>8, <1>9, <1>12
  <2>2. new[k] = back[k - n]
    BY <1>8, <1>9, <2>1
  <2>3. Len(back) = Len(list) - m + 1
    <3>1. Len(back) >= 1
      BY <1>1, <1>9, <2>1
    <3> HIDE DEF m
    <3> QED BY <1>5, <3>1
  <2> QED BY <1>5, <2>1, <2>2, <2>3
<1>13. ASSUME NEW k \in 1..Len(new), k > n, n = 1
       PROVE  k - 1 \in 1..Len(list) /\ new[k] = list[k - 1]
  BY <1>1, <1>9, <1>12, <1>13
<1>14. ASSUME NEW k \in 1..Len(new), k > n, n # 1
       PROVE  k \in 1..Len(list) /\ new[k] = list[k]
  <2>1. k - n \in 1..(Len(list) - m + 1) /\ new[k] = list[m + (k - n) - 1]
    BY <1>12, <1>14
  <2>2. m = n + 1 /\ k \in Nat
    BY <1>14, <1>10
  <2> QED BY <1>1, <2>1, <2>2
<1>15. Len(list) <= Len(new) /\ (n = 1 => Len(new) = Len(list) + 1)
  <2>1. Len(new) = n + Len(back)
    BY <1>8, <1>9
  <2>2. m <= Len(list) => Len(back) = Len(list) - m + 1
    BY <1>5
  <2>3. Len(back) \in Nat /\ Len(list) \in Nat /\ n \in Nat /\ n <= Len(list) + 1
    BY <1>1, <1>9
  <2>4. (n = 1 => m = 1) /\ (n # 1 => m = n + 1) /\ (n = 1 /\ Len(list) = 0 => Len(back) = 0)
    BY <1>5
  <2> HIDE DEF m
  <2> QED BY <2>1, <2>2, <2>3, <2>4
<1> QED BY <1>1, <1>3, <1>10, <1>11, <1>13, <1>14, <1>15 DEF n, new

\* In front of the place are the servers p belongs behind, and p belongs before the
\* server at the place.
LEMMA PlaceOfPing ==
  ASSUME NEW list \in Seq(Server), NEW p \in Server
  PROVE  LET n == InsertPlace(list, p)
         IN  /\ \A k \in 1..Len(list) : k < n => list[k].ping <= p.ping
             /\ n \in 1..Len(list) => p.ping <= list[n].ping
<1> DEFINE n == InsertPlace(list, p)
<1>1. n \in 1..(Len(list) + 1) /\ Len(list) \in Nat
  BY InsertPlaceType
<1>2. Passed(list, p) = 1..(n - 1)
  BY PassedIsPrefix
<1>3. \A k \in 1..Len(list) : list[k] \in Server
  OBVIOUS
<1>4. p.ping \in Nat /\ \A k \in 1..Len(list) : list[k].ping \in Nat
  BY <1>3, ServersAssumption DEF Server
<1> HIDE DEF n
<1>5. ASSUME NEW k \in 1..Len(list), k < n PROVE list[k].ping <= p.ping
  <2>1. k \in Passed(list, p)
    BY <1>1, <1>2, <1>5
  <2>2. ~CompareServers(p, list[k])
    BY <2>1 DEF Passed
  <2> QED BY <1>4, <2>2 DEF CompareServers
<1>6. ASSUME n \in 1..Len(list) PROVE p.ping <= list[n].ping
  <2>1. n \notin Passed(list, p) /\ \A k \in 1..(n - 1) : k \in Passed(list, p)
    BY <1>1, <1>2
  <2>2. PICK k \in 1..n : CompareServers(p, list[k])
    BY <1>6, <2>1 DEF Passed
  <2>3. \A j \in 1..(n - 1) : ~CompareServers(p, list[j])
    <3> TAKE j \in 1..(n - 1)
    <3>1. j \in Passed(list, p) /\ j \in 1..j
      BY <1>1, <2>1
    <3> QED BY <3>1 DEF Passed
  <2>4. k = n
    BY <1>1, <2>2, <2>3
  <2> QED BY <1>4, <1>6, <2>2, <2>4 DEF CompareServers
<1> QED BY <1>5, <1>6 DEF n

\* AddServer keeps the order, although it drops a server.
LEMMA InsertedInOrder ==
  ASSUME NEW list \in Seq(Server), NEW p \in Server, InPingOrder(list)
  PROVE  InPingOrder(Inserted(list, p))
<1> DEFINE n == InsertPlace(list, p)
           new == Inserted(list, p)
<1>1. /\ n \in 1..(Len(list) + 1) /\ Len(list) \in Nat /\ Len(new) \in Nat
      /\ n \in 1..Len(new)
      /\ new[n] = p
      /\ \A k \in 1..Len(new) : k < n => k \in 1..Len(list) /\ new[k] = list[k]
      /\ \A k \in 1..Len(new) : (k > n /\ n = 1) =>
           k - 1 \in 1..Len(list) /\ new[k] = list[k - 1]
      /\ \A k \in 1..Len(new) : (k > n /\ n # 1) => k \in 1..Len(list) /\ new[k] = list[k]
  BY InsertedIs
<1>2. /\ \A k \in 1..Len(list) : k < n => list[k].ping <= p.ping
      /\ n \in 1..Len(list) => p.ping <= list[n].ping
  BY PlaceOfPing
<1>3. p.ping \in Nat /\ \A k \in 1..Len(list) : list[k].ping \in Nat
  <2>1. \A k \in 1..Len(list) : list[k] \in Server
    OBVIOUS
  <2> QED BY <2>1, ServersAssumption DEF Server
<1>4. \A i, j \in 1..Len(list) : i < j => list[i].ping <= list[j].ping
  BY DEF InPingOrder
<1> HIDE DEF n, new
<1>5. ASSUME NEW k \in 1..Len(new), k > n PROVE p.ping <= new[k].ping
  <2>1. CASE n = 1
    <3>1. k - 1 \in 1..Len(list) /\ new[k] = list[k - 1] /\ n \in 1..Len(list)
      BY <1>1, <1>5, <2>1
    <3>2. list[n].ping <= list[k - 1].ping
      BY <1>3, <1>4, <2>1, <3>1
    <3> QED BY <1>2, <1>3, <3>1, <3>2
  <2>2. CASE n # 1
    <3>1. k \in 1..Len(list) /\ new[k] = list[k] /\ n \in 1..Len(list)
      BY <1>1, <1>5, <2>2
    <3> QED BY <1>2, <1>3, <1>4, <1>5, <3>1
  <2> QED BY <2>1, <2>2
<1>6. ASSUME NEW k \in 1..Len(new), k < n PROVE new[k].ping <= p.ping
  BY <1>1, <1>2, <1>6
<1>7. ASSUME NEW k \in 1..Len(new) PROVE new[k].ping \in Nat
  BY <1>1, <1>3
<1>8. ASSUME NEW i \in 1..Len(new), NEW j \in 1..Len(new), i < j
      PROVE  new[i].ping <= new[j].ping
  <2>1. CASE i <= n /\ j >= n
    <3>1. new[i].ping <= p.ping
      BY <1>1, <1>3, <1>6, <2>1
    <3>2. p.ping <= new[j].ping
      BY <1>1, <1>3, <1>5, <2>1
    <3> QED BY <1>3, <1>7, <3>1, <3>2
  <2>2. CASE j < n
    BY <1>1, <1>4, <1>8, <2>2
  <2>3. CASE i > n /\ n = 1
    <3>1. /\ i - 1 \in 1..Len(list) /\ j - 1 \in 1..Len(list) /\ i - 1 < j - 1
          /\ new[i] = list[i - 1] /\ new[j] = list[j - 1]
      BY <1>1, <1>8, <2>3
    <3> QED BY <1>4, <3>1
  <2>4. CASE i > n /\ n # 1
    BY <1>1, <1>4, <1>8, <2>4
  <2> QED BY <1>1, <2>1, <2>2, <2>3, <2>4
<1> QED BY <1>8 DEF InPingOrder, new


\* What a step may do to the list shown.
LEMMA ListShown ==
  ASSUME [Next]_vars
  PROVE  \/ UNCHANGED <<m_pServers, g_fieldname, answered>>
         \/ m_pServers' = <<>> /\ answered' = {} /\ UNCHANGED g_fieldname
         \/ \E fieldname \in Columns : SortServers(fieldname)
         \/ \E a \in Addresses, ping \in Pings :
              AddServer([remote_address |-> a, ping |-> ping]) /\ UNCHANGED g_fieldname
<1>1. ASSUME NEW resolves \in Resolves, DoRefresh(resolves)
      PROVE  \/ UNCHANGED <<m_pServers, g_fieldname, answered>>
             \/ m_pServers' = <<>> /\ answered' = {} /\ UNCHANGED g_fieldname
  BY <1>1 DEF DoRefresh, RequestList, ClearLists, browser, history
<1>2. CASE DoBroadcastRefresh
  BY <1>2 DEF DoBroadcastRefresh, ClearLists
<1>3. CASE DoStop \/ Think \/ ListAnswer \/ UNCHANGED vars
  BY <1>3 DEF DoStop, Think, ListAnswer, ListTimeout, ListResponse, browser, history, vars
<1>4. ASSUME NEW e \in Entries, Answer(e)
      PROVE  \/ UNCHANGED <<m_pServers, g_fieldname, answered>>
             \/ \E a \in Addresses, ping \in Pings :
                  AddServer([remote_address |-> a, ping |-> ping]) /\ UNCHANGED g_fieldname
  <2>1. AddressOf[e] \in Addresses
    BY DEF Addresses
  <2> QED BY <1>4, <2>1 DEF Answer, ServerTimeout, ServerResponse, browser, history
<1>5. ASSUME NEW s \in Lan, LanAnswer(s)
      PROVE  \/ UNCHANGED <<m_pServers, g_fieldname, answered>>
             \/ \E a \in Addresses, ping \in Pings :
                  AddServer([remote_address |-> a, ping |-> ping]) /\ UNCHANGED g_fieldname
  BY <1>5 DEF LanAnswer, LanTimeout, LanResponse, browser, history, Addresses
<1> QED BY <1>1, <1>2, <1>3, <1>4, <1>5 DEF Next

\* f says where each server of the sorted list was.
Permutes(f, list, sorted) ==
  /\ f \in [1..Len(list) -> 1..Len(list)]
  /\ \A n \in 1..Len(list) : sorted[n] = list[f[n]]
  /\ \A n, k \in 1..Len(list) : f[n] = f[k] => n = k
  /\ \A k \in 1..Len(list) : \E n \in 1..Len(list) : f[n] = k

\* Sorting permutes the list: qsort puts every server somewhere.
LEMMA RearrangedAll ==
  ASSUME NEW list \in Seq(Server), NEW sorted \in Rearranged(list)
  PROVE  Len(sorted) = Len(list) /\ \E f : Permutes(f, list, sorted)
<1> DEFINE places == 1..Len(list)
<1>1. PICK f \in [places -> places] :
        /\ sorted = [n \in places |-> list[f[n]]]
        /\ \A n, k \in places : f[n] = f[k] => n = k
  BY DEF Rearranged
<1>2. Len(list) \in Nat /\ Len(sorted) = Len(list)
  BY <1>1
<1>3. IsFiniteSet(places)
  BY <1>2, FS_Interval
<1>4. \A n \in places : sorted[n] = list[f[n]]
  BY <1>1
<1> HIDE DEF places
<1>5. f \in Injection(places, places)
  BY <1>1 DEF Injection, IsInjective
<1>6. f \in Surjection(places, places)
  BY <1>3, <1>5, FS_Injection
<1>7. \A k \in places : \E n \in places : f[n] = k
  BY <1>6 DEF Surjection
<1>8. Permutes(f, list, sorted)
  BY <1>1, <1>4, <1>7 DEF places, Permutes
<1> QED BY <1>2, <1>8

-----------------------------------------------------------------------------
(* The order of the pings. *)

\* Until the user sorts by another column than the ping, the list shown is in the order
\* of the pings (AddServer, and the qsort of SortServers).
THEOREM PingsInOrder == Spec => []PingOrder
<1>0. InPingOrder(<<>>) /\ \A list : Len(list) = 0 => InPingOrder(list)
  BY DEF InPingOrder
<1>1. Init => PingOrder
  BY <1>0, Zenon DEF Init, PingOrder
<1>2. ASSUME ServersInv, PingOrder, [Next]_vars PROVE PingOrder'
  <2>0. m_pServers \in Seq(Server)
    BY <1>2 DEF ServersInv, ServersTypeOK
  <2>1. CASE UNCHANGED <<m_pServers, g_fieldname, answered>>
    BY <1>2, <2>1 DEF PingOrder
  <2>2. CASE m_pServers' = <<>>
    BY <1>0, <2>2, Zenon DEF PingOrder
  <2>3. ASSUME NEW fieldname \in Columns, SortServers(fieldname) PROVE PingOrder'
    <3>1. CASE m_pServers = <<>>
      <4>1. Len(m_pServers) = 0 /\ m_pServers' \in Rearranged(m_pServers)
        BY <2>3, <3>1 DEF SortServers
      <4>2. Len(m_pServers') = 0
        BY <2>0, <4>1, RearrangedAll
      <4> QED BY <1>0, <4>2, Zenon DEF PingOrder
    <3>2. CASE m_pServers # <<>>
      <4>1. /\ g_fieldname' = fieldname /\ fieldname # ""
            /\ fieldname = "ping" => InPingOrder(m_pServers')
        BY <2>3, <3>2, ColumnsAssumption DEF SortServers
      <4> QED BY <4>1 DEF PingOrder
    <3> QED BY <3>1, <3>2
  <2>4. ASSUME NEW a \in Addresses, NEW ping \in Pings, UNCHANGED g_fieldname,
               AddServer([remote_address |-> a, ping |-> ping])
        PROVE  PingOrder'
    <3> DEFINE p == [remote_address |-> a, ping |-> ping]
    <3>1. p \in Server
      BY DEF Server
    <3>2. m_pServers' = Inserted(m_pServers, p)
      BY <2>4 DEF AddServer
    <3> HIDE DEF p
    <3>3. InPingOrder(m_pServers) => InPingOrder(Inserted(m_pServers, p))
      BY <2>0, <3>1, InsertedInOrder
    <3> QED BY <1>2, <2>4, <3>2, <3>3 DEF PingOrder
  <2> QED BY <1>2, <2>1, <2>2, <2>3, <2>4, ListShown
<1> QED BY <1>1, <1>2, ServersInvHolds, PTL DEF Spec

-----------------------------------------------------------------------------
(* The fastest server. *)

\* AddServer leaves every server, or one as fast, in the list, in whatever order it is.
LEMMA InsertedAsFast ==
  ASSUME NEW list \in Seq(Server), NEW p \in Server, NEW k \in 1..Len(list)
  PROVE  \E n \in 1..Len(Inserted(list, p)) : Inserted(list, p)[n].ping <= list[k].ping
<1> DEFINE n == InsertPlace(list, p)
           new == Inserted(list, p)
<1>1. /\ n \in 1..(Len(list) + 1) /\ Len(list) \in Nat /\ Len(new) \in Nat
      /\ Len(list) <= Len(new) /\ (n = 1 => Len(new) = Len(list) + 1)
      /\ n \in 1..Len(new)
      /\ new[n] = p
      /\ \A i \in 1..Len(new) : i < n => i \in 1..Len(list) /\ new[i] = list[i]
      /\ \A i \in 1..Len(new) : (i > n /\ n = 1) =>
           i - 1 \in 1..Len(list) /\ new[i] = list[i - 1]
      /\ \A i \in 1..Len(new) : (i > n /\ n # 1) => i \in 1..Len(list) /\ new[i] = list[i]
  BY InsertedIs
<1>2. n \in 1..Len(list) => p.ping <= list[n].ping
  BY PlaceOfPing
<1>3. list[k].ping \in Nat
  <2>1. list[k] \in Server
    OBVIOUS
  <2> QED BY <2>1, ServersAssumption DEF Server
<1> HIDE DEF n, new
<1>4. CASE n = 1
  <2>1. k + 1 \in 1..Len(new) /\ k + 1 > n /\ (k + 1) - 1 = k
    BY <1>1, <1>4
  <2>2. new[k + 1] = list[k]
    BY <1>1, <1>4, <2>1
  <2> QED BY <1>3, <2>1, <2>2 DEF new
<1>5. CASE n # 1 /\ k # n
  <2>1. k \in 1..Len(new) /\ (k < n \/ k > n)
    BY <1>1, <1>5
  <2>2. new[k] = list[k]
    BY <1>1, <1>5, <2>1
  <2> QED BY <1>3, <2>1, <2>2 DEF new
<1>6. CASE k = n
  BY <1>1, <1>2, <1>6 DEF new
<1> QED BY <1>4, <1>5, <1>6

\* Whatever the list is sorted by and whichever servers AddServer drops, it shows one as
\* fast as any that has answered since it was cleared.
THEOREM FastestStaysShown == Spec => []FastestIsShown
<1>1. Init => FastestIsShown
  BY Zenon DEF Init, FastestIsShown
<1>2. ASSUME ServersInv, FastestIsShown, [Next]_vars PROVE FastestIsShown'
  <2>0. /\ m_pServers \in Seq(Server) /\ m_pServers' \in Seq(Server)
        /\ answered \in SUBSET Pings /\ Pings \subseteq Nat
    BY <1>2, ServersNext, ServersAssumption DEF ServersInv, ServersTypeOK
  <2>1. /\ DOMAIN m_pServers = 1..Len(m_pServers)
        /\ DOMAIN m_pServers' = 1..Len(m_pServers')
        /\ \A n \in 1..Len(m_pServers') : m_pServers'[n] \in Server
    BY <2>0
  <2>2. CASE UNCHANGED <<m_pServers, g_fieldname, answered>>
    BY <1>2, <2>2 DEF FastestIsShown
  <2>3. CASE answered' = {}
    BY <2>3 DEF FastestIsShown
  <2>4. ASSUME NEW fieldname \in Columns, SortServers(fieldname) PROVE FastestIsShown'
    <3>1. m_pServers' \in Rearranged(m_pServers) /\ answered' = answered
      BY <2>4 DEF SortServers, history
    <3>2. PICK f : Permutes(f, m_pServers, m_pServers')
      BY <2>0, <3>1, RearrangedAll
    <3>3. Len(m_pServers') = Len(m_pServers)
      BY <2>0, <3>1, RearrangedAll
    <3> SUFFICES ASSUME NEW ping \in answered
                 PROVE  \E n \in 1..Len(m_pServers) : m_pServers'[n].ping <= ping
      BY <2>1, <3>1, <3>3 DEF FastestIsShown
    <3>4. PICK k \in 1..Len(m_pServers) : m_pServers[k].ping <= ping
      BY <1>2, <2>1 DEF FastestIsShown
    <3>5. PICK n \in 1..Len(m_pServers) : f[n] = k
      BY <3>2 DEF Permutes
    <3> QED BY <3>2, <3>4, <3>5 DEF Permutes
  <2>5. ASSUME NEW a \in Addresses, NEW fast \in Pings,
               AddServer([remote_address |-> a, ping |-> fast])
        PROVE  FastestIsShown'
    <3> DEFINE p == [remote_address |-> a, ping |-> fast]
               new == Inserted(m_pServers, p)
    <3>1. p \in Server /\ p.ping = fast
      BY DEF Server
    <3>2. m_pServers' = new /\ answered' = answered \cup {fast}
      BY <2>5 DEF AddServer
    <3> HIDE DEF p
    <3>3. InsertPlace(m_pServers, p) \in 1..Len(new) /\ new[InsertPlace(m_pServers, p)] = p
      BY <2>0, <3>1, InsertedIs
    <3>4. \A k \in 1..Len(m_pServers) : \E n \in 1..Len(new) : new[n].ping <= m_pServers[k].ping
      BY <2>0, <3>1, InsertedAsFast
    <3>5. \A n \in 1..Len(new) : new[n].ping \in Nat
      <4>1. \A n \in 1..Len(new) : new[n] \in Server
        BY <2>1, <3>2
      <4> QED BY <4>1, ServersAssumption DEF Server
    <3>6. \A k \in 1..Len(m_pServers) : m_pServers[k].ping \in Nat
      <4>1. \A k \in 1..Len(m_pServers) : m_pServers[k] \in Server
        BY <2>0
      <4> QED BY <4>1, ServersAssumption DEF Server
    <3> HIDE DEF new
    <3> SUFFICES ASSUME NEW ping \in answered \cup {fast}
                 PROVE  \E n \in 1..Len(new) : new[n].ping <= ping
      BY <2>1, <3>2 DEF FastestIsShown
    <3>7. ping \in Nat
      BY <2>0
    <3>8. CASE ping = fast
      BY <3>1, <3>3, <3>7, <3>8
    <3>9. CASE ping \in answered
      <4>1. PICK k \in 1..Len(m_pServers) : m_pServers[k].ping <= ping
        BY <1>2, <2>1, <3>9 DEF FastestIsShown
      <4>2. PICK n \in 1..Len(new) : new[n].ping <= m_pServers[k].ping
        BY <3>4
      <4> QED BY <3>5, <3>6, <3>7, <4>1, <4>2
    <3> QED BY <3>8, <3>9
  <2> QED BY <1>2, <2>2, <2>3, <2>4, <2>5, ListShown
<1> QED BY <1>1, <1>2, ServersInvHolds, PTL DEF Spec

-----------------------------------------------------------------------------
(* How often an address is shown. *)

Places(list, a) == {n \in 1..Len(list) : list[n].remote_address = a}

LEMMA PlacesFinite ==
  ASSUME NEW list \in Seq(Server), NEW a
  PROVE  IsFiniteSet(Places(list, a)) /\ Cardinality(Places(list, a)) \in Nat
<1>1. Len(list) \in Nat /\ Places(list, a) \in SUBSET (1..Len(list))
  BY DEF Places
<1>2. IsFiniteSet(1..Len(list))
  BY <1>1, FS_Interval
<1>3. IsFiniteSet(Places(list, a))
  BY <1>1, <1>2, FS_Subset
<1> QED BY <1>3, FS_CardinalityType

\* An answer adds one place at most, and only for its own address.
LEMMA InsertedPlaces ==
  ASSUME NEW list \in Seq(Server), NEW p \in Server, NEW a
  PROVE  Cardinality(Places(Inserted(list, p), a)) <=
           Cardinality(Places(list, a)) + (IF p.remote_address = a THEN 1 ELSE 0)
<1> DEFINE n == InsertPlace(list, p)
           new == Inserted(list, p)
           old == Places(list, a)
           kept == Places(new, a) \ {n}
           Old(k) == IF k > n /\ n = 1 THEN k - 1 ELSE k
           f == [k \in kept |-> Old(k)]
<1>1. /\ n \in 1..(Len(list) + 1) /\ Len(list) \in Nat /\ Len(new) \in Nat
      /\ n \in 1..Len(new)
      /\ new[n] = p
      /\ \A k \in 1..Len(new) : k < n => k \in 1..Len(list) /\ new[k] = list[k]
      /\ \A k \in 1..Len(new) : (k > n /\ n = 1) =>
           k - 1 \in 1..Len(list) /\ new[k] = list[k - 1]
      /\ \A k \in 1..Len(new) : (k > n /\ n # 1) => k \in 1..Len(list) /\ new[k] = list[k]
  BY InsertedIs
<1>2. new \in Seq(Server)
  BY InsertedType
<1>3. /\ IsFiniteSet(old) /\ Cardinality(old) \in Nat
      /\ IsFiniteSet(Places(new, a)) /\ Cardinality(Places(new, a)) \in Nat
  BY <1>2, PlacesFinite
<1> HIDE DEF n, new
<1>4. \A k \in kept : k \in 1..Len(new) /\ k # n /\ new[k].remote_address = a
  BY DEF Places
<1>5. \A k \in kept : Old(k) \in 1..Len(list) /\ new[k] = list[Old(k)]
  BY <1>1, <1>4
<1>6. \A i, j \in kept : Old(i) = Old(j) => i = j
  BY <1>1, <1>4
<1> HIDE DEF Old
<1>7. \A k \in kept : Old(k) \in old
  BY <1>4, <1>5 DEF Places
<1> HIDE DEF kept, old
<1>8. f \in Injection(kept, old)
  BY <1>6, <1>7 DEF Injection, IsInjective
<1> HIDE DEF f
<1>9. IsFiniteSet(kept) /\ Cardinality(kept) <= Cardinality(old)
  BY <1>3, <1>8, FS_Injection
<1>10. Cardinality(kept) = IF n \in Places(new, a) THEN Cardinality(Places(new, a)) - 1
                           ELSE Cardinality(Places(new, a))
  BY <1>3, FS_RemoveElement DEF kept
<1>11. n \in Places(new, a) <=> p.remote_address = a
  BY <1>1 DEF Places
<1>12. Cardinality(Places(new, a)) <=
         Cardinality(old) + (IF p.remote_address = a THEN 1 ELSE 0)
  BY <1>3, <1>9, <1>10, <1>11
<1> QED BY <1>12 DEF new, old

\* Sorting adds none.
LEMMA RearrangedPlaces ==
  ASSUME NEW list \in Seq(Server), NEW sorted \in Rearranged(list), NEW a
  PROVE  Cardinality(Places(sorted, a)) <= Cardinality(Places(list, a))
<1> DEFINE new == Places(sorted, a)
           old == Places(list, a)
<1>1. PICK g : Permutes(g, list, sorted)
  BY RearrangedAll
<1>2. Len(sorted) = Len(list)
  BY RearrangedAll
<1>3. IsFiniteSet(old)
  BY PlacesFinite
<1> DEFINE f == [k \in new |-> g[k]]
<1>4. \A k \in new : k \in 1..Len(list) /\ g[k] \in 1..Len(list) /\ g[k] \in old
  BY <1>1, <1>2 DEF Permutes, Places
<1>5. \A i, j \in new : g[i] = g[j] => i = j
  BY <1>1, <1>4 DEF Permutes
<1> HIDE DEF new, old
<1>6. f \in Injection(new, old)
  BY <1>4, <1>5 DEF Injection, IsInjective
<1> HIDE DEF f
<1>7. Cardinality(new) <= Cardinality(old)
  BY <1>3, <1>6, FS_Injection
<1> QED BY <1>7 DEF new, old

\* Of the entries that name an address, some are shown, some are still to answer.
ToAnswer == m_pServerList \cup detailRequests

Balanced(a) ==
  Cardinality(Places(m_pServers, a)) + Cardinality(Naming(a, ToAnswer))
    <= Cardinality(Naming(a, listed))

\* Nothing has been listed while the list is awaited.
ListedInv ==
  /\ listRequest => listed = {}
  /\ \A a \in Addresses \ Lan : Balanced(a)

LEMMA NamingFinite ==
  ASSUME NEW S \in SUBSET Entries, NEW a
  PROVE  IsFiniteSet(Naming(a, S)) /\ Cardinality(Naming(a, S)) \in Nat
<1>1. Naming(a, S) \in SUBSET Entries
  BY DEF Naming
<1> QED BY <1>1, EntriesFinite

\* Fewer entries to answer keep the balance, and so do fewer places.
LEMMA BalanceKept ==
  ASSUME ServersInv, NEW a, Balanced(a), UNCHANGED listed,
         ToAnswer' \subseteq ToAnswer,
         m_pServers' \in Seq(Server),
         Cardinality(Places(m_pServers', a)) <= Cardinality(Places(m_pServers, a))
  PROVE  Balanced(a)'
<1> DEFINE before == Naming(a, ToAnswer)
           after == Naming(a, ToAnswer')
<1>1. ToAnswer \in SUBSET Entries /\ listed \in SUBSET Entries /\ m_pServers \in Seq(Server)
  BY DEF ServersInv, ServersTypeOK, ToAnswer
<1>2. /\ IsFiniteSet(before) /\ Cardinality(before) \in Nat
      /\ Cardinality(Naming(a, listed)) \in Nat
  BY <1>1, NamingFinite
<1>3. after \in SUBSET before
  BY DEF Naming
<1>4. /\ Cardinality(Places(m_pServers, a)) \in Nat
      /\ Cardinality(Places(m_pServers', a)) \in Nat
  BY <1>1, PlacesFinite
<1> HIDE DEF before, after
<1>5. IsFiniteSet(after) /\ Cardinality(after) <= Cardinality(before)
  BY <1>2, <1>3, FS_Subset
<1>6. Cardinality(after) \in Nat
  BY <1>5, FS_CardinalityType
<1>7. Cardinality(Places(m_pServers, a)) + Cardinality(before) <= Cardinality(Naming(a, listed))
  BY DEF Balanced, before
<1>8. Cardinality(Places(m_pServers', a)) + Cardinality(after) <= Cardinality(Naming(a, listed))
  BY <1>2, <1>4, <1>5, <1>6, <1>7
<1>9. Naming(a, listed)' = Naming(a, listed) /\ Naming(a, ToAnswer)' = after
  BY DEF Naming, after
<1> QED BY <1>8, <1>9 DEF Balanced, Places

\* A search that begins starts from an empty list.
LEMMA ClearedBalance ==
  ASSUME m_pServers' = <<>>, ToAnswer' = {}, listed' = {}, NEW a
  PROVE  Balanced(a)'
<1>1. Len(<<>>) = 0
  OBVIOUS
<1>2. Places(m_pServers, a)' = {}
  <2>1. Len(m_pServers') = 0
    BY <1>1, Zenon
  <2> QED BY <2>1 DEF Places
<1>3. Naming(a, ToAnswer)' = {}
  BY DEF Naming
<1>4. Naming(a, listed)' = {}
  BY DEF Naming
<1>5. /\ Cardinality(Places(m_pServers, a)') = 0
      /\ Cardinality(Naming(a, ToAnswer)') = 0
      /\ Cardinality(Naming(a, listed)') = 0
  BY <1>2, <1>3, <1>4, FS_EmptySet, Zenon
<1> QED BY <1>5 DEF Balanced

LEMMA ListedStep ==
  ASSUME ServersInv, ServersInv', ListedInv, [Next]_vars
  PROVE  ListedInv'
<1>1. /\ m_pServers \in Seq(Server) /\ m_pServers' \in Seq(Server)
      /\ detailRequests \subseteq m_pActiveList /\ m_pServerList \cap m_pActiveList = {}
      /\ listRequest => m_pServerList = {} /\ m_pActiveList = {}
      /\ ToAnswer \in SUBSET Entries
  BY DEF ServersInv, ServersTypeOK, ToAnswer
<1>2. \A a : Cardinality(Places(m_pServers, a)) \in Nat
  BY <1>1, PlacesFinite
<1>3. ASSUME UNCHANGED <<listed, m_pServers>>, ToAnswer' \subseteq ToAnswer,
             listRequest' => listRequest
      PROVE  ListedInv'
  <2>1. ASSUME NEW a \in Addresses \ Lan PROVE Balanced(a)'
    <3>1. Cardinality(Places(m_pServers', a)) <= Cardinality(Places(m_pServers, a))
      BY <1>2, <1>3
    <3> QED BY <1>1, <1>3, <3>1, BalanceKept DEF ListedInv
  <2> QED BY <1>3, <2>1 DEF ListedInv
<1>4. ASSUME ClearLists, detailRequests' = {} PROVE ListedInv'
  <2>1. m_pServers' = <<>> /\ ToAnswer' = {} /\ listed' = {}
    BY <1>4 DEF ClearLists, ToAnswer
  <2> QED BY <2>1, ClearedBalance DEF ListedInv
<1>5. ASSUME NEW resolves \in Resolves, DoRefresh(resolves) PROVE ListedInv'
  <2>1. CASE resolves
    BY <1>4, <1>5, <2>1 DEF DoRefresh, RequestList
  <2>2. CASE ~resolves
    BY <1>3, <1>5, <2>2 DEF DoRefresh, browser, history, ToAnswer
  <2> QED BY <2>1, <2>2
<1>6. CASE DoBroadcastRefresh
  BY <1>4, <1>6 DEF DoBroadcastRefresh, CancelAllRequests
<1>7. CASE DoStop
  BY <1>3, <1>7 DEF DoStop, CancelAllRequests, lists, browser, history, ToAnswer
<1>8. ASSUME NEW fieldname \in Columns, SortServers(fieldname) PROVE ListedInv'
  <2>1. /\ UNCHANGED <<listed, listRequest>> /\ ToAnswer' = ToAnswer
        /\ m_pServers' \in Rearranged(m_pServers)
    BY <1>8 DEF SortServers, lists, network, history, ToAnswer
  <2>2. ASSUME NEW a \in Addresses \ Lan PROVE Balanced(a)'
    <3>1. Cardinality(Places(m_pServers', a)) <= Cardinality(Places(m_pServers, a))
      BY <1>1, <2>1, RearrangedPlaces
    <3> QED BY <1>1, <2>1, <3>1, BalanceKept DEF ListedInv
  <2> QED BY <2>1, <2>2 DEF ListedInv
<1>9. CASE Think
  BY <1>3, <1>9 DEF Think, Batches, browser, history, ToAnswer
<1>10. CASE ListTimeout
  BY <1>3, <1>10 DEF ListTimeout, lists, browser, history, ToAnswer
<1>11. ASSUME NEW got \in SUBSET Entries, ListResponse(got) PROVE ListedInv'
  <2>1. /\ listRequest /\ listRequest' = FALSE /\ listed = {} /\ listed' = got
        /\ ToAnswer = {} /\ ToAnswer' = got /\ m_pServers' = m_pServers
    BY <1>1, <1>11 DEF ListResponse, browser, ListedInv, ToAnswer
  <2>2. ASSUME NEW a \in Addresses \ Lan PROVE Balanced(a)'
    <3>1. Naming(a, listed) = {} /\ Naming(a, ToAnswer) = {}
      BY <2>1 DEF Naming
    <3>2. Cardinality(Places(m_pServers, a)) = 0
      BY <1>2, <3>1, FS_EmptySet DEF ListedInv, Balanced
    <3>3. Cardinality(Naming(a, got)) \in Nat
      BY NamingFinite
    <3>4. /\ Places(m_pServers, a)' = Places(m_pServers, a)
          /\ Naming(a, ToAnswer)' = Naming(a, got)
          /\ Naming(a, listed)' = Naming(a, got)
      BY <2>1 DEF Places, Naming
    <3> QED BY <3>2, <3>3, <3>4 DEF Balanced
  <2> QED BY <2>1, <2>2 DEF ListedInv
<1>12. ASSUME NEW e \in Entries, Answer(e) PROVE ListedInv'
  <2>1. /\ e \in detailRequests /\ ToAnswer' = ToAnswer \ {e} /\ e \in ToAnswer
        /\ UNCHANGED <<listed, listRequest>>
    BY <1>1, <1>12 DEF Answer, ServerTimeout, ServerResponse, history, ToAnswer
  <2>2. CASE ServerTimeout(e)
    BY <1>3, <2>1, <2>2 DEF ServerTimeout, browser
  <2>3. ASSUME NEW ping \in Pings, ServerResponse(e, ping) PROVE ListedInv'
    <3> DEFINE p == [remote_address |-> AddressOf[e], ping |-> ping]
    <3>1. p \in Server /\ p.remote_address = AddressOf[e]
      BY DEF Server, Addresses
    <3>2. m_pServers' = Inserted(m_pServers, p)
      BY <2>3 DEF ServerResponse, AddServer
    <3> HIDE DEF p
    <3>3. ASSUME NEW a \in Addresses \ Lan PROVE Balanced(a)'
      <4>1. Cardinality(Places(m_pServers', a)) <=
              Cardinality(Places(m_pServers, a)) + (IF AddressOf[e] = a THEN 1 ELSE 0)
        BY <1>1, <3>1, <3>2, InsertedPlaces
      <4>2. Cardinality(Places(m_pServers', a)) \in Nat
        BY <1>1, PlacesFinite
      <4>3. CASE AddressOf[e] # a
        <5>1. Cardinality(Places(m_pServers', a)) <= Cardinality(Places(m_pServers, a))
          BY <1>2, <4>1, <4>2, <4>3
        <5> QED BY <1>1, <2>1, <5>1, BalanceKept DEF ListedInv
      <4>4. CASE AddressOf[e] = a
        <5> DEFINE before == Naming(a, ToAnswer)
        <5>1. Naming(a, ToAnswer') = before \ {e} /\ e \in before
          BY <2>1, <4>4 DEF Naming
        <5>2. IsFiniteSet(before) /\ Cardinality(before) \in Nat
          BY <1>1, NamingFinite
        <5>3. /\ Places(m_pServers, a)' = Places(m_pServers', a)
              /\ Naming(a, ToAnswer)' = Naming(a, ToAnswer')
              /\ Naming(a, listed)' = Naming(a, listed)
          BY <2>1 DEF Places, Naming
        <5>4. Cardinality(Places(m_pServers, a)) + Cardinality(before)
                <= Cardinality(Naming(a, listed))
          BY DEF ListedInv, Balanced
        <5> HIDE DEF before
        <5>5. Cardinality(before \ {e}) = Cardinality(before) - 1
          BY <5>1, <5>2, FS_RemoveElement
        <5>6. Cardinality(Naming(a, listed)) \in Nat
          BY NamingFinite DEF ServersInv, ServersTypeOK
        <5>7. Cardinality(Places(m_pServers', a)) + Cardinality(before \ {e})
                <= Cardinality(Naming(a, listed))
          BY <1>2, <4>1, <4>2, <4>4, <5>2, <5>4, <5>5, <5>6
        <5> QED BY <5>1, <5>3, <5>7 DEF Balanced
      <4> QED BY <4>3, <4>4
    <3> QED BY <2>1, <3>3 DEF ListedInv
  <2> QED BY <1>12, <2>2, <2>3 DEF Answer
<1>13. ASSUME NEW s \in Lan, LanAnswer(s) PROVE ListedInv'
  <2>1. UNCHANGED <<listed, listRequest>> /\ ToAnswer' = ToAnswer
    BY <1>13 DEF LanAnswer, LanTimeout, LanResponse, lists, history, ToAnswer
  <2>2. CASE LanTimeout(s)
    BY <1>3, <2>1, <2>2 DEF LanTimeout, browser
  <2>3. ASSUME NEW ping \in Pings, LanResponse(s, ping) PROVE ListedInv'
    <3> DEFINE p == [remote_address |-> s, ping |-> ping]
    <3>1. p \in Server /\ p.remote_address = s
      BY DEF Server, Addresses
    <3>2. m_pServers' = Inserted(m_pServers, p)
      BY <2>3 DEF LanResponse, AddServer
    <3> HIDE DEF p
    <3>3. ASSUME NEW a \in Addresses \ Lan PROVE Balanced(a)'
      <4>1. Cardinality(Places(m_pServers', a)) <=
              Cardinality(Places(m_pServers, a)) + (IF s = a THEN 1 ELSE 0)
        BY <1>1, <3>1, <3>2, InsertedPlaces
      <4>2. Cardinality(Places(m_pServers', a)) <= Cardinality(Places(m_pServers, a))
        BY <1>1, <1>2, <4>1, PlacesFinite
      <4> QED BY <1>1, <2>1, <4>2, BalanceKept DEF ListedInv
    <3> QED BY <2>1, <3>3 DEF ListedInv
  <2> QED BY <1>13, <2>2, <2>3 DEF LanAnswer
<1>14. CASE UNCHANGED vars
  BY <1>3, <1>14 DEF vars, lists, browser, network, history, ToAnswer
<1> QED BY <1>5, <1>6, <1>7, <1>8, <1>9, <1>10, <1>11, <1>12, <1>13, <1>14 DEF Next, ListAnswer

\* An address of the master's list is shown no more often than the list holds it:
\* AddServer never compares addresses, so it rests on every entry being asked, and
\* answering, once.
THEOREM ServersShownAsListed == Spec => []ShownAsListed
<1>1. Init => ListedInv
  <2> SUFFICES ASSUME Init PROVE ListedInv
    OBVIOUS
  <2>1. /\ m_pServers = <<>> /\ m_pServerList = {} /\ detailRequests = {} /\ listed = {}
        /\ listRequest = FALSE
    BY Zenon DEF Init
  <2>2. ASSUME NEW a \in Addresses \ Lan PROVE Balanced(a)
    <3>1. Places(m_pServers, a) = {} /\ Naming(a, ToAnswer) = {} /\ Naming(a, listed) = {}
      BY <2>1 DEF Places, Naming, ToAnswer
    <3> QED BY <3>1, FS_EmptySet DEF Balanced
  <2> QED BY <2>1, <2>2 DEF ListedInv
<1>2. ServersInv /\ ListedInv => ShownAsListed
  <2> SUFFICES ASSUME ServersInv, ListedInv, NEW a \in Addresses \ Lan
               PROVE  Cardinality(ShownAt(a)) <= Cardinality(Naming(a, listed))
    BY DEF ShownAsListed
  <2>1. /\ m_pServers \in Seq(Server) /\ listed \in SUBSET Entries
        /\ ToAnswer \in SUBSET Entries
    BY DEF ServersInv, ServersTypeOK, ToAnswer
  <2>2. ShownAt(a) = Places(m_pServers, a)
    BY <2>1 DEF ShownAt, Places
  <2>3. /\ Cardinality(Places(m_pServers, a)) \in Nat
        /\ Cardinality(Naming(a, ToAnswer)) \in Nat
        /\ Cardinality(Naming(a, listed)) \in Nat
    BY <2>1, PlacesFinite, NamingFinite
  <2> QED BY <2>2, <2>3 DEF ListedInv, Balanced
<1> QED BY <1>1, <1>2, ListedStep, ServersInvHolds, ServersNext, PTL DEF Spec

=============================================================================
