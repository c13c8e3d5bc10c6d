-------------------------- MODULE ServerTabProofs --------------------------
(***************************************************************************)
(* Proofs about a tab of the server browser: its three structures agree,   *)
(* whatever Steam numbers twice and whatever row numbers the panel reuses; *)
(* what is on the screen passes the filters; a row keeps its server.       *)
(***************************************************************************)
EXTENDS ServerTab, TLAPS

\* RowsMatchEntries of any entries and rows
RowsMatch(entries, list) ==
    /\ \A row \in list :
         /\ entries[row.userData] # None
         /\ entries[row.userData].m_iListID = row.id
    /\ \A i \in Servers :
         entries[i] # None /\ entries[i].m_iListID # None =>
           \E row \in list :
             row.id = entries[i].m_iListID /\ row.userData = i
    /\ \A row, other \in list : row.id = other.id => row = other

LEMMA RowsMatchIsInvariant ==
  ASSUME TypeOK
  PROVE  RowsMatchEntries <=> RowsMatch(m_mapServers, m_pServerList)
BY DEF RowsMatchEntries, RowsMatch, Known, TypeOK, RowType

\* The structures of the tab, on which the other invariants rest
TabInv ==
  /\ TypeOK
  /\ RowsMatchEntries
  /\ AddressesMatchEntries

-----------------------------------------------------------------------------
(* Entering a server under a number. *)

LEMMA NewEntryProps ==
  NewEntry \in Entry /\ NewEntry.m_iListID = None /\ NewEntry # None /\ None \notin Entry
<1>1. NewEntry \in Entry /\ NewEntry.m_iListID = None
  BY DEF NewEntry, Entry
<1> QED BY <1>1, TabAssumption

LEMMA RegisteredType ==
  ASSUME TabInv, NEW i \in Servers, NEW adr \in Addresses
  PROVE  /\ Registered(i, adr) \in [Servers -> Entry \cup {None}]
         /\ Registered(i, adr)[i] # None
         /\ RegisteredIP(i, adr) \in [Addresses -> Servers \cup {None}]
         /\ RowsWithoutDuplicate(i, adr) \subseteq m_pServerList
<1>1. /\ m_mapServers \in [Servers -> Entry \cup {None}]
      /\ m_mapServerIP \in [Addresses -> Servers \cup {None}]
  BY DEF TabInv, TypeOK
<1>2. NewEntry \in Entry /\ NewEntry # None
  BY NewEntryProps
<1>3. RowsWithoutDuplicate(i, adr) \subseteq m_pServerList
  BY DEF RowsWithoutDuplicate, WithoutRow
<1> QED BY <1>1, <1>2, <1>3 DEF Registered, RegisteredIP, Known

\* What registration leaves of the other servers: all but the one that had
\* this address.
LEMMA RegisteredOthers ==
  ASSUME TabInv, NEW i \in Servers, NEW adr \in Addresses,
         NEW j \in Servers, j # i
  PROVE  /\ i \in Known \/ j # m_mapServerIP[adr] =>
              Registered(i, adr)[j] = m_mapServers[j]
         /\ i \notin Known /\ j = m_mapServerIP[adr] =>
              Registered(i, adr)[j] = None
BY DEF Registered

LEMMA RegisteredRows ==
  ASSUME TabInv, NEW i \in Servers, NEW adr \in Addresses
  PROVE  RowsMatch(Registered(i, adr), RowsWithoutDuplicate(i, adr))
<1> DEFINE entries == Registered(i, adr)
           list == RowsWithoutDuplicate(i, adr)
           dup == m_mapServerIP[adr]
<1>1. RowsMatch(m_mapServers, m_pServerList)
  BY RowsMatchIsInvariant DEF TabInv
<1>2. CASE i \in Known
  BY <1>1, <1>2 DEF Registered, RowsWithoutDuplicate
<1>3. CASE i \notin Known /\ dup \notin Known
  <2>1. list = m_pServerList
    BY <1>3 DEF RowsWithoutDuplicate
  <2>2. \A j \in Servers : j # i /\ m_mapServers[j] # None => entries[j] = m_mapServers[j]
    BY <1>3, RegisteredOthers DEF Known
  <2>3. entries[i] = NewEntry
    BY <1>3 DEF Registered
  <2>4. \A row \in m_pServerList : row.userData \in Servers /\ row.userData # i
    BY <1>1, <1>3 DEF RowsMatch, Known, TabInv, TypeOK, RowType
  <2>5. \A j \in Servers : j # i /\ entries[j] # None => m_mapServers[j] = entries[j]
    BY <1>3, RegisteredOthers DEF Known
  <2>6. NewEntry.m_iListID = None
    BY DEF NewEntry
  <2> HIDE DEF entries, list, dup
  <2>7. RowsMatch(entries, list)
    BY <1>1, <2>1, <2>2, <2>3, <2>4, <2>5, <2>6 DEF RowsMatch
  <2> QED BY <2>7 DEF entries, list
<1>4. CASE i \notin Known /\ dup \in Known
  <2>1. list = {row \in m_pServerList : row.id # m_mapServers[dup].m_iListID}
    BY <1>4 DEF RowsWithoutDuplicate, WithoutRow
  <2>2. \A j \in Servers : j # i /\ j # dup => entries[j] = m_mapServers[j]
    BY RegisteredOthers
  <2>3. entries[i] = NewEntry /\ NewEntry.m_iListID = None /\ NewEntry # None
    BY <1>4, NewEntryProps DEF Registered
  <2>4. dup \in Servers /\ dup # i /\ entries[dup] = None
    BY <1>4, RegisteredOthers DEF Known
  <2>5. \A row \in m_pServerList : row.userData \in Servers /\ row.userData # i
    BY <1>1, <1>4 DEF RowsMatch, Known, TabInv, TypeOK, RowType
  <2>6. \A row \in list : row.userData # dup
    BY <1>1, <2>1 DEF RowsMatch
  <2>7. \A row \in m_pServerList : row.userData # dup => row \in list
    <3> SUFFICES ASSUME NEW row \in m_pServerList, row.userData # dup,
                        row.id = m_mapServers[dup].m_iListID
                 PROVE  FALSE
      BY <2>1
    <3>1. row.id \in Rows /\ row.id # None
      BY TabAssumption DEF TabInv, TypeOK, RowType
    <3>2. PICK other \in m_pServerList : other.id = row.id /\ other.userData = dup
      BY <1>1, <1>4, <3>1 DEF RowsMatch, Known
    <3> QED BY <1>1, <3>2 DEF RowsMatch
  <2> HIDE DEF entries, list, dup
  <2>8. \A row \in list : row \in m_pServerList
    BY <2>1
  <2>9. \A row \in list : entries[row.userData] # None /\ entries[row.userData].m_iListID = row.id
    BY <1>1, <2>2, <2>5, <2>6, <2>8 DEF RowsMatch
  <2>10. ASSUME NEW j \in Servers, entries[j] # None, entries[j].m_iListID # None
         PROVE  \E row \in list : row.id = entries[j].m_iListID /\ row.userData = j
    BY <1>1, <2>2, <2>3, <2>4, <2>7, <2>10 DEF RowsMatch
  <2>11. RowsMatch(entries, list)
    BY <1>1, <2>8, <2>9, <2>10 DEF RowsMatch
  <2> QED BY <2>11 DEF entries, list
<1> QED BY <1>2, <1>3, <1>4


-----------------------------------------------------------------------------
(* What ServerResponded does to the rows. *)

\* The rows of the other servers, once server i is registered
Others(i, adr) == {row \in RowsWithoutDuplicate(i, adr) : row.userData # i}

\* A server has at most one row, the one its entry names.
LEMMA OwnRow ==
  ASSUME TabInv, NEW i \in Servers, NEW adr \in Addresses
  PROVE  LET id == Registered(i, adr)[i].m_iListID IN
         /\ id \in Rows \cup {None}
         /\ id \in RowIds(RowsWithoutDuplicate(i, adr)) <=> id # None
         /\ WithoutRow(RowsWithoutDuplicate(i, adr), id) = Others(i, adr)
<1> DEFINE entries == Registered(i, adr)
           list == RowsWithoutDuplicate(i, adr)
           id == entries[i].m_iListID
<1>1. RowsMatch(entries, list)
  BY RegisteredRows
<1>2. entries[i] \in Entry /\ list \subseteq RowType
  <2>1. m_pServerList \subseteq RowType
    BY DEF TabInv, TypeOK
  <2> QED BY <2>1, RegisteredType
<1>3. \A row \in list : row.id \in Rows /\ row.id # None
  BY <1>2, TabAssumption DEF RowType
<1>4. entries[i] # None
  BY RegisteredType
<1>5. id \in Rows \cup {None}
  BY <1>2 DEF Entry
<1> HIDE DEF entries, list
<1>6. id \in RowIds(list) <=> id # None
  BY <1>1, <1>3, <1>4 DEF RowsMatch, RowIds
<1>7. \A row \in list : row.id = id <=> row.userData = i
  BY <1>1, <1>3, <1>4 DEF RowsMatch
<1>8. WithoutRow(list, id) = {row \in list : row.userData # i}
  BY <1>7 DEF WithoutRow
<1> QED BY <1>5, <1>6, <1>8 DEF Others, entries, list

LEMMA RespondedShape ==
  ASSUME TabInv, NEW i \in Servers, NEW server \in Details,
         BaseServerResponded(i, server)
  PROVE  \E to \in Rows \cup {None} :
           /\ m_mapServers' = [Registered(i, server.m_NetAdr) EXCEPT ![i].m_iListID = to]
           /\ to = None => m_pServerList' = Others(i, server.m_NetAdr)
           /\ to # None =>
                /\ m_pServerList' = Others(i, server.m_NetAdr) \cup {Row(to, i)}
                /\ to \notin RowIds(Others(i, server.m_NetAdr))
                /\ to \in FreeRows(RowsWithoutDuplicate(i, server.m_NetAdr))
                     \/ to = Registered(i, server.m_NetAdr)[i].m_iListID
                /\ CheckSecondaryFilters(filters, server.info)
<1> DEFINE adr == server.m_NetAdr
           entries == Registered(i, adr)
           list == RowsWithoutDuplicate(i, adr)
           id == entries[i].m_iListID
<1>1. adr \in Addresses
  BY DEF Details
<1>2. /\ id \in Rows \cup {None}
      /\ id \in RowIds(list) <=> id # None
      /\ WithoutRow(list, id) = Others(i, adr)
  BY <1>1, OwnRow
<1>3. /\ entries \in [Servers -> Entry \cup {None}]
      /\ entries[i] \in Entry
  BY <1>1, RegisteredType
<1>4. \A row \in list : row.id \in Rows
  BY <1>1, RegisteredType DEF TabInv, TypeOK, RowType
<1>5. CASE Unlist(i, server)
  <2>1. m_pServerList' = WithoutRow(list, id)
    BY <1>5 DEF Unlist
  <2>2. m_mapServers' = IF id \in RowIds(list)
                        THEN [entries EXCEPT ![i].m_iListID = None]
                        ELSE entries
    BY <1>5 DEF Unlist
  <2> HIDE DEF entries, list, adr
  <2>3. id = None => entries = [entries EXCEPT ![i].m_iListID = None]
    BY <1>3 DEF Entry
  <2>4. m_mapServers' = [entries EXCEPT ![i].m_iListID = None]
    BY <1>2, <2>2, <2>3
  <2> QED BY <1>2, <2>1, <2>4 DEF entries, list, adr
<1>6. CASE List(i, server)
  <2>1. PICK to \in IF id \in RowIds(list) THEN {id} ELSE FreeRows(list) :
             /\ m_mapServers' = [entries EXCEPT ![i].m_iListID = to]
             /\ m_pServerList' = WithoutRow(list, to) \cup {Row(to, i)}
    BY <1>6 DEF List
  <2>2. CheckSecondaryFilters(filters, server.info)
    BY <1>6 DEF List
  <2> HIDE DEF entries, list, adr
  <2>3. CASE id # None
    <3>1. to = id /\ to \in Rows
      BY <1>2, <2>1, <2>3
    <3>2. WithoutRow(list, to) = Others(i, adr)
      BY <1>2, <3>1
    <3>3. to \notin RowIds(Others(i, adr))
      BY <3>2 DEF RowIds, WithoutRow
    <3>4. to # None
      BY <2>3, <3>1
    <3> QED BY <2>1, <2>2, <3>1, <3>2, <3>3, <3>4 DEF entries, list, adr
  <2>4. CASE id = None
    <3>1. to \in FreeRows(list) /\ to \in Rows /\ to \notin RowIds(list)
      BY <1>2, <2>1, <2>4 DEF FreeRows
    <3>2. to # None
      BY <3>1, TabAssumption
    <3>3. WithoutRow(list, to) = list
      BY <3>1 DEF RowIds, WithoutRow
    <3>4. WithoutRow(list, None) = list
      BY <1>4, TabAssumption DEF WithoutRow
    <3>5. list = Others(i, adr)
      BY <1>2, <2>4, <3>4
    <3> QED BY <2>1, <2>2, <3>1, <3>2, <3>3, <3>5 DEF entries, list, adr
  <2> QED BY <2>3, <2>4
<1> QED BY <1>5, <1>6 DEF BaseServerResponded

\* So the structures agree after an answer, whatever number it carries.
LEMMA RespondedRows ==
  ASSUME TabInv, NEW i \in Servers, NEW server \in Details,
         BaseServerResponded(i, server)
  PROVE  /\ m_mapServers' \in [Servers -> Entry \cup {None}]
         /\ m_pServerList' \in SUBSET RowType
         /\ RowsMatch(m_mapServers', m_pServerList')
         /\ m_mapServers'[i] # None
         /\ \A j \in Servers :
              j # i => m_mapServers'[j] = Registered(i, server.m_NetAdr)[j]
<1> DEFINE adr == server.m_NetAdr
           entries == Registered(i, adr)
           list == RowsWithoutDuplicate(i, adr)
           rest == Others(i, adr)
<1>1. adr \in Addresses
  BY DEF Details
<1>2. /\ entries \in [Servers -> Entry \cup {None}]
      /\ entries[i] \in Entry
      /\ list \subseteq m_pServerList
  BY <1>1, RegisteredType
<1>3. RowsMatch(entries, list)
  BY <1>1, RegisteredRows
<1>4. rest = {row \in list : row.userData # i} /\ list \subseteq RowType
  BY <1>2 DEF Others, TabInv, TypeOK
<1>5. PICK to \in Rows \cup {None} :
           /\ m_mapServers' = [entries EXCEPT ![i].m_iListID = to]
           /\ to = None => m_pServerList' = rest
           /\ to # None => /\ m_pServerList' = rest \cup {Row(to, i)}
                           /\ to \notin RowIds(rest)
  BY RespondedShape
<1> HIDE DEF entries, list, rest, adr
<1>6. [entries[i] EXCEPT !.m_iListID = to] \in Entry
  BY <1>2 DEF Entry
<1>7. m_mapServers' = [entries EXCEPT ![i] = [entries[i] EXCEPT !.m_iListID = to]]
  BY <1>5
<1>8. m_mapServers' \in [Servers -> Entry \cup {None}]
  BY <1>2, <1>6, <1>7
<1>9. /\ \A j \in Servers : j # i => m_mapServers'[j] = entries[j]
      /\ m_mapServers'[i] # None /\ m_mapServers'[i].m_iListID = to
  BY <1>2, <1>6, <1>7, TabAssumption DEF Entry
<1>10. to # None => /\ Row(to, i) \in RowType
                    /\ Row(to, i).id = to /\ Row(to, i).userData = i
  BY DEF Row, RowType
<1>11. \A row \in rest : /\ row \in list /\ row.userData # i /\ row.userData \in Servers
                         /\ row \in RowType
  BY <1>4 DEF RowType
<1>12. m_pServerList' \in SUBSET RowType
  BY <1>5, <1>10, <1>11
<1>13. \A row \in m_pServerList' : \/ row \in rest
                                   \/ to # None /\ row = Row(to, i)
  BY <1>5
<1>14. \A row \in rest : row.id # to
  BY <1>5, <1>11, TabAssumption DEF RowIds, RowType
<1>15. ASSUME NEW row \in m_pServerList'
       PROVE  m_mapServers'[row.userData] # None /\ m_mapServers'[row.userData].m_iListID = row.id
  BY <1>3, <1>9, <1>10, <1>11, <1>13 DEF RowsMatch
<1>16. ASSUME NEW j \in Servers, m_mapServers'[j] # None, m_mapServers'[j].m_iListID # None
       PROVE  \E row \in m_pServerList' : row.id = m_mapServers'[j].m_iListID /\ row.userData = j
  <2>1. CASE j = i
    BY <1>5, <1>9, <1>10, <1>16, <2>1
  <2>2. CASE j # i
    <3>1. PICK row \in list : row.id = m_mapServers'[j].m_iListID /\ row.userData = j
      BY <1>3, <1>9, <1>16, <2>2 DEF RowsMatch
    <3>2. row \in rest
      BY <1>4, <2>2, <3>1
    <3> QED BY <1>5, <3>1, <3>2
  <2> QED BY <2>1, <2>2
<1>17. \A row, other \in m_pServerList' : row.id = other.id => row = other
  BY <1>3, <1>10, <1>11, <1>13, <1>14 DEF RowsMatch
<1>18. RowsMatch(m_mapServers', m_pServerList')
  BY <1>15, <1>16, <1>17 DEF RowsMatch
<1> QED BY <1>8, <1>9, <1>12, <1>18 DEF entries, adr

LEMMA RespondedAddresses ==
  ASSUME TabInv, NEW i \in Servers, NEW server \in Details,
         details[i] # None => details[i].m_NetAdr = server.m_NetAdr,
         BaseServerResponded(i, server),
         details' = [details EXCEPT ![i] = server]
  PROVE  /\ m_mapServerIP' \in [Addresses -> Servers \cup {None}]
         /\ details' \in [Servers -> Details \cup {None}]
         /\ AddressesMatchEntries'
<1> DEFINE adr == server.m_NetAdr
           entries == Registered(i, adr)
<1>1. adr \in Addresses
  BY DEF Details
<1>2. /\ details \in [Servers -> Details \cup {None}]
      /\ m_mapServerIP \in [Addresses -> Servers \cup {None}]
      /\ m_mapServers \in [Servers -> Entry \cup {None}]
  BY DEF TabInv, TypeOK
<1>3. details' \in [Servers -> Details \cup {None}]
  BY <1>2
<1>4. m_mapServerIP' = RegisteredIP(i, adr)
  BY DEF BaseServerResponded
<1>5. m_mapServerIP' \in [Addresses -> Servers \cup {None}]
  BY <1>1, <1>4, RegisteredType
<1>6. /\ details'[i] = server /\ server # None
      /\ \A j \in Servers : j # i => details'[j] = details[j]
  BY <1>2, TabAssumption
<1>7. /\ m_mapServers'[i] # None
      /\ \A j \in Servers : j # i => m_mapServers'[j] = entries[j]
  BY RespondedRows
<1>8. /\ \A j \in Servers : m_mapServers[j] # None => details[j] # None
      /\ \A a \in Addresses, j \in Servers :
           m_mapServerIP[a] = j <=> m_mapServers[j] # None /\ details[j].m_NetAdr = a
  BY DEF TabInv, AddressesMatchEntries, Known
<1>9. \A j \in Servers : m_mapServers'[j] # None => details'[j] # None
  <2>1. \A j \in Servers : j # i /\ entries[j] # None => m_mapServers[j] # None
    BY <1>1, RegisteredOthers
  <2> HIDE DEF entries
  <2> QED BY <1>6, <1>7, <1>8, <2>1
<1>10. ASSUME NEW a \in Addresses, NEW j \in Servers
       PROVE  m_mapServerIP'[a] = j <=> m_mapServers'[j] # None /\ details'[j].m_NetAdr = a
  <2>1. CASE i \in Known
    <3>1. m_mapServerIP' = m_mapServerIP /\ entries = m_mapServers
      BY <1>4, <2>1 DEF RegisteredIP, Registered
    <3>2. m_mapServers[i] # None /\ details[i].m_NetAdr = adr
      BY <1>8, <2>1 DEF Known
    <3> HIDE DEF entries
    <3>3. CASE j = i
      BY <1>6, <1>7, <1>8, <3>1, <3>2, <3>3
    <3>4. CASE j # i
      BY <1>6, <1>7, <1>8, <3>1, <3>4
    <3> QED BY <3>3, <3>4
  <2>2. CASE i \notin Known
    <3>1. m_mapServerIP' = [m_mapServerIP EXCEPT ![adr] = i] /\ m_mapServers[i] = None
      BY <1>4, <2>2 DEF RegisteredIP, Known
    <3>2. j # i => entries[j] = IF j = m_mapServerIP[adr] THEN None ELSE m_mapServers[j]
      BY <2>2 DEF Registered
    <3> HIDE DEF entries
    <3>3. CASE a = adr
      BY <1>1, <1>2, <1>6, <1>7, <1>8, <3>1, <3>2, <3>3
    <3>4. CASE a # adr
      BY <1>1, <1>2, <1>6, <1>7, <1>8, <3>1, <3>2, <3>4
    <3> QED BY <3>3, <3>4
  <2> QED BY <2>1, <2>2
<1> QED BY <1>3, <1>5, <1>9, <1>10 DEF AddressesMatchEntries, Known

-----------------------------------------------------------------------------
(* What a change of the filters does to the rows. *)

\* Rows on the panel after a change of the filters: the old ones, with another
\* visibility, and new ones with numbers of their own.
LEMMA FilteredRows ==
  ASSUME TabInv, NEW f, ApplyGameFilters(f)
  PROVE  /\ m_mapServers' \in [Servers -> Entry \cup {None}]
         /\ m_pServerList' \in SUBSET RowType
         /\ RowsMatch(m_mapServers', m_pServerList')
         /\ \A i \in Servers : m_mapServers'[i] # None <=> m_mapServers[i] # None
         /\ \A row \in m_pServerList' :
              \/ \E old \in m_pServerList :
                   /\ row.id = old.id /\ row.userData = old.userData
                   /\ row.visible =>
                        /\ old.userData \notin Failing(f)
                        /\ old.visible \/ old.userData \in ShownAgain(f)
              \/ row.userData \in ReAdded(f) /\ row.id \notin RowIds(m_pServerList)
<1> DEFINE FR == FreeRows(m_pServerList)
<1>1. PICK newRow \in [ReAdded(f) -> FR] :
      /\ \A i, j \in ReAdded(f) : i # j => newRow[i] # newRow[j]
      /\ m_mapServers' = [i \in Servers |->
           IF i \in Failing(f)
           THEN [m_mapServers[i] EXCEPT !.m_bDoNotRefresh = TRUE]
           ELSE IF i \in ReAdded(f)
           THEN [m_iListID |-> newRow[i], m_bDoNotRefresh |-> FALSE]
           ELSE IF i \in ShownAgain(f)
           THEN [m_mapServers[i] EXCEPT !.m_bDoNotRefresh = FALSE]
           ELSE m_mapServers[i]]
      /\ m_pServerList' =
           {[row EXCEPT !.visible = /\ row.id \notin RowsOf(Failing(f))
                                    /\ @ \/ row.id \in RowsOf(ShownAgain(f))] :
              row \in m_pServerList}
           \cup {Row(newRow[i], i) : i \in ReAdded(f)}
  BY DEF ApplyGameFilters
<1>2. /\ m_mapServers \in [Servers -> Entry \cup {None}]
      /\ m_pServerList \in SUBSET RowType
      /\ RowsMatch(m_mapServers, m_pServerList)
  BY RowsMatchIsInvariant DEF TabInv, TypeOK
<1>3. /\ Failing(f) \subseteq Known /\ ShownAgain(f) \subseteq Known
      /\ ReAdded(f) \subseteq ShownAgain(f) /\ Known \subseteq Servers
      /\ Failing(f) \cap ShownAgain(f) = {}
  BY DEF Failing, ShownAgain, ReAdded, Known
<1>4. \A i \in Known : m_mapServers[i] \in Entry
  BY <1>2, <1>3 DEF Known
<1>5. \A i \in ReAdded(f) : /\ newRow[i] \in Rows /\ newRow[i] \notin RowIds(m_pServerList)
                            /\ newRow[i] # None
                            /\ m_mapServers[i].m_iListID \notin RowIds(m_pServerList)
  BY <1>1, TabAssumption DEF FreeRows, ReAdded
<1>6. ASSUME NEW i \in Servers
      PROVE  /\ m_mapServers'[i] \in Entry \cup {None}
             /\ m_mapServers'[i] # None <=> m_mapServers[i] # None
             /\ m_mapServers[i] # None =>
                  m_mapServers'[i].m_iListID =
                    IF i \in ReAdded(f) THEN newRow[i] ELSE m_mapServers[i].m_iListID
  <2>1. CASE i \notin Known
    BY <1>1, <1>3, <2>1 DEF Known
  <2>2. CASE i \in Known
    <3>1. m_mapServers[i] \in Entry /\ None \notin Entry
      BY <1>4, <2>2, TabAssumption
    <3>2. m_mapServers'[i] \in Entry
      BY <1>1, <1>5, <3>1 DEF Entry
    <3>3. m_mapServers'[i].m_iListID =
            IF i \in ReAdded(f) THEN newRow[i] ELSE m_mapServers[i].m_iListID
      BY <1>1, <1>3, <3>1 DEF Entry
    <3> QED BY <3>1, <3>2, <3>3
  <2> QED BY <2>1, <2>2
<1>7. m_mapServers' \in [Servers -> Entry \cup {None}]
  BY <1>1, <1>6
<1> DEFINE upd(row) == [row EXCEPT !.visible =
                          /\ row.id \notin RowsOf(Failing(f))
                          /\ @ \/ row.id \in RowsOf(ShownAgain(f))]
<1>8. ASSUME NEW row \in m_pServerList
      PROVE  /\ upd(row) \in RowType /\ upd(row) \in m_pServerList'
             /\ upd(row).id = row.id /\ upd(row).userData = row.userData
             /\ upd(row).visible => /\ row.id \notin RowsOf(Failing(f))
                                    /\ row.visible \/ row.id \in RowsOf(ShownAgain(f))
  <2>1. row \in RowType
    BY <1>2
  <2> DEFINE v == /\ row.id \notin RowsOf(Failing(f))
                  /\ row.visible \/ row.id \in RowsOf(ShownAgain(f))
  <2>2. v \in BOOLEAN
    BY <2>1 DEF RowType
  <2>3. upd(row) = [row EXCEPT !.visible = v]
    OBVIOUS
  <2>4. upd(row) \in m_pServerList'
    BY <1>1
  <2> HIDE DEF v, upd
  <2>5. /\ upd(row) \in RowType /\ upd(row).id = row.id /\ upd(row).userData = row.userData
        /\ upd(row).visible = v
    BY <2>1, <2>2, <2>3 DEF RowType
  <2> QED BY <2>4, <2>5 DEF v
<1>9. ASSUME NEW i \in ReAdded(f)
      PROVE  /\ Row(newRow[i], i) \in RowType /\ Row(newRow[i], i) \in m_pServerList'
             /\ Row(newRow[i], i).id = newRow[i] /\ Row(newRow[i], i).userData = i
  BY <1>1, <1>3, <1>5 DEF Row, RowType
<1>10. \A row \in m_pServerList' :
         \/ \E old \in m_pServerList : row = upd(old)
         \/ \E i \in ReAdded(f) : row = Row(newRow[i], i)
  BY <1>1
<1> HIDE DEF upd, FR
<1>11. m_pServerList' \in SUBSET RowType
  BY <1>8, <1>9, <1>10
<1>12. ASSUME NEW row \in m_pServerList, NEW S \in SUBSET Known
       PROVE  row.id \in RowsOf(S) <=> row.userData \in S
  <2>1. row.id \in Rows /\ row.id # None
    BY <1>2, TabAssumption DEF RowType
  <2>2. ASSUME NEW i \in S, row.id = m_mapServers[i].m_iListID
        PROVE  row.userData \in S
    <3>1. PICK other \in m_pServerList : other.id = row.id /\ other.userData = i
      BY <1>2, <1>3, <2>1, <2>2 DEF RowsMatch, Known
    <3> QED BY <1>2, <3>1 DEF RowsMatch
  <2> QED BY <1>2, <2>2 DEF RowsMatch, RowsOf
<1>13. \A row \in m_pServerList :
         /\ row.userData \in Known /\ row.userData \in Servers
         /\ m_mapServers[row.userData].m_iListID = row.id
         /\ row.userData \notin ReAdded(f)
         /\ row.id \in RowIds(m_pServerList)
  BY <1>2, <1>3, <1>5 DEF RowsMatch, Known, RowIds, RowType
<1>14. ASSUME NEW row \in m_pServerList'
       PROVE  \/ \E old \in m_pServerList :
                   /\ row.id = old.id /\ row.userData = old.userData
                   /\ row.visible =>
                        /\ old.userData \notin Failing(f)
                        /\ old.visible \/ old.userData \in ShownAgain(f)
              \/ row.userData \in ReAdded(f) /\ row.id \notin RowIds(m_pServerList)
  BY <1>3, <1>5, <1>8, <1>9, <1>10, <1>12
<1>15. RowsMatch(m_mapServers', m_pServerList')
  <2>1. ASSUME NEW row \in m_pServerList'
        PROVE  m_mapServers'[row.userData] # None /\ m_mapServers'[row.userData].m_iListID = row.id
    <3>1. CASE \E old \in m_pServerList : row = upd(old)
      <4>1. PICK old \in m_pServerList : row = upd(old)
        BY <3>1
      <4>2. row.id = old.id /\ row.userData = old.userData
        BY <1>8, <4>1
      <4> QED BY <1>6, <1>13, <4>2 DEF Known
    <3>2. CASE \E i \in ReAdded(f) : row = Row(newRow[i], i)
      BY <1>3, <1>6, <1>9, <3>2 DEF Known
    <3> QED BY <1>10, <3>1, <3>2
  <2>2. ASSUME NEW i \in Servers, m_mapServers'[i] # None, m_mapServers'[i].m_iListID # None
        PROVE  \E row \in m_pServerList' : row.id = m_mapServers'[i].m_iListID /\ row.userData = i
    <3>1. CASE i \in ReAdded(f)
      BY <1>6, <1>9, <2>2, <3>1
    <3>2. CASE i \notin ReAdded(f)
      <4>1. PICK old \in m_pServerList : old.id = m_mapServers[i].m_iListID /\ old.userData = i
        BY <1>2, <1>6, <2>2, <3>2 DEF RowsMatch
      <4> QED BY <1>6, <1>8, <2>2, <3>2, <4>1
    <3> QED BY <3>1, <3>2
  <2>3. ASSUME NEW row \in m_pServerList', NEW other \in m_pServerList', row.id = other.id
        PROVE  row = other
    <3>1. CASE /\ \E old \in m_pServerList : row = upd(old)
               /\ \E old \in m_pServerList : other = upd(old)
      BY <1>2, <1>8, <2>3, <3>1 DEF RowsMatch
    <3>2. CASE /\ \E i \in ReAdded(f) : row = Row(newRow[i], i)
               /\ \E i \in ReAdded(f) : other = Row(newRow[i], i)
      BY <1>1, <1>9, <2>3, <3>2
    <3>3. \A old \in m_pServerList, i \in ReAdded(f) :
            upd(old).id # Row(newRow[i], i).id
      BY <1>5, <1>8, <1>9, <1>13
    <3> QED BY <1>10, <2>3, <3>1, <3>2, <3>3
  <2> QED BY <2>1, <2>2, <2>3 DEF RowsMatch
<1> QED BY <1>6, <1>7, <1>11, <1>14, <1>15

\* Hiding a server changes what is seen of its row.
LEMMA HiddenRows ==
  ASSUME TabInv, NEW i \in Servers, HideServer(i)
  PROVE  /\ m_pServerList' \in SUBSET RowType
         /\ RowsMatch(m_mapServers', m_pServerList')
         /\ \A row \in m_pServerList' :
              \E old \in m_pServerList :
                /\ row.id = old.id /\ row.userData = old.userData
                /\ row.visible => old.visible
<1> DEFINE upd(row) == [row EXCEPT !.visible = @ /\ row.id \notin RowsOf({i} \cap Known)]
<1>1. m_pServerList' = {upd(row) : row \in m_pServerList} /\ m_mapServers' = m_mapServers
  BY DEF HideServer
<1>2. m_pServerList \in SUBSET RowType /\ RowsMatch(m_mapServers, m_pServerList)
  BY RowsMatchIsInvariant DEF TabInv, TypeOK
<1>3. ASSUME NEW row \in m_pServerList
      PROVE  /\ upd(row) \in RowType
             /\ upd(row).id = row.id /\ upd(row).userData = row.userData
             /\ upd(row).visible => row.visible
  <2>1. row \in RowType
    BY <1>2
  <2> DEFINE v == row.visible /\ row.id \notin RowsOf({i} \cap Known)
  <2>2. v \in BOOLEAN /\ upd(row) = [row EXCEPT !.visible = v]
    BY <2>1 DEF RowType
  <2> HIDE DEF v, upd
  <2>3. /\ upd(row) \in RowType /\ upd(row).id = row.id /\ upd(row).userData = row.userData
        /\ upd(row).visible = v
    BY <2>1, <2>2 DEF RowType
  <2> QED BY <2>3 DEF v
<1> HIDE DEF upd
<1>4. \A row \in m_pServerList' : \E old \in m_pServerList : row = upd(old)
  BY <1>1
<1>5. \A old \in m_pServerList : upd(old) \in m_pServerList'
  BY <1>1
<1>6. m_pServerList' \in SUBSET RowType
  BY <1>3, <1>4
<1>7. RowsMatch(m_mapServers, m_pServerList')
  <2>1. \A row \in m_pServerList' : m_mapServers[row.userData] # None
                                    /\ m_mapServers[row.userData].m_iListID = row.id
    BY <1>2, <1>3, <1>4 DEF RowsMatch
  <2>2. ASSUME NEW j \in Servers, m_mapServers[j] # None, m_mapServers[j].m_iListID # None
        PROVE  \E row \in m_pServerList' : row.id = m_mapServers[j].m_iListID /\ row.userData = j
    BY <1>2, <1>3, <1>5, <2>2 DEF RowsMatch
  <2>3. \A row, other \in m_pServerList' : row.id = other.id => row = other
    BY <1>2, <1>3, <1>4 DEF RowsMatch
  <2> QED BY <2>1, <2>2, <2>3 DEF RowsMatch
<1> QED BY <1>1, <1>3, <1>4, <1>6, <1>7

-----------------------------------------------------------------------------
(* The structures, in every step. *)

\* The types of what is not a structure
PlainTypeOK ==
  /\ m_eMatchMakingType \in Types
  /\ m_pRefreshAll \in {"none", "stoprefresh", "GetNewList"}
  /\ m_bRefreshOnListReload \in BOOLEAN
  /\ controls \in FilterSettings
  /\ filters \in FilterSettings
  /\ filtered \in BOOLEAN
  /\ request \in {"none", "idle", "pinging", "refreshing"}
  /\ active \in BOOLEAN

StructureInv ==
  /\ m_mapServers \in [Servers -> Entry \cup {None}]
  /\ m_mapServerIP \in [Addresses -> Servers \cup {None}]
  /\ m_pServerList \in SUBSET RowType
  /\ details \in [Servers -> Details \cup {None}]
  /\ RowsMatch(m_mapServers, m_pServerList)
  /\ AddressesMatchEntries

LEMMA TabInvParts == TabInv <=> PlainTypeOK /\ StructureInv
<1>1. TypeOK => (RowsMatchEntries <=> RowsMatch(m_mapServers, m_pServerList))
  BY RowsMatchIsInvariant
<1> QED BY <1>1 DEF TabInv, TypeOK, PlainTypeOK, StructureInv

LEMMA PlainTypeStep ==
  ASSUME PlainTypeOK, [Next]_vars
  PROVE  PlainTypeOK'
<1> USE DEF PlainTypeOK
<1>1. CASE OnPageShow
  BY <1>1 DEF OnPageShow, StartRefresh, ClearServerList, SetRefreshing
<1>2. CASE OnPageHide
  BY <1>2 DEF OnPageHide, StopRefresh, EndRefresh, SetRefreshing, UpdateFilterSettings
<1>3. CASE GetNewServerList
  BY <1>3 DEF GetNewServerList, StartRefresh, ClearServerList, SetRefreshing
<1>4. CASE OnStopRefresh
  BY <1>4 DEF OnStopRefresh, StopRefresh, EndRefresh, SetRefreshing, UpdateFilterSettings
<1>5. CASE OnRefresh
  BY <1>5 DEF OnRefresh, SetRefreshing, filterVars
<1>6. CASE OnRefreshServer
  BY <1>6 DEF OnRefreshServer, SetRefreshing, filterVars
<1>7. CASE AddConnectedServer
  BY <1>7 DEF AddConnectedServer, filterVars
<1>8. ASSUME NEW f \in FilterSettings, OpenBrowser(f)
      PROVE  PlainTypeOK'
  BY <1>8 DEF OpenBrowser, StartRefresh, ClearServerList, SetRefreshing
<1>9. CASE OnTextChanged
  BY <1>9 DEF OnTextChanged
<1>10. ASSUME NEW f \in FilterSettings, ChangeControl(f)
       PROVE  PlainTypeOK'
  BY <1>10 DEF ChangeControl
<1>11. CASE OnLocationChanged
  BY <1>11 DEF OnLocationChanged, StartRefresh, ClearServerList, SetRefreshing
<1>12. ASSUME NEW i \in Servers, ServerResponded(i)
       PROVE  PlainTypeOK'
  BY <1>12 DEF ServerResponded, filterVars
<1>13. ASSUME NEW i \in Servers, ServerFailedToRespond(i)
       PROVE  PlainTypeOK'
  BY <1>13 DEF ServerFailedToRespond, filterVars
<1>14. CASE RefreshComplete
  BY <1>14 DEF RefreshComplete, EndRefresh, SetRefreshing, UpdateFilterSettings
<1>15. CASE PingComplete
  BY <1>15 DEF PingComplete, EndRefresh, SetRefreshing, UpdateFilterSettings
<1>16. CASE UNCHANGED vars
  BY <1>16 DEF vars
<1> HIDE DEF PlainTypeOK
<1> QED BY <1>1, <1>2, <1>3, <1>4, <1>5, <1>6, <1>7, <1>8, <1>9, <1>10,
           <1>11, <1>12, <1>13, <1>14, <1>15, <1>16 DEF Next

LEMMA EmptyStructures ==
  ASSUME ClearServerList, details' = [i \in Servers |-> None]
  PROVE  StructureInv'
<1>1. /\ m_mapServers' = [i \in Servers |-> None]
      /\ m_mapServerIP' = [adr \in Addresses |-> None]
      /\ m_pServerList' = {}
  BY DEF ClearServerList
<1>2. None \notin Servers
  BY TabAssumption
<1>3. RowsMatch(m_mapServers', m_pServerList')
  BY <1>1 DEF RowsMatch
<1>4. AddressesMatchEntries'
  BY <1>1, <1>2 DEF AddressesMatchEntries, Known
<1> QED BY <1>1, <1>3, <1>4 DEF StructureInv

\* An answer, or a failure that is treated like one
LEMMA RespondedStructures ==
  ASSUME TabInv, NEW i \in Servers, NEW server \in Details,
         details[i] # None => details[i].m_NetAdr = server.m_NetAdr,
         BaseServerResponded(i, server),
         details' = [details EXCEPT ![i] = server]
  PROVE  StructureInv'
<1>1. /\ m_mapServers' \in [Servers -> Entry \cup {None}]
      /\ m_pServerList' \in SUBSET RowType
      /\ RowsMatch(m_mapServers', m_pServerList')
  BY RespondedRows
<1>2. /\ m_mapServerIP' \in [Addresses -> Servers \cup {None}]
      /\ details' \in [Servers -> Details \cup {None}]
      /\ AddressesMatchEntries'
  BY RespondedAddresses
<1> QED BY <1>1, <1>2 DEF StructureInv

\* What Steam may have of a server
LEMMA AnswerType ==
  ASSUME TabInv, NEW i \in Servers, NEW server \in Answered(i) \cup Unanswered(i)
  PROVE  /\ server \in Details
         /\ details[i] # None => details[i].m_NetAdr = server.m_NetAdr
<1>1. details[i] \in Details \cup {None}
  BY DEF TabInv, TypeOK
<1> QED BY <1>1 DEF Answered, Unanswered, Details

LEMMA StructureStep ==
  ASSUME TabInv, [Next]_vars
  PROVE  StructureInv'
<1>1. StructureInv
  BY TabInvParts
<1>2. ASSUME UNCHANGED <<tabVars, details>>
      PROVE  StructureInv'
  BY <1>1, <1>2 DEF StructureInv, AddressesMatchEntries, RowsMatch, Known, tabVars
<1>3. ASSUME StartRefresh
      PROVE  StructureInv'
  BY <1>3, EmptyStructures DEF StartRefresh
<1>4. CASE \/ OnPageShow \/ GetNewServerList
           \/ OnLocationChanged \/ \E f \in FilterSettings : OpenBrowser(f)
  BY <1>2, <1>3, <1>4 DEF OnPageShow, GetNewServerList, OpenBrowser, OnLocationChanged
<1>5. CASE \/ OnPageHide \/ OnStopRefresh \/ OnRefresh \/ OnRefreshServer
           \/ AddConnectedServer \/ RefreshComplete \/ PingComplete
           \/ \E f \in FilterSettings : ChangeControl(f)
  BY <1>2, <1>5 DEF OnPageHide, OnStopRefresh, StopRefresh, OnRefresh, OnRefreshServer,
                    AddConnectedServer, RefreshComplete, PingComplete, ChangeControl
<1>6. CASE OnTextChanged
  <2>1. ApplyGameFilters(controls) /\ UNCHANGED <<m_mapServerIP, details>>
    BY <1>6 DEF OnTextChanged
  <2>2. /\ m_mapServers' \in [Servers -> Entry \cup {None}]
        /\ m_pServerList' \in SUBSET RowType
        /\ RowsMatch(m_mapServers', m_pServerList')
        /\ \A i \in Servers : m_mapServers'[i] # None <=> m_mapServers[i] # None
    BY <2>1, FilteredRows
  <2>3. AddressesMatchEntries'
    BY <1>1, <2>1, <2>2 DEF StructureInv, AddressesMatchEntries, Known
  <2> QED BY <1>1, <2>1, <2>2, <2>3 DEF StructureInv
<1>7. ASSUME NEW i \in Servers, ServerResponded(i)
      PROVE  StructureInv'
  <2>1. PICK server \in Answered(i) :
             details' = [details EXCEPT ![i] = server] /\ BaseServerResponded(i, server)
    BY <1>7 DEF ServerResponded
  <2> QED BY <2>1, AnswerType, RespondedStructures
<1>8. ASSUME NEW i \in Servers, ServerFailedToRespond(i)
      PROVE  StructureInv'
  <2>1. PICK server \in Unanswered(i) :
          /\ details' = [details EXCEPT ![i] = server]
          /\ HideServer(i) \/ BaseServerResponded(i, server)
    BY <1>8 DEF ServerFailedToRespond
  <2>2. server \in Details /\ (details[i] # None => server = details[i])
    BY AnswerType DEF Unanswered
  <2>3. CASE BaseServerResponded(i, server)
    BY <2>1, <2>2, <2>3, RespondedStructures
  <2>4. CASE HideServer(i)
    <3>1. /\ m_pServerList' \in SUBSET RowType
          /\ RowsMatch(m_mapServers', m_pServerList')
      BY <2>4, HiddenRows
    <3>2. UNCHANGED <<m_mapServers, m_mapServerIP>>
      BY <2>4 DEF HideServer
    <3>3. details' \in [Servers -> Details \cup {None}]
      BY <1>1, <2>1, <2>2 DEF StructureInv
    <3>4. \A j \in Servers : details[j] # None => details'[j] = details[j]
      BY <1>1, <2>1, <2>2 DEF StructureInv
    <3>5. AddressesMatchEntries'
      BY <1>1, <3>2, <3>4 DEF StructureInv, AddressesMatchEntries, Known
    <3> QED BY <1>1, <3>1, <3>2, <3>3, <3>5 DEF StructureInv
  <2> QED BY <2>1, <2>3, <2>4
<1>9. CASE UNCHANGED vars
  BY <1>2, <1>9 DEF vars, tabVars
<1> QED BY <1>4, <1>5, <1>6, <1>7, <1>8, <1>9 DEF Next

LEMMA TabInvStep ==
  ASSUME TabInv, [Next]_vars
  PROVE  TabInv'
<1>1. StructureInv' /\ PlainTypeOK'
  BY StructureStep, PlainTypeStep, TabInvParts
<1>2. TypeOK'
  BY <1>1 DEF StructureInv, PlainTypeOK, TypeOK
<1>3. RowsMatchEntries'
  BY <1>1 DEF StructureInv, RowsMatchEntries, RowsMatch, Known, RowType
<1> QED BY <1>1, <1>2, <1>3 DEF TabInv, StructureInv

LEMMA TabInvInit == Init => TabInv
<1> SUFFICES ASSUME Init PROVE TabInv
  OBVIOUS
<1>1. None \notin Servers
  BY TabAssumption
<1>2. TypeOK
  BY DEF Init, TypeOK
<1>3. RowsMatchEntries /\ AddressesMatchEntries
  BY <1>1 DEF Init, RowsMatchEntries, AddressesMatchEntries, Known
<1> QED BY <1>2, <1>3 DEF TabInv

LEMMA TabInvHolds == Spec => []TabInv
BY TabInvInit, TabInvStep, PTL DEF Spec

\* The types of the variables of a tab (CBaseTab).
THEOREM TabTypeCorrect == Spec => []TypeOK
<1>1. TabInv => TypeOK
  BY DEF TabInv
<1> QED BY <1>1, TabInvHolds, PTL

\* m_mapServers and the rows of the list panel agree (ServerResponded,
\* CBaseTab.cpp:385-541, ApplyGameFilters, 672-743), however the panel reuses
\* its row numbers.
THEOREM RowsAgree == Spec => []RowsMatchEntries
<1>1. TabInv => RowsMatchEntries
  BY DEF TabInv
<1> QED BY <1>1, TabInvHolds, PTL

\* m_mapServers and m_mapServerIP agree, however Steam numbers its servers: no
\* server is listed twice (CBaseTab.cpp:388-411).
THEOREM AddressesAgree == Spec => []AddressesMatchEntries
<1>1. TabInv => AddressesMatchEntries
  BY DEF TabInv
<1> QED BY <1>1, TabInvHolds, PTL

-----------------------------------------------------------------------------
(* What is on the screen. *)

\* How an answer changes the rows: those of other servers are old ones, and
\* server i has a row if it passes the filters; that row is its old one, or the
\* one of the number Steam gave it before, or was free.
LEMMA RespondedRow ==
  ASSUME TabInv, NEW i \in Servers, NEW server \in Details,
         details[i] # None => details[i].m_NetAdr = server.m_NetAdr,
         BaseServerResponded(i, server),
         NEW row \in m_pServerList'
  PROVE  \/ row \in m_pServerList /\ row.userData # i
         \/ /\ row.userData = i
            /\ CheckSecondaryFilters(filters, server.info)
            /\ \A old \in m_pServerList :
                 old.id = row.id => details[old.userData].m_NetAdr = server.m_NetAdr
<1> DEFINE adr == server.m_NetAdr
           entries == Registered(i, adr)
           list == RowsWithoutDuplicate(i, adr)
<1>1. adr \in Addresses
  BY DEF Details
<1>2. PICK to \in Rows \cup {None} :
           /\ to = None => m_pServerList' = Others(i, adr)
           /\ to # None =>
                /\ m_pServerList' = Others(i, adr) \cup {Row(to, i)}
                /\ to \notin RowIds(Others(i, adr))
                /\ to \in FreeRows(list) \/ to = entries[i].m_iListID
                /\ CheckSecondaryFilters(filters, server.info)
  BY RespondedShape
<1>3. list \subseteq m_pServerList /\ RowsMatch(entries, list)
  BY <1>1, RegisteredType, RegisteredRows
<1>4. CASE row \in Others(i, adr)
  BY <1>3, <1>4 DEF Others
<1>5. CASE to # None /\ row = Row(to, i)
  <2>1. row.userData = i /\ row.id = to
    BY <1>5 DEF Row
  <2>2. RowsMatchEntries /\ AddressesMatchEntries /\ m_pServerList \subseteq RowType
    BY DEF TabInv, TypeOK
  <2>3. ASSUME NEW old \in m_pServerList, old.id = to
        PROVE  details[old.userData].m_NetAdr = adr
    <3>1. /\ old.userData \in Known /\ m_mapServers[old.userData].m_iListID = to
          /\ old.userData \in Servers /\ to \in RowIds(m_pServerList)
      BY <2>2, <2>3 DEF RowsMatchEntries, RowIds, RowType
    <3>2. CASE old.userData = i
      BY <2>2, <3>1, <3>2 DEF AddressesMatchEntries
    <3>3. CASE old.userData # i
      <4>1. old \notin list
        <5>1. SUFFICES ASSUME old \in list PROVE FALSE
          OBVIOUS
        <5>2. old \in Others(i, adr)
          BY <3>3, <5>1 DEF Others
        <5>3. to \in RowIds(Others(i, adr))
          BY <2>3, <5>2 DEF RowIds
        <5> QED BY <1>2, <1>5, <5>3
      <4>2. /\ i \notin Known /\ m_mapServerIP[adr] \in Known
            /\ m_mapServers[m_mapServerIP[adr]].m_iListID = to
        BY <2>3, <4>1 DEF RowsWithoutDuplicate, WithoutRow
      <4>3. m_mapServerIP[adr] \in Servers
        BY <4>2 DEF Known
      <4>4. details[m_mapServerIP[adr]].m_NetAdr = adr
        BY <1>1, <2>2, <4>3 DEF AddressesMatchEntries
      <4>5. \E other \in m_pServerList : other.id = to /\ other.userData = m_mapServerIP[adr]
        BY <1>5, <2>2, <4>2 DEF RowsMatchEntries
      <4>6. old.userData = m_mapServerIP[adr]
        BY <2>2, <2>3, <4>5 DEF RowsMatchEntries
      <4> QED BY <4>4, <4>6
    <3> QED BY <3>2, <3>3
  <2> QED BY <1>2, <1>5, <2>1, <2>3
<1> QED BY <1>2, <1>4, <1>5

\* On the Internet and LAN tabs every server with an entry has answered
KnownHaveAnswered ==
  m_eMatchMakingType \in {"eInternetServer", "eLANServer"} =>
    \A i \in Known : details[i].m_bHadSuccessfulResponse

ScreenInv ==
  /\ TabInv
  /\ VisibleRowsPass
  /\ KnownHaveAnswered
  /\ StopButtonWhileRefreshing

\* When Steam reports that a server did not answer, it has nothing new to tell
\* of the servers the tab knows.
LEMMA SilentDetails ==
  ASSUME TabInv, NEW i \in Servers, NEW server \in Unanswered(i),
         details' = [details EXCEPT ![i] = server]
  PROVE  \A j \in Known : details'[j] = details[j]
<1>1. /\ details \in [Servers -> Details \cup {None}]
      /\ \A j \in Known : j \in Servers /\ details[j] # None
  BY DEF TabInv, TypeOK, AddressesMatchEntries, Known
<1>2. details[i] # None => server = details[i]
  BY DEF Unanswered
<1> QED BY <1>1, <1>2

LEMMA VisibleStep ==
  ASSUME TabInv, VisibleRowsPass, [Next]_vars
  PROVE  VisibleRowsPass'
<1>1. ASSUME UNCHANGED <<m_pServerList, details>>,
             filtered' => filtered /\ filters' = filters
      PROVE  VisibleRowsPass'
  BY <1>1 DEF VisibleRowsPass, Passes
<1>2. ASSUME StartRefresh
      PROVE  VisibleRowsPass'
  BY <1>2 DEF StartRefresh, ClearServerList, VisibleRowsPass
<1>3. CASE \/ OnPageShow \/ GetNewServerList
           \/ OnLocationChanged \/ \E f \in FilterSettings : OpenBrowser(f)
  BY <1>1, <1>2, <1>3
     DEF OnPageShow, GetNewServerList, OpenBrowser, OnLocationChanged, tabVars
<1>4. CASE \/ OnPageHide \/ OnStopRefresh \/ OnRefresh \/ OnRefreshServer
           \/ AddConnectedServer \/ RefreshComplete \/ PingComplete
           \/ \E f \in FilterSettings : ChangeControl(f)
  BY <1>1, <1>4 DEF OnPageHide, OnStopRefresh, StopRefresh, OnRefresh, OnRefreshServer,
                    AddConnectedServer, RefreshComplete, PingComplete, ChangeControl,
                    EndRefresh, UpdateFilterSettings, tabVars, filterVars
<1>5. CASE OnTextChanged
  <2>1. ApplyGameFilters(controls) /\ filters' = controls /\ details' = details
    BY <1>5 DEF OnTextChanged
  <2>2. m_pServerList \subseteq RowType /\ RowsMatchEntries
    BY DEF TabInv, TypeOK
  <2>3. \A old \in m_pServerList : old.userData \in Known
    BY <2>2 DEF RowsMatchEntries
  <2>4. ASSUME NEW row \in m_pServerList', row.visible
        PROVE  Passes(controls, row.userData)
    BY <2>1, <2>3, <2>4, FilteredRows DEF Failing, ReAdded, ShownAgain
  <2> QED BY <2>1, <2>4 DEF VisibleRowsPass, Passes
<1>6. ASSUME NEW i \in Servers, NEW server \in Answered(i) \cup Unanswered(i),
             BaseServerResponded(i, server),
             details' = [details EXCEPT ![i] = server],
             filters' = filters /\ filtered' = filtered
      PROVE  VisibleRowsPass'
  <2>1. /\ server \in Details
        /\ details[i] # None => details[i].m_NetAdr = server.m_NetAdr
    BY <1>6, AnswerType
  <2>2. details \in [Servers -> Details \cup {None}] /\ m_pServerList \subseteq RowType
    BY DEF TabInv, TypeOK
  <2>3. /\ details'[i] = server
        /\ \A j \in Servers : j # i => details'[j] = details[j]
    BY <1>6, <2>2
  <2>4. SUFFICES ASSUME filtered, NEW row \in m_pServerList', row.visible
                 PROVE  CheckSecondaryFilters(filters, details'[row.userData].info)
    BY <1>6 DEF VisibleRowsPass, Passes
  <2>5. CASE row \in m_pServerList /\ row.userData # i
    BY <2>2, <2>3, <2>4, <2>5 DEF VisibleRowsPass, Passes, RowType
  <2>6. CASE row.userData = i /\ CheckSecondaryFilters(filters, server.info)
    BY <2>3, <2>6
  <2> QED BY <1>6, <2>1, <2>4, <2>5, <2>6, RespondedRow
<1>7. ASSUME NEW i \in Servers, ServerResponded(i)
      PROVE  VisibleRowsPass'
  <2>1. PICK server \in Answered(i) :
             details' = [details EXCEPT ![i] = server] /\ BaseServerResponded(i, server)
    BY <1>7 DEF ServerResponded, filterVars
  <2> QED BY <1>6, <1>7, <2>1 DEF ServerResponded, filterVars
<1>8. ASSUME NEW i \in Servers, ServerFailedToRespond(i)
      PROVE  VisibleRowsPass'
  <2>1. PICK server \in Unanswered(i) :
          /\ details' = [details EXCEPT ![i] = server]
          /\ HideServer(i) \/ BaseServerResponded(i, server)
    BY <1>8 DEF ServerFailedToRespond
  <2>2. filters' = filters /\ filtered' = filtered
    BY <1>8 DEF ServerFailedToRespond, filterVars
  <2>3. CASE BaseServerResponded(i, server)
    BY <1>6, <2>1, <2>2, <2>3
  <2>4. CASE HideServer(i)
    <3>1. \A j \in Known : details'[j] = details[j]
      BY <2>1, SilentDetails
    <3>2. \A row \in m_pServerList : row.userData \in Known
      BY DEF TabInv, RowsMatchEntries
    <3>3. \A row \in m_pServerList' :
            \E old \in m_pServerList : /\ row.userData = old.userData
                                       /\ row.visible => old.visible
      BY <2>4, HiddenRows
    <3> QED BY <2>2, <3>1, <3>2, <3>3 DEF VisibleRowsPass, Passes
  <2> QED BY <2>1, <2>3, <2>4
<1>9. CASE UNCHANGED vars
  BY <1>1, <1>9 DEF vars
<1> QED BY <1>3, <1>4, <1>5, <1>7, <1>8, <1>9 DEF Next

LEMMA AnsweredStep ==
  ASSUME TabInv, KnownHaveAnswered, [Next]_vars
  PROVE  KnownHaveAnswered'
<1> DEFINE asks == m_eMatchMakingType \in {"eInternetServer", "eLANServer"}
<1>1. m_eMatchMakingType' = m_eMatchMakingType
  BY DEF Next, vars, OnPageShow, OnPageHide, GetNewServerList, OnStopRefresh, OnRefresh,
         OnRefreshServer, AddConnectedServer, OpenBrowser, ChangeControl, OnTextChanged, OnLocationChanged,
         ServerResponded, ServerFailedToRespond, RefreshComplete, PingComplete
<1>2. ASSUME UNCHANGED details,
             \A i \in Servers : m_mapServers'[i] # None => m_mapServers[i] # None
      PROVE  KnownHaveAnswered'
  BY <1>1, <1>2 DEF KnownHaveAnswered, Known
<1>3. ASSUME StartRefresh
      PROVE  KnownHaveAnswered'
  BY <1>3 DEF StartRefresh, ClearServerList, KnownHaveAnswered, Known
<1>4. CASE \/ OnPageShow \/ GetNewServerList
           \/ OnLocationChanged \/ \E f \in FilterSettings : OpenBrowser(f)
  BY <1>2, <1>3, <1>4
     DEF OnPageShow, GetNewServerList, OpenBrowser, OnLocationChanged, tabVars
<1>5. CASE \/ OnPageHide \/ OnStopRefresh \/ OnRefresh \/ OnRefreshServer
           \/ AddConnectedServer \/ RefreshComplete \/ PingComplete
           \/ \E f \in FilterSettings : ChangeControl(f)
  BY <1>2, <1>5 DEF OnPageHide, OnStopRefresh, StopRefresh, OnRefresh, OnRefreshServer,
                    AddConnectedServer, RefreshComplete, PingComplete, ChangeControl,
                    tabVars
<1>6. CASE OnTextChanged
  BY <1>2, <1>6, FilteredRows DEF OnTextChanged
<1>7. ASSUME NEW i \in Servers, NEW server \in Answered(i) \cup Unanswered(i),
             BaseServerResponded(i, server),
             details' = [details EXCEPT ![i] = server],
             asks => server.m_bHadSuccessfulResponse
      PROVE  KnownHaveAnswered'
  <2>1. server \in Details /\ server.m_NetAdr \in Addresses
    BY <1>7, AnswerType DEF Details
  <2>2. \A j \in Servers : j # i => m_mapServers'[j] = Registered(i, server.m_NetAdr)[j]
    BY <1>7, <2>1, RespondedRows
  <2>3. \A j \in Servers : j # i /\ m_mapServers'[j] # None => m_mapServers[j] # None
    BY <2>1, <2>2, RegisteredOthers
  <2>4. details \in [Servers -> Details \cup {None}]
    BY DEF TabInv, TypeOK
  <2> QED BY <1>1, <1>7, <2>3, <2>4 DEF KnownHaveAnswered, Known
<1>8. ASSUME NEW i \in Servers, ServerResponded(i)
      PROVE  KnownHaveAnswered'
  <2>1. PICK server \in Answered(i) :
             details' = [details EXCEPT ![i] = server] /\ BaseServerResponded(i, server)
    BY <1>8 DEF ServerResponded
  <2>2. server.m_bHadSuccessfulResponse
    BY DEF Answered
  <2> QED BY <1>7, <2>1, <2>2
<1>9. ASSUME NEW i \in Servers, ServerFailedToRespond(i)
      PROVE  KnownHaveAnswered'
  <2>1. PICK server \in Unanswered(i) :
          /\ details' = [details EXCEPT ![i] = server]
          /\ \/ HideServer(i)
             \/ /\ BaseServerResponded(i, server)
                /\ asks => server.m_bHadSuccessfulResponse
    BY <1>9 DEF ServerFailedToRespond
  <2>2. CASE HideServer(i)
    <3>1. \A j \in Known : details'[j] = details[j]
      BY <2>1, SilentDetails
    <3> QED BY <1>1, <2>2, <3>1 DEF HideServer, KnownHaveAnswered, Known
  <2> QED BY <1>7, <2>1, <2>2
<1>10. CASE UNCHANGED vars
  BY <1>2, <1>10 DEF vars
<1> QED BY <1>4, <1>5, <1>6, <1>8, <1>9, <1>10 DEF Next

LEMMA ButtonStep ==
  ASSUME TabInv, StopButtonWhileRefreshing, [Next]_vars
  PROVE  StopButtonWhileRefreshing'
<1> USE DEF StopButtonWhileRefreshing
<1>1. ASSUME UNCHANGED <<m_pRefreshAll, request>>
      PROVE  StopButtonWhileRefreshing'
  BY <1>1
<1>2. ASSUME StartRefresh
      PROVE  StopButtonWhileRefreshing'
  BY <1>2 DEF StartRefresh, SetRefreshing
<1>3. ASSUME StopRefresh
      PROVE  StopButtonWhileRefreshing'
  BY <1>3 DEF StopRefresh, EndRefresh, SetRefreshing
<1>4. CASE OnRefresh
  BY <1>4 DEF OnRefresh, SetRefreshing
<1>5. CASE OnRefreshServer
  BY <1>5 DEF OnRefreshServer, SetRefreshing
<1>6. CASE RefreshComplete
  BY <1>6 DEF RefreshComplete, EndRefresh, SetRefreshing
<1>7. CASE PingComplete
  BY <1>7 DEF PingComplete, EndRefresh, SetRefreshing
<1> HIDE DEF StopButtonWhileRefreshing
<1>8. CASE OnPageShow \/ OnPageHide \/ GetNewServerList \/ OnStopRefresh \/ AddConnectedServer
  BY <1>1, <1>2, <1>3, <1>8
     DEF OnPageShow, OnPageHide, GetNewServerList, OnStopRefresh, AddConnectedServer
<1>9. CASE \/ OnTextChanged \/ OnLocationChanged
           \/ \E f \in FilterSettings : OpenBrowser(f) \/ ChangeControl(f)
  BY <1>1, <1>2, <1>9 DEF OpenBrowser, ChangeControl, OnTextChanged, OnLocationChanged
<1>10. ASSUME NEW i \in Servers, ServerResponded(i) \/ ServerFailedToRespond(i)
       PROVE  StopButtonWhileRefreshing'
  BY <1>1, <1>10 DEF ServerResponded, ServerFailedToRespond
<1>11. CASE UNCHANGED vars
  BY <1>1, <1>11 DEF vars
<1> QED BY <1>4, <1>5, <1>6, <1>7, <1>8, <1>9, <1>10, <1>11 DEF Next

LEMMA ScreenInvHolds == Spec => []ScreenInv
<1>1. Init => ScreenInv
  <2> SUFFICES ASSUME Init PROVE ScreenInv
    OBVIOUS
  <2>1. VisibleRowsPass /\ KnownHaveAnswered /\ StopButtonWhileRefreshing
    BY DEF Init, VisibleRowsPass, KnownHaveAnswered, Known, StopButtonWhileRefreshing
  <2> QED BY <2>1, TabInvInit DEF ScreenInv
<1>2. ScreenInv /\ [Next]_vars => ScreenInv'
  BY TabInvStep, VisibleStep, AnsweredStep, ButtonStep DEF ScreenInv
<1> QED BY <1>1, <1>2, PTL DEF Spec

\* Once a change of the filters has been applied, what is on the screen passes
\* them (OnTextChanged and ApplyGameFilters against ServerResponded).
THEOREM ScreenPassesFilters == Spec => []VisibleRowsPass
<1>1. ScreenInv => VisibleRowsPass
  BY DEF ScreenInv
<1> QED BY <1>1, ScreenInvHolds, PTL

\* The Internet and LAN tabs show only servers that have answered
\* (ServerFailedToRespond, CTabInternet.cpp:139-158, CTabLan.cpp:122-127).
THEOREM SilentServersNotShown == Spec => []ShownHaveAnswered
<1>1. ScreenInv => ShownHaveAnswered
  <2> SUFFICES ASSUME TabInv, KnownHaveAnswered PROVE ShownHaveAnswered
    BY DEF ScreenInv
  <2>1. \A row \in m_pServerList : row.userData \in Known
    BY DEF TabInv, RowsMatchEntries
  <2> QED BY <2>1 DEF KnownHaveAnswered, ShownHaveAnswered
<1> QED BY <1>1, ScreenInvHolds, PTL

\* The button stops a refresh exactly while there is one (SetRefreshing and its
\* callers).
THEOREM ButtonMatchesRequest == Spec => []StopButtonWhileRefreshing
<1>1. ScreenInv => StopButtonWhileRefreshing
  BY DEF ScreenInv
<1> QED BY <1>1, ScreenInvHolds, PTL

\* A row stands for the same server as long as it is on the panel, so a
\* selection kept by row never comes to mean another server
\* (CBaseTab.cpp:1331-1344).
THEOREM SelectionKeepsServer == Spec => RowKeepsServer
<1> DEFINE kept == \A row \in m_pServerList, later \in m_pServerList' :
             row.id = later.id =>
               details[row.userData].m_NetAdr = details'[later.userData].m_NetAdr
<1>1. ASSUME TabInv, [Next]_vars
      PROVE  kept
  <2>1. /\ m_pServerList \subseteq RowType /\ details \in [Servers -> Details \cup {None}]
        /\ \A row \in m_pServerList : row.userData \in Known
        /\ \A row, other \in m_pServerList : row.id = other.id => row = other
        /\ \A i \in Known : i \in Servers /\ details[i] # None
    BY <1>1 DEF TabInv, TypeOK, RowsMatchEntries, AddressesMatchEntries, Known
  <2>2. ASSUME UNCHANGED <<m_pServerList, details>>
        PROVE  kept
    BY <2>1, <2>2
  <2>3. ASSUME StartRefresh
        PROVE  kept
    BY <2>3 DEF StartRefresh, ClearServerList
  <2>4. ASSUME \A row \in m_pServerList' :
                 \/ \E old \in m_pServerList : row.id = old.id /\ row.userData = old.userData
                 \/ row.id \notin RowIds(m_pServerList),
               \A i \in Known : details'[i] = details[i]
        PROVE  kept
    <3>1. \A row \in m_pServerList : row.id \in RowIds(m_pServerList)
      BY DEF RowIds
    <3> QED BY <2>1, <2>4, <3>1
  <2>5. ASSUME NEW i \in Servers, NEW server \in Answered(i) \cup Unanswered(i),
               BaseServerResponded(i, server),
               details' = [details EXCEPT ![i] = server]
        PROVE  kept
    <3>1. /\ server \in Details
          /\ details[i] # None => details[i].m_NetAdr = server.m_NetAdr
      BY <1>1, <2>5, AnswerType
    <3>2. /\ details'[i] = server
          /\ \A j \in Servers : j # i => details'[j] = details[j]
      BY <2>1, <2>5
    <3>3. SUFFICES ASSUME NEW row \in m_pServerList, NEW later \in m_pServerList',
                          row.id = later.id
                   PROVE  details[row.userData].m_NetAdr = details'[later.userData].m_NetAdr
      OBVIOUS
    <3>4. CASE later \in m_pServerList /\ later.userData # i
      BY <2>1, <3>2, <3>3, <3>4
    <3>5. CASE /\ later.userData = i
               /\ \A old \in m_pServerList :
                    old.id = later.id => details[old.userData].m_NetAdr = server.m_NetAdr
      BY <3>2, <3>3, <3>5
    <3> QED BY <1>1, <2>5, <3>1, <3>4, <3>5, RespondedRow
  <2>6. CASE \/ OnPageShow \/ GetNewServerList
             \/ OnLocationChanged \/ \E f \in FilterSettings : OpenBrowser(f)
    BY <2>2, <2>3, <2>6
       DEF OnPageShow, GetNewServerList, OpenBrowser, OnLocationChanged, tabVars
  <2>7. CASE \/ OnPageHide \/ OnStopRefresh \/ OnRefresh \/ OnRefreshServer
             \/ AddConnectedServer \/ RefreshComplete \/ PingComplete
             \/ \E f \in FilterSettings : ChangeControl(f)
    BY <2>2, <2>7 DEF OnPageHide, OnStopRefresh, StopRefresh, OnRefresh, OnRefreshServer,
                      AddConnectedServer, RefreshComplete, PingComplete, ChangeControl,
                      tabVars
  <2>8. CASE OnTextChanged
    <3>1. ApplyGameFilters(controls) /\ details' = details
      BY <2>8 DEF OnTextChanged
    <3>2. \A row \in m_pServerList' :
             \/ \E old \in m_pServerList : row.id = old.id /\ row.userData = old.userData
             \/ row.id \notin RowIds(m_pServerList)
      BY <1>1, <3>1, FilteredRows
    <3> QED BY <2>4, <3>1, <3>2
  <2>9. ASSUME NEW i \in Servers, ServerResponded(i)
        PROVE  kept
    BY <2>5, <2>9 DEF ServerResponded
  <2>10. ASSUME NEW i \in Servers, ServerFailedToRespond(i)
         PROVE  kept
    <3>1. PICK server \in Unanswered(i) :
            /\ details' = [details EXCEPT ![i] = server]
            /\ HideServer(i) \/ BaseServerResponded(i, server)
      BY <2>10 DEF ServerFailedToRespond
    <3>2. CASE HideServer(i)
      <4>1. \A j \in Known : details'[j] = details[j]
        BY <1>1, <3>1, SilentDetails
      <4>2. \A row \in m_pServerList' :
              \E old \in m_pServerList : row.id = old.id /\ row.userData = old.userData
        BY <1>1, <3>2, HiddenRows
      <4> QED BY <2>4, <4>1, <4>2
    <3> QED BY <2>5, <3>1, <3>2
  <2>11. CASE UNCHANGED vars
    BY <2>2, <2>11 DEF vars
  <2> HIDE DEF kept
  <2> QED BY <1>1, <2>6, <2>7, <2>8, <2>9, <2>10, <2>11 DEF Next
<1>2. TabInv /\ [Next]_vars => [kept]_vars
  BY <1>1
<1>3. [][kept]_vars => RowKeepsServer
  BY DEF RowKeepsServer
<1> HIDE DEF kept
<1> QED BY <1>2, <1>3, TabInvHolds, PTL DEF Spec

=============================================================================
