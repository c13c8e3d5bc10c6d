------------------------ MODULE WorkshopMountProofs ------------------------
(***************************************************************************)
(* What holds of the list of addons, of addonlist.txt and of the directory *)
(* the game reads for every set of addons, files and threads.              *)
(***************************************************************************)
EXTENDS WorkshopMount, TLAPS

-----------------------------------------------------------------------------
(* Lemmas about the operators.                                             *)

\* A set of loaded addons, as a function of its own domain.
IsAddons(items) == DOMAIN items \subseteq Items /\ items \in [DOMAIN items -> Addon]

Agree(list, items) ==
  \A i \in DOMAIN list : i \in DOMAIN items => list[i] = items[i].bMounted

IsList(list) == DOMAIN list \subseteq Items /\ list \in [DOMAIN list -> BOOLEAN]

\* What UpdateAddonList saves is a list that agrees with the addons it knows, and
\* exists; an existing list loses no entry, and gains all of the addons.
LEMMA UpdateProps ==
  ASSUME NEW list, NEW items, NEW new, new = UpdateAddonList(list, items),
         list # NoFile => IsList(list), IsAddons(items)
  PROVE  /\ new # NoFile /\ IsList(new)
         /\ list # NoFile => DOMAIN new = DOMAIN list \cup DOMAIN items
         /\ Agree(new, items)
<1>1. CASE list = NoFile
  <2>1. new = [i \in {} |-> FALSE]
    BY <1>1 DEF UpdateAddonList
  <2>2. DOMAIN new = {} /\ new \in [{} -> BOOLEAN]
    BY <2>1
  <2>3. new # NoFile
    BY <2>2, MountAssumption
  <2> QED BY <1>1, <2>2, <2>3 DEF IsList, Agree
<1>2. CASE list # NoFile
  <2> DEFINE D == DOMAIN list \cup DOMAIN items
  <2>1. new = [i \in D |-> IF i \in DOMAIN items THEN items[i].bMounted ELSE list[i]]
    BY <1>2 DEF UpdateAddonList
  <2>2. \A i \in DOMAIN items : items[i].bMounted \in BOOLEAN
    BY DEF IsAddons, Addon
  <2>3. \A i \in DOMAIN list : list[i] \in BOOLEAN
    BY <1>2 DEF IsList
  <2>4. new \in [D -> BOOLEAN] /\ D \in SUBSET Items
    BY <1>2, <2>1, <2>2, <2>3 DEF IsList, IsAddons
  <2>5. new # NoFile
    BY <2>4, MountAssumption
  <2>6. Agree(new, items)
    BY <2>1 DEF Agree
  <2> QED BY <1>2, <2>4, <2>5, <2>6 DEF IsList
<1> QED BY <1>1, <1>2

\* Loading keeps what is loaded; a newly found addon is mounted exactly when
\* addonlist.txt says so.
LEMMA LoadedProps ==
  ASSUME MountTypeOK, NEW items, IsAddons(items), NEW found \in SUBSET Items
  PROVE  /\ IsAddons(Loaded(items, found))
         /\ DOMAIN Loaded(items, found) = DOMAIN items \cup found
         /\ \A i \in DOMAIN items : Loaded(items, found)[i] = items[i]
         /\ \A i \in found \ DOMAIN items :
              Loaded(items, found)[i].bMounted = WorkshopIDIsMounted(i)
<1> DEFINE D == DOMAIN items \cup found
           v(i) == IF i \in DOMAIN items THEN items[i]
                   ELSE [bMounted |-> WorkshopIDIsMounted(i), bFoundConflictingFiles |-> FALSE]
<1>1. Loaded(items, found) = [i \in D |-> v(i)]
  BY DEF Loaded
<1>2. \A i : WorkshopIDIsMounted(i) \in BOOLEAN
  BY DEF WorkshopIDIsMounted
<1>3. \A i \in D : v(i) \in Addon
  BY <1>2 DEF IsAddons, Addon
<1>4. D \subseteq Items
  BY DEF IsAddons
<1> QED BY <1>1, <1>3, <1>4 DEF IsAddons

\* A scan, seen from the list and the file: the saved list agrees with the new
\* list of addons, keeps its entries and exists if it existed.
LEMMA ScanProps ==
  ASSUME MountTypeOK, NEW items, IsAddons(items), NEW found \in SUBSET Items,
         NEW running \in [Jobs -> Nat],
         LoadWorkshopItems(items, found, running)
  PROVE  /\ m_Items' = Loaded(items, found)
         /\ IsAddons(m_Items')
         /\ threads' \in [Jobs -> Nat]
         /\ addonList = NoFile => addonList' = NoFile
         /\ addonList # NoFile => addonList' # NoFile /\ IsList(addonList')
         /\ \/ addonList' = addonList
            \/ /\ addonList' # NoFile
               /\ Agree(addonList', m_Items')
               /\ addonList # NoFile
               /\ DOMAIN addonList \cup DOMAIN items \subseteq DOMAIN addonList'
<1> DEFINE auto == AutoMounted(items, found)
<1>1. m_Items' = Loaded(items, found) /\ IsAddons(m_Items')
  BY LoadedProps DEF LoadWorkshopItems
<1>2. threads' \in [Jobs -> Nat]
  <2>1. PICK early : threads' = [j \in Jobs |->
            running[j] + IF \/ j \in {k \in Jobs : k.item \in auto /\ k.op = "compare"} \ early
                            \/ \E c \in early : j = [c EXCEPT !.op = "write"]
                         THEN 1 ELSE 0]
    BY DEF LoadWorkshopItems
  <2> QED BY <2>1
<1>3. CASE auto = {}
  <2>1. addonList' = addonList
    BY <1>3 DEF LoadWorkshopItems
  <2> QED BY <1>1, <1>2, <2>1 DEF MountTypeOK, IsList
<1>4. CASE auto # {}
  <2>0. addonList # NoFile /\ IsList(addonList) /\ auto \subseteq found
    BY <1>4 DEF AutoMounted, ShouldAutoMount, MountTypeOK, IsList
  <2>1. PICK last \in auto :
          addonList' = UpdateAddonList(addonList,
                         Loaded(items, (found \cap DOMAIN addonList) \cup (auto \ {last})))
    BY <1>4 DEF LoadWorkshopItems
  <2> DEFINE some == (found \cap DOMAIN addonList) \cup (auto \ {last})
             part == Loaded(items, some)
  <2>2. some \in SUBSET Items /\ some \subseteq found
    BY <2>0
  <2>3. /\ IsAddons(part) /\ DOMAIN part = DOMAIN items \cup some
        /\ \A i \in DOMAIN items : part[i] = items[i]
        /\ \A i \in some \ DOMAIN items : part[i].bMounted = WorkshopIDIsMounted(i)
    BY <2>2, LoadedProps
  <2>4. /\ DOMAIN m_Items' = DOMAIN items \cup found
        /\ \A i \in DOMAIN items : m_Items'[i] = items[i]
        /\ \A i \in found \ DOMAIN items : m_Items'[i].bMounted = WorkshopIDIsMounted(i)
    BY <1>1, LoadedProps
  <2>5. \A i \in DOMAIN part : i \in DOMAIN m_Items' /\ part[i].bMounted = m_Items'[i].bMounted
    BY <2>2, <2>3, <2>4
  <2> HIDE DEF part
  <2>6. /\ addonList' # NoFile /\ IsList(addonList')
        /\ DOMAIN addonList' = DOMAIN addonList \cup DOMAIN part
        /\ Agree(addonList', part)
    <3>1. addonList' = UpdateAddonList(addonList, part)
      BY <2>1 DEF part
    <3> QED BY <2>0, <2>3, <3>1, UpdateProps
  <2>7. \A i \in DOMAIN m_Items' \cap DOMAIN addonList' : i \in DOMAIN part
    BY <2>3, <2>4, <2>6
  <2>8. Agree(addonList', m_Items')
    <3> SUFFICES ASSUME NEW i \in DOMAIN addonList', i \in DOMAIN m_Items'
                 PROVE  addonList'[i] = m_Items'[i].bMounted
      BY DEF Agree
    <3>1. i \in DOMAIN part /\ part[i].bMounted = m_Items'[i].bMounted
      BY <2>5, <2>7
    <3>2. addonList'[i] = part[i].bMounted
      BY <2>6, <3>1, Zenon DEF Agree
    <3> QED BY <3>1, <3>2, Zenon
  <2> QED BY <1>1, <1>2, <2>0, <2>3, <2>6, <2>8
<1> QED BY <1>3, <1>4

-----------------------------------------------------------------------------
(* Type correctness.                                                       *)

\* The threads move between their points and end.
LEMMA ThreadType ==
  ASSUME MountTypeOK, NEW j \in Jobs, CopyCompare(j) \/ CopyWrite(j) \/ RemoveFile(j)
  PROVE  MountTypeOK' /\ DOMAIN m_Items' = DOMAIN m_Items
         /\ \A i \in DOMAIN m_Items : m_Items'[i].bMounted = m_Items[i].bMounted
<1>0. j.item \in Items /\ j.file \in Files
  BY DEF Jobs
<1>1. CASE CopyCompare(j)
  <2> DEFINE w == [j EXCEPT !.op = "write"]
  <2>1. w \in Jobs
    BY DEF Jobs
  <2>2. threads' \in [Jobs -> Nat]
    <3>1. threads' = [threads EXCEPT ![j] = @ - 1, ![w] = @ + 1] /\ threads[j] > 0 /\ w # j
      BY <1>1 DEF CopyCompare, Jobs
    <3> HIDE DEF w
    <3> QED BY <2>1, <3>1 DEF MountTypeOK
  <2>3. \/ m_Items' = m_Items
        \/ \E c \in BOOLEAN : m_Items' = [m_Items EXCEPT ![j.item].bFoundConflictingFiles = c]
    BY <1>1 DEF CopyCompare, CompareFiles, SetConflictingFiles
  <2>4. /\ DOMAIN m_Items' = DOMAIN m_Items
        /\ m_Items' \in [DOMAIN m_Items -> Addon]
        /\ \A i \in DOMAIN m_Items : m_Items'[i].bMounted = m_Items[i].bMounted
    <3>1. CASE m_Items' = m_Items
      BY <3>1 DEF MountTypeOK
    <3>2. CASE m_Items' # m_Items
      <4>1. PICK c \in BOOLEAN : m_Items' = [m_Items EXCEPT ![j.item].bFoundConflictingFiles = c]
        BY <2>3, <3>2
      <4>2. m_Items' = [i \in DOMAIN m_Items |->
                          IF i = j.item THEN [m_Items[i] EXCEPT !.bFoundConflictingFiles = c]
                          ELSE m_Items[i]]
        BY <4>1 DEF MountTypeOK
      <4>3. \A i \in DOMAIN m_Items : m_Items[i] \in Addon
        BY DEF MountTypeOK
      <4>4. ASSUME NEW r \in Addon
            PROVE  /\ [r EXCEPT !.bFoundConflictingFiles = c] \in Addon
                   /\ [r EXCEPT !.bFoundConflictingFiles = c].bMounted = r.bMounted
        BY DEF Addon
      <4> QED BY <4>2, <4>3, <4>4
    <3> QED BY <3>1, <3>2
  <2> QED BY <1>1, <2>2, <2>4 DEF CopyCompare, MountTypeOK
<1>2. CASE CopyWrite(j)
  BY <1>0, <1>2 DEF CopyWrite, MountTypeOK
<1>3. CASE RemoveFile(j)
  BY <1>0, <1>3 DEF RemoveFile, MountTypeOK
<1> QED BY <1>1, <1>2, <1>3

\* The check box flips one addon and saves the list.
LEMMA ToggleProps ==
  ASSUME MountTypeOK, NEW i \in Items, MountWorkshopItem(i)
  PROVE  /\ MountTypeOK'
         /\ i \in DOMAIN m_Items /\ DOMAIN m_Items' = DOMAIN m_Items
         /\ addonList' # NoFile
         /\ Agree(addonList', m_Items')
         /\ addonList # NoFile => DOMAIN m_Items \subseteq DOMAIN addonList'
<1>1. /\ i \in DOMAIN m_Items
      /\ m_Items' = [m_Items EXCEPT ![i].bMounted = ~@]
      /\ UNCHANGED <<addonDir, content, starts>>
  BY DEF MountWorkshopItem
<1>2. DOMAIN m_Items' = DOMAIN m_Items /\ IsAddons(m_Items')
  BY <1>1 DEF MountTypeOK, IsAddons, Addon
<1>3. threads' \in [Jobs -> Nat]
  <2>1. PICK new : threads' = [j \in Jobs |-> IF j \in new THEN threads[j] + 1 ELSE threads[j]]
    BY DEF MountWorkshopItem
  <2> QED BY <2>1 DEF MountTypeOK
<1> DEFINE once == UpdateAddonList(addonList, m_Items')
<1>4. addonList' = once \/ addonList' = UpdateAddonList(once, m_Items')
  BY DEF MountWorkshopItem
<1>5. /\ once # NoFile /\ IsList(once)
      /\ addonList # NoFile => DOMAIN m_Items \subseteq DOMAIN once
      /\ Agree(once, m_Items')
  <2>1. addonList # NoFile => IsList(addonList)
    BY DEF MountTypeOK, IsList
  <2>2. /\ once # NoFile /\ IsList(once)
        /\ addonList # NoFile => DOMAIN once = DOMAIN addonList \cup DOMAIN m_Items'
        /\ Agree(once, m_Items')
    BY <2>1, <1>2, UpdateProps
  <2> QED BY <1>2, <2>2
<1> HIDE DEF once
<1>6. /\ addonList' # NoFile /\ IsList(addonList')
      /\ addonList # NoFile => DOMAIN m_Items \subseteq DOMAIN addonList'
      /\ Agree(addonList', m_Items')
  <2>1. CASE addonList' = once
    BY <1>5, <2>1
  <2>2. CASE addonList' = UpdateAddonList(once, m_Items')
    <3>1. /\ addonList' # NoFile /\ IsList(addonList')
          /\ DOMAIN addonList' = DOMAIN once \cup DOMAIN m_Items'
          /\ Agree(addonList', m_Items')
      BY <1>2, <1>5, <2>2, UpdateProps
    <3> QED BY <1>2, <3>1
  <2> QED BY <1>4, <2>1, <2>2
<1>7. unsettled' \in SUBSET Items
  <2>1. unsettled' = unsettled \cup {i} \/ unsettled' = unsettled \ {i}
    BY DEF MountWorkshopItem
  <2> QED BY <2>1 DEF MountTypeOK
<1> QED BY <1>1, <1>2, <1>3, <1>6, <1>7 DEF MountTypeOK, IsAddons, IsList

\* A scan adds addons to the unsettled ones.
LEMMA ScanUnsettles ==
  ASSUME MountTypeOK, NEW items, NEW found \in SUBSET Items, NEW running,
         LoadWorkshopItems(items, found, running)
  PROVE  unsettled' \in SUBSET Items
<1>1. unsettled' = unsettled \cup AutoMounted(items, found) \cup Interrupted(running)
  BY DEF LoadWorkshopItems
<1>2. /\ unsettled \in SUBSET Items /\ AutoMounted(items, found) \in SUBSET Items
      /\ Interrupted(running) \in SUBSET Items
  BY DEF MountTypeOK, AutoMounted, Interrupted
<1> QED BY <1>1, <1>2

\* The empty list of a new process.
LEMMA NoAddons == IsAddons([i \in {} |-> FALSE])
BY DEF IsAddons

\* Every step keeps the types.
LEMMA MountNextType == MountTypeOK /\ [MountNext]_mountVars => MountTypeOK'
<1> SUFFICES ASSUME MountTypeOK, [MountNext]_mountVars PROVE MountTypeOK'
  OBVIOUS
<1>1. CASE Start
  <2>1. NoThreads \in [Jobs -> Nat]
    BY DEF NoThreads
  <2>2. IsAddons(m_Items') /\ threads' \in [Jobs -> Nat]
        /\ (addonList' # NoFile => IsList(addonList'))
    BY <1>1, <2>1, NoAddons, ScanProps, MountAssumption DEF Start
  <2>4. unsettled' \in SUBSET Items
    BY <1>1, ScanUnsettles, MountAssumption DEF Start
  <2>3. addonDir' \in [Files -> Items \cup {Nobody, Torn}]
    BY <1>1 DEF Start, MountTypeOK
  <2> QED BY <1>1, <2>2, <2>3, <2>4 DEF Start, MountTypeOK, IsAddons, IsList
<1>2. CASE Rescan
  <2>1. IsAddons(m_Items)
    BY DEF MountTypeOK, IsAddons
  <2>2. IsAddons(m_Items') /\ threads' \in [Jobs -> Nat]
        /\ (addonList' # NoFile => IsList(addonList'))
    BY <1>2, <2>1, ScanProps DEF Rescan, MountTypeOK
  <2>3. unsettled' \in SUBSET Items
    BY <1>2, ScanUnsettles DEF Rescan, MountTypeOK
  <2> QED BY <1>2, <2>2, <2>3 DEF Rescan, MountTypeOK, IsAddons, IsList
<1>3. CASE MountClient
  BY <1>3, ThreadType, ToggleProps DEF MountClient, ThreadStep
<1>4. CASE \E i \in Items : ContentAppears(i) \/ ContentVanishes(i)
  BY <1>4 DEF ContentAppears, ContentVanishes, MountTypeOK
<1>5. CASE UNCHANGED mountVars
  BY <1>5 DEF mountVars, MountTypeOK
<1> QED BY <1>1, <1>2, <1>3, <1>4, <1>5 DEF MountNext

LEMMA MountInitType == MountInit => MountTypeOK
BY DEF MountInit, MountTypeOK, NoThreads

\* The list of addons, addonlist.txt and the threads hold values of their types.
THEOREM MountTypeCorrect == MountSpec => []MountTypeOK
BY MountInitType, MountNextType, PTL DEF MountSpec

-----------------------------------------------------------------------------
(* The list of addons against addonlist.txt.  That an addon shown as       *)
(* mounted is recorded as mounted needs both that the two agree and that   *)
(* a mounted addon has an entry at all.                                    *)

Recorded ==
  ListShips =>
    /\ addonList # NoFile
    /\ \A i \in DOMAIN m_Items : m_Items[i].bMounted => i \in DOMAIN addonList

ListInv == MountTypeOK /\ AddonListAgrees /\ Recorded

LEMMA AgreesIsAgree == AddonListAgrees <=> (addonList # NoFile => Agree(addonList, m_Items))
BY Zenon DEF AddonListAgrees, Agree

LEMMA AgreesIsAgreeNext ==
  AddonListAgrees' <=> (addonList' # NoFile => Agree(addonList', m_Items'))
BY Zenon DEF AddonListAgrees, Agree

\* A scan keeps both, whichever list of addons it starts from.
LEMMA ScanInv ==
  ASSUME MountTypeOK, Recorded, NEW items, IsAddons(items), NEW found \in SUBSET Items,
         addonList # NoFile => Agree(addonList, items),
         \A i \in DOMAIN items : ListShips /\ items[i].bMounted => i \in DOMAIN addonList,
         NEW running \in [Jobs -> Nat],
         LoadWorkshopItems(items, found, running)
  PROVE  AddonListAgrees' /\ Recorded'
<1>0. m_Items' = Loaded(items, found)
  BY ScanProps
<1>1. /\ m_Items' = Loaded(items, found)
      /\ addonList = NoFile => addonList' = NoFile
      /\ addonList # NoFile => addonList' # NoFile
      /\ \/ addonList' = addonList
         \/ /\ Agree(addonList', m_Items')
            /\ DOMAIN addonList \subseteq DOMAIN addonList'
  BY ScanProps
<1>2. /\ DOMAIN m_Items' = DOMAIN items \cup found
      /\ \A i \in DOMAIN items : m_Items'[i] = items[i]
      /\ \A i \in found \ DOMAIN items : m_Items'[i].bMounted = WorkshopIDIsMounted(i)
  <2>1. /\ DOMAIN Loaded(items, found) = DOMAIN items \cup found
        /\ \A i \in DOMAIN items : Loaded(items, found)[i] = items[i]
        /\ \A i \in found \ DOMAIN items :
             Loaded(items, found)[i].bMounted = WorkshopIDIsMounted(i)
    BY LoadedProps, Zenon
  <2> QED BY <1>0, <2>1, Zenon
<1>3. ASSUME addonList' = addonList, addonList # NoFile PROVE Agree(addonList', m_Items')
  <2> SUFFICES ASSUME NEW i \in DOMAIN addonList, i \in DOMAIN m_Items'
               PROVE  addonList[i] = m_Items'[i].bMounted
    BY <1>3 DEF Agree
  <2>1. CASE i \in DOMAIN items
    BY <1>2, <1>3, <2>1, Zenon DEF Agree
  <2>2. CASE i \notin DOMAIN items
    <3>1. m_Items'[i].bMounted = WorkshopIDIsMounted(i)
      BY <1>2, <2>2
    <3>2. addonList[i] \in BOOLEAN
      BY <1>3 DEF MountTypeOK
    <3>3. WorkshopIDIsMounted(i) = addonList[i]
      BY <1>3, <3>2 DEF WorkshopIDIsMounted
    <3> QED BY <3>1, <3>3, Zenon
  <2> QED BY <2>1, <2>2
<1>4. AddonListAgrees'
  BY <1>1, <1>3, AgreesIsAgreeNext
<1>5. ASSUME ListShips PROVE \A i \in DOMAIN m_Items' : m_Items'[i].bMounted => i \in DOMAIN addonList'
  <2> SUFFICES ASSUME NEW i \in DOMAIN m_Items', m_Items'[i].bMounted
               PROVE  i \in DOMAIN addonList
    BY <1>1
  <2>1. CASE i \in DOMAIN items
    BY <1>2, <1>5, <2>1
  <2>2. CASE i \notin DOMAIN items
    <3>1. WorkshopIDIsMounted(i)
      BY <1>2, <2>2
    <3> QED BY <3>1 DEF WorkshopIDIsMounted
  <2> QED BY <2>1, <2>2
<1>6. Recorded'
  BY <1>1, <1>5 DEF Recorded
<1> QED BY <1>4, <1>6

\* Every step keeps the invariant.
LEMMA MountNextInv == ListInv /\ [MountNext]_mountVars => ListInv'
<1> SUFFICES ASSUME ListInv, [MountNext]_mountVars PROVE AddonListAgrees' /\ Recorded'
  BY MountNextType DEF ListInv
<1>0. MountTypeOK /\ AddonListAgrees /\ Recorded
  BY DEF ListInv
<1>1. CASE Start
  <2> DEFINE none == [i \in {} |-> FALSE]
  <2>1. NoThreads \in [Jobs -> Nat]
    BY DEF NoThreads
  <2>2. DOMAIN none = {} /\ IsAddons(none) /\ Agree(addonList, none)
    BY NoAddons DEF Agree
  <2>3. LoadWorkshopItems(none, LocalItems, NoThreads) /\ LocalItems \in SUBSET Items
    BY <1>1, MountAssumption DEF Start
  <2> HIDE DEF none
  <2> QED BY <1>0, <2>1, <2>2, <2>3, ScanInv
<1>2. CASE Rescan
  <2>1. /\ IsAddons(m_Items) /\ content \in SUBSET Items /\ threads \in [Jobs -> Nat]
        /\ LoadWorkshopItems(m_Items, content, threads)
    BY <1>0, <1>2 DEF Rescan, MountTypeOK, IsAddons
  <2>2. addonList # NoFile => Agree(addonList, m_Items)
    BY <1>0, AgreesIsAgree
  <2>3. \A i \in DOMAIN m_Items : ListShips /\ m_Items[i].bMounted => i \in DOMAIN addonList
    BY <1>0 DEF Recorded
  <2> QED BY <1>0, <2>1, <2>2, <2>3, ScanInv
<1>3. CASE \E i \in Items : MountWorkshopItem(i)
  <2>1. /\ DOMAIN m_Items' = DOMAIN m_Items /\ addonList' # NoFile
        /\ Agree(addonList', m_Items')
        /\ addonList # NoFile => DOMAIN m_Items \subseteq DOMAIN addonList'
    BY <1>0, <1>3, ToggleProps
  <2>2. AddonListAgrees'
    BY <2>1, AgreesIsAgreeNext
  <2>3. Recorded'
    BY <1>0, <2>1 DEF Recorded
  <2> QED BY <2>2, <2>3
<1>4. CASE ThreadStep
  <2>1. /\ DOMAIN m_Items' = DOMAIN m_Items
        /\ \A i \in DOMAIN m_Items : m_Items'[i].bMounted = m_Items[i].bMounted
    BY <1>0, <1>4, ThreadType DEF ThreadStep
  <2>2. addonList' = addonList
    BY <1>4 DEF ThreadStep, CopyCompare, CopyWrite, RemoveFile
  <2>3. addonList # NoFile => Agree(addonList, m_Items)
    BY <1>0, AgreesIsAgree
  <2>4. addonList # NoFile => Agree(addonList', m_Items')
    BY <2>1, <2>2, <2>3, Zenon DEF Agree
  <2>5. AddonListAgrees'
    BY <2>2, <2>4, AgreesIsAgreeNext
  <2>6. Recorded'
    BY <1>0, <2>1, <2>2 DEF Recorded
  <2> QED BY <2>5, <2>6
<1>5. CASE UNCHANGED <<m_Items, addonList>>
  BY <1>0, <1>5 DEF AddonListAgrees, Recorded
<1>6. CASE \E i \in Items : ContentAppears(i) \/ ContentVanishes(i)
  BY <1>5, <1>6 DEF ContentAppears, ContentVanishes
<1> QED BY <1>1, <1>2, <1>3, <1>4, <1>5, <1>6 DEF MountNext, MountClient, mountVars

LEMMA MountInitInv == MountInit => ListInv
<1> SUFFICES ASSUME MountInit PROVE ListInv
  OBVIOUS
<1>1. [i \in {} |-> FALSE] # NoFile
  <2>1. [i \in {} |-> FALSE] \in [{} -> BOOLEAN]
    OBVIOUS
  <2> QED BY <2>1, MountAssumption
<1>2. DOMAIN m_Items = {}
  BY DEF MountInit
<1> QED BY <1>1, <1>2, MountInitType DEF MountInit, ListInv, AddonListAgrees, Recorded

LEMMA ListInvHolds == MountSpec => []ListInv
BY MountInitInv, MountNextInv, PTL DEF MountSpec

\* addonlist.txt and the check boxes agree through mounts, scans and restarts.
THEOREM ListAgrees == MountSpec => []AddonListAgrees
BY ListInvHolds, PTL DEF ListInv

\* When addonlist.txt exists from the beginning, what is shown as mounted is
\* recorded as mounted.
THEOREM MountedStaysRecorded == MountSpec => []MountedIsRecorded
<1>1. ListInv => MountedIsRecorded
  <2> SUFFICES ASSUME ListInv, ListShips, NEW i \in DOMAIN m_Items, m_Items[i].bMounted
               PROVE  i \in DOMAIN addonList /\ addonList[i]
    BY DEF MountedIsRecorded
  <2>1. addonList # NoFile /\ i \in DOMAIN addonList
    BY DEF ListInv, Recorded
  <2>2. addonList[i] = m_Items[i].bMounted
    BY <2>1, Zenon DEF ListInv, AddonListAgrees
  <2> QED BY <2>1, <2>2
<1> QED BY <1>1, ListInvHolds, PTL

-----------------------------------------------------------------------------
(* The files of settled addons.  FilesFollowBox speaks of loaded addons    *)
(* whose threads are done.  To be inductive it has to say what the threads *)
(* of a busy addon still have to do, and what lies in zamnhlmp_addon of an *)
(* addon this session has not loaded yet: addonlist.txt tells, since it is *)
(* the box the next scan gives that addon.                                 *)

Ops == {"compare", "write", "remove"}

Job(op, i, f) == [op |-> op, item |-> i, file |-> f]

\* A file of an addon is there, or a thread that brings it is not done.
Coming(i, f) ==
  /\ threads[Job("remove", i, f)] = 0
  /\ \/ threads[Job("compare", i, f)] > 0 \/ threads[Job("write", i, f)] > 0
     \/ addonDir[f] = i

\* It is gone, or a thread that removes it is not done.
Going(i, f) ==
  /\ threads[Job("compare", i, f)] = 0 /\ threads[Job("write", i, f)] = 0
  /\ threads[Job("remove", i, f)] > 0 \/ addonDir[f] # i

\* What the box of a loaded addon tells of its files.
Follows(i) ==
  \A f \in FilesOf[i] :
    IF m_Items[i].bMounted THEN Coming(i, f) \/ SharedFile(i, f) ELSE Going(i, f)

\* The directory dir holds the files of an addon, but for shared ones, or none.
Rests(dir, i, mounted) ==
  \A f \in FilesOf[i] : IF mounted THEN dir[f] = i \/ SharedFile(i, f) ELSE dir[f] # i

\* What the next scan would show of an addon it does not mount is what dir holds.
Told(list, dir, i) ==
  /\ list = NoFile => Rests(dir, i, FALSE)
  /\ list # NoFile /\ i \in DOMAIN list => Rests(dir, i, list[i])

BoxInv ==
  /\ ListInv
  /\ addonList = NoFile => \A i \in DOMAIN m_Items : m_Items[i].bMounted = FALSE
  /\ \A j \in Jobs : threads[j] > 0 => j.item \in DOMAIN m_Items
  /\ \A i \in Items \ unsettled :
       /\ Busy(i) => FolderExists(i)
       /\ i \in DOMAIN m_Items => Follows(i)
       /\ i \notin DOMAIN m_Items => Told(addonList, addonDir, i)

LEMMA JobAt ==
  ASSUME NEW op \in Ops, NEW i \in Items, NEW f \in FilesOf[i]
  PROVE  /\ Job(op, i, f) \in Jobs
         /\ Job(op, i, f).item = i /\ Job(op, i, f).file = f /\ Job(op, i, f).op = op
<1>1. f \in Files
  BY MountAssumption
<1> QED BY <1>1 DEF Jobs, Job, Ops

\* An addon without threads has none of any kind on any file.
LEMMA IdleJobs ==
  ASSUME threads \in [Jobs -> Nat], NEW i \in Items, ~Busy(i), NEW f \in FilesOf[i], NEW op \in Ops
  PROVE  threads[Job(op, i, f)] = 0
<1>1. Job(op, i, f) \in Jobs /\ Job(op, i, f).item = i
  BY JobAt
<1> HIDE DEF Job
<1>2. threads[Job(op, i, f)] \in Nat /\ ~(threads[Job(op, i, f)] > 0)
  BY <1>1 DEF Busy
<1> QED BY <1>2

\* Settled and without threads, an addon's files are as its box says.
LEMMA FollowsRests ==
  ASSUME threads \in [Jobs -> Nat], NEW i \in Items, Follows(i), ~Busy(i)
  PROVE  Rests(addonDir, i, m_Items[i].bMounted)
<1> SUFFICES ASSUME NEW f \in FilesOf[i]
             PROVE  IF m_Items[i].bMounted THEN addonDir[f] = i \/ SharedFile(i, f)
                                           ELSE addonDir[f] # i
  BY Zenon DEF Rests
<1>1. \A op \in Ops : threads[Job(op, i, f)] = 0
  BY IdleJobs
<1>2. /\ ~(threads[Job("compare", i, f)] > 0) /\ ~(threads[Job("write", i, f)] > 0)
      /\ ~(threads[Job("remove", i, f)] > 0)
  BY <1>1 DEF Ops
<1>3. IF m_Items[i].bMounted THEN Coming(i, f) \/ SharedFile(i, f) ELSE Going(i, f)
  BY Zenon DEF Follows
<1> QED BY <1>2, <1>3, Zenon DEF Coming, Going

\* And the other way round.
LEMMA RestsFollows ==
  ASSUME threads' \in [Jobs -> Nat], NEW i \in Items, Rests(addonDir', i, m_Items'[i].bMounted),
         \A j \in Jobs : j.item = i => threads'[j] = 0
  PROVE  Follows(i)'
<1> SUFFICES ASSUME NEW f \in FilesOf[i]
             PROVE  IF m_Items'[i].bMounted THEN Coming(i, f)' \/ SharedFile(i, f) ELSE Going(i, f)'
  BY Zenon DEF Follows, SharedFile
<1>1. \A op \in Ops : threads'[Job(op, i, f)] = 0
  <2> TAKE op \in Ops
  <2>1. Job(op, i, f) \in Jobs /\ Job(op, i, f).item = i
    BY JobAt
  <2> QED BY <2>1, Zenon
<1>2. /\ threads'[Job("compare", i, f)] = 0 /\ threads'[Job("write", i, f)] = 0
      /\ threads'[Job("remove", i, f)] = 0
  BY <1>1 DEF Ops
<1>3. IF m_Items'[i].bMounted THEN addonDir'[f] = i \/ SharedFile(i, f) ELSE addonDir'[f] # i
  BY Zenon DEF Rests
<1> QED BY <1>2, <1>3, Zenon DEF Coming, Going, Job


\* UpdateAddonList leaves alone what it does not know.
LEMMA UpdateKeeps ==
  ASSUME NEW list, NEW items, NEW new, new = UpdateAddonList(list, items),
         NEW i, i \notin DOMAIN items
  PROVE  /\ i \in DOMAIN new => list # NoFile /\ i \in DOMAIN list
         /\ i \in DOMAIN new => new[i] = list[i]
<1>1. CASE list = NoFile
  BY <1>1 DEF UpdateAddonList
<1>2. CASE list # NoFile
  BY <1>2 DEF UpdateAddonList
<1> QED BY <1>1, <1>2

\* What a scan does for an addon that it does not mount.
LEMMA ScanKeeps ==
  ASSUME MountTypeOK, NEW items, IsAddons(items), NEW found \in SUBSET Items,
         NEW running \in [Jobs -> Nat],
         LoadWorkshopItems(items, found, running),
         NEW i \in Items, i \notin AutoMounted(items, found)
  PROVE  /\ \A j \in Jobs : j.item = i => threads'[j] = running[j]
         /\ i \notin DOMAIN items \cup found /\ addonList # NoFile =>
              /\ i \in DOMAIN addonList' => i \in DOMAIN addonList
              /\ i \in DOMAIN addonList' => addonList'[i] = addonList[i]
<1>1. ASSUME NEW j \in Jobs, j.item = i PROVE threads'[j] = running[j]
  <2> DEFINE copies == {k \in Jobs : k.item \in AutoMounted(items, found) /\ k.op = "compare"}
  <2>1. PICK early \in SUBSET copies :
          threads' = [k \in Jobs |->
            running[k] + IF \/ k \in copies \ early
                            \/ \E c \in early : k = [c EXCEPT !.op = "write"]
                         THEN 1 ELSE 0]
    BY DEF LoadWorkshopItems
  <2>2. j \notin copies
    BY <1>1
  <2>3. \A c \in early : j # [c EXCEPT !.op = "write"]
    BY <1>1 DEF Jobs
  <2>4. threads'[j] = running[j] + 0
    BY <2>1, <2>2, <2>3
  <2> QED BY <2>4
<1>2. ASSUME i \notin DOMAIN items \cup found, addonList # NoFile
      PROVE  /\ i \in DOMAIN addonList' => i \in DOMAIN addonList
             /\ i \in DOMAIN addonList' => addonList'[i] = addonList[i]
  <2>1. CASE AutoMounted(items, found) = {}
    BY <2>1 DEF LoadWorkshopItems
  <2>2. CASE AutoMounted(items, found) # {}
    <3> DEFINE some(last) == (found \cap DOMAIN addonList) \cup (AutoMounted(items, found) \ {last})
    <3>1. PICK last \in AutoMounted(items, found) :
            addonList' = UpdateAddonList(addonList, Loaded(items, some(last)))
      BY <2>2 DEF LoadWorkshopItems
    <3>2. some(last) \subseteq found
      BY DEF AutoMounted
    <3>3. DOMAIN Loaded(items, some(last)) = DOMAIN items \cup some(last)
      BY DEF Loaded
    <3>4. i \notin DOMAIN Loaded(items, some(last))
      BY <1>2, <3>2, <3>3
    <3> HIDE DEF some
    <3> QED BY <3>1, <3>4, UpdateKeeps
  <2> QED BY <2>1, <2>2
<1> QED BY <1>1, <1>2

\* A scan keeps what is known of an addon that rests, whether it loads it or not.
LEMMA ScanTells ==
  ASSUME MountTypeOK, threads' \in [Jobs -> Nat],
         NEW items, IsAddons(items), NEW found \in SUBSET Items,
         NEW running \in [Jobs -> Nat],
         LoadWorkshopItems(items, found, running),
         NEW i \in Items, i \notin AutoMounted(items, found), i \notin DOMAIN items,
         \A j \in Jobs : j.item = i => running[j] = 0,
         Told(addonList, addonDir', i)
  PROVE  /\ i \in DOMAIN m_Items' => Follows(i)'
         /\ i \notin DOMAIN m_Items' => Told(addonList', addonDir', i)
<1>1. m_Items' = Loaded(items, found)
  BY DEF LoadWorkshopItems
<1>2. /\ DOMAIN m_Items' = DOMAIN items \cup found
      /\ \A k \in found \ DOMAIN items : m_Items'[k].bMounted = WorkshopIDIsMounted(k)
  <2>1. /\ DOMAIN Loaded(items, found) = DOMAIN items \cup found
        /\ \A k \in found \ DOMAIN items :
             Loaded(items, found)[k].bMounted = WorkshopIDIsMounted(k)
    BY LoadedProps, Zenon
  <2> QED BY <1>1, <2>1, Zenon
<1>3. CASE i \in found
  <2>1. m_Items'[i].bMounted = WorkshopIDIsMounted(i)
    BY <1>2, <1>3
  <2>2. addonList = NoFile \/ i \in DOMAIN addonList
    BY <1>3 DEF AutoMounted, ShouldAutoMount
  <2>3. Rests(addonDir', i, m_Items'[i].bMounted)
    <3>1. CASE addonList = NoFile
      <4>1. m_Items'[i].bMounted = FALSE
        BY <2>1, <3>1 DEF WorkshopIDIsMounted
      <4>2. Rests(addonDir', i, FALSE)
        BY <3>1 DEF Told
      <4> QED BY <4>1, <4>2
    <3>2. CASE addonList # NoFile
      <4>0. addonList[i] \in BOOLEAN
        BY <2>2, <3>2 DEF MountTypeOK
      <4>1. m_Items'[i].bMounted = addonList[i]
        BY <2>1, <2>2, <3>2, <4>0 DEF WorkshopIDIsMounted
      <4>2. Rests(addonDir', i, addonList[i])
        BY <2>2, <3>2, Zenon DEF Told
      <4> QED BY <4>1, <4>2
    <3> QED BY <3>1, <3>2
  <2>4. \A j \in Jobs : j.item = i => threads'[j] = 0
    BY ScanKeeps
  <2>5. Follows(i)'
    BY <2>3, <2>4, RestsFollows
  <2> QED BY <1>2, <1>3, <2>5
<1>4. CASE i \notin found
  <2>1. /\ addonList = NoFile => addonList' = NoFile
        /\ addonList # NoFile => addonList' # NoFile
    BY ScanProps
  <2>2. addonList # NoFile =>
          /\ i \in DOMAIN addonList' => i \in DOMAIN addonList
          /\ i \in DOMAIN addonList' => addonList'[i] = addonList[i]
    BY <1>4, ScanKeeps
  <2>3. Told(addonList', addonDir', i)
    BY <2>1, <2>2, Zenon DEF Told
  <2> QED BY <1>2, <1>4, <2>3
<1> QED BY <1>3, <1>4

\* What BoxInv says of one settled addon.
Settled(i) ==
  /\ Busy(i) => FolderExists(i)
  /\ i \in DOMAIN m_Items => Follows(i)
  /\ i \notin DOMAIN m_Items => Told(addonList, addonDir, i)

\* Where the threads of a settled addon are done, addonlist.txt tells what is on the disk.
LEMMA QuietIsTold ==
  ASSUME BoxInv, NEW i \in Items \ unsettled, ~Busy(i)
  PROVE  Told(addonList, addonDir, i)
<1>1. CASE i \notin DOMAIN m_Items
  BY <1>1 DEF BoxInv
<1>2. CASE i \in DOMAIN m_Items
  <2>1. Rests(addonDir, i, m_Items[i].bMounted)
    BY <1>2, FollowsRests DEF BoxInv, ListInv, MountTypeOK
  <2>2. addonList = NoFile => m_Items[i].bMounted = FALSE
    BY <1>2 DEF BoxInv
  <2>3. addonList # NoFile /\ i \in DOMAIN addonList => addonList[i] = m_Items[i].bMounted
    BY <1>2, Zenon DEF BoxInv, ListInv, AddonListAgrees
  <2> QED BY <2>1, <2>2, <2>3 DEF Told
<1> QED BY <1>1, <1>2

\* A thread only exists for an addon that is loaded, before a scan and after.
LEMMA ScanThreads ==
  ASSUME MountTypeOK, NEW items, IsAddons(items), NEW found \in SUBSET Items,
         NEW running \in [Jobs -> Nat],
         \A j \in Jobs : running[j] > 0 => j.item \in DOMAIN items,
         LoadWorkshopItems(items, found, running),
         NEW j \in Jobs, threads'[j] > 0
  PROVE  j.item \in DOMAIN m_Items'
<1>1. DOMAIN m_Items' = DOMAIN items \cup found
  BY DEF LoadWorkshopItems, Loaded
<1>2. CASE j.item \in AutoMounted(items, found)
  BY <1>1, <1>2 DEF AutoMounted
<1>3. CASE j.item \notin AutoMounted(items, found)
  <2>1. j.item \in Items
    BY DEF Jobs
  <2>2. threads'[j] = running[j]
    BY <1>3, <2>1, ScanKeeps
  <2> QED BY <1>1, <2>2
<1> QED BY <1>2, <1>3

\* Without an addonlist.txt no addon is shown as mounted.
LEMMA ScanUnlisted ==
  ASSUME MountTypeOK, NEW items, IsAddons(items), NEW found \in SUBSET Items,
         NEW running \in [Jobs -> Nat],
         addonList = NoFile => \A i \in DOMAIN items : items[i].bMounted = FALSE,
         LoadWorkshopItems(items, found, running), addonList' = NoFile
  PROVE  \A i \in DOMAIN m_Items' : m_Items'[i].bMounted = FALSE
<1>1. addonList = NoFile
  BY ScanProps
<1>2. m_Items' = Loaded(items, found)
  BY DEF LoadWorkshopItems
<1>3. \A i : WorkshopIDIsMounted(i) = FALSE
  BY <1>1 DEF WorkshopIDIsMounted
<1>4. /\ DOMAIN m_Items' = DOMAIN items \cup found
      /\ \A i \in DOMAIN items : m_Items'[i] = items[i]
      /\ \A i \in found \ DOMAIN items : m_Items'[i].bMounted = WorkshopIDIsMounted(i)
  <2>1. /\ DOMAIN Loaded(items, found) = DOMAIN items \cup found
        /\ \A i \in DOMAIN items : Loaded(items, found)[i] = items[i]
        /\ \A i \in found \ DOMAIN items :
             Loaded(items, found)[i].bMounted = WorkshopIDIsMounted(i)
    BY LoadedProps, Zenon
  <2> QED BY <1>2, <2>1, Zenon
<1> QED BY <1>1, <1>3, <1>4

\* A new process: threads are gone with the old one, and what they tore belongs to
\* addons that are unsettled, or is shared with them.
LEMMA StartBox ==
  ASSUME BoxInv, Start
  PROVE  BoxInv'
<1> DEFINE none == [i \in {} |-> FALSE]
<1>0. /\ MountTypeOK /\ MountTypeOK' /\ ListInv'
      /\ threads \in [Jobs -> Nat] /\ threads' \in [Jobs -> Nat]
      /\ addonDir \in [Files -> Items \cup {Nobody, Torn}]
  BY MountNextInv DEF BoxInv, ListInv, MountNext, MountTypeOK
<1>1. /\ DOMAIN none = {} /\ IsAddons(none) /\ NoThreads \in [Jobs -> Nat]
      /\ LoadWorkshopItems(none, LocalItems, NoThreads) /\ LocalItems \in SUBSET Items
      /\ \A j \in Jobs : NoThreads[j] = 0
  BY NoAddons, MountAssumption DEF Start, NoThreads
<1> HIDE DEF none
<1>2. unsettled' = unsettled \cup AutoMounted(none, LocalItems) \cup Interrupted(NoThreads)
  BY <1>1 DEF LoadWorkshopItems
<1>3. PICK torn \in SUBSET {j.file : j \in {k \in Jobs : k.op = "write" /\ threads[k] > 0}} :
        addonDir' = [f \in Files |-> IF f \in torn THEN Torn ELSE addonDir[f]]
  BY DEF Start
<1>4. \A j \in Jobs : threads'[j] > 0 => j.item \in DOMAIN m_Items'
  BY <1>0, <1>1, ScanThreads
<1>5. addonList' = NoFile => \A i \in DOMAIN m_Items' : m_Items'[i].bMounted = FALSE
  BY <1>0, <1>1, ScanUnlisted
<1>6. ASSUME NEW i \in Items \ unsettled' PROVE Settled(i)'
  <2>1. /\ i \in Items \ unsettled
        /\ i \notin AutoMounted(none, LocalItems) /\ i \notin Interrupted(NoThreads)
    BY <1>2, <1>6
  <2>2. ~Busy(i)
    BY <1>1, <2>1 DEF Interrupted, Busy
  <2>3. Told(addonList, addonDir, i)
    BY <2>1, <2>2, QuietIsTold
  <2>4. ASSUME NEW f \in FilesOf[i]
        PROVE  /\ addonDir[f] # i => addonDir'[f] # i
               /\ addonDir[f] = i => addonDir'[f] = i \/ SharedFile(i, f)
    <3>1. f \in Files /\ i # Torn
      BY <2>1, MountAssumption
    <3>2. CASE f \notin torn
      BY <1>3, <3>1, <3>2
    <3>3. CASE f \in torn
      <4>1. PICK k \in Jobs : k.file = f /\ threads[k] > 0
        BY <1>3, <3>3
      <4>2. k.item # i /\ k.item \in Items /\ f \in FilesOf[k.item]
        BY <2>2, <4>1 DEF Busy, Jobs
      <4>3. SharedFile(i, f)
        BY <4>2 DEF SharedFile
      <4>4. addonDir'[f] = Torn
        BY <1>3, <3>1, <3>3
      <4> QED BY <3>1, <4>3, <4>4
    <3> QED BY <3>2, <3>3
  <2>5. \A b : Rests(addonDir, i, b) => Rests(addonDir', i, b)
    BY <2>4, Zenon DEF Rests
  <2>6. Told(addonList, addonDir', i)
    BY <2>3, <2>5, Zenon DEF Told
  <2>7. /\ i \in DOMAIN m_Items' => Follows(i)'
        /\ i \notin DOMAIN m_Items' => Told(addonList', addonDir', i)
    <3>1. \A j \in Jobs : j.item = i => NoThreads[j] = 0
      BY <1>1
    <3> QED BY <1>0, <1>1, <2>1, <2>6, <3>1, ScanTells
  <2>8. ~Busy(i)'
    <3> DEFINE empty == NoThreads
    <3>1. /\ MountTypeOK /\ IsAddons(none) /\ LocalItems \in SUBSET Items
          /\ empty \in [Jobs -> Nat]
          /\ LoadWorkshopItems(none, LocalItems, empty)
          /\ i \in Items /\ i \notin AutoMounted(none, LocalItems)
          /\ \A j \in Jobs : empty[j] = 0
      BY <1>0, <1>1, <2>1
    <3> HIDE DEF empty
    <3>2. \A j \in Jobs : j.item = i => threads'[j] = empty[j]
      BY <3>1, ScanKeeps
    <3> QED BY <3>1, <3>2 DEF Busy
  <2> QED BY <2>7, <2>8 DEF Settled
<1> QED BY <1>0, <1>4, <1>5, <1>6 DEF BoxInv, Settled

\* A scan of the content folder, while threads run.
LEMMA RescanBox ==
  ASSUME BoxInv, Rescan
  PROVE  BoxInv'
<1>0. /\ MountTypeOK /\ MountTypeOK' /\ ListInv'
      /\ threads \in [Jobs -> Nat] /\ threads' \in [Jobs -> Nat]
      /\ IsAddons(m_Items) /\ content \in SUBSET Items
  BY MountNextInv DEF BoxInv, ListInv, MountNext, MountTypeOK, IsAddons
<1>1. LoadWorkshopItems(m_Items, content, threads) /\ UNCHANGED <<addonDir, content>>
  BY DEF Rescan
<1>2. unsettled' = unsettled \cup AutoMounted(m_Items, content) \cup Interrupted(threads)
  BY <1>1 DEF LoadWorkshopItems
<1>3. \A j \in Jobs : threads'[j] > 0 => j.item \in DOMAIN m_Items'
  BY <1>0, <1>1, ScanThreads DEF BoxInv
<1>4. addonList' = NoFile => \A i \in DOMAIN m_Items' : m_Items'[i].bMounted = FALSE
  BY <1>0, <1>1, ScanUnlisted DEF BoxInv
<1>5. ASSUME NEW i \in Items \ unsettled' PROVE Settled(i)'
  <2>1. i \in Items \ unsettled /\ i \notin AutoMounted(m_Items, content) /\ i \in Items
    BY <1>2, <1>5
  <2>2. \A j \in Jobs : j.item = i => threads'[j] = threads[j]
    BY <1>0, <1>1, <2>1, ScanKeeps
  <2>3. Busy(i)' <=> Busy(i)
    BY <2>2 DEF Busy
  <2>4. Busy(i)' => FolderExists(i)'
    BY <1>1, <2>1, <2>3 DEF BoxInv, FolderExists
  <2>5. CASE i \in DOMAIN m_Items
    <3>1. i \in DOMAIN m_Items' /\ m_Items'[i] = m_Items[i]
      BY <1>1, <2>5 DEF LoadWorkshopItems, Loaded
    <3>2. Follows(i)
      BY <2>1, <2>5 DEF BoxInv
    <3>3. \A f \in FilesOf[i] : \A op \in Ops : threads'[Job(op, i, f)] = threads[Job(op, i, f)]
      <4> TAKE f \in FilesOf[i]
      <4> TAKE op \in Ops
      <4>1. Job(op, i, f) \in Jobs /\ Job(op, i, f).item = i
        BY <2>1, JobAt
      <4> QED BY <2>2, <4>1
    <3>4. Follows(i)'
      BY <1>1, <3>1, <3>2, <3>3 DEF Follows, Coming, Going, Ops, SharedFile, Job
    <3> QED BY <2>4, <3>1, <3>4 DEF Settled
  <2>6. CASE i \notin DOMAIN m_Items
    <3>1. \A j \in Jobs : j.item = i => threads[j] = 0
      BY <1>0, <2>6 DEF BoxInv
    <3>2. Told(addonList, addonDir', i)
      BY <1>1, <2>1, <2>6 DEF BoxInv
    <3>3. /\ i \in DOMAIN m_Items' => Follows(i)'
          /\ i \notin DOMAIN m_Items' => Told(addonList', addonDir', i)
      BY <1>0, <1>1, <2>1, <2>6, <3>1, <3>2, ScanTells
    <3> QED BY <2>4, <3>3 DEF Settled
  <2> QED BY <2>5, <2>6
<1> QED BY <1>0, <1>3, <1>4, <1>5 DEF BoxInv, Settled

\* The check box.  Pressed when no thread of the addon runs, it settles the addon:
\* threads of one kind work on each of its files.
LEMMA ToggleBox ==
  ASSUME BoxInv, NEW i \in Items, MountWorkshopItem(i)
  PROVE  BoxInv'
<1>0. /\ MountTypeOK /\ MountTypeOK' /\ ListInv'
      /\ threads \in [Jobs -> Nat] /\ m_Items \in [DOMAIN m_Items -> Addon]
      /\ addonList' # NoFile /\ DOMAIN m_Items' = DOMAIN m_Items /\ i \in DOMAIN m_Items
  BY MountNextInv, ToggleProps DEF BoxInv, ListInv, MountNext, MountClient, MountTypeOK
<1> DEFINE op == IF m_Items[i].bMounted THEN "remove" ELSE "compare"
<1>1. /\ FolderExists(i)
      /\ threads' = [j \in Jobs |-> IF j \in JobsOf(i, op) THEN threads[j] + 1 ELSE threads[j]]
      /\ m_Items' = [m_Items EXCEPT ![i].bMounted = ~@]
      /\ unsettled' = IF Busy(i) THEN unsettled \cup {i} ELSE unsettled \ {i}
      /\ UNCHANGED <<addonDir, content, starts>>
  BY DEF MountWorkshopItem
<1>2. \A j \in JobsOf(i, op) : j.item = i /\ j.op = op
  BY DEF JobsOf
<1>3. \A j \in Jobs : j \notin JobsOf(i, op) => threads'[j] = threads[j]
  BY <1>1
<1>4. \A j \in Jobs : threads'[j] > 0 => j.item \in DOMAIN m_Items'
  BY <1>0, <1>2, <1>3 DEF BoxInv
<1>5. ASSUME NEW k \in Items \ unsettled', k # i PROVE Settled(k)'
  <2>1. k \in Items \ unsettled
    BY <1>1, <1>5
  <2>2. \A j \in Jobs : j.item = k => threads'[j] = threads[j]
    BY <1>2, <1>3, <1>5
  <2>3. Busy(k)' => FolderExists(k)'
    BY <1>1, <2>1, <2>2 DEF BoxInv, FolderExists, Busy
  <2>4. ASSUME k \in DOMAIN m_Items PROVE Follows(k)'
    <3>1. m_Items'[k] = m_Items[k]
      BY <1>1, <1>5, <2>4
    <3>2. Follows(k)
      BY <2>1, <2>4 DEF BoxInv
    <3>3. \A f \in FilesOf[k] : \A o \in Ops : threads'[Job(o, k, f)] = threads[Job(o, k, f)]
      <4> TAKE f \in FilesOf[k]
      <4> TAKE o \in Ops
      <4>1. Job(o, k, f) \in Jobs /\ Job(o, k, f).item = k
        BY <2>1, JobAt
      <4> QED BY <2>2, <4>1
    <3> HIDE DEF op
    <3> QED BY <1>1, <3>1, <3>2, <3>3 DEF Follows, Coming, Going, Ops, SharedFile, Job
  <2>5. ASSUME k \notin DOMAIN m_Items PROVE Told(addonList', addonDir', k)
    <3> DEFINE once == UpdateAddonList(addonList, m_Items')
    <3>1. addonList' = once \/ addonList' = UpdateAddonList(once, m_Items')
      BY DEF MountWorkshopItem
    <3>2. k \notin DOMAIN m_Items'
      BY <1>0, <2>5
    <3>3. k \in DOMAIN once =>
            addonList # NoFile /\ k \in DOMAIN addonList /\ once[k] = addonList[k]
      BY <3>2, UpdateKeeps
    <3> HIDE DEF once
    <3>4. k \in DOMAIN addonList' =>
            addonList # NoFile /\ k \in DOMAIN addonList /\ addonList'[k] = addonList[k]
      <4>1. CASE addonList' = once
        BY <3>3, <4>1
      <4>2. CASE addonList' = UpdateAddonList(once, m_Items')
        <5>1. k \in DOMAIN addonList' => k \in DOMAIN once /\ addonList'[k] = once[k]
          BY <3>2, <4>2, UpdateKeeps
        <5> QED BY <3>3, <5>1
      <4> QED BY <3>1, <4>1, <4>2
    <3>5. Told(addonList, addonDir, k)
      BY <2>1, <2>5 DEF BoxInv
    <3>6. addonDir' = addonDir
      BY <1>1
    <3> QED BY <1>0, <3>4, <3>5, <3>6, Zenon DEF Told
  <2> QED BY <1>0, <2>3, <2>4, <2>5 DEF Settled
<1>6. ASSUME i \notin unsettled' PROVE Settled(i)'
  <2>1. ~Busy(i)
    BY <1>1, <1>6
  <2>2. ASSUME NEW f \in FilesOf[i]
        PROVE  IF m_Items'[i].bMounted THEN Coming(i, f)' ELSE Going(i, f)'
    <3>1. \A o \in Ops : /\ threads[Job(o, i, f)] = 0
                         /\ Job(o, i, f) \in Jobs
                         /\ Job(o, i, f).item = i /\ Job(o, i, f).op = o
      BY <1>0, <2>1, IdleJobs, JobAt
    <3>2. \A o \in Ops : threads'[Job(o, i, f)] = IF o = op THEN 1 ELSE 0
      <4> TAKE o \in Ops
      <4>1. Job(o, i, f) \in JobsOf(i, op) <=> o = op
        BY <3>1 DEF JobsOf
      <4> HIDE DEF op
      <4>2. threads'[Job(o, i, f)] = IF o = op THEN threads[Job(o, i, f)] + 1
                                              ELSE threads[Job(o, i, f)]
        BY <1>1, <3>1, <4>1
      <4> QED BY <3>1, <4>2
    <3>3. m_Items[i].bMounted \in BOOLEAN /\ m_Items'[i].bMounted = ~m_Items[i].bMounted
      BY <1>0, <1>1 DEF Addon
    <3>4. CASE m_Items[i].bMounted = TRUE
      <4>1. op = "remove"
        BY <3>4
      <4>2. /\ threads'[Job("compare", i, f)] = 0 /\ threads'[Job("write", i, f)] = 0
            /\ threads'[Job("remove", i, f)] = 1
        BY <3>2, <4>1 DEF Ops
      <4>3. Going(i, f)'
        BY <4>2 DEF Going, Job
      <4> QED BY <3>3, <3>4, <4>3
    <3>5. CASE m_Items[i].bMounted = FALSE
      <4>1. op = "compare"
        BY <3>5
      <4>2. threads'[Job("compare", i, f)] = 1 /\ threads'[Job("remove", i, f)] = 0
        BY <3>2, <4>1 DEF Ops
      <4>3. Coming(i, f)'
        BY <4>2 DEF Coming, Job
      <4> QED BY <3>3, <3>5, <4>3
    <3> QED BY <3>3, <3>4, <3>5
  <2>3. Follows(i)'
    BY <2>2 DEF Follows
  <2>4. FolderExists(i)'
    BY <1>1 DEF FolderExists
  <2> QED BY <1>0, <2>3, <2>4 DEF Settled
<1>7. \A k \in Items \ unsettled' : Settled(k)'
  BY <1>5, <1>6
<1> QED BY <1>0, <1>4, <1>7 DEF BoxInv, Settled

\* What one step of a thread touches: its own file, and its own count and the next.
LEMMA ThreadMoves ==
  ASSUME MountTypeOK, NEW j \in Jobs, CopyCompare(j) \/ CopyWrite(j) \/ RemoveFile(j)
  PROVE  /\ UNCHANGED <<addonList, content, starts, unsettled>>
         /\ threads[j] > 0 /\ j.item \in Items /\ j.file \in FilesOf[j.item] /\ j.file \in Files
         /\ \A k \in Jobs : k.item # j.item \/ k.file # j.file => threads'[k] = threads[k]
         /\ \A f \in Files : \/ addonDir'[f] = addonDir[f]
                             \/ f = j.file /\ addonDir'[f] \in {j.item, Torn, Nobody}
<1>0. /\ threads \in [Jobs -> Nat] /\ addonDir \in [Files -> Items \cup {Nobody, Torn}]
      /\ j.item \in Items /\ j.file \in FilesOf[j.item] /\ j.file \in Files
  BY DEF MountTypeOK, Jobs
<1>1. CASE CopyCompare(j)
  <2> DEFINE w == [j EXCEPT !.op = "write"]
  <2>1. w \in Jobs /\ w.item = j.item /\ w.file = j.file
    BY DEF Jobs
  <2>2. /\ threads' = [threads EXCEPT ![j] = @ - 1, ![w] = @ + 1]
        /\ UNCHANGED <<addonList, addonDir, content, starts, unsettled>> /\ threads[j] > 0
    BY <1>1 DEF CopyCompare
  <2> HIDE DEF w
  <2>3. \A k \in Jobs : k # j /\ k # w => threads'[k] = threads[k]
    BY <1>0, <2>1, <2>2
  <2> QED BY <1>0, <2>1, <2>2, <2>3
<1>2. CASE CopyWrite(j)
  <2>1. /\ threads' = [threads EXCEPT ![j] = @ - 1] /\ threads[j] > 0
        /\ UNCHANGED <<addonList, content, starts, unsettled>>
        /\ addonDir' = [addonDir EXCEPT ![j.file] = IF FolderExists(j.item) THEN j.item ELSE Torn]
    BY <1>2 DEF CopyWrite
  <2> QED BY <1>0, <2>1
<1>3. CASE RemoveFile(j)
  <2>1. /\ threads' = [threads EXCEPT ![j] = @ - 1] /\ threads[j] > 0
        /\ UNCHANGED <<addonList, content, starts, unsettled>>
        /\ addonDir' = [addonDir EXCEPT ![j.file] = Nobody]
    BY <1>3 DEF RemoveFile
  <2> QED BY <1>0, <2>1
<1> QED BY <1>1, <1>2, <1>3

\* What it does to its own file: a removal gets on with removing, a copy with copying,
\* if the folder is there.
LEMMA ThreadOwn ==
  ASSUME MountTypeOK, NEW j \in Jobs, CopyCompare(j) \/ CopyWrite(j) \/ RemoveFile(j)
  PROVE  /\ Going(j.item, j.file) => Going(j.item, j.file)'
         /\ Coming(j.item, j.file) /\ FolderExists(j.item) => Coming(j.item, j.file)'
<1> DEFINE i == j.item
           f == j.file
<1>0. /\ threads \in [Jobs -> Nat] /\ addonDir \in [Files -> Items \cup {Nobody, Torn}]
      /\ i \in Items /\ f \in FilesOf[i] /\ f \in Files /\ i # Nobody
      /\ j = Job(j.op, i, f) /\ j.op \in Ops
  BY MountAssumption DEF MountTypeOK, Jobs, Job, Ops
<1>1. \A op \in Ops : /\ Job(op, i, f) \in Jobs
                      /\ Job(op, i, f).op = op /\ threads[Job(op, i, f)] \in Nat
  BY <1>0, JobAt
<1>2. /\ Going(i, f) => /\ threads[Job("compare", i, f)] = 0 /\ threads[Job("write", i, f)] = 0
                        /\ threads[Job("remove", i, f)] > 0 \/ addonDir[f] # i
      /\ Coming(i, f) => /\ threads[Job("remove", i, f)] = 0
                         /\ \/ threads[Job("compare", i, f)] > 0
                            \/ threads[Job("write", i, f)] > 0
                            \/ addonDir[f] = i
  BY DEF Going, Coming
<1> SUFFICES /\ Going(i, f) => /\ threads'[Job("compare", i, f)] = 0
                               /\ threads'[Job("write", i, f)] = 0
                               /\ threads'[Job("remove", i, f)] > 0 \/ addonDir'[f] # i
             /\ Coming(i, f) /\ FolderExists(i) =>
                  /\ threads'[Job("remove", i, f)] = 0
                  /\ \/ threads'[Job("compare", i, f)] > 0
                     \/ threads'[Job("write", i, f)] > 0
                     \/ addonDir'[f] = i
  BY DEF Going, Coming, Job
<1>3. /\ Job("compare", i, f) # Job("write", i, f) /\ Job("compare", i, f) # Job("remove", i, f)
      /\ Job("write", i, f) # Job("remove", i, f)
  BY DEF Job
<1>4. CASE CopyCompare(j)
  <2>1. /\ j = Job("compare", i, f) /\ [j EXCEPT !.op = "write"] = Job("write", i, f)
        /\ threads[j] > 0 /\ addonDir' = addonDir
        /\ threads' = [threads EXCEPT ![j] = @ - 1, ![[j EXCEPT !.op = "write"]] = @ + 1]
    BY <1>0, <1>4 DEF CopyCompare, Job
  <2>2. /\ Job("write", i, f) \in Jobs /\ Job("remove", i, f) \in Jobs
        /\ threads[Job("write", i, f)] \in Nat
    BY <1>1 DEF Ops
  <2> HIDE DEF i, f
  <2>3. /\ threads'[Job("write", i, f)] = threads[Job("write", i, f)] + 1
        /\ threads'[Job("remove", i, f)] = threads[Job("remove", i, f)]
    BY <1>0, <1>3, <2>1, <2>2
  <2> QED BY <1>2, <2>1, <2>2, <2>3
<1>5. CASE CopyWrite(j)
  <2>1. /\ j = Job("write", i, f) /\ threads[j] > 0 /\ threads' = [threads EXCEPT ![j] = @ - 1]
        /\ addonDir' = [addonDir EXCEPT ![f] = IF FolderExists(i) THEN i ELSE Torn]
    BY <1>0, <1>5 DEF CopyWrite
  <2>2. Job("remove", i, f) \in Jobs
    BY <1>1 DEF Ops
  <2> HIDE DEF i, f
  <2>3. /\ threads'[Job("remove", i, f)] = threads[Job("remove", i, f)]
        /\ FolderExists(i) => addonDir'[f] = i
    BY <1>0, <1>3, <2>1, <2>2
  <2> QED BY <1>2, <2>1, <2>3
<1>6. CASE RemoveFile(j)
  <2>1. /\ j = Job("remove", i, f) /\ threads[j] > 0 /\ threads' = [threads EXCEPT ![j] = @ - 1]
        /\ addonDir' = [addonDir EXCEPT ![f] = Nobody]
    BY <1>0, <1>6 DEF RemoveFile
  <2>2. Job("compare", i, f) \in Jobs /\ Job("write", i, f) \in Jobs
    BY <1>1 DEF Ops
  <2> HIDE DEF i, f
  <2>3. /\ threads'[Job("compare", i, f)] = threads[Job("compare", i, f)]
        /\ threads'[Job("write", i, f)] = threads[Job("write", i, f)]
        /\ addonDir'[f] # i
    BY <1>0, <1>3, <2>1, <2>2
  <2> QED BY <1>2, <2>1, <2>3
<1> QED BY <1>4, <1>5, <1>6

\* The threads do their work in any order, next to those of addons with the same files.
LEMMA ThreadBox ==
  ASSUME BoxInv, NEW j \in Jobs, CopyCompare(j) \/ CopyWrite(j) \/ RemoveFile(j)
  PROVE  BoxInv'
<1>0. MountTypeOK /\ MountTypeOK' /\ ListInv'
  BY MountNextInv DEF BoxInv, ListInv, MountNext, MountClient, ThreadStep
<1>1. /\ UNCHANGED <<addonList, content, starts, unsettled>>
      /\ threads[j] > 0 /\ j.item \in Items /\ j.file \in FilesOf[j.item] /\ j.file \in Files
      /\ \A k \in Jobs : k.item # j.item \/ k.file # j.file => threads'[k] = threads[k]
      /\ \A f \in Files : \/ addonDir'[f] = addonDir[f]
                          \/ f = j.file /\ addonDir'[f] \in {j.item, Torn, Nobody}
  BY <1>0, ThreadMoves
<1>2. /\ DOMAIN m_Items' = DOMAIN m_Items
      /\ \A i \in DOMAIN m_Items : m_Items'[i].bMounted = m_Items[i].bMounted
  BY <1>0, ThreadType
<1>3. j.item \in DOMAIN m_Items /\ Busy(j.item)
  BY <1>1 DEF BoxInv, Busy
<1>4. \A k \in Jobs : threads'[k] > 0 => k.item \in DOMAIN m_Items'
  BY <1>1, <1>2, <1>3 DEF BoxInv
<1>5. ASSUME NEW i \in Items \ unsettled' PROVE Settled(i)'
  <2>1. i \in Items \ unsettled /\ i # Torn /\ i # Nobody
    BY <1>1, <1>5, MountAssumption
  <2>2. Busy(i)' => FolderExists(i)'
    BY <1>1, <1>3, <2>1 DEF BoxInv, Busy, FolderExists
  <2>3. ASSUME i \in DOMAIN m_Items, NEW f \in FilesOf[i]
        PROVE  IF m_Items'[i].bMounted THEN Coming(i, f)' \/ SharedFile(i, f) ELSE Going(i, f)'
    <3>1. IF m_Items[i].bMounted THEN Coming(i, f) \/ SharedFile(i, f) ELSE Going(i, f)
      BY <2>1, <2>3, Zenon DEF BoxInv, Follows
    <3>2. m_Items'[i].bMounted = m_Items[i].bMounted /\ f \in Files
      BY <1>2, <2>1, <2>3, MountAssumption
    <3>3. CASE i = j.item /\ f = j.file
      <4>1. FolderExists(i)
        BY <1>3, <2>1, <3>3 DEF BoxInv
      <4>2. /\ Going(i, f) => Going(i, f)'
            /\ Coming(i, f) => Coming(i, f)'
        BY <1>0, <3>3, <4>1, ThreadOwn
      <4> QED BY <3>1, <3>2, <4>2, Zenon
    <3>4. CASE ~(i = j.item /\ f = j.file)
      <4>1. \A op \in Ops : threads'[Job(op, i, f)] = threads[Job(op, i, f)]
        <5> TAKE op \in Ops
        <5>1. Job(op, i, f) \in Jobs /\ Job(op, i, f).item = i /\ Job(op, i, f).file = f
          BY <2>1, JobAt
        <5> QED BY <1>1, <3>4, <5>1
      <4>2. \/ addonDir'[f] = addonDir[f]
            \/ addonDir'[f] # i /\ SharedFile(i, f)
        BY <1>1, <2>1, <3>2, <3>4 DEF SharedFile
      <4>3. /\ Going(i, f) => Going(i, f)'
            /\ Coming(i, f) => Coming(i, f)' \/ SharedFile(i, f)
        BY <4>1, <4>2 DEF Going, Coming, Ops, Job
      <4> QED BY <3>1, <3>2, <4>3, Zenon
    <3> QED BY <3>3, <3>4
  <2>4. ASSUME i \notin DOMAIN m_Items PROVE Told(addonList', addonDir', i)
    <3>1. \A f \in FilesOf[i] : \/ addonDir'[f] = addonDir[f]
                                \/ addonDir'[f] # i /\ SharedFile(i, f)
      <4> TAKE f \in FilesOf[i]
      <4>1. f \in Files /\ i # j.item
        BY <1>3, <2>1, <2>4, MountAssumption
      <4> QED BY <1>1, <2>1, <4>1 DEF SharedFile
    <3>2. \A b : Rests(addonDir, i, b) => Rests(addonDir', i, b)
      BY <3>1, Zenon DEF Rests
    <3>3. Told(addonList, addonDir, i) /\ addonList' = addonList
      BY <1>1, <2>1, <2>4 DEF BoxInv
    <3> QED BY <3>2, <3>3, Zenon DEF Told
  <2>5. i \in DOMAIN m_Items' => Follows(i)'
    BY <1>2, <2>3, Zenon DEF Follows, SharedFile
  <2>6. i \notin DOMAIN m_Items' => Told(addonList, addonDir, i)'
    BY <1>2, <2>4
  <2> QED BY <2>2, <2>5, <2>6 DEF Settled
<1>6. addonList' = NoFile => \A i \in DOMAIN m_Items' : m_Items'[i].bMounted = FALSE
  BY <1>1, <1>2 DEF BoxInv
<1> QED BY <1>0, <1>4, <1>5, <1>6 DEF BoxInv, Settled

\* Folders come and go.
LEMMA ContentBox ==
  ASSUME BoxInv, NEW i \in Items, ContentAppears(i) \/ ContentVanishes(i)
  PROVE  BoxInv'
<1>0. ListInv'
  BY MountNextInv DEF BoxInv, MountNext
<1>1. UNCHANGED <<m_Items, addonList, addonDir, threads>>
  BY DEF ContentAppears, ContentVanishes
<1>2. ASSUME NEW k \in Items \ unsettled' PROVE Settled(k)'
  <2>1. k \in Items \ unsettled /\ (Busy(k) /\ FolderExists(k) => FolderExists(k)')
    BY <1>2 DEF ContentAppears, ContentVanishes, FolderExists
  <2>2. (Busy(k)' <=> Busy(k)) /\ (Follows(k)' <=> Follows(k))
    BY <1>1 DEF Busy, Follows, Coming, Going, SharedFile
  <2> QED BY <1>1, <2>1, <2>2 DEF BoxInv, Settled
<1> QED BY <1>0, <1>1, <1>2 DEF BoxInv, Settled

LEMMA BoxNext == BoxInv /\ [MountNext]_mountVars => BoxInv'
<1> SUFFICES ASSUME BoxInv, [MountNext]_mountVars PROVE BoxInv'
  OBVIOUS
<1>1. CASE Start
  BY <1>1, StartBox
<1>2. CASE Rescan
  BY <1>2, RescanBox
<1>3. CASE MountClient
  BY <1>3, ThreadBox, ToggleBox DEF MountClient, ThreadStep
<1>4. CASE \E i \in Items : ContentAppears(i) \/ ContentVanishes(i)
  BY <1>4, ContentBox
<1>5. CASE UNCHANGED mountVars
  <2>1. ListInv'
    BY MountNextInv DEF BoxInv
  <2> QED BY <1>5, <2>1 DEF BoxInv, mountVars, Busy, FolderExists, Follows, Coming, Going, SharedFile
<1> QED BY <1>1, <1>2, <1>3, <1>4, <1>5 DEF MountNext

LEMMA BoxInit == MountInit => BoxInv
<1> SUFFICES ASSUME MountInit PROVE BoxInv
  OBVIOUS
<1>1. /\ DOMAIN m_Items = {} /\ addonDir = [f \in Files |-> Nobody]
      /\ \A j \in Jobs : threads[j] = 0
      /\ addonList = NoFile \/ DOMAIN addonList = {}
  BY DEF MountInit, NoThreads
<1>2. ASSUME NEW i \in Items PROVE ~Busy(i) /\ Told(addonList, addonDir, i)
  <2>1. ~Busy(i)
    BY <1>1 DEF Busy
  <2>2. \A f \in FilesOf[i] : addonDir[f] # i
    BY <1>1, MountAssumption
  <2>3. Rests(addonDir, i, FALSE)
    BY <2>2 DEF Rests
  <2> QED BY <1>1, <2>1, <2>3 DEF Told
<1> QED BY <1>1, <1>2, MountInitInv DEF BoxInv

\* Once the threads of a settled addon are done, zamnhlmp_addon holds its files or none,
\* as its box says: for any addons with any files, shared or not, any user, any folders
\* that come and go and any number of restarts.
THEOREM FilesAsShown == MountSpec => []FilesFollowBox
<1>1. BoxInv => FilesFollowBox
  <2> SUFFICES ASSUME BoxInv, NEW i \in DOMAIN m_Items \ unsettled, ~Busy(i)
               PROVE  Rests(addonDir, i, m_Items[i].bMounted)
    BY Zenon DEF FilesFollowBox, Rests
  <2>1. i \in Items /\ Follows(i) /\ threads \in [Jobs -> Nat]
    BY DEF BoxInv, ListInv, MountTypeOK
  <2> QED BY <2>1, FollowsRests
<1> QED BY <1>1, BoxInit, BoxNext, PTL DEF MountSpec

=============================================================================
