--------------------------- MODULE WorkshopMount ---------------------------
(***************************************************************************)
(* Mounting Workshop addons: CGameUIViewport's list of addons (m_Items),   *)
(* the file addonlist.txt that remembers which of them are mounted, the    *)
(* directory zamnhlmp_addon the game reads, and the threads that copy      *)
(* files into it and remove files from it, one thread per file             *)
(* (cl_dll/gameui/gameui_viewport.cpp).                                    *)
(*                                                                         *)
(* A file in zamnhlmp_addon is abstracted to the addon whose copy it is.   *)
(* FilesOf[i] are the paths that survive MountWorkshopItem's filters (the  *)
(* root extensions and the directory whitelist); SubDirs are the addons    *)
(* with a whitelisted directory, for which MountWorkshopItem calls itself. *)
(***************************************************************************)
EXTENDS Naturals, FiniteSets

CONSTANTS
  Items,        \* Workshop ids
  Files,        \* destination paths under zamnhlmp_addon
  FilesOf,      \* the mountable files of each addon
  SubDirs,      \* the addons that have a whitelisted sub-directory
  LocalItems,   \* addons in zamnhlmp_workshop (search path WORKSHOP)
  Nobody,       \* no such file in zamnhlmp_addon
  Torn,         \* a file that holds no addon's complete copy
  NoFile,       \* addonlist.txt does not exist
  ListShips,    \* does an addonlist.txt exist before the first start
  Impatient,    \* may the user toggle an addon whose threads still run
  ContentLost,  \* may Steam delete the folder of an addon
  MaxThreads,   \* bound: unfinished threads on one file of an addon
  MaxStarts     \* bound: starts of the game

ASSUME MountAssumption ==
  /\ IsFiniteSet(Items)
  /\ FilesOf \in [Items -> SUBSET Files]
  /\ SubDirs \subseteq Items /\ LocalItems \subseteq Items
  /\ {Nobody, Torn} \cap Items = {} /\ Nobody # Torn
  /\ \A S \in SUBSET Items : NoFile \notin [S -> BOOLEAN]
  /\ {ListShips, Impatient, ContentLost} \subseteq BOOLEAN
  /\ MaxThreads \in Nat \ {0} /\ MaxStarts \in Nat \ {0}

VARIABLES
  m_Items,    \* loaded addons: id -> [bMounted, bFoundConflictingFiles]
  addonList,  \* addonlist.txt: id -> BOOLEAN, or NoFile
  addonDir,   \* zamnhlmp_addon: path -> whose copy
  threads,    \* how many threads are at each point of their work
  content,    \* addons whose folder, with its addoninfo.txt, is on disk
  starts,     \* starts of the game so far; 0: never started
  unsettled   \* history: addons whose files the last toggle does not tell

mountVars == <<m_Items, addonList, addonDir, threads, content, starts, unsettled>>

-----------------------------------------------------------------------------
(* The threads.  "compare": a copying thread that has not compared the two *)
(* files yet; "write": one that has; "remove": a removing thread.          *)

Jobs == {j \in [op : {"compare", "write", "remove"}, item : Items, file : Files] :
           j.file \in FilesOf[j.item]}

NoThreads == [j \in Jobs |-> 0]

\* Mutant: one thread per addon instead of one per file.
OneJobOf(i, op) ==
  IF \E j \in Jobs : j.item = i THEN {CHOOSE j \in Jobs : j.item = i /\ j.op = op} ELSE {}

JobsOf(i, op) == {j \in Jobs : j.item = i /\ j.op = op}

ThreadsOn(i, f) ==
  LET at(op) == threads[[op |-> op, item |-> i, file |-> f]]
  IN at("compare") + at("write") + at("remove")

Busy(i) == \E j \in Jobs : j.item = i /\ threads[j] > 0

-----------------------------------------------------------------------------
(* addonlist.txt. *)

\* Mutant: an addon the file knows keeps its entry.
UpdateNewOnly(list, items) ==
  IF list = NoFile
  THEN [i \in {} |-> FALSE]
  ELSE [i \in DOMAIN list \cup DOMAIN items |->
          IF i \in DOMAIN list THEN list[i] ELSE items[i].bMounted]

\* Mutant: only addons the file knows already are updated.
UpdateKnownOnly(list, items) ==
  IF list = NoFile
  THEN [i \in {} |-> FALSE]
  ELSE [i \in DOMAIN list |-> IF i \in DOMAIN items THEN items[i].bMounted ELSE list[i]]

\* UpdateAddonList: entries are set only when the file could be loaded, and
\* the file is saved in either case.
UpdateAddonList(list, items) ==
  IF list = NoFile
  THEN [i \in {} |-> FALSE]
  ELSE [i \in DOMAIN list \cup DOMAIN items |->
          IF i \in DOMAIN items THEN items[i].bMounted ELSE list[i]]

WorkshopIDIsMounted(i) ==
  addonList # NoFile /\ i \in DOMAIN addonList /\ addonList[i]

ShouldAutoMount(i) == addonList # NoFile /\ i \notin DOMAIN addonList

-----------------------------------------------------------------------------
(* LoadWorkshopItems: every addon folder in `found' that is not in `items' *)
(* is added to the list, in directory order.  One that addonlist.txt does  *)
(* not mention is auto-mounted first, while it is not in m_Items yet, so   *)
(* SetMountedState finds nothing to set; the UpdateAddonList that ends the *)
(* mount writes the addons loaded up to there.  `last' is the last addon   *)
(* to be auto-mounted, `early' the copying threads that already ran        *)
(* SetConflictingFiles, in vain, before the addon was pushed.  The files   *)
(* of an auto-mounted addon are copied while its box says that it is not   *)
(* mounted; those of one whose threads end with the old process may be     *)
(* half done.  Both stay unsettled until the user toggles the addon.       *)

Loaded(items, found) ==
  [i \in DOMAIN items \cup found |->
     IF i \in DOMAIN items THEN items[i]
     ELSE [bMounted |-> WorkshopIDIsMounted(i), bFoundConflictingFiles |-> FALSE]]

AutoMounted(items, found) == {i \in found \ DOMAIN items : ShouldAutoMount(i)}

Interrupted(running) == {i \in Items : \E j \in Jobs : j.item = i /\ threads[j] > running[j]}

LoadWorkshopItems(items, found, running) ==
  LET auto    == AutoMounted(items, found)
      copies  == {j \in Jobs : j.item \in auto /\ j.op = "compare"}
  IN /\ m_Items' = Loaded(items, found)
     /\ IF auto = {}
        THEN UNCHANGED addonList
        ELSE \E last \in auto :
               addonList' = UpdateAddonList(addonList,
                              Loaded(items, (found \cap DOMAIN addonList) \cup (auto \ {last})))
     /\ \E early \in SUBSET copies :
          threads' = [j \in Jobs |->
            running[j] + IF \/ j \in copies \ early
                            \/ \E c \in early : j = [c EXCEPT !.op = "write"]
                         THEN 1 ELSE 0]
     /\ unsettled' = unsettled \cup auto \cup Interrupted(running)

-----------------------------------------------------------------------------
(* Start is the constructor in a new process: the list is rebuilt from the *)
(* local addons.  Threads of the old process are gone, and a file one of   *)
(* them was writing may be torn.                                           *)

Start ==
  /\ starts < MaxStarts
  /\ starts' = starts + 1
  /\ LoadWorkshopItems([i \in {} |-> FALSE], LocalItems, NoThreads)
  /\ \E torn \in SUBSET {j.file : j \in {k \in Jobs : k.op = "write" /\ threads[k] > 0}} :
       addonDir' = [f \in Files |-> IF f \in torn THEN Torn ELSE addonDir[f]]
  /\ UNCHANGED content

\* LoadWorkshopItems(true): the folders Steam has downloaded.
Rescan ==
  /\ starts > 0
  /\ LoadWorkshopItems(m_Items, content, threads)
  /\ UNCHANGED <<addonDir, content, starts>>

\* The folder the files of an addon are read from.
FolderExists(i) == i \in content \cup LocalItems

\* MountWorkshopItem from the check box of an addon: one thread per file, and
\* the new state is recorded without waiting for any of them.  Each nested call
\* for a directory records it too.  Without a folder nothing happens at all.
\* Threads that copy and threads that remove the same files run in any order, so
\* a toggle while some of the addon still run settles nothing.
MountWorkshopItem(i) ==
  /\ i \in DOMAIN m_Items /\ FolderExists(i)
  /\ Busy(i) => Impatient
  /\ LET op  == IF m_Items[i].bMounted THEN "remove" ELSE "compare"
         new == JobsOf(i, op)
     IN /\ \A f \in FilesOf[i] : ThreadsOn(i, f) < MaxThreads
        /\ threads' = [j \in Jobs |-> IF j \in new THEN threads[j] + 1 ELSE threads[j]]
  /\ m_Items' = [m_Items EXCEPT ![i].bMounted = ~@]
  /\ addonList' = IF i \in SubDirs
                  THEN UpdateAddonList(UpdateAddonList(addonList, m_Items'), m_Items')
                  ELSE UpdateAddonList(addonList, m_Items')
  /\ unsettled' = IF Busy(i) THEN unsettled \cup {i} ELSE unsettled \ {i}
  /\ UNCHANGED <<addonDir, content, starts>>

-----------------------------------------------------------------------------
(* CopyFilesToNewDestination, in the two steps between which another       *)
(* thread may run, and RemoveFilesFromAddons.                              *)

SetConflictingFiles(i, state) ==
  IF i \in DOMAIN m_Items
  THEN [m_Items EXCEPT ![i].bFoundConflictingFiles = state]
  ELSE m_Items

CompareFiles(j) == FolderExists(j.item) /\ addonDir[j.file] = j.item

CopyCompare(j) ==
  /\ j.op = "compare" /\ threads[j] > 0
  /\ threads' = [threads EXCEPT ![j] = @ - 1, ![[j EXCEPT !.op = "write"]] = @ + 1]
  /\ m_Items' = IF addonDir[j.file] = Nobody
                THEN m_Items
                ELSE SetConflictingFiles(j.item, ~CompareFiles(j))
  /\ UNCHANGED <<addonList, addonDir, content, starts, unsettled>>

\* The destination is truncated even when the source cannot be opened.
CopyWrite(j) ==
  /\ j.op = "write" /\ threads[j] > 0
  /\ threads' = [threads EXCEPT ![j] = @ - 1]
  /\ addonDir' = [addonDir EXCEPT ![j.file] = IF FolderExists(j.item) THEN j.item ELSE Torn]
  /\ UNCHANGED <<m_Items, addonList, content, starts, unsettled>>

RemoveFile(j) ==
  /\ j.op = "remove" /\ threads[j] > 0
  /\ threads' = [threads EXCEPT ![j] = @ - 1]
  /\ addonDir' = [addonDir EXCEPT ![j.file] = Nobody]
  /\ UNCHANGED <<m_Items, addonList, content, starts, unsettled>>

ThreadStep == \E j \in Jobs : CopyCompare(j) \/ CopyWrite(j) \/ RemoveFile(j)

\* The client's part of the next-state relation, threads included.
MountClient == ThreadStep \/ \E i \in Items : MountWorkshopItem(i)

-----------------------------------------------------------------------------
(* Steam, outside the client: folders come and go.                         *)

ContentAppears(i) ==
  /\ i \notin content
  /\ content' = content \cup {i}
  /\ UNCHANGED <<m_Items, addonList, addonDir, threads, starts, unsettled>>

\* A thread that copies from the folder then leaves a torn file.
ContentVanishes(i) ==
  /\ ContentLost /\ i \in content
  /\ content' = content \ {i}
  /\ unsettled' = IF Busy(i) THEN unsettled \cup {i} ELSE unsettled
  /\ UNCHANGED <<m_Items, addonList, addonDir, threads, starts>>

MountInit ==
  /\ m_Items = [i \in {} |-> FALSE]
  /\ addonList = IF ListShips THEN [i \in {} |-> FALSE] ELSE NoFile
  /\ addonDir = [f \in Files |-> Nobody]
  /\ threads = NoThreads
  /\ content \in SUBSET Items
  /\ starts = 0
  /\ unsettled = {}

MountNext ==
  \/ Start
  \/ Rescan
  \/ MountClient
  \/ \E i \in Items : ContentAppears(i) \/ ContentVanishes(i)

MountSpec == MountInit /\ [][MountNext]_mountVars

-----------------------------------------------------------------------------
(* Properties.                                                             *)

Addon == [bMounted : BOOLEAN, bFoundConflictingFiles : BOOLEAN]

\* Every variable holds a value the code can put there.
MountTypeOK ==
  /\ DOMAIN m_Items \subseteq Items /\ m_Items \in [DOMAIN m_Items -> Addon]
  /\ addonList # NoFile =>
       DOMAIN addonList \subseteq Items /\ addonList \in [DOMAIN addonList -> BOOLEAN]
  /\ addonDir \in [Files -> Items \cup {Nobody, Torn}]
  /\ threads \in [Jobs -> Nat]
  /\ content \in SUBSET Items
  /\ starts \in Nat
  /\ unsettled \in SUBSET Items

\* The check boxes and addonlist.txt never disagree about an addon that both
\* know: whichever of UpdateAddonList's callers ran last, through restarts and
\* auto-mounts, a start finds the state the user saw.
AddonListAgrees ==
  addonList # NoFile =>
    \A i \in DOMAIN m_Items \cap DOMAIN addonList :
      addonList[i] = m_Items[i].bMounted

\* With an addonlist.txt from the beginning, an addon shown as mounted is always
\* recorded as mounted, so that the next start shows it as mounted again
\* (WorkshopIDIsMounted) and does not auto-mount it a second time.
MountedIsRecorded ==
  ListShips => \A i \in DOMAIN m_Items :
    m_Items[i].bMounted => i \in DOMAIN addonList /\ addonList[i]

\* Another addon has the file as well.
SharedFile(i, f) == \E k \in Items \ {i} : f \in FilesOf[k]

\* Once the threads of a settled addon have finished, the directory is what its
\* box says, this session and after any restart: of a mounted one every file
\* that is its alone is there, of one that is not mounted none is, whatever
\* other addons' threads, scans and folders that come and go did meanwhile.
FilesFollowBox ==
  \A i \in DOMAIN m_Items \ unsettled : ~Busy(i) =>
    \A f \in FilesOf[i] :
      IF m_Items[i].bMounted THEN addonDir[f] = i \/ SharedFile(i, f)
                             ELSE addonDir[f] # i

\* When the threads of an addon that is not mounted have finished, none of its
\* files is left in zamnhlmp_addon: MountWorkshopItem "Copies files to zp_addon,
\* or remove them from zp_addon. Depends really, if we are mounting or not."
UnmountedLeavesNothing ==
  \A i \in DOMAIN m_Items :
    ~m_Items[i].bMounted /\ ~Busy(i) => \A f \in Files : addonDir[f] # i

=============================================================================
