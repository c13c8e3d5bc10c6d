# Verification of the Aura client

Aura-CL is the client library (`client.dll` / `client.so`) of a Half-Life mod: the
engine loads it, calls it once per frame and for every network message, and it
draws the HUD, predicts weapons and shows the menus.  Most of it draws.  What can
go wrong in ways a play test hardly reaches is the part that talks to somebody
else: to Steam (Workshop, server lists), to the network, to the engine's clock, to
threads of its own.  That part is modelled here.  Paths below are relative to
`src/`.

## Inventory

| Component | State it keeps | Operations | Talks to | What is hard |
|---|---|---|---|---|
| Workshop addon list (`cl_dll/gameui/gameui_viewport.cpp`) | `m_Items`, `addonlist.txt`, `zamnhlmp_addon/` | scan, mount, unmount, auto-mount | disk, one thread per file, Steam's folders | threads nobody joins, restarts, folders that vanish |
| Workshop download queue (same file) | `m_QueryRequests`, `m_CurrentQueryItem`, two flags, a wait | frame (`OnThink`), poll, two call-backs | ISteamUGC | answers in any order relative to frames, failures, refusals, downloads Steam starts by itself |
| Workshop upload (`gameui/workshop/CWorkshopSubUpload.cpp`, `CWorkshopSubUploaded.cpp`) | `eUploading`, `m_ulPublishedID`, update handle | upload, edit, call results | ISteamUGC | nothing: dead code, `CWorkshopDialog.cpp:34` adds the list of subscriptions only |
| HUD server list (`hud_servers.cpp`) | three linked lists, request counts | request, cancel, response, per-frame queries | the engine's network API | limits, late answers, a list edited while it is walked |
| Server browser (`gameui/serverbrowser/`) | map of servers, filtered list, selection, refresh handle | refresh, stop, filter, call-backs | ISteamMatchmakingServers | call-backs of a released request, indices that go stale |
| Game info dialogs (`gameui/serverbrowser/dialogs/CDialogGameInfo.cpp`, `CServerBrowser.cpp`) | a dialog per server, its query handles, auto-retry | view, join, refresh, toggle, tick, close, call-backs | ISteamMatchmakingServers, engine | answers to dialogs that are going, answers asked for another reason |
| Video (`video/video_player.cpp`, `av_stream.cpp`, `theora_decoder.cpp`) | playing state, two clocks, a queue of sound buffers, pictures decoded | play, stop, per-frame update, change of map | OpenAL's mixer thread, Vorbis, Theora, HUD | a mixer that overtakes the client, slow frames, start and end conditions |
| Music (`audio/`) | a queue of tracks | console commands, frame | OpenAL | a track is one buffer: a smaller protocol than the video's sound |
| HUD messages and timers (`hud_countdown.cpp`, `hud_timer.cpp`, `hud_vote.cpp`, `hud_timeout.cpp`, ...) | the last message, a time | message, per-frame think and draw | server, engine clock | messages in unusual orders, clock going back on map change |
| Weapon prediction (`hl/hl_weapons.cpp`, `com_weapons.cpp`) | client-side weapon objects, `runfuncs` | replay of commands | engine's prediction | replay must not depend on state outside the server's snapshot |
| Weapon HUD (`ammo.cpp`, `ammohistory.cpp`) | weapon slots, selection, pick-up history | messages, slot keys, draw | server, input | selection of a weapon that is gone |
| Chat, menus, MOTD (`saytext.cpp`, `menu.cpp`, `MOTD.cpp`, `text_message.cpp`) | lines, partial messages | messages in parts | server | a part that is lost or belongs to another message |
| Voice status (`cl_dll/voice_status.cpp`, `game_shared/voice_banmgr.cpp`), with the server's `game_shared/voice_gamemgr.cpp` | masks of muted players on both sides, ban list | frame, mute, two messages, two commands | server, over a reliable and an unreliable way | masks that must converge although commands are lost and slots change hands |
| Input (`input.cpp`) | key buttons with two keys each | key down, key up, per-command sample | engine | a key released between two samples |
| Trace thread, update checker (`hud_benchtrace.cpp`, `update_checker.cpp`) | a thread and its result | start, finish | network | hand-over between threads |
| Rendering, geometry, classic VGUI, player movement | floating point, widgets | draw | engine | not concurrency; not modelled |

All components, with the ones left out and why, are listed in `PROJECT.json`.

### What makes each component correct

* **Addon list**: the check boxes, `addonlist.txt` and the directory the game reads
  tell the same story, now and after a restart.
* **Download queue**: nothing that was asked for is forgotten, nothing is scanned
  while half-written, queue mode always ends, what was asked for shows up.
* **Server lists**: a server is listed once for each entry that names it, outstanding
  queries stay within the limit, nothing answers into a list it does not belong to.
* **Game info dialogs**: no answer reaches a dialog that is gone, a list of players is
  one answer's, one joins only a server that has just said it has room, nobody waits for
  ever.
* **Voice**: the two sides come to agree on whom the client hears, and mutes follow the
  player.
* **Video**: sound is played in order and to the end, pictures are not late, the video
  ends.
* **HUD messages**: what is shown is what the last message said, and it goes away.
* **Prediction**: replaying the same commands from the same snapshot gives the same
  result.

## Plan

Done, in this order, each with its proofs:

1. `WorkshopMount` and `WorkshopQueue`, and the refinement between them.
2. `HudServers`: the query pipeline of the HUD's server list.
3. `ServerTab`: a tab of the server browser against Steam's matchmaking call-backs, and
   `ServerBoard`, what its list promises to the user, which it implements.
4. `VoiceGameMgr`, `VoiceStatus` and their composition `Voice`.
5. `ALSource`, `AVStream`, `TheoraDecoder` and their composition `VideoPlayer`, and
   `Screening`, what it promises its audience, which it implements.
6. `GameInfoDialog`: the dialogs of the server browser.

Left:

7. `HudMessages`: countdown, timer, vote and time-out elements over a clock that begins
   anew with a map.
8. `WeaponPrediction`: replay over state outside the engine's snapshot.
9. `TraceThread`, `UpdateChecker`, `KeyButtons`, `Motd`: one small protocol each.
10. An abstract specification of the voice protocol (whom the client hears, with a
    delay) with a refinement.

## Modules

### `WorkshopMount`

The list of addons, what is on disk, and the threads.  One action per operation:

| Action | Code |
|---|---|
| `Start` | constructor of `CGameUIViewport` in a new process, with `LoadWorkshopItems(false)` |
| `Rescan` | `LoadWorkshopItems(true)` |
| `MountWorkshopItem` | the check box of an addon (`CWorkshopSubList::OnCommand`) |
| `CopyCompare`, `CopyWrite` | `CopyFilesToNewDestination`, split where another thread may run |
| `RemoveFile` | `RemoveFilesFromAddons` |
| `ContentAppears`, `ContentVanishes` | Steam's folders |

A file in `zamnhlmp_addon` is the addon whose copy it is; `threads` counts the
unfinished threads per operation, addon and file, so any number of them may be at
any point.  `LoadWorkshopItems` keeps the code's order: an addon is auto-mounted
before it is pushed to `m_Items`, which is what loses its state.  `unsettled` is history
that no action reads: the addons that were auto-mounted, that were toggled while a thread of theirs was
unfinished, or whose process ended or folder vanished meanwhile.  The next toggle settles
an addon again, unless its threads are still at work.

### `WorkshopQueue`

Extends `WorkshopMount` with `OnThink`'s two modes, the start-up query and the
download call-back, and a Steam that downloads (when asked or on its own), fails,
refuses, updates and removes items.  `m_flQueryWait` counts frames; its settings are
small constants because only their order and running out matter.
`GetItemDownloadInfo` leaves its outputs alone when there is no download and they are
uninitialised, so the progress may read as complete at any time (`full`).  A poll sees
at most `MAX_WORKSHOP_ITEMS` subscriptions (`FirstPage`), which ones is Steam's choice,
and forgets those of the poll before that it does not see.  The answer to the start-up
query may name any items, subscribed or not.

The refinement is the identity: `WorkshopQueue` has all variables of
`WorkshopMount`, and every step of it must be one of `MountNext` or leave
`mountVars` alone.

### `HudServers`

`CHudServers` and the three buttons of the old browser that drive it.

| Action | Code |
|---|---|
| `DoRefresh`, `DoBroadcastRefresh`, `DoStop`, `SortServers` | the buttons (`vgui_ServerBrowser.cpp`) with `RequestList`, `RequestBroadcastList`, `CancelRequest` |
| `Think` | `Think` with `QueryThink` and `ServerListSize`, once per frame |
| `ListResponse`, `ListTimeout` | `ListResponse`, with a list and with an error |
| `ServerResponse`, `ServerTimeout` | `ServerResponse` for a server of the master's list |
| `LanResponse`, `LanTimeout` | `ServerResponse` for a broadcast, whose context is in no list |

The two request lists are sets, since `QueryThink` and `RemoveServerFromList` give
them an order nothing depends on; `m_pServers` is a sequence, since its order is what
`AddServer` is for.  What is listed, queued and asked are the *entries* of the master's
list, which `ListResponse` copies without looking at their addresses: two entries may
name one (`AddressOf`).  A request is its entry instead of its context number.
`SortServers` sorts by any column; what a server shows in the columns other than the
ping is left open, so that sorting by one of them may give any order.  `listed` and
`answered` (what this search was sent, and the pings of the answers since the list was
last cleared) are history.  The engine's side (`listRequest`, `detailRequests`, `lanRequests`) is what it may still
answer; `CancelAllRequests` empties it.

### `ServerTab`

A tab of the server browser: `CBaseTab` and what its five subclasses override.

| Action | Code |
|---|---|
| `OnPageShow`, `OnPageHide` | the page becomes active or not |
| `GetNewServerList`, `OnRefresh`, `OnStopRefresh`, `OnRefreshServer` | the buttons, F5 and the context menu, with `StartRefresh`, `StopRefresh` and `SetRefreshing` |
| `OpenBrowser`, `AddConnectedServer` | `CServerBrowser::OpenBrowser` with `LoadUserData`; adding the current server |
| `ChangeControl`, `OnTextChanged`, `OnLocationChanged` | a filter control, and the message it posts, with `UpdateFilterSettings` and `ApplyGameFilters` |
| `ServerResponded`, `ServerFailedToRespond`, `RefreshComplete` | the call-backs of ISteamMatchmakingServerListResponse |
| `PingComplete` | Steam is done with the servers of `RefreshServer` |

The tab keeps a server in three structures: `m_mapServers` (by Steam's number),
`m_mapServerIP` (by address) and the rows of the list panel, which is code outside the
repository and modelled as a set of rows with numbers that are used again.  A server
that fails the filters loses its row when it answers, but only its visibility when the
filters change; the model keeps that difference.  Steam is `request` (what it does for
the handle), `details` (its copy of each server) and `MayAnswer` (when it may call
back); it may number one address twice.  The controls and the values read from them are
two variables, because the message of a change arrives later, `RefreshComplete` of the
Internet tab reads the controls without filtering the rows, and opening the browser
loads the saved filters into tabs whose rows stay: `filtered` records whether the rows
were filtered with the present values.  Nothing else reads it.

`ServerBoard` is the abstract specification of the tab's list: a set of places, each a
row and an address.  An answer moves the server that answered and nobody else, a change
of the filters only adds, a new request wipes the board, and no server is on the board
twice.  The mapping (`ServerTab!Board`) takes every row of the list panel, seen or not,
with the address Steam's copy has for it; refresh bookkeeping, filters, numbers and
time-outs are stutters of it.

### `VoiceGameMgr`, `VoiceStatus`, `Voice`

The squelch masks, which say for each client slot whether a client hears it.  The server
(`CVoiceGameMgr`) keeps them by slot and sends them when they change; the client
(`CVoiceStatus`) keeps mutes by player and works the mask out from the players its
engine knows.

| Action | Code |
|---|---|
| `ServerUpdate` | `CVoiceGameMgr::UpdateMasks`, every 0.3 s |
| `ServerReceivesVModEnable`, `ServerReceivesVban` | `CVoiceGameMgr::ClientCommand` |
| `Connect` | `ClientConnected`, with what the last client of the slot left |
| `ClientFrame` | `CVoiceStatus::Frame` with `UpdateServerState(false)` |
| `ClientReceives` | `HandleVoiceMaskMsg`, `HandleReqStateMsg` |
| `UserMutes`, `UserChangesModEnable` | the score panel's menu; `voice_modenable` |
| `PlayerInfoArrives`, `PlayerChanges`, `TeamsChange`, `VbanLost`, `ClockCatchesUp` | the engine, the other players, the network |

`VoiceCommon` holds the slots both sides share.  What is sent is in three queues:
messages to the client and `VModEnable` commands arrive in order, `vban` commands may
get lost.  A mask is a set of slots; `sv_alltalk` and the game rules are `gameRules`.
`HandleVoiceMaskMsg` reads a third field the server never sends, so `READ_BYTE` returns
-1, which makes the client tell `voice_modenable` again: the model keeps that, and the
protocol relies on it.

### `ALSource`, `AVStream`, `TheoraDecoder`, `VideoPlayer`

The video player: `ALSource` is OpenAL's streaming source as the client uses it
(external, from its calls), `AVStream` the sound, `TheoraDecoder` the pictures and
`VideoPlayer` their composition with the frame, the message, the user's command and
changes of map.

| Action | Code |
|---|---|
| `PlayFails`, `PlaySilently`, `PlayWithSound`, `QueueInitial`, `StartSound` | `CVideoPlayer::Play` with `CAVStream::Open`, `QueueInitialBuffers`, `Play` |
| `VidInit` | `Stop` from `HUD_Init`, `HUD_VidInit` and `HUD_Shutdown`; the clock begins anew or not |
| `Redraw` | the HUD takes the time; `Update` begins |
| `UpdateSound`, `SoundUpdated` | `CAVStream::Update`, split at each call of OpenAL |
| `UpdatePicture` | `DecodeToTime`, the end of the video, `Draw` |
| `Tick`, `SourceMixes` | the engine's clock; the mixer's thread |

A file of sound is the number of its parts, each as long as a buffer but perhaps the
last; a video is the number of its packets and the set of those without a picture.
Time is counted in pictures.  `Update` is split where the mixer may run, which is
between any two calls of OpenAL: it reads the number of processed buffers once and uses
it while more are processed.  `begun` (the furthest part heard), `lost` (the parts
`alBufferData` refused), `ranDry` and `drawn` are history that no action reads.  The
header loop of the decoder gives its first packet to the library twice, so the loop may
or may not take a packet of the video: `consumed` begins at 0 or 1.

`Screening` is the abstract specification: a video that begins and ends at any time and
takes everything of itself along, sound in which no part is skipped unless it was
refused before its turn, and pictures that never go back.  The mapping
(`VideoPlayer!Audience`) takes `m_bPlaying` and the three histories `begun`, `lost` and
`drawn`.  A sound that goes on after its video would be a part heard while nothing is
shown, which `Screening` has no step for.

### `GameInfoDialog`

The dialogs of the server browser, each for a server, and the calls of `CServerBrowser`
that open and close them.

| Action | Code |
|---|---|
| `OnViewGameInfo`, `OnBeginConnect` | the tabs' buttons, with `OpenGameInfoDialog` and `JoinGame` |
| `Button`, `OnButtonToggled` | connect, refresh, close, the auto-retry toggle and its options |
| `OnTick` | the ping every ten seconds |
| `ServerResponded`, `QueryFails`, `AddPlayerToList`, `PlayersRefreshComplete` | the call-backs, with `ConnectToServer` |
| `CloseMessage`, `CloseBrowser`, `Deleted` | `Close` posted by another dialog, `CloseAllGameInfoDialogs`, the destructor |
| `RoomChanges` | the servers |

`inFlight` holds the queries with the dialog that asked, whether it was connecting when
it asked (history), and whether the dialog still has the handle.  `m_bClosing` and
`m_hRulesQuery` are never initialised: closing all dialogs skips any of them, and
deleting one may cancel any query.  Deleted dialogs stay in the sequence, so that an
answer to one would be seen.

### Proof modules

`WorkshopMountProofs`, `WorkshopQueueProofs` (with the refinement),
`HudServersProofs`, `ServerTabProofs`, `ServerBoardRefinement`, `VoiceProofs`,
`VideoProofs`, `GameInfoProofs`: see [Proofs](#proofs).  `MCWorkshopMount`,
`MCWorkshopQueue`, `MCHudServers` and `MCServerTab` define the instances; the cfgs of
the other runs need only constants.

## Runs

| Run | Question |
|---|---|
| `mount` | Do the list, `addonlist.txt` and the next start agree, and are the files of a settled addon as its box says, with two addons that share a file, an impatient user, auto-mounts, vanishing folders and two restarts? |
| `mount_race` | *Violation*: mount and unmount in quick succession leave a file behind. |
| `queue_safety` | One item with everything Steam may do: the queue's invariants, no scan during a download, and the refinement `MountSpec`. |
| `queue_live` | Two items, of which a poll sees one, under fairness, with downloads that succeed, asked for or Steam's own: no untried request is dropped or overtaken, queue mode ends and every item there is a request for gets into the list. |
| `queue_stuck` | *Violation*: one failed download and queue mode never ends. |
| `queue_unseen` | *Violation*: a poll meets a subscription while Steam downloads it by itself, remembers it, and it is never shown. |
| `servers_safety` | Counts, limit, ownership of answers, how often a server is shown, the order of the list and its fastest server, and that whoever waits is asked, with two entries for one server, a user who interrupts and sorts by any column, and a master server that may not resolve. |
| `servers_refresh` | *Violation*: Refresh during a search loses the new search's servers. |
| `tab_safety` | For every type of tab: do map, addresses and rows agree, does the screen follow the filters, does the button follow the request, does a row keep its server, and does the tab implement `ServerBoard`? |
| `voice` | With lost commands, reconnections, players and teams that change: do the two sides keep the same record, and does the client come to hear whom it wants? |
| `video` | With a mixer that overtakes the client, slow frames, refused buffers and changes of map: is everything heard and shown, in order and never late, does the video end, and does the player implement `Screening`? |
| `gameinfo` | With dialogs closed and queries lost at any time: do answers find their dialog, is one connected only on a fresh answer, and does nobody wait for ever? |

The type invariants were checked by TLC while the modules were written and are proved
(`*TypeCorrect`), so no run spends a property on them.

### Bounds

* Two addons and two files are enough for a shared file and for the order in which
  two addons are loaded; the properties are about one addon or a pair.
* `MaxStarts = 3` in `mount` gives two restarts, the second of a client that has found
  the first one's unfinished files; a restart forgets everything but the disk.  In
  `mount` one addon can be found by the first scan and the other later or never.
* `MAX_WORKSHOP_ITEMS = 1` with two items in `queue_live`: a poll sees one of them, and
  not always the same.
* `MaxThreads` bounds the unfinished threads on one file of an addon: one copying and
  one removing thread already race.
* The waits are 1 or 2: the code compares them only with zero.  With 2, a frame may
  come between a wait being set and running out.
* `servers_*`: `MAX_QUERIES = 1` makes the limit two, below the three entries, so a
  search takes several frames; two of the entries name one server, and two pings give
  every place `AddServer` can insert at.  Two presses give a search and its interruption
  by any button.  Sorting is no press and may happen at any time.
* `tab_safety`: three numbers for two addresses, so that a server changes its number
  while another is listed; three rows, as many as servers, so a freed row number is soon
  used again; two answers (an empty server, a full one) and three filter settings (none,
  no empty servers, no full ones), so that each answer passes one of the last two.  The
  counts are not bounded otherwise: the run covers sequences of any length.
* `voice`: the client's slot and one other, since the masks are sets of slots that do not
  influence each other; two players, so that one can take over the slot of another that
  is muted.  Two changes of the user or the players, in any state of the messages on
  their way; two messages to the client (`UpdateMasks` sends at most two at once), one
  command of each kind to the server.  `MasksAgree` and `ModEnableAgrees` are proved for
  any of these.
* `video`: two buffers instead of four and up to four parts, so that each buffer is
  filled again; two packets, with any of them empty; two videos, so that a second one
  replaces the first.  `alBufferData` refuses one part.
* `gameinfo`: a server to join (with id 0, which `JoinGame` treats specially), one the
  user is banned from and one that answers from another port; two dialogs, since
  `CloseAllGameInfoDialogs` and a stray cancel involve two; one act of the user beyond
  opening dialogs and toggling options.

### Fairness

`WorkshopQueue!Fairness` states that frames keep coming, that Steam delivers the
call-backs it posted (`SteamAPI_RunCallbacks` runs in every frame), that it answers
the query and that every download it started ends.  Nothing is assumed of the user.
`queue_stuck` uses the same fairness, so its counterexample is not a system that merely
stopped.

`HudServers!Fairness` states that frames keep coming and that the engine answers each
request or gives it up, as its API promises with the time-outs the code passes.

`Voice!Fairness`: both programs run their frames, reliable messages and commands arrive,
the engine learns who is in a slot, and of the `vban` commands sent again and again one
arrives (strong fairness, since each may be lost).  The clock need not catch up with
`m_LastUpdateServerState`, and the user need not do anything.

`VideoPlayer!Fairness`: frames are drawn and end, and the engine's time goes on (strong,
because `Tick` is only taken between frames).  Nothing is assumed of the mixer.  That
`UpdateSound` ends assumes that `ov_read` does not fail for ever (see Findings).

`GameInfoDialog!Fairness`: dialogs are ticked, and a server that is asked again and again
answers in the end (strong: each query may be lost or cancelled).

## Proofs

TLC checks the instances above; TLAPS proves the following for all values of the
constants that satisfy the assumptions of the modules (`MountAssumption`,
`QueueAssumption`, `ServersAssumption`, ...), which say no more than that sets are of
the right kind, bounds are numbers and a placeholder is none of the values.

**Addons.**

* `MountTypeCorrect`, `QueueTypeCorrect`: the type invariants.
* `ListAgrees`, `MountedStaysRecorded`: `AddonListAgrees` is not inductive on the
  code's own terms, because an auto-mount writes the entries of addons loaded so
  far.  `ListInv` adds `Recorded`: a mounted addon has an entry at all.
* `FilesAsShown`: `FilesFollowBox`, with no condition on the user, the folders, the files
  addons share or the restarts.  `BoxInv` says of a settled addon that each of its files
  is there, or is its to come (a thread that will write it is unfinished and none will
  remove it), while its box is ticked, and gone or going while it is not; that its folder
  is there while a thread of it runs; and, while it is not loaded, that `zamnhlmp_addon`
  is what the next start will show of it (`Told`), which carries the property over a
  restart.  An addon that is not settled is left out because the code breaks the property
  there: `mount_race` shows a quick mount and unmount, Findings the auto-mount.
* `WatchedIsQueued`, `PollingIsIdle`, `QueueAwaitsAnswer`: the three invariants of the
  queue, proved together (`QueueInv`), since a query answered with nothing stops queue
  mode and only `CurrentIsStarted` says that no download is watched then.
  `UnansweredIsAwaited` says that a client without an answer is in queue mode and that
  Steam still owes it one; no step of Steam takes that back without answering
  (`SteamOwes`).
* `QueueImplementsMount`: `Spec => MountSpec`.  It needs that an answer only reaches a
  running client (`Running`).  `QueueKeepsListAgrees`, `QueueKeepsRecord` and
  `QueueKeepsFiles` follow from it and the theorems about the addons: downloads, polls and answers cannot break what was proved without them.
* `WatchedIsNotScanned`: the action property `NoScanDuringDownload`, from the same
  invariants.
* `RequestsAreTried`: the action property `UntriedRequestsStay`, for queues of any
  length.  The requests that wait keep their positions, because `MarkUpTo` marks a prefix
  and a poll only appends.
* `WatchedIsOnItsWay`: where no download fails and no folder is deleted, the watched
  download has arrived or Steam is at it.  This is what `QueueDrains` rests on besides
  fairness, and what `queue_stuck` breaks.

**Servers of the HUD.**

* `ServersTypeCorrect`, `CountIsKept`, `AnswersBelong`, `LimitIsKept`: for any servers
  and any `MAX_QUERIES`.  `ActiveIsCounted` needs that a request for the master's list
  is only out while both lists are empty (`WaitingForList`): the list's arrival sets the
  count to zero and that must be right.  It also needs that no server both waits and is
  asked (`Apart`), and that answers belong to the active list (`OnlyThisSearch`).  The
  limit then follows from the bound on the active list.
* `PingsInOrder`: while the list was last sorted by ping or not at all, the servers
  `AddServer` walks past are a prefix (`PassedIsPrefix`), so the place it stops at is
  right (`InsertedInOrder`), whatever is dropped behind it.
* `FastestStaysShown`: in a list of any order, the servers in front of the place of an
  insertion stay and the one that may be dropped behind it is no faster than the one
  inserted.
* `ServersShownAsListed`: an address is shown as often, at most, as entries of this
  search's list name it and have been answered (`ListedInv`): the entries that wait or are
  being asked are counted apart from those that have answered.
* `SearchGoesOn`: while servers are left to ask, there is room to ask one or an answer is
  still to come.  A count that were too high would close the loop of `QueryThink` for
  ever; every server on the active list is asked (`ActiveAreAsked`), so it is not.

**Server browser.**

* `TabTypeCorrect`, `RowsAgree`, `AddressesAgree`, `ScreenPassesFilters`,
  `SilentServersNotShown`, `ButtonMatchesRequest`, `SelectionKeepsServer`: every property
  of `tab_safety`, for any servers, rows, answers and filters.  The structures must be
  proved together (`TabInv`): the row of a duplicate is found through the address map,
  and an answer finds its row through the entry.  The lemmas follow the code:
  `RegisteredRows` for entering a number, `RespondedRows` and `RespondedRow` for an
  answer, `FilteredRows` for a filter change, `HiddenRows` for a failure.
  `ShownHaveAnswered` is strengthened to every server with an entry
  (`KnownHaveAnswered`), since a filter change may list any of them.
* `TabImplementsBoard`: the tab implements `ServerBoard`.  Each step maps to one of the
  board or a stutter; `TabInv` gives that the rows of an answer are those of its address
  (`OthersAreElsewhere`) and that a filter change adds no address twice.

**Game info dialogs.**

* `DialogsTypeCorrect`, `NoAnswerToTheDead`, `RowsAgree`, `JoinsOnFreshAnswer`: types and
  the three safety properties of `gameinfo`, for any servers and any number of dialogs.  `Good`
  says of all dialogs and queries at once that each query is held by a living dialog,
  that a dialog has at most one of each kind (`Alone`, so that asking again cancels the
  right one), that a ping of a dialog that is connecting was sent since it is, and that
  the rows a dialog shows are of one query, an earlier one only while the list is to be
  replaced.  Every operation is shown to keep
  `Good` of the values it works on, so that operations that call each other compose.
* `QueriesDoNotPileUp`: however often a dialog asks a silent server, it has one query of
  a kind out.  `AnswersEndWaiting`: any answer ends the wait of the dialog that gets it.
  Since the tick asks again, this is all `NobodyWaitsForever` needs besides fairness.

**Voice.**

* `VoiceTypeCorrect`, `RecordIsTrue`, `ToldIsHeard`: types, `MasksAgree` and
  `ModEnableAgrees`, for any slots, players and numbers of messages on their way.  Both
  are inductive given the types; the argument is about what is last in a queue that
  grows at one end and shrinks at the other.
* `RestingStatesAreRight`, `RestIsStable`: in a state where nothing is on its way and
  neither program has anything left to send (`AtRest`), the client hears whom it should
  (`RestIsRight`), and only the user or the players end such a state.  That the two sides
  come to rest is `HeardAsWanted`, which needs fairness; that they cannot come to rest
  in a wrong state is proved.

**Video.**

* `QueuedInOrder`, `PartsNotForgotten`, `StreamsHeardInFull`, `SoundEndsWithVideo`: from
  `SoundInv`, for any number of buffers and parts.  `PhaseInv` ties the variables of a
  call to where the client is, `ReadInv` the parts in the queue to the part read last,
  `HeardInv` the parts before the one played to `begun`, and `OwnerInv` says that the
  sound has a video.  That the queue is in order does not suffice for anything: the
  mixer may have played what the client still counts as queued.
* `PlayerImplementsScreening`: the player implements `Screening`.  The mixer's step is
  one of `Hear`, because the parts between the one heard and the next in the queue were
  refused (`BegunIsNext`), a refused part was not reached (`FilledIsRefused`), a frame
  decodes no fewer pictures than the one before (`DecodedNoFewer`), and a call of the
  client is only under way while a video is on (`BusyInv`).
* `PicturesInTime`, `LastPictureShown`, `VideoTypeCorrect`: from `PictureInv`, where
  `DrawnInv` says that the pictures drawn are those decoded when the last frame ended, and
  `CountedInTime` that they are on time in the decoder's own count.  `PicturesInTime` is
  about the packets: it adds `AheadInv`, that the packets read and not counted are the
  silent ones and one the headers may have taken (`SilentCounted`).
* `VideoRunsOut`, `OverStaysOver`: a frame at the time of the last packet or later leaves
  nothing to decode, and that stays so until the frame that ends the video, because time
  does not go back after the first frame (`TimeInv`).  With frames and a clock that go
  on, `VideoEnds` follows.

Only model-checked: the liveness properties (`QueueDrains`, `RequestBecomesVisible`,
`WaitingAreAsked`, `HeardAsWanted`, `MutesArriveWithVoice`, `VideoEnds`,
`NobodyWaitsForever`), whose proofs need `ENABLED`.  For five of them the part that needs
no fairness is proved: `WatchedIsOnItsWay`, `SearchGoesOn`, `RestingStatesAreRight`,
`VideoRunsOut` with `OverStaysOver`, and `AnswersEndWaiting`.  These have no run of their
own; TLC checked each on the instance of its component before it was proved.

One theorem assumes more of the constants than the modules do: `WatchedIsOnItsWay` is
about downloads that succeed, as in `queue_live`.

## Findings

See `PROJECT.json`; each is a violated property with the line of the repository that
promises it.  Writing the models also showed the following, which no run is spent on.
Of the HUD's server list:

* `m_nRequesting` is cleared only by a `Think` that has seen the master's list or by
  Stop.  After a LAN refresh, or when the master does not answer, the old browser says
  "Waiting for servers to respond..." for ever.
* `CHudServers` never initialises `m_nServerCount` (`Garbage`), and it counts servers
  that `AddServer` has dropped.
* `ListResponse` copies every node of the master's answer (`hud_servers.cpp:130-150`): an
  address that comes twice is asked twice and shown twice.  `ShownAsListed` says no more
  than that it is not shown more often than it came.
* After a sort by another column, `AddServer` goes on inserting by ping, so the list is in
  the order of neither.
* After Stop, a Refresh that finds no master server leaves the servers of the stopped
  search in `m_pServerList`, where nobody asks them.

Of the server browser:

* A server that answers while it fails the filters has no row and no mark
  (`m_bDoNotRefresh`), and `ApplyGameFilters` shows only marked servers
  (`CBaseTab.h:140`): loosening the filters does not bring it back, loosening them after
  having tightened them again does.
* A server hidden by a filter change keeps its mark when it then answers and passes, so
  it is listed as not responding (`CBaseTab.cpp:507`).
* A LAN server that stopped answering is hidden without a mark; tightening and loosening
  a filter shows it again.
* F5 calls `StartRefresh` directly, so the Internet tab keeps
  `m_bAnyServersRespondedToQuery` of the list before, and may give the wrong reason for
  an empty list.
* `OnFavoritesMsg` is registered with the call handle 0 and never runs.

Of the Workshop:

* An addon that is auto-mounted is listed as not mounted: `AutoMountWorkshopItem` looks
  for it in `m_Items` before it is pushed there (`gameui_viewport.cpp:472`), and the
  check box reads that flag (`gameui_viewport.h:88`).
* Of more than `MAX_WORKSHOP_ITEMS` (100) subscriptions a poll sees 100
  (`gameui_viewport.cpp:271-275`); the others are neither downloaded nor shown by it.
* `RemoveFilesFromAddons` reads the member `item` of a `CopyPath` from a `DeleteFile`,
  which has none (`gameui_viewport.cpp:546`): the read is beyond the object, and the info
  box names whatever addon it gives.

Of the HUD's list: `p->next = list->next->next` (`hud_servers.cpp:362`) drops the server
behind the place of an insertion.

Of the game info dialogs:

* `JoinGame` of a server in a list opens the dialog and does not join, unless the server's
  id is 0; then it connects the oldest dialog that is open (`GetDialogGameInfoForFriend`
  compares the friend of a dialog with that id) and asks all dialogs to close, which
  cancels the ping.  `CServerBrowser.h:28` says that it joins.
* `m_bClosing` is read by `CloseAllGameInfoDialogs` and initialised by nobody, so closing
  the browser may leave dialogs open (`CServerBrowser.h:37` says it closes all).
* `m_hRulesQuery` is cancelled by the destructor and initialised by nobody; the cancelled
  query may be another dialog's.  `OnTick` makes up for it after ten seconds.
* A dialog that is closing with a join outstanding still connects if the answer comes
  before it is deleted.  Its list of players keeps the old rows when the server becomes
  empty.

Of voice:

* A client with `voice_modenable 0` that connects again keeps `m_ServerBannedPlayers`.
  It may never send `vban`: it tells the server `VModEnable` in its first frame, so the
  server does not ask, and its old masks agree by chance.  It hears nobody then, but the
  server filters chat by the same mask (`dlls/client.cpp:435`), and
  `voice_status.h:171-172` says the masks are the server's.  `MutesArriveWithVoice` is
  stated for `voice_modenable 1`.
* The score panel's menu keeps a slot while it is open (`vgui/score_panel.cpp:1207`,
  `:1247`), whose player may have changed when the user mutes it.
* The ban list is written by the destructor only: a client that is killed loses the
  mutes of the session.

Of the video:

* `PlayVideo` between a change of map and the first frame on it takes the time of the old
  map for the start (`video_player.cpp:87`): there is sound but no picture, and no input,
  until the clock gets there.  `NeverLateNorFarAhead` has a case for it
  (`Due < 0`).
* After the source ran dry, a restart plays again what was processed and not unqueued;
  if it runs dry at the end of the file, the last parts are not heard (`HeardInFull` is
  stated for sources that did not run dry).
* An `ov_read` that fails for ever loops for ever.
* A repeated or damaged packet brings no picture and takes no time: the video runs ahead
  of its sound and ends early.  `NeverLateNorFarAhead` says by how much.  Sound that is longer than the video is cut.
* No key stops a video: the handling of Escape is commented out (`input.cpp:436-446`).

## Not modelled

* Wording, layout, icons and the info box of the Workshop dialog.
* The data race on the vector `m_Items` between the copying threads and the main
  thread: below the level of the model, which loses only the flag.
* Call-backs for items of other applications.
* Of the threads: that two copying the same file may mix what they write (`CopyWrite` is
  one step), and what the read beyond a `DeleteFile` returns (see Findings), which only
  the text of the info box depends on unless it crashes.
* Of the HUD's server list: the values of the columns other than the ping, and the ping,
  rules and players requests, which only print.
* Of the server browser: the selection, sorting, the texts of an empty list, a client
  without Steam, and `OnFavoritesMsg` with the servers it pings.  Of its dialogs: what is
  never called (`JoinGame` by address, `SetFriend`, `ChangeAddress`, rules queries,
  `ConnectedToGame`) or not compiled (the password dialog).
* Of voice: a client that is in no level, whose `UpdateServerState` returns at once
  (`voice_status.cpp:510`): the model begins with one that is connected.  The speaker
  labels, the file of the ban list (`Init` begins with any list),
  and clients other than the one modelled, whose state the server keeps apart.
* Of the video: the container's pages, colours and texture, the length of a part in time
  (the mixer plays at any speed), and packets of sound of different lengths.
* The Workshop upload dialogs: dead code.  Music: one command to the engine, and a queue
  of tracks that are loaded whole.
* Drawing, geometry, movement physics: floating point with no protocol.
* Vendored code and the SDK's sample mods.
