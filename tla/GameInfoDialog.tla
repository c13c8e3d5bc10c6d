--------------------------- MODULE GameInfoDialog ---------------------------
(***************************************************************************)
(* The game info dialogs of the server browser: CDialogGameInfo, one for   *)
(* each server the user views or joins, and the part of CServerBrowser     *)
(* that opens, finds and closes them.  A dialog pings its server when the  *)
(* user asks and every ten seconds, and connects to it when the answer     *)
(* says there is room; Steam answers the queries in any order, or not.     *)
(***************************************************************************)
EXTENDS Integers, Sequences, FiniteSets

CONSTANTS
    Servers,    \* the ids of the servers in the list
    Banned,     \* those that are secure, if the user is VAC banned
    OtherPort,  \* those that answer from another port than the one listed
    None,       \* no server
    MaxDialogs, \* bound: dialogs opened
    MaxActs     \* bound: times the user joins, refreshes or closes

ASSUME DialogAssumption ==
    /\ Servers \subseteq Nat /\ None \notin Servers
    /\ Banned \subseteq Servers /\ OtherPort \subseteq Servers
    /\ MaxDialogs \in Nat /\ MaxActs \in Nat

VARIABLES
    m_GameInfoDialogs, \* the dialogs opened, those deleted included
    inFlight,          \* the queries Steam has not answered
    command,           \* the server this step tells the engine to connect to
    hasRoom,           \* the servers with a free slot
    acts               \* how often the user joined, refreshed or closed

vars == <<m_GameInfoDialogs, inFlight, command, hasRoom, acts>>

Dialog == [server : Servers, phase : {"open", "closing", "deleted"},
           closePosted : BOOLEAN, m_bConnecting : BOOLEAN,
           m_bShowAutoRetryToggle : BOOLEAN, m_pAutoRetry : BOOLEAN,
           m_pAutoRetryJoin : BOOLEAN, m_bPlayerListUpdatePending : BOOLEAN,
           m_pPlayerList : SUBSET {"last", "earlier"}] \* the queries its rows are from

\* What a call changes: the dialogs, and the queries in flight
ui == [dialogs |-> m_GameInfoDialogs, flight |-> inFlight]
Becomes(u) == m_GameInfoDialogs' = u.dialogs /\ inFlight' = u.flight

Ids == 1..Len(m_GameInfoDialogs)
Alive(u, d) == u.dialogs[d].phase # "deleted"

-----------------------------------------------------------------------------
(***************************************************************************)
(* The queries.  The handle a dialog keeps of each kind, m_hPingQuery and  *)
(* m_hPlayersQuery, is in the query: "held" until the dialog forgets it.   *)
(***************************************************************************)

Query(d, kind, connecting) ==
    [of |-> d, kind |-> kind, connecting |-> connecting, held |-> TRUE]

Forget(flight, d, kind) ==
    {IF q.of = d /\ q.kind = kind THEN [q EXCEPT !.held = FALSE] ELSE q : q \in flight}

CancelServerQuery(flight, d, kind) ==
    {q \in flight : ~(q.of = d /\ q.kind = kind /\ q.held)}

\* RequestInfo, with m_iRequestRetry = 0: its callers reset it, but for ShowModal,
\* where it does nothing.
RequestInfo(u, d) ==
    [u EXCEPT !.flight = CancelServerQuery(@, d, "ping") \cup
                           {Query(d, "ping", u.dialogs[d].m_bConnecting)}]

Earlier(rows) == IF rows = {} THEN {} ELSE {"earlier"}

\* Mutant: the list is not marked as one to be replaced.
SendPlayerQueryAdding(u, d) ==
    [dialogs |-> [u.dialogs EXCEPT ![d].m_pPlayerList = Earlier(@)],
     flight |-> CancelServerQuery(u.flight, d, "players") \cup
                  {Query(d, "players", FALSE)}]

SendPlayerQuery(u, d) ==
    [dialogs |-> [u.dialogs EXCEPT ![d].m_pPlayerList = Earlier(@),
                                   ![d].m_bPlayerListUpdatePending = TRUE],
     flight |-> CancelServerQuery(u.flight, d, "players") \cup
                  {Query(d, "players", FALSE)}]

-----------------------------------------------------------------------------
(***************************************************************************)
(* Opening, connecting and closing.                                        *)
(***************************************************************************)

NewDialog(s, phase) ==
    [server |-> s, phase |-> phase, closePosted |-> FALSE, m_bConnecting |-> FALSE,
     m_bShowAutoRetryToggle |-> FALSE, m_pAutoRetry |-> FALSE, m_pAutoRetryJoin |-> FALSE,
     m_bPlayerListUpdatePending |-> FALSE, m_pPlayerList |-> {}]

\* The constructor and ShowModal
OpenGameInfoDialog(s) ==
    RequestInfo([ui EXCEPT !.dialogs = Append(@, NewDialog(s, "open"))],
                Len(m_GameInfoDialogs) + 1)

\* Close, which sets m_bClosing: TRUE of a dialog that is not open
Close(u, d) == [u EXCEPT !.dialogs[d].phase = IF @ = "open" THEN "closing" ELSE @]

\* Nobody initialises m_bClosing: what CloseAllGameInfoDialogs reads of an open
\* dialog may be TRUE, and the dialog is skipped.
CloseAllGameInfoDialogs(u) ==
    LET open == {d \in DOMAIN u.dialogs : u.dialogs[d].phase = "open"}
    IN  {[u EXCEPT !.dialogs =
            [d \in DOMAIN @ |->
               IF d \in read THEN [@[d] EXCEPT !.closePosted = TRUE] ELSE @[d]]] :
         read \in SUBSET open}

\* Mutant: the answer to the last ping will do.
OnConnectUnasked(u, d) == [u EXCEPT !.dialogs[d].m_bConnecting = TRUE]

\* The server is asked again, to make sure that there is room.
OnConnect(u, d) == RequestInfo([u EXCEPT !.dialogs[d].m_bConnecting = TRUE], d)

\* ConnectToServer, with ApplyConnectCommand
ConnectToServer(u, d) ==
    LET s == u.dialogs[d].server
        tried == [u EXCEPT !.dialogs[d].m_bConnecting = FALSE]
    IN  \/ /\ s \in Banned
           /\ Becomes(Close(tried, d))
           /\ command' = None
        \/ /\ s \notin Banned /\ s \notin hasRoom
           /\ Becomes([tried EXCEPT !.dialogs[d].m_bShowAutoRetryToggle = TRUE])
           /\ command' = None
        \/ /\ s \notin Banned /\ s \in hasRoom
           /\ \E closed \in CloseAllGameInfoDialogs(Close(tried, d)) :
                Becomes([closed EXCEPT !.dialogs[d].closePosted = TRUE])
           /\ command' = s

-----------------------------------------------------------------------------
(***************************************************************************)
(* What Steam answers, to a dialog that may be closing.                    *)
(***************************************************************************)

ServerResponded(d) ==
    \E q \in inFlight :
      LET dialog == m_GameInfoDialogs[d]
          answered == [ui EXCEPT !.flight = Forget(@ \ {q}, d, "ping")]
      IN  /\ q.of = d /\ q.kind = "ping"
          /\ \/ /\ dialog.server \in OtherPort
                /\ Becomes([ui EXCEPT !.flight = @ \ {q}])
                /\ command' = None
             \/ /\ dialog.server \notin OtherPort
                /\ \/ dialog.m_bConnecting
                   \/ /\ dialog.m_pAutoRetry /\ dialog.server \in hasRoom
                      /\ dialog.m_pAutoRetryJoin
                /\ ConnectToServer(answered, d)
             \/ /\ dialog.server \notin OtherPort
                /\ ~dialog.m_bConnecting
                /\ dialog.m_pAutoRetry /\ dialog.server \in hasRoom
                /\ ~dialog.m_pAutoRetryJoin
                /\ Becomes(answered)
                /\ command' = None
             \/ /\ dialog.server \notin OtherPort
                /\ ~dialog.m_bConnecting
                /\ ~(dialog.m_pAutoRetry /\ dialog.server \in hasRoom)
                /\ Becomes(SendPlayerQuery(answered, d))
                /\ command' = None
          /\ UNCHANGED <<hasRoom, acts>>

\* ServerFailedToRespond, PlayersFailedToRespond: the handle stays.
QueryFails(d) ==
    \E q \in inFlight :
      /\ q.of = d
      /\ inFlight' = inFlight \ {q}
      /\ UNCHANGED <<m_GameInfoDialogs, hasRoom, acts>>
      /\ command' = None

AddPlayerToList(d) ==
    \E q \in inFlight :
      /\ q.of = d /\ q.kind = "players"
      /\ LET dialog == m_GameInfoDialogs[d]
             row == IF q.held THEN "last" ELSE "earlier"
             rows == IF dialog.m_bPlayerListUpdatePending
                     THEN {} ELSE dialog.m_pPlayerList
         IN  m_GameInfoDialogs' =
               [m_GameInfoDialogs EXCEPT ![d].m_pPlayerList = rows \cup {row},
                                         ![d].m_bPlayerListUpdatePending = FALSE]
      /\ command' = None
      /\ UNCHANGED <<inFlight, hasRoom, acts>>

PlayersRefreshComplete(d) ==
    \E q \in inFlight :
      /\ q.of = d /\ q.kind = "players"
      /\ Becomes([ui EXCEPT !.flight = Forget(@ \ {q}, d, "players")])
      /\ command' = None
      /\ UNCHANGED <<hasRoom, acts>>

-----------------------------------------------------------------------------
(***************************************************************************)
(* Time, and messages to the dialogs.                                      *)
(***************************************************************************)

\* Mutant: a dialog that is connecting is left alone.
OnTickUnlessConnecting(d) ==
    /\ Alive(ui, d) /\ ~m_GameInfoDialogs[d].m_bConnecting
    /\ Becomes(RequestInfo(ui, d))
    /\ command' = None
    /\ UNCHANGED <<hasRoom, acts>>

\* Ten seconds have passed since the dialog asked.
OnTick(d) ==
    /\ Alive(ui, d)
    /\ Becomes(RequestInfo(ui, d))
    /\ command' = None
    /\ UNCHANGED <<hasRoom, acts>>

CloseMessage(d) ==
    /\ m_GameInfoDialogs[d].closePosted
    /\ Becomes([Close(ui, d) EXCEPT !.dialogs[d].closePosted = FALSE])
    /\ command' = None
    /\ UNCHANGED <<hasRoom, acts>>

\* Mutant: only the ping is cancelled.
DeletedWithPlayers(d) ==
    /\ m_GameInfoDialogs[d].phase = "closing"
    /\ inFlight' = CancelServerQuery(inFlight, d, "ping")
    /\ m_GameInfoDialogs' =
         [m_GameInfoDialogs EXCEPT ![d] = NewDialog(@.server, "deleted")]
    /\ command' = None
    /\ UNCHANGED <<hasRoom, acts>>

\* The destructor.  Nobody initialises m_hRulesQuery: it may be the handle of any
\* other query.
Deleted(d) ==
    /\ m_GameInfoDialogs[d].phase = "closing"
    /\ LET others == CancelServerQuery(CancelServerQuery(inFlight, d, "ping"),
                                       d, "players")
       IN  inFlight' \in {others} \cup {others \ {q} : q \in others}
    /\ m_GameInfoDialogs' =
         [m_GameInfoDialogs EXCEPT ![d] = NewDialog(@.server, "deleted")]
    /\ command' = None
    /\ UNCHANGED <<hasRoom, acts>>

-----------------------------------------------------------------------------
(***************************************************************************)
(* The user.                                                               *)
(***************************************************************************)

Acts == acts < MaxActs /\ acts' = acts + 1

OnViewGameInfo(s) ==
    /\ Len(m_GameInfoDialogs) < MaxDialogs
    /\ Becomes(OpenGameInfoDialog(s))
    /\ command' = None
    /\ UNCHANGED <<hasRoom, acts>>

\* The first dialog of a friend, who has no id in any dialog: there is one only if
\* the id looked for, which is that of a server, is 0.
GetDialogGameInfoForFriend(u, id) ==
    {d \in 1..Len(u.dialogs) : /\ id = 0 /\ Alive(u, d)
                               /\ \A e \in 1..(d - 1) : ~Alive(u, e)}

\* OnBeginConnect of a tab, with JoinGame
OnBeginConnect(s) ==
    /\ Len(m_GameInfoDialogs) < MaxDialogs
    /\ LET opened == OpenGameInfoDialog(s)
           found == GetDialogGameInfoForFriend(opened, s)
       IN  \/ found = {} /\ Becomes(opened)
           \/ \E d \in found :
                \E closed \in CloseAllGameInfoDialogs(OnConnect(opened, d)) :
                  Becomes(closed)
    /\ command' = None
    /\ UNCHANGED <<hasRoom, acts>>

\* The buttons of a dialog
Button(d) ==
    /\ m_GameInfoDialogs[d].phase = "open"
    /\ Acts
    /\ \/ Becomes(OnConnect(ui, d))
       \/ Becomes(RequestInfo(ui, d))
       \/ Becomes(Close(ui, d))
    /\ command' = None
    /\ UNCHANGED hasRoom

\* The options appear or go, and "alert me" is selected.
ShowAutoRetryOptions(dialog) ==
    [dialog EXCEPT !.m_pAutoRetry = ~@, !.m_pAutoRetryJoin = FALSE]

\* The toggle for the auto-retry, and its two options
OnButtonToggled(d) ==
    /\ m_GameInfoDialogs[d].phase = "open"
    /\ \/ /\ m_GameInfoDialogs[d].m_bShowAutoRetryToggle
          /\ Becomes([ui EXCEPT !.dialogs[d] = ShowAutoRetryOptions(@)])
       \/ /\ m_GameInfoDialogs[d].m_pAutoRetry
          /\ Becomes([ui EXCEPT !.dialogs[d].m_pAutoRetryJoin = ~@])
    /\ command' = None
    /\ UNCHANGED <<hasRoom, acts>>

CloseBrowser ==
    /\ Acts
    /\ \E closed \in CloseAllGameInfoDialogs(ui) : Becomes(closed)
    /\ command' = None
    /\ UNCHANGED hasRoom

\* A player leaves or joins a server.
RoomChanges(s) ==
    /\ hasRoom' = IF s \in hasRoom THEN hasRoom \ {s} ELSE hasRoom \cup {s}
    /\ UNCHANGED <<m_GameInfoDialogs, inFlight, acts>>
    /\ command' = None

-----------------------------------------------------------------------------
Init ==
    /\ m_GameInfoDialogs = <<>>
    /\ inFlight = {}
    /\ command = None
    /\ hasRoom \in SUBSET (Servers \ (Banned \cup OtherPort))
    /\ acts = 0

Next ==
    \/ \E d \in Ids :
         \/ ServerResponded(d) \/ QueryFails(d)
         \/ AddPlayerToList(d) \/ PlayersRefreshComplete(d)
         \/ OnTick(d) \/ CloseMessage(d) \/ Deleted(d)
         \/ Button(d) \/ OnButtonToggled(d)
    \/ \E s \in Servers : OnViewGameInfo(s) \/ OnBeginConnect(s)
    \/ CloseBrowser
    \/ \E s \in Servers \ (Banned \cup OtherPort) : RoomChanges(s)

Spec == Init /\ [][Next]_vars

(***************************************************************************)
(* Dialogs are ticked, and a server that is asked again and again answers  *)
(* in the end.                                                             *)
(***************************************************************************)
Fairness ==
    \A d \in 1..MaxDialogs :
      /\ WF_vars(d \in Ids /\ OnTick(d))
      /\ SF_vars(d \in Ids /\ ServerResponded(d))

FairSpec == Spec /\ Fairness

-----------------------------------------------------------------------------
\* Types, and the auto-retry is only on where the user was offered it.
TypeOK ==
    /\ m_GameInfoDialogs \in Seq(Dialog)
    /\ \A d \in Ids :
         /\ m_GameInfoDialogs[d].m_pAutoRetryJoin => m_GameInfoDialogs[d].m_pAutoRetry
         /\ m_GameInfoDialogs[d].m_pAutoRetry => m_GameInfoDialogs[d].m_bShowAutoRetryToggle
    /\ inFlight \subseteq [of : Ids, kind : {"ping", "players"},
                           connecting : BOOLEAN, held : BOOLEAN]
    /\ command \in Servers \cup {None}
    /\ hasRoom \subseteq Servers
    /\ acts \in 0..MaxActs

\* Every query in flight is one a living dialog remembers, so that it can cancel it:
\* an answer to a dialog that was deleted would be a call of freed memory
\* (steamworks/isteammatchmaking.h:304-307).
QueriesHaveDialogs == \A q \in inFlight : q.held /\ Alive(ui, q.of)

\* A list of players shows those of one answer, however often it was asked for.
RowsOfOneAnswer == \A d \in Ids : Cardinality(m_GameInfoDialogs[d].m_pPlayerList) <= 1

\* The answer to q makes a dialog connect in which the user pressed join.
AnswersJoin(q) ==
    /\ q \in inFlight \ inFlight' /\ q.kind = "ping"
    /\ m_GameInfoDialogs[q.of].m_bConnecting
    /\ ~m_GameInfoDialogs'[q.of].m_bConnecting
    /\ command' # None

\* Such an answer was asked for after that, and says there is room
\* (CDialogGameInfo.cpp:363).
ConnectsOnFreshAnswer ==
    [][\A q \in inFlight : AnswersJoin(q) =>
         q.connecting /\ m_GameInfoDialogs[q.of].server \in hasRoom]_vars

\* The dialog is open and waits for an answer, or for a slot that is free.
Waits(d) ==
    /\ d \in Ids
    /\ LET dialog == m_GameInfoDialogs[d] IN
         /\ dialog.phase = "open" /\ dialog.server \notin OtherPort
         /\ \/ dialog.m_bConnecting
            \/ /\ dialog.m_pAutoRetry /\ dialog.m_pAutoRetryJoin
               /\ dialog.server \in hasRoom

\* No open dialog waits for ever for an answer, or to join a server that has room: what is
\* lost, also to a stray cancel, is asked again.
NobodyWaitsForever == \A d \in 1..MaxDialogs : []<>~Waits(d)

=============================================================================
