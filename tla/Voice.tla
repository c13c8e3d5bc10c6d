------------------------------- MODULE Voice -------------------------------
(***************************************************************************)
(* The squelch masks between a client and the server it plays on.  Players *)
(* come to the other slots and go, teams change, the user mutes players    *)
(* and turns voice off and on, and the client connects again, to a slot in *)
(* which another client was before it.  The commands and messages are on   *)
(* their way for a while, and vban may get lost.                           *)
(***************************************************************************)
EXTENDS VoiceGameMgr, VoiceStatus

CONSTANTS
    Self,      \* the client's slot
    Me,        \* the client's own unique id
    MaxChanges \* bound: what the user and the other players do

ASSUME VoiceAssumption == Self \in Slots /\ Me \in Players /\ MaxChanges \in Nat

VARIABLES
    occupant,   \* the players in the slots of the server
    gameRules,  \* whom CanPlayerHearPlayer or sv_alltalk let the client hear
    changes     \* how much the user and the other players did

vars == <<gameMgrVars, toClient, statusVars, banned, voice_modenable,
          playerInfo, occupant, gameRules, changes>>

Present == {s \in Slots : occupant[s] # None}
Hearable == Present \cap gameRules

Occupancies == {o \in [Slots -> (Players \ {Me}) \cup {None, Me}] :
                  \A s \in Slots : o[s] = Me <=> s = Self}

\* A client always hears itself, and no rule mutes it.
Rules == {r \in SUBSET Slots : Self \in r}
OtherMasks == SUBSET (Slots \ {Self})

-----------------------------------------------------------------------------
(***************************************************************************)
(* The two programs and what is between them.                              *)
(***************************************************************************)

ServerUpdate ==
    /\ UpdateMasks(Hearable)
    /\ UNCHANGED <<statusVars, banned, voice_modenable, playerInfo, occupant,
                   gameRules, changes>>

ClientFrame ==
    /\ Frame
    /\ UNCHANGED <<gameMgrVars, toClient, occupant, gameRules, changes>>

\* The client's clock reaches the time of its last update.
ClockCatchesUp ==
    /\ early
    /\ early' = FALSE
    /\ UNCHANGED <<gameMgrVars, toClient, m_bServerModEnable, m_AudiblePlayers,
                   m_ServerBannedPlayers, toServer, vbans, banned,
                   voice_modenable, playerInfo, occupant, gameRules, changes>>

ClientReceives ==
    /\ toClient # <<>>
    /\ LET m == Head(toClient) IN
         \/ m.type = "ReqState" /\ HandleReqStateMsg
         \/ m.type = "VoiceMask" /\ HandleVoiceMaskMsg(m.rules, m.bans)
    /\ toClient' = Tail(toClient)
    /\ UNCHANGED <<gameMgrVars, occupant, gameRules, changes>>

\* The engine tells the client who is in slot s.
PlayerInfoArrives(s) ==
    /\ playerInfo[s] # occupant[s]
    /\ playerInfo' = [playerInfo EXCEPT ![s] = occupant[s]]
    /\ UNCHANGED <<gameMgrVars, toClient, statusVars, banned, voice_modenable,
                   occupant, gameRules, changes>>

ServerReceivesVModEnable ==
    /\ toServer # <<>>
    /\ CommandVModEnable(Head(toServer))
    /\ toServer' = Tail(toServer)
    /\ UNCHANGED <<toClient, m_bServerModEnable, m_AudiblePlayers,
                   m_ServerBannedPlayers, early, vbans, banned,
                   voice_modenable, playerInfo, occupant, gameRules, changes>>

TakeVban ==
    /\ vbans # <<>>
    /\ vbans' = Tail(vbans)
    /\ UNCHANGED <<toClient, m_bServerModEnable, m_AudiblePlayers,
                   m_ServerBannedPlayers, early, toServer, banned,
                   voice_modenable, playerInfo, occupant, gameRules, changes>>

ServerReceivesVban == TakeVban /\ CommandVban(Head(vbans))

VbanLost == TakeVban /\ UNCHANGED gameMgrVars

-----------------------------------------------------------------------------
(***************************************************************************)
(* What happens around them.                                               *)
(***************************************************************************)

UserMutes(s, blocked) ==
    /\ SetPlayerBlockedState(s, blocked)
    /\ UNCHANGED <<gameMgrVars, toClient, occupant, gameRules>>

UserChangesModEnable ==
    /\ ChangeModEnable
    /\ UNCHANGED <<gameMgrVars, toClient, occupant, gameRules>>

\* Another player leaves slot s, comes to it, or takes it over; the bans of the
\* slot stay.
PlayerChanges(s) ==
    /\ s # Self
    /\ \E o \in Occupancies :
         /\ o # occupant
         /\ \A t \in Slots \ {s} : o[t] = occupant[t]
         /\ occupant' = o
    /\ UNCHANGED <<gameMgrVars, toClient, statusVars, banned, voice_modenable,
                   playerInfo, gameRules>>

TeamsChange ==
    /\ gameRules' \in Rules \ {gameRules}
    /\ UNCHANGED <<gameMgrVars, toClient, statusVars, banned, voice_modenable,
                   playerInfo, occupant>>

\* The client connects again, to this server or another one, on which the same
\* people may play: its own state is what it was, and the server has what the
\* last client in the slot left.
Connect ==
    /\ ClientConnected
    /\ g_PlayerModEnable' \in BOOLEAN
    /\ g_BanMasks' \in OtherMasks
    /\ playerInfo' = [s \in Slots |-> IF s = Self THEN Me ELSE None]
    /\ early' \in BOOLEAN
    /\ toClient' = <<>> /\ toServer' = <<>> /\ vbans' = <<>>
    /\ UNCHANGED <<listening, m_bServerModEnable, m_AudiblePlayers,
                   m_ServerBannedPlayers, banned, voice_modenable, occupant,
                   gameRules>>

Around ==
    /\ changes < MaxChanges
    /\ changes' = changes + 1
    /\ \/ \E s \in Slots \ {Self}, blocked \in BOOLEAN : UserMutes(s, blocked)
       \/ UserChangesModEnable
       \/ \E s \in Slots : PlayerChanges(s)
       \/ TeamsChange
       \/ Connect

-----------------------------------------------------------------------------
\* A client that was just started, with the players it muted earlier, joins.
Init ==
    /\ g_bWantModEnable = TRUE
    /\ g_SentGameRulesMasks = {} /\ g_SentBanMasks = {}
    /\ g_PlayerModEnable \in BOOLEAN
    /\ g_BanMasks \in OtherMasks
    /\ listening = {}
    /\ occupant \in Occupancies
    /\ gameRules \in Rules
    /\ playerInfo = [s \in Slots |-> IF s = Self THEN Me ELSE None]
    /\ banned \in SUBSET (Players \ {Me})
    /\ voice_modenable \in {0, 1}
    /\ m_bServerModEnable = -1
    /\ m_AudiblePlayers = {} /\ m_ServerBannedPlayers = {}
    /\ early = FALSE
    /\ toClient = <<>> /\ toServer = <<>> /\ vbans = <<>>
    /\ changes = 0

Next ==
    \/ ServerUpdate \/ ClientFrame \/ ClockCatchesUp
    \/ ClientReceives \/ \E s \in Slots : PlayerInfoArrives(s)
    \/ ServerReceivesVModEnable \/ ServerReceivesVban \/ VbanLost
    \/ Around

Spec == Init /\ [][Next]_vars

(***************************************************************************)
(* Both programs run their frames, what is sent reliably arrives, and of   *)
(* the commands that may get lost some arrive, if enough are sent.         *)
(***************************************************************************)
Fairness ==
    /\ WF_vars(ServerUpdate) /\ WF_vars(ClientFrame)
    /\ WF_vars(ClientReceives) /\ WF_vars(ServerReceivesVModEnable)
    /\ \A s \in Slots \ {Self} : WF_vars(PlayerInfoArrives(s))
    /\ SF_vars(ServerReceivesVban)

FairSpec == Spec /\ Fairness

-----------------------------------------------------------------------------
(***************************************************************************)
(* Properties.                                                             *)
(***************************************************************************)

\* The types of the variables of both programs and of what is between them.
TypeOK ==
    /\ GameMgrTypeOK
    /\ StatusTypeOK
    /\ occupant \in Occupancies
    /\ gameRules \in Rules
    /\ changes \in 0..MaxChanges

MasksUnderWay == {n \in 1..Len(toClient) : toClient[n].type = "VoiceMask"}

\* The server's record of what it sent is what the client has, or what the last
\* VoiceMask on its way brings: otherwise the differences it sends, and those
\* the client looks for, would be taken from the wrong masks, and a mute be
\* forgotten (UpdateMasks, voice_gamemgr.cpp:242-259).
MasksAgree ==
    LET sent == [rules |-> g_SentGameRulesMasks, bans |-> g_SentBanMasks]
        Brings(n) == [rules |-> toClient[n].rules, bans |-> toClient[n].bans]
    IN  /\ \A n \in MasksUnderWay :
             (\A k \in MasksUnderWay : k <= n) => sent = Brings(n)
        /\ MasksUnderWay = {} =>
             \/ sent.rules = {} /\ sent.bans = {}
             \/ sent = [rules |-> m_AudiblePlayers, bans |-> m_ServerBannedPlayers]

\* Once the server has stopped asking, what the client believes to have told it
\* about voice_modenable is what the server has, or is on its way
\* (m_bServerModEnable, voice_status.h:159), although the client keeps that
\* belief when it connects elsewhere.
ModEnableAgrees ==
    LET heard == IF g_PlayerModEnable THEN 1 ELSE 0
        last == IF toServer = <<>> THEN heard ELSE toServer[Len(toServer)]
    IN  (~g_bWantModEnable \/ toServer # <<>>) /\ m_bServerModEnable # -1
          => m_bServerModEnable = last

Muted == {s \in Present : occupant[s] \in banned}

\* Neither program has anything to do: nothing is on its way, the server has its
\* answer, the engine knows who plays, the masks the server would send and tell
\* the engine are those it has, and the client sees no difference to tell.
AtRest ==
    LET gameRulesMask == IF g_PlayerModEnable THEN Hearable ELSE {}
    IN  /\ toClient = <<>> /\ toServer = <<>> /\ vbans = <<>>
        /\ ~g_bWantModEnable
        /\ playerInfo = occupant
        /\ g_SentGameRulesMasks = gameRulesMask /\ g_SentBanMasks = g_BanMasks
        /\ listening = gameRulesMask \ g_BanMasks
        /\ m_bServerModEnable = voice_modenable
        /\ BanMask(banned) = m_ServerBannedPlayers \cap KnownSlots

\* They never rest in a wrong state: a lost vban, a slot that changed hands or the
\* mask of another server always leaves one of them a difference to act on.
RestIsRight ==
    AtRest =>
      /\ listening = IF voice_modenable = 1 THEN Hearable \ Muted ELSE {}
      /\ voice_modenable = 1 => g_BanMasks \cap Present = Muted

\* When the user and the players have settled, the client hears whom the rules
\* let it hear and it has not muted, or nobody if it turned voice off: lost
\* vbans are sent again, a mute by player follows the player to its slot, and
\* nothing is left of the last client in the slot.
HeardAsWanted ==
    <>[](listening = IF voice_modenable = 1 THEN Hearable \ Muted ELSE {})

\* The mutes, by which the server also holds back chat (dlls/client.cpp:435),
\* reach it in the end while voice is on: the masks it then sends make the client
\* look again, also after it took the masks of another server for this one's.
MutesArriveWithVoice ==
    <>[](voice_modenable = 1 => g_BanMasks \cap Present = Muted)

=============================================================================
