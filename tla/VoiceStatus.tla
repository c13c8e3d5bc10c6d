---------------------------- MODULE VoiceStatus ----------------------------
(***************************************************************************)
(* The client's side of the squelch masks: CVoiceStatus and the list of    *)
(* muted players of its CVoiceBanMgr.  The client mutes players, by their  *)
(* unique ids; the server mutes slots, so the client works out the mask    *)
(* from the players its engine knows and tells the server, VModEnable      *)
(* reliably and vban not.                                                  *)
(***************************************************************************)
EXTENDS VoiceCommon, Integers, Sequences

CONSTANTS
    Players,     \* the unique ids of players
    None,        \* no player in the slot
    MaxToServer, \* bound: VModEnable commands on their way to the server
    MaxVbans     \* bound: vban commands on their way to the server

ASSUME StatusAssumption == None \notin Players

VARIABLES
    banned,                \* m_BanMgr: the players muted
    voice_modenable,       \* the cvar: 0 or 1
    m_bServerModEnable,    \* the value last sent, or -1
    m_AudiblePlayers,      \* the masks last received
    m_ServerBannedPlayers,
    early,                 \* the client's clock is behind m_LastUpdateServerState
    playerInfo,            \* who the client's engine says is in a slot
    toServer,              \* VModEnable commands on their way
    vbans                  \* vban commands on their way, which may get lost

statusVars == <<m_bServerModEnable, m_AudiblePlayers, m_ServerBannedPlayers,
                early, toServer, vbans>>

\* The slots of the players muted, among those the client knows
BanMask(bans) == {s \in Slots : playerInfo[s] \in bans}
KnownSlots == {s \in Slots : playerInfo[s] # None}

\* An unreliable command is put on its way, or dropped if there are too many.
SendVban(mask) ==
    vbans' = IF Len(vbans) < MaxVbans THEN Append(vbans, mask) ELSE vbans

\* Mutant: VModEnable is sent when it is asked for and never again.
UpdateServerStateOnce(bForce, bans) ==
    /\ Len(toServer) < MaxToServer
    /\ IF bForce
       THEN /\ m_bServerModEnable' = voice_modenable
            /\ toServer' = Append(toServer, voice_modenable)
       ELSE UNCHANGED <<m_bServerModEnable, toServer>>
    /\ IF bForce \/ BanMask(bans) # m_ServerBannedPlayers \cap KnownSlots
       THEN SendVban(BanMask(bans))
       ELSE UNCHANGED vbans
    /\ early' = FALSE
    /\ UNCHANGED <<m_AudiblePlayers, m_ServerBannedPlayers>>

(***************************************************************************)
(* Tell the server what differs from what it is believed to know, or all   *)
(* of it.  bans is the list of muted players at that moment.  The client   *)
(* is in a level: without one, nothing would be sent.                      *)
(***************************************************************************)
UpdateServerState(bForce, bans) ==
    /\ Len(toServer) < MaxToServer
    /\ IF bForce \/ m_bServerModEnable # voice_modenable
       THEN /\ m_bServerModEnable' = voice_modenable
            /\ toServer' = Append(toServer, voice_modenable)
       ELSE UNCHANGED <<m_bServerModEnable, toServer>>
    /\ IF bForce \/ BanMask(bans) # m_ServerBannedPlayers \cap KnownSlots
       THEN SendVban(BanMask(bans))
       ELSE UNCHANGED vbans
    /\ early' = FALSE
    /\ UNCHANGED <<m_AudiblePlayers, m_ServerBannedPlayers>>

\* More than a second since the last update: never the case while the clock,
\* which starts anew with every map, is behind the time of that update.
Frame ==
    /\ ~early
    /\ UpdateServerState(FALSE, banned)
    /\ UNCHANGED <<banned, voice_modenable, playerInfo>>

\* The user mutes or unmutes the player in slot s, if there is one.
SetPlayerBlockedState(s, blocked) ==
    /\ playerInfo[s] # None
    /\ banned' = IF blocked THEN banned \cup {playerInfo[s]}
                            ELSE banned \ {playerInfo[s]}
    /\ UpdateServerState(FALSE, banned')
    /\ UNCHANGED <<voice_modenable, playerInfo>>

\* Mutant: only the game rules' mask is kept.
HandleVoiceMaskHalf(rules, bans) ==
    /\ m_AudiblePlayers' = rules
    /\ m_bServerModEnable' = -1
    /\ UNCHANGED <<banned, voice_modenable, m_ServerBannedPlayers, early,
                   playerInfo, toServer, vbans>>

\* The message holds the two masks and no third field: READ_BYTE returns -1.
HandleVoiceMaskMsg(rules, bans) ==
    /\ m_AudiblePlayers' = rules
    /\ m_ServerBannedPlayers' = bans
    /\ m_bServerModEnable' = -1
    /\ UNCHANGED <<banned, voice_modenable, early, playerInfo, toServer, vbans>>

HandleReqStateMsg ==
    /\ UpdateServerState(TRUE, banned)
    /\ UNCHANGED <<banned, voice_modenable, playerInfo>>

\* The user turns voice off or on, or talks, which turns it on.
ChangeModEnable ==
    /\ voice_modenable' = 1 - voice_modenable
    /\ UNCHANGED <<statusVars, banned, playerInfo>>

StatusTypeOK ==
    /\ banned \subseteq Players
    /\ voice_modenable \in {0, 1}
    /\ m_bServerModEnable \in {-1, 0, 1}
    /\ m_AudiblePlayers \in CPlayerBitVec
    /\ m_ServerBannedPlayers \in CPlayerBitVec
    /\ early \in BOOLEAN
    /\ playerInfo \in [Slots -> Players \cup {None}]
    /\ toServer \in Seq({0, 1})
    /\ vbans \in Seq(CPlayerBitVec)

=============================================================================
