---------------------------- MODULE VoiceGameMgr ----------------------------
(***************************************************************************)
(* The server's side of the squelch masks: CVoiceGameMgr, for one client.  *)
(* What it keeps of a client is indexed by the client's slot, so the       *)
(* clients do not touch each other's state.                                *)
(***************************************************************************)
EXTENDS VoiceCommon, Integers, Sequences

CONSTANT
    MaxToClient  \* bound: messages on their way to the client

VARIABLES
    g_PlayerModEnable,    \* the client wants to use voice in this mod
    g_BanMasks,           \* the slots the client does not want to hear
    g_SentGameRulesMasks, \* the masks last sent to the client
    g_SentBanMasks,
    g_bWantModEnable,     \* the client has not told its voice_modenable yet
    listening,            \* what pfnVoice_SetClientListening told the engine
    toClient              \* the reliable messages on their way to the client

gameMgrVars == <<g_PlayerModEnable, g_BanMasks, g_SentGameRulesMasks,
                 g_SentBanMasks, g_bWantModEnable, listening>>

ReqState == [type |-> "ReqState"]
VoiceMask(rules, bans) == [type |-> "VoiceMask", rules |-> rules, bans |-> bans]

ToClientMessages == {ReqState} \cup
    [type : {"VoiceMask"}, rules : CPlayerBitVec, bans : CPlayerBitVec]

\* Mutant: the state asked for earlier is taken for the new client's.
ConnectedWithoutRequest ==
    /\ g_bWantModEnable' = FALSE
    /\ g_SentGameRulesMasks' = {}
    /\ g_SentBanMasks' = {}

\* The deltas of a new client start from nothing; what the last client in the
\* slot wanted stays, until the new one tells.
ClientConnected ==
    /\ g_bWantModEnable' = TRUE
    /\ g_SentGameRulesMasks' = {}
    /\ g_SentBanMasks' = {}

\* Mutant: the mask is taken for one already sent.
CommandVbanSent(mask) ==
    /\ g_BanMasks' = mask
    /\ g_SentBanMasks' = mask
    /\ UNCHANGED <<g_PlayerModEnable, g_SentGameRulesMasks, g_bWantModEnable,
                   listening>>

\* ClientCommand: vban
CommandVban(mask) ==
    /\ g_BanMasks' = mask
    /\ UNCHANGED <<g_PlayerModEnable, g_SentGameRulesMasks, g_SentBanMasks,
                   g_bWantModEnable, listening>>

\* ClientCommand: VModEnable
CommandVModEnable(value) ==
    /\ g_PlayerModEnable' = (value # 0)
    /\ g_bWantModEnable' = FALSE
    /\ UNCHANGED <<g_BanMasks, g_SentGameRulesMasks, g_SentBanMasks, listening>>

(***************************************************************************)
(* Every 0.3 seconds: the client is asked for its state for as long as it  *)
(* has not told it, is sent the masks if they differ from the last ones,   *)
(* and the engine is told whom the client hears.  hearable are the players *)
(* the game rules, or sv_alltalk, let it hear.                             *)
(***************************************************************************)
UpdateMasks(hearable) ==
    LET gameRulesMask == IF g_PlayerModEnable THEN hearable ELSE {}
        request == IF g_bWantModEnable THEN <<ReqState>> ELSE <<>>
        masks == IF \/ gameRulesMask # g_SentGameRulesMasks
                    \/ g_BanMasks # g_SentBanMasks
                 THEN <<VoiceMask(gameRulesMask, g_BanMasks)>>
                 ELSE <<>>
    IN  /\ Len(toClient) + Len(request) + Len(masks) <= MaxToClient
        /\ toClient' = toClient \o request \o masks
        /\ g_SentGameRulesMasks' = gameRulesMask
        /\ g_SentBanMasks' = g_BanMasks
        /\ listening' = gameRulesMask \ g_BanMasks
        /\ UNCHANGED <<g_PlayerModEnable, g_BanMasks, g_bWantModEnable>>

GameMgrTypeOK ==
    /\ g_PlayerModEnable \in BOOLEAN
    /\ g_BanMasks \in CPlayerBitVec
    /\ g_SentGameRulesMasks \in CPlayerBitVec
    /\ g_SentBanMasks \in CPlayerBitVec
    /\ g_bWantModEnable \in BOOLEAN
    /\ listening \in CPlayerBitVec
    /\ toClient \in Seq(ToClientMessages)

=============================================================================
