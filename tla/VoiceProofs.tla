---------------------------- MODULE VoiceProofs ----------------------------
(***************************************************************************)
(* What the two sides of the squelch masks know of each other, for every   *)
(* set of slots and players, any number of messages on their way and       *)
(* whatever the users and the players do.                                  *)
(***************************************************************************)
EXTENDS Voice, TLAPS

-----------------------------------------------------------------------------
(* Types.                                                                  *)

\* A message or command more, or one less, leaves what is on its way of its type.
LEMMA UnderWay ==
  ASSUME NEW S, NEW q \in Seq(S)
  PROVE  /\ \A e \in S : Append(q, e) \in Seq(S)
         /\ q # <<>> => Head(q) \in S /\ Tail(q) \in Seq(S)
  OBVIOUS

LEMMA UpdateStateType ==
  ASSUME TypeOK, NEW bForce \in BOOLEAN, NEW bans, UpdateServerState(bForce, bans)
  PROVE  /\ m_bServerModEnable' \in {-1, 0, 1}
         /\ m_AudiblePlayers' \in CPlayerBitVec /\ m_ServerBannedPlayers' \in CPlayerBitVec
         /\ early' \in BOOLEAN
         /\ toServer' \in Seq({0, 1}) /\ vbans' \in Seq(CPlayerBitVec)
<1>1. /\ voice_modenable \in {0, 1} /\ toServer \in Seq({0, 1}) /\ vbans \in Seq(CPlayerBitVec)
      /\ m_bServerModEnable \in {-1, 0, 1}
      /\ m_AudiblePlayers \in CPlayerBitVec /\ m_ServerBannedPlayers \in CPlayerBitVec
  BY DEF TypeOK, StatusTypeOK
<1>2. toServer' \in {toServer, Append(toServer, voice_modenable)}
      /\ m_bServerModEnable' \in {m_bServerModEnable, voice_modenable}
  BY DEF UpdateServerState
<1>3. BanMask(bans) \in CPlayerBitVec
  BY DEF BanMask, CPlayerBitVec
<1>4. vbans' \in {vbans, Append(vbans, BanMask(bans))}
  BY DEF UpdateServerState, SendVban
<1>5. /\ early' = FALSE
      /\ m_AudiblePlayers' = m_AudiblePlayers /\ m_ServerBannedPlayers' = m_ServerBannedPlayers
  BY DEF UpdateServerState
<1>6. toServer' \in Seq({0, 1}) /\ m_bServerModEnable' \in {-1, 0, 1}
  BY <1>1, <1>2, UnderWay
<1>7. vbans' \in Seq(CPlayerBitVec)
  <2> HIDE DEF CPlayerBitVec
  <2> QED BY <1>1, <1>3, <1>4, UnderWay
<1> QED BY <1>1, <1>5, <1>6, <1>7

\* The messages UpdateMasks puts on their way are of their type.
LEMMA MasksType ==
  ASSUME TypeOK, NEW hearable \in SUBSET Slots, UpdateMasks(hearable)
  PROVE  GameMgrTypeOK'
<1> DEFINE gameRulesMask == IF g_PlayerModEnable THEN hearable ELSE {}
           request == IF g_bWantModEnable THEN <<ReqState>> ELSE <<>>
           masks == IF gameRulesMask # g_SentGameRulesMasks \/ g_BanMasks # g_SentBanMasks
                    THEN <<VoiceMask(gameRulesMask, g_BanMasks)>> ELSE <<>>
<1>1. /\ gameRulesMask \in CPlayerBitVec /\ g_BanMasks \in CPlayerBitVec
      /\ toClient \in Seq(ToClientMessages)
  BY DEF TypeOK, GameMgrTypeOK, CPlayerBitVec
<1>2. request \in Seq(ToClientMessages)
  <2>1. ReqState \in ToClientMessages
    BY DEF ToClientMessages
  <2> QED BY <2>1
<1>3. masks \in Seq(ToClientMessages)
  <2>1. VoiceMask(gameRulesMask, g_BanMasks) \in ToClientMessages
    BY <1>1 DEF ToClientMessages, VoiceMask
  <2> QED BY <2>1
<1>4. /\ toClient' = toClient \o request \o masks
      /\ g_SentGameRulesMasks' = gameRulesMask /\ g_SentBanMasks' = g_BanMasks
      /\ listening' = gameRulesMask \ g_BanMasks
      /\ UNCHANGED <<g_PlayerModEnable, g_BanMasks, g_bWantModEnable>>
  BY DEF UpdateMasks
<1> HIDE DEF gameRulesMask, request, masks
<1>5. toClient' \in Seq(ToClientMessages)
  BY <1>1, <1>2, <1>3, <1>4
<1>6. listening' \in CPlayerBitVec
  BY <1>1, <1>4 DEF CPlayerBitVec
<1> QED BY <1>1, <1>4, <1>5, <1>6 DEF TypeOK, GameMgrTypeOK

LEMMA TypeNext ==
  ASSUME TypeOK, [Next]_vars
  PROVE  TypeOK'
<1>1. CASE ServerUpdate
  <2>1. Hearable \in SUBSET Slots
    BY DEF Hearable, Present
  <2>2. GameMgrTypeOK'
    BY <1>1, <2>1, MasksType DEF ServerUpdate
  <2> QED BY <1>1, <2>2 DEF ServerUpdate, TypeOK, StatusTypeOK, statusVars
<1>2. CASE ClientFrame
  BY <1>2, UpdateStateType DEF ClientFrame, Frame, TypeOK, GameMgrTypeOK, StatusTypeOK, gameMgrVars
<1>3. CASE ClockCatchesUp
  BY <1>3 DEF ClockCatchesUp, TypeOK, GameMgrTypeOK, StatusTypeOK, gameMgrVars
<1>4. CASE ClientReceives
  <2>1. /\ Head(toClient) \in ToClientMessages /\ toClient' \in Seq(ToClientMessages)
        /\ UNCHANGED <<gameMgrVars, occupant, gameRules, changes>>
    BY <1>4, UnderWay DEF ClientReceives, TypeOK, GameMgrTypeOK
  <2>2. GameMgrTypeOK' /\ occupant' \in Occupancies /\ gameRules' \in Rules /\ changes' \in 0..MaxChanges
    BY <2>1 DEF TypeOK, GameMgrTypeOK, gameMgrVars
  <2>3. CASE Head(toClient).type = "VoiceMask" /\ HandleVoiceMaskMsg(Head(toClient).rules, Head(toClient).bans)
    <3>1. Head(toClient).rules \in CPlayerBitVec /\ Head(toClient).bans \in CPlayerBitVec
      BY <2>1, <2>3 DEF ToClientMessages, ReqState
    <3> QED BY <2>2, <2>3, <3>1 DEF HandleVoiceMaskMsg, TypeOK, StatusTypeOK
  <2>4. CASE HandleReqStateMsg
    BY <2>2, <2>4, UpdateStateType DEF HandleReqStateMsg, TypeOK, StatusTypeOK
  <2> QED BY <1>4, <2>3, <2>4 DEF ClientReceives
<1>5. ASSUME NEW s \in Slots, PlayerInfoArrives(s)
      PROVE  TypeOK'
  <2>1. occupant[s] \in Players \cup {None}
    BY <1>5, VoiceAssumption DEF TypeOK, Occupancies
  <2>2. playerInfo' \in [Slots -> Players \cup {None}]
    BY <1>5, <2>1 DEF PlayerInfoArrives, TypeOK, StatusTypeOK
  <2> QED BY <1>5, <2>2 DEF PlayerInfoArrives, TypeOK, GameMgrTypeOK, StatusTypeOK, gameMgrVars, statusVars
<1>6. CASE ServerReceivesVModEnable
  BY <1>6, UnderWay DEF ServerReceivesVModEnable, CommandVModEnable, TypeOK, GameMgrTypeOK, StatusTypeOK
<1>7. CASE ServerReceivesVban \/ VbanLost
  <2>1. Head(vbans) \in CPlayerBitVec /\ vbans' \in Seq(CPlayerBitVec)
    BY <1>7, UnderWay DEF ServerReceivesVban, VbanLost, TakeVban, TypeOK, StatusTypeOK
  <2>2. GameMgrTypeOK'
    BY <1>7, <2>1 DEF ServerReceivesVban, VbanLost, TakeVban, CommandVban, gameMgrVars, TypeOK, GameMgrTypeOK
  <2> QED BY <1>7, <2>1, <2>2 DEF ServerReceivesVban, VbanLost, TakeVban, TypeOK, StatusTypeOK
<1>8. CASE Around
  <2>1. changes' \in 0..MaxChanges
    BY <1>8, VoiceAssumption DEF Around, TypeOK
  <2>2. ASSUME NEW s \in Slots \ {Self}, NEW blocked \in BOOLEAN, UserMutes(s, blocked)
        PROVE  TypeOK'
    <3>1. playerInfo[s] \in Players /\ UpdateServerState(FALSE, banned')
      BY <2>2 DEF UserMutes, SetPlayerBlockedState, TypeOK, StatusTypeOK
    <3>2. banned' \subseteq Players
      BY <2>2, <3>1 DEF UserMutes, SetPlayerBlockedState, TypeOK, StatusTypeOK
    <3>3. GameMgrTypeOK' /\ occupant' \in Occupancies /\ gameRules' \in Rules
      BY <2>2 DEF UserMutes, gameMgrVars, TypeOK, GameMgrTypeOK
    <3>4. voice_modenable' \in {0, 1} /\ playerInfo' \in [Slots -> Players \cup {None}]
      BY <2>2 DEF UserMutes, SetPlayerBlockedState, TypeOK, StatusTypeOK
    <3> QED BY <2>1, <3>1, <3>2, <3>3, <3>4, UpdateStateType DEF TypeOK, StatusTypeOK
  <2>3. CASE UserChangesModEnable
    BY <2>1, <2>3 DEF UserChangesModEnable, ChangeModEnable, TypeOK, GameMgrTypeOK, StatusTypeOK, gameMgrVars, statusVars
  <2>4. ASSUME NEW s \in Slots, PlayerChanges(s)
        PROVE  TypeOK'
    BY <2>1, <2>4 DEF PlayerChanges, TypeOK, GameMgrTypeOK, StatusTypeOK, gameMgrVars, statusVars
  <2>5. CASE TeamsChange
    BY <2>1, <2>5 DEF TeamsChange, TypeOK, GameMgrTypeOK, StatusTypeOK, gameMgrVars, statusVars
  <2>6. CASE Connect
    <3>1. GameMgrTypeOK'
      BY <2>6 DEF Connect, ClientConnected, TypeOK, GameMgrTypeOK, OtherMasks, CPlayerBitVec
    <3> QED BY <2>1, <2>6, <3>1, VoiceAssumption DEF Connect, TypeOK, StatusTypeOK
  <2> QED BY <1>8, <2>2, <2>3, <2>4, <2>5, <2>6 DEF Around
<1>9. CASE UNCHANGED vars
  BY <1>9 DEF vars, gameMgrVars, statusVars, TypeOK, GameMgrTypeOK, StatusTypeOK
<1> QED BY <1>1, <1>2, <1>3, <1>4, <1>5, <1>6, <1>7, <1>8, <1>9 DEF Next

LEMMA TypeInit == Init => TypeOK
<1> SUFFICES ASSUME Init PROVE TypeOK
  OBVIOUS
<1>1. GameMgrTypeOK
  BY DEF Init, GameMgrTypeOK, OtherMasks, CPlayerBitVec
<1>2. StatusTypeOK
  <2>1. playerInfo \in [Slots -> Players \cup {None}] /\ banned \subseteq Players
    BY VoiceAssumption DEF Init
  <2>2. toServer \in Seq({0, 1}) /\ vbans \in Seq(CPlayerBitVec)
    BY DEF Init
  <2> QED BY <2>1, <2>2 DEF Init, StatusTypeOK, CPlayerBitVec
<1> QED BY <1>1, <1>2, VoiceAssumption DEF Init, TypeOK

\* The masks, flags and players of both programs, and what is on its way between
\* them, are of their types, whoever was in the client's slot before it.
THEOREM VoiceTypeCorrect == Spec => []TypeOK
BY TypeInit, TypeNext, PTL DEF Spec
-----------------------------------------------------------------------------
(* The masks.                                                              *)

IsLast(n) == n \in MasksUnderWay /\ \A k \in MasksUnderWay : k <= n

Agree(rules, bans) == rules = g_SentGameRulesMasks /\ bans = g_SentBanMasks

\* MasksAgree, as the proofs use it.
LastAgrees ==
  /\ \A n : IsLast(n) => Agree(toClient[n].rules, toClient[n].bans)
  /\ \/ MasksUnderWay # {}
     \/ g_SentGameRulesMasks = {} /\ g_SentBanMasks = {}
     \/ Agree(m_AudiblePlayers, m_ServerBannedPlayers)

LEMMA AgreeIs == MasksAgree <=> LastAgrees
<1>1. \A r, b, q, c : ([rules |-> r, bans |-> b] = [rules |-> q, bans |-> c]) <=> (r = q /\ b = c)
  <2> TAKE r, b, q, c
  <2>1. [rules |-> r, bans |-> b].rules = r /\ [rules |-> r, bans |-> b].bans = b
    OBVIOUS
  <2>2. [rules |-> q, bans |-> c].rules = q /\ [rules |-> q, bans |-> c].bans = c
    OBVIOUS
  <2> QED BY <2>1, <2>2
<1> QED BY <1>1 DEF MasksAgree, LastAgrees, IsLast, Agree

LEMMA AgreeIsNext == MasksAgree' <=> LastAgrees'
BY AgreeIs, PTL

\* The masks sent by UpdateMasks are the last on their way; if it sends none, those
\* on their way stay.
LEMMA MasksSent ==
  ASSUME TypeOK, MasksAgree, NEW hearable \in SUBSET Slots, UpdateMasks(hearable),
         UNCHANGED <<m_AudiblePlayers, m_ServerBannedPlayers>>
  PROVE  MasksAgree'
<1> DEFINE gameRulesMask == IF g_PlayerModEnable THEN hearable ELSE {}
           request == IF g_bWantModEnable THEN <<ReqState>> ELSE <<>>
           Differ == gameRulesMask # g_SentGameRulesMasks \/ g_BanMasks # g_SentBanMasks
           mask == VoiceMask(gameRulesMask, g_BanMasks)
           queue == toClient \o request
<1>1. /\ toClient' = queue \o (IF Differ THEN <<mask>> ELSE <<>>)
      /\ g_SentGameRulesMasks' = gameRulesMask /\ g_SentBanMasks' = g_BanMasks
  BY DEF UpdateMasks
<1>2. toClient \in Seq(ToClientMessages) /\ ReqState \in ToClientMessages
  BY DEF TypeOK, GameMgrTypeOK, ToClientMessages
<1>3. /\ queue \in Seq(ToClientMessages) /\ Len(queue) \in Nat
      /\ queue = toClient \/ queue = Append(toClient, ReqState)
  BY <1>2
<1>4. mask \in ToClientMessages
  <2>1. gameRulesMask \in CPlayerBitVec /\ g_BanMasks \in CPlayerBitVec
    BY DEF TypeOK, GameMgrTypeOK, CPlayerBitVec
  <2> QED BY <2>1 DEF ToClientMessages, VoiceMask
<1>5. mask.type = "VoiceMask" /\ mask.rules = gameRulesMask /\ mask.bans = g_BanMasks
  BY DEF VoiceMask
<1>6. ReqState.type # "VoiceMask"
  BY DEF ReqState
<1> HIDE DEF gameRulesMask, request, mask, queue, Differ
<1>7. CASE Differ
  <2>1. toClient' = Append(queue, mask)
    BY <1>1, <1>3, <1>4, <1>7
  <2> DEFINE last == Len(queue) + 1
  <2>2. last \in 1..Len(toClient') /\ Len(toClient') = last /\ toClient'[last] = mask
    BY <1>3, <1>4, <2>1
  <2>3. last \in MasksUnderWay'
    BY <1>5, <2>2 DEF MasksUnderWay
  <2>4. \A n : IsLast(n)' => n = last
    <3> SUFFICES ASSUME NEW n, IsLast(n)' PROVE n = last
      OBVIOUS
    <3>1. n \in 1..Len(toClient') /\ last <= n
      BY <2>3 DEF IsLast, MasksUnderWay
    <3> QED BY <1>3, <2>2, <3>1
  <2> QED BY <1>1, <1>5, <2>2, <2>3, <2>4, AgreeIs, AgreeIsNext DEF LastAgrees, Agree
<1>8. CASE ~Differ
  <2>1. toClient' = queue /\ g_SentGameRulesMasks' = g_SentGameRulesMasks
        /\ g_SentBanMasks' = g_SentBanMasks
    BY <1>1, <1>3, <1>8 DEF Differ
  <2>2. \A n \in 1..Len(toClient) : n \in 1..Len(toClient') /\ toClient'[n] = toClient[n]
    BY <1>2, <1>3, <2>1
  <2>3. \A n \in 1..Len(toClient') : n \in 1..Len(toClient) \/ toClient'[n] = ReqState
    BY <1>2, <1>3, <2>1
  <2>4. MasksUnderWay' = MasksUnderWay
    BY <1>6, <2>2, <2>3 DEF MasksUnderWay
  <2>5. \A n : IsLast(n)' => IsLast(n) /\ toClient'[n] = toClient[n]
    BY <2>2, <2>4 DEF IsLast, MasksUnderWay
  <2> QED BY <2>1, <2>4, <2>5, AgreeIs, AgreeIsNext DEF LastAgrees, Agree
<1> QED BY <1>7, <1>8

\* What the client takes from the masks on their way is the last of them, or leaves
\* the last of them on its way.
LEMMA MasksReceived ==
  ASSUME TypeOK, MasksAgree, ClientReceives
  PROVE  MasksAgree'
<1>1. /\ toClient \in Seq(ToClientMessages) /\ toClient # <<>> /\ toClient' = Tail(toClient)
      /\ g_SentGameRulesMasks' = g_SentGameRulesMasks /\ g_SentBanMasks' = g_SentBanMasks
  BY DEF TypeOK, GameMgrTypeOK, ClientReceives, gameMgrVars
<1>2. /\ Len(toClient) \in Nat \ {0} /\ Len(toClient') = Len(toClient) - 1
      /\ \A n \in 1..Len(toClient') : n + 1 \in 1..Len(toClient) /\ toClient'[n] = toClient[n + 1]
      /\ Head(toClient) = toClient[1]
  BY <1>1
<1>3. \A n \in MasksUnderWay : n = 1 \/ n - 1 \in MasksUnderWay'
  BY <1>2 DEF MasksUnderWay
<1>4. \A n \in MasksUnderWay' : n \in Nat /\ n + 1 \in MasksUnderWay /\ toClient'[n] = toClient[n + 1]
  BY <1>2 DEF MasksUnderWay
<1>5. \A n : IsLast(n)' => IsLast(n + 1) /\ toClient'[n] = toClient[n + 1]
  <2> SUFFICES ASSUME NEW n, n \in MasksUnderWay', \A k \in MasksUnderWay' : k <= n,
                      NEW k \in MasksUnderWay
               PROVE  k <= n + 1
    BY <1>4 DEF IsLast
  <2>1. n \in Nat /\ k \in Int
    BY <1>4 DEF MasksUnderWay
  <2>2. CASE k = 1
    BY <2>1, <2>2
  <2>3. CASE k - 1 \in MasksUnderWay'
    BY <2>1, <2>3
  <2> QED BY <1>3, <2>2, <2>3
<1>6. CASE MasksUnderWay' # {}
  BY <1>1, <1>5, <1>6, AgreeIs, AgreeIsNext DEF LastAgrees, Agree
<1>7. CASE MasksUnderWay' = {}
  <2>1. \A n : ~IsLast(n)'
    BY <1>7 DEF IsLast
  <2>2. MasksUnderWay \subseteq {1}
    BY <1>3, <1>7
  <2>3. CASE Head(toClient).type = "VoiceMask" /\ HandleVoiceMaskMsg(Head(toClient).rules, Head(toClient).bans)
    <3>1. 1 \in MasksUnderWay
      BY <1>2, <2>3 DEF MasksUnderWay
    <3>2. IsLast(1)
      BY <2>2, <3>1 DEF IsLast
    <3>3. Agree(Head(toClient).rules, Head(toClient).bans)
      BY <1>2, <3>2, AgreeIs DEF LastAgrees
    <3>4. m_AudiblePlayers' = Head(toClient).rules /\ m_ServerBannedPlayers' = Head(toClient).bans
      BY <2>3 DEF HandleVoiceMaskMsg
    <3> QED BY <1>1, <2>1, <3>3, <3>4, AgreeIs, AgreeIsNext DEF LastAgrees, Agree
  <2>4. CASE Head(toClient).type = "ReqState" /\ HandleReqStateMsg
    <3>1. MasksUnderWay = {}
      BY <1>2, <2>2, <2>4 DEF MasksUnderWay
    <3>2. m_AudiblePlayers' = m_AudiblePlayers /\ m_ServerBannedPlayers' = m_ServerBannedPlayers
      BY <2>4 DEF HandleReqStateMsg, UpdateServerState
    <3> QED BY <1>1, <2>1, <3>1, <3>2, AgreeIs, AgreeIsNext DEF LastAgrees, Agree
  <2> QED BY <2>3, <2>4 DEF ClientReceives
<1> QED BY <1>6, <1>7

\* Everything else leaves the masks alone, or forgets them on both sides.
LEMMA MasksNext ==
  ASSUME TypeOK, MasksAgree, [Next]_vars
  PROVE  MasksAgree'
<1> DEFINE Kept == UNCHANGED <<toClient, g_SentGameRulesMasks, g_SentBanMasks,
                               m_AudiblePlayers, m_ServerBannedPlayers>>
<1>1. CASE Kept
  BY <1>1 DEF MasksAgree, MasksUnderWay
<1>2. CASE ServerUpdate
  <2>1. Hearable \in SUBSET Slots
    BY DEF Hearable, Present
  <2> QED BY <1>2, <2>1, MasksSent DEF ServerUpdate, statusVars
<1>3. CASE ClientReceives
  BY <1>3, MasksReceived
<1>4. CASE Connect
  <2>1. MasksUnderWay' = {} /\ g_SentGameRulesMasks' = {} /\ g_SentBanMasks' = {}
    BY <1>4 DEF Connect, ClientConnected, MasksUnderWay
  <2> QED BY <2>1, AgreeIs, AgreeIsNext DEF LastAgrees, IsLast
<1>5. CASE ClientFrame \/ ClockCatchesUp \/ (\E s \in Slots : PlayerInfoArrives(s))
  <2>1. Kept
    BY <1>5 DEF ClientFrame, Frame, UpdateServerState, ClockCatchesUp, PlayerInfoArrives, gameMgrVars, statusVars
  <2> QED BY <1>1, <2>1
<1>6. CASE ServerReceivesVModEnable \/ ServerReceivesVban \/ VbanLost
  <2>1. Kept
    BY <1>6 DEF ServerReceivesVModEnable, CommandVModEnable, ServerReceivesVban, VbanLost, TakeVban,
                CommandVban, gameMgrVars
  <2> QED BY <1>1, <2>1
<1>7. CASE \/ \E s \in Slots \ {Self}, blocked \in BOOLEAN : UserMutes(s, blocked)
           \/ UserChangesModEnable \/ (\E s \in Slots : PlayerChanges(s)) \/ TeamsChange
  <2>1. Kept
    BY <1>7 DEF UserMutes, SetPlayerBlockedState, UpdateServerState, UserChangesModEnable, ChangeModEnable,
                PlayerChanges, TeamsChange, gameMgrVars, statusVars
  <2> QED BY <1>1, <2>1
<1>8. CASE UNCHANGED vars
  <2>1. Kept
    BY <1>8 DEF vars, gameMgrVars, statusVars
  <2> QED BY <1>1, <2>1
<1> QED BY <1>2, <1>3, <1>4, <1>5, <1>6, <1>7, <1>8 DEF Next, Around

\* The server's record of the masks it sent is what the client has or what the last
\* VoiceMask on its way brings, through lost commands and reconnections.
THEOREM RecordIsTrue == Spec => []MasksAgree
<1>1. Init => MasksAgree
  <2> SUFFICES ASSUME Init PROVE MasksAgree
    OBVIOUS
  <2>1. MasksUnderWay = {} /\ g_SentGameRulesMasks = {} /\ g_SentBanMasks = {}
    BY DEF Init, MasksUnderWay
  <2> QED BY <2>1, AgreeIs, AgreeIsNext DEF LastAgrees, IsLast
<1> QED BY <1>1, MasksNext, VoiceTypeCorrect, PTL DEF Spec

-----------------------------------------------------------------------------
(* voice_modenable.                                                        *)

Heard == IF g_PlayerModEnable THEN 1 ELSE 0
LastTold == IF toServer = <<>> THEN Heard ELSE toServer[Len(toServer)]

ToldAgrees ==
  (~g_bWantModEnable \/ toServer # <<>>) /\ m_bServerModEnable # -1 => m_bServerModEnable = LastTold

LEMMA ModEnableIs == ModEnableAgrees <=> ToldAgrees
BY DEF ModEnableAgrees, ToldAgrees, LastTold, Heard

LEMMA ModEnableIsNext == ModEnableAgrees' <=> ToldAgrees'
BY ModEnableIs, PTL

\* What UpdateServerState tells is what it takes for told.
LEMMA ModEnableTold ==
  ASSUME TypeOK, ModEnableAgrees, NEW bForce \in BOOLEAN, NEW bans, UpdateServerState(bForce, bans),
         UNCHANGED <<g_PlayerModEnable, g_bWantModEnable>>
  PROVE  ModEnableAgrees'
<1>1. toServer \in Seq({0, 1}) /\ voice_modenable \in {0, 1}
  BY DEF TypeOK, StatusTypeOK
<1>2. CASE toServer' = Append(toServer, voice_modenable) /\ m_bServerModEnable' = voice_modenable
  <2>1. toServer' # <<>> /\ toServer'[Len(toServer')] = voice_modenable
    BY <1>1, <1>2
  <2> QED BY <1>2, <2>1, ModEnableIs, ModEnableIsNext DEF ToldAgrees, LastTold
<1>3. CASE UNCHANGED <<toServer, m_bServerModEnable>>
  BY <1>3 DEF ModEnableAgrees
<1> QED BY <1>2, <1>3 DEF UpdateServerState

\* The last command on its way stays the last until the server has it.
LEMMA ModEnableHeard ==
  ASSUME TypeOK, ModEnableAgrees, ServerReceivesVModEnable
  PROVE  ModEnableAgrees'
<1>1. /\ toServer \in Seq({0, 1}) /\ toServer # <<>> /\ toServer' = Tail(toServer)
      /\ m_bServerModEnable' = m_bServerModEnable
      /\ g_PlayerModEnable' = (Head(toServer) # 0)
  BY DEF TypeOK, StatusTypeOK, ServerReceivesVModEnable, CommandVModEnable
<1>2. m_bServerModEnable # -1 => m_bServerModEnable = toServer[Len(toServer)]
  BY <1>1, ModEnableIs, ModEnableIsNext DEF ToldAgrees, LastTold
<1>3. CASE toServer' = <<>>
  <2>0. /\ Len(toServer) \in Nat \ {0} /\ Len(toServer') = Len(toServer) - 1
        /\ Head(toServer) = toServer[1] /\ toServer[1] \in {0, 1}
    BY <1>1
  <2>3. Len(toServer') = 0
    BY <1>3
  <2>4. Len(toServer) = 1
    BY <2>0, <2>3
  <2>1. Head(toServer) = toServer[Len(toServer)] /\ Head(toServer) \in {0, 1}
    BY <2>0, <2>4
  <2>2. Heard' = Head(toServer)
    BY <1>1, <2>1 DEF Heard
  <2> QED BY <1>1, <1>2, <1>3, <2>1, <2>2, ModEnableIs, ModEnableIsNext DEF ToldAgrees, LastTold
<1>4. CASE toServer' # <<>>
  <2>1. toServer'[Len(toServer')] = toServer[Len(toServer)]
    BY <1>1, <1>4
  <2> QED BY <1>1, <1>2, <1>4, <2>1, ModEnableIs, ModEnableIsNext DEF ToldAgrees, LastTold
<1> QED BY <1>3, <1>4

LEMMA ModEnableNext ==
  ASSUME TypeOK, ModEnableAgrees, [Next]_vars
  PROVE  ModEnableAgrees'
<1> DEFINE Kept == UNCHANGED <<g_PlayerModEnable, g_bWantModEnable, m_bServerModEnable, toServer>>
<1>1. CASE Kept
  BY <1>1 DEF ModEnableAgrees
<1>2. CASE ServerUpdate \/ ClockCatchesUp \/ (\E s \in Slots : PlayerInfoArrives(s))
  <2>1. Kept
    BY <1>2 DEF ServerUpdate, UpdateMasks, ClockCatchesUp, PlayerInfoArrives, gameMgrVars, statusVars
  <2> QED BY <1>1, <2>1
<1>3. CASE ClientFrame
  BY <1>3, ModEnableTold DEF ClientFrame, Frame, gameMgrVars
<1>4. CASE ClientReceives
  <2>1. UNCHANGED <<g_PlayerModEnable, g_bWantModEnable>>
    BY <1>4 DEF ClientReceives, gameMgrVars
  <2>2. CASE HandleReqStateMsg
    BY <2>1, <2>2, ModEnableTold DEF HandleReqStateMsg
  <2>3. CASE HandleVoiceMaskMsg(Head(toClient).rules, Head(toClient).bans)
    BY <2>3, ModEnableIsNext DEF HandleVoiceMaskMsg, ToldAgrees
  <2> QED BY <1>4, <2>2, <2>3 DEF ClientReceives
<1>5. CASE ServerReceivesVModEnable
  BY <1>5, ModEnableHeard
<1>6. CASE ServerReceivesVban \/ VbanLost
  <2>1. Kept
    BY <1>6 DEF ServerReceivesVban, VbanLost, TakeVban, CommandVban, gameMgrVars
  <2> QED BY <1>1, <2>1
<1>7. ASSUME NEW s \in Slots \ {Self}, NEW blocked \in BOOLEAN, UserMutes(s, blocked)
      PROVE  ModEnableAgrees'
  BY <1>7, ModEnableTold DEF UserMutes, SetPlayerBlockedState, gameMgrVars
<1>8. CASE UserChangesModEnable \/ (\E s \in Slots : PlayerChanges(s)) \/ TeamsChange
  <2>1. Kept
    BY <1>8 DEF UserChangesModEnable, ChangeModEnable, PlayerChanges, TeamsChange, gameMgrVars, statusVars
  <2> QED BY <1>1, <2>1
<1>9. CASE Connect
  BY <1>9, ModEnableIsNext DEF ToldAgrees, Connect, ClientConnected
<1>10. CASE UNCHANGED vars
  <2>1. Kept
    BY <1>10 DEF vars, gameMgrVars, statusVars
  <2> QED BY <1>1, <2>1
<1> QED BY <1>2, <1>3, <1>4, <1>5, <1>6, <1>7, <1>8, <1>9, <1>10 DEF Next, Around

\* Once the server has stopped asking, what the client takes for told about
\* voice_modenable is what the server has, or what is on its way to it.
THEOREM ToldIsHeard == Spec => []ModEnableAgrees
<1>1. Init => ModEnableAgrees
  BY DEF Init, ModEnableAgrees
<1> QED BY <1>1, ModEnableNext, VoiceTypeCorrect, PTL DEF Spec

-----------------------------------------------------------------------------
(* The safety half of HeardAsWanted and MutesArriveWithVoice: where neither *)
(* program has anything to do, the client hears whom it should.             *)

\* A client that may speak hears itself, so masks that have arrived are not empty,
\* and MasksAgree says that the client has them.
LEMMA RestingMasks ==
  ASSUME TypeOK, MasksAgree, AtRest, g_PlayerModEnable
  PROVE  g_BanMasks = m_ServerBannedPlayers
<1>1. Self \in Hearable
  <2>1. occupant[Self] = Me /\ Me # None /\ Self \in gameRules /\ Self \in Slots
    BY VoiceAssumption, StatusAssumption DEF TypeOK, Occupancies, Rules
  <2> QED BY <2>1 DEF Hearable, Present
<1>2. g_SentGameRulesMasks # {} /\ g_SentBanMasks = g_BanMasks /\ toClient = <<>>
  BY <1>1 DEF AtRest
<1>3. MasksUnderWay = {}
  BY <1>2 DEF MasksUnderWay
<1>4. LastAgrees
  BY AgreeIs
<1> QED BY <1>2, <1>3, <1>4 DEF LastAgrees, Agree

\* The client's mask of muted players is of those who are there.
LEMMA RestingMutes ==
  ASSUME TypeOK, AtRest
  PROVE  m_ServerBannedPlayers \cap Present = Muted
<1>1. playerInfo = occupant /\ BanMask(banned) = m_ServerBannedPlayers \cap KnownSlots
  BY DEF AtRest
<1>2. banned \subseteq Players
  BY DEF TypeOK, StatusTypeOK
<1>3. KnownSlots = Present
  BY <1>1 DEF KnownSlots, Present
<1>4. BanMask(banned) = Muted
  BY <1>1, <1>2, StatusAssumption DEF BanMask, Muted, Present
<1> QED BY <1>1, <1>3, <1>4

LEMMA RestingRight ==
  ASSUME TypeOK, MasksAgree, ModEnableAgrees
  PROVE  RestIsRight
<1> SUFFICES ASSUME AtRest
             PROVE  /\ listening = IF voice_modenable = 1 THEN Hearable \ Muted ELSE {}
                    /\ voice_modenable = 1 => g_BanMasks \cap Present = Muted
  BY DEF RestIsRight
<1>1. /\ toServer = <<>> /\ ~g_bWantModEnable /\ m_bServerModEnable = voice_modenable
      /\ listening = (IF g_PlayerModEnable THEN Hearable ELSE {}) \ g_BanMasks
  BY DEF AtRest
<1>2. voice_modenable \in {0, 1} /\ g_PlayerModEnable \in BOOLEAN
  BY DEF TypeOK, StatusTypeOK, GameMgrTypeOK
<1>3. voice_modenable = Heard
  BY <1>1, <1>2, ModEnableIs DEF ToldAgrees, LastTold
<1>4. CASE g_PlayerModEnable
  <2>1. g_BanMasks \cap Present = Muted
    BY <1>4, RestingMasks, RestingMutes
  <2>2. Hearable \subseteq Present
    BY DEF Hearable
  <2>3. Hearable \ g_BanMasks = Hearable \ Muted
    BY <2>1, <2>2
  <2>4. voice_modenable = 1
    BY <1>3, <1>4 DEF Heard
  <2> QED BY <1>1, <1>4, <2>1, <2>3, <2>4
<1>5. CASE ~g_PlayerModEnable
  <2>1. voice_modenable = 0
    BY <1>3, <1>5 DEF Heard
  <2> QED BY <1>1, <1>5, <2>1
<1> QED BY <1>4, <1>5

\* Whenever the two programs rest, the client hears those it may hear and has not
\* muted, or nobody if it turned voice off, and with voice on the server has its mutes.
THEOREM RestingStatesAreRight == Spec => []RestIsRight
BY RestingRight, VoiceTypeCorrect, RecordIsTrue, ToldIsHeard, PTL

\* A state of rest lasts until the user or the players do something: frames, updates and
\* a clock that catches up find nothing to do.
RestLasts == [][AtRest /\ changes' = changes => AtRest']_vars

LEMMA RestNext ==
  ASSUME TypeOK, AtRest, [Next]_vars, changes' = changes
  PROVE  AtRest'
<1> DEFINE gameRulesMask == IF g_PlayerModEnable THEN Hearable ELSE {}
<1>0. /\ toClient = <<>> /\ toServer = <<>> /\ vbans = <<>>
      /\ ~g_bWantModEnable /\ playerInfo = occupant
      /\ g_SentGameRulesMasks = gameRulesMask /\ g_SentBanMasks = g_BanMasks
      /\ listening = gameRulesMask \ g_BanMasks
      /\ m_bServerModEnable = voice_modenable
      /\ BanMask(banned) = m_ServerBannedPlayers \cap KnownSlots
  BY DEF AtRest
<1> DEFINE Kept == UNCHANGED <<gameMgrVars, toClient, m_bServerModEnable, m_ServerBannedPlayers,
                               toServer, vbans, banned, voice_modenable, playerInfo, occupant, gameRules>>
<1>1. ASSUME Kept PROVE AtRest'
  BY <1>1 DEF AtRest, gameMgrVars, Hearable, Present, BanMask, KnownSlots
<1>2. CASE ServerUpdate
  <2>1. /\ toClient' = toClient \o <<>> \o <<>>
        /\ g_SentGameRulesMasks' = gameRulesMask /\ g_SentBanMasks' = g_BanMasks
        /\ listening' = gameRulesMask \ g_BanMasks
        /\ UNCHANGED <<g_PlayerModEnable, g_BanMasks, g_bWantModEnable>>
    BY <1>0, <1>2 DEF ServerUpdate, UpdateMasks
  <2> HIDE DEF gameRulesMask
  <2>2. toClient' = toClient
    BY <1>0, <2>1
  <2>3. UNCHANGED gameMgrVars
    BY <1>0, <2>1 DEF gameMgrVars
  <2> QED BY <1>1, <1>2, <2>2, <2>3 DEF ServerUpdate, statusVars
<1>3. CASE ClientFrame
  <2>1. Kept
    BY <1>0, <1>3 DEF ClientFrame, Frame, UpdateServerState
  <2> QED BY <1>1, <2>1
<1>4. CASE ClockCatchesUp
  BY <1>1, <1>4 DEF ClockCatchesUp
<1>5. ~ClientReceives /\ ~ServerReceivesVModEnable /\ ~ServerReceivesVban /\ ~VbanLost
  BY <1>0 DEF ClientReceives, ServerReceivesVModEnable, ServerReceivesVban, VbanLost, TakeVban
<1>6. \A s \in Slots : ~PlayerInfoArrives(s)
  BY <1>0 DEF PlayerInfoArrives
<1>7. ~Around
  <2>1. changes \in Int
    BY VoiceAssumption DEF TypeOK
  <2> QED BY <2>1 DEF Around
<1>8. CASE UNCHANGED vars
  BY <1>1, <1>8 DEF vars, statusVars
<1> QED BY <1>2, <1>3, <1>4, <1>5, <1>6, <1>7, <1>8 DEF Next

\* With RestingStatesAreRight: what the client hears stays right once both programs rest.
THEOREM RestIsStable == Spec => RestLasts
<1>1. TypeOK /\ [Next]_vars => [AtRest /\ changes' = changes => AtRest']_vars
  BY RestNext
<1> QED BY <1>1, VoiceTypeCorrect, PTL DEF Spec, RestLasts

=============================================================================
