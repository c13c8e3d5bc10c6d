---------------------------- MODULE VideoPlayer ----------------------------
(***************************************************************************)
(* CVideoPlayer with its decoder and its stream, as the HUD drives it: the *)
(* server or the user starts a video, each frame updates it, and while it  *)
(* plays the player cannot move.  Everything runs on the client's thread   *)
(* except the mixer.  Time is counted in pictures of the video.            *)
(***************************************************************************)
EXTENDS AVStream, TheoraDecoder

CONSTANTS
    MaxPlays, \* bound: videos started
    MaxTime   \* bound: the engine's time, and so that of a video's start

ASSUME PlayerAssumption == MaxPlays \in Nat /\ MaxTime \in Nat

VARIABLES
    m_bPlaying,    \* of the player; the decoder is there
    m_flStartTime,
    m_flTime,      \* gHUD.m_flTime: the time of the last frame drawn
    clock,         \* the engine's time
    drawn,         \* the pictures decoded when it was last drawn, or -1
    pc,            \* where in Play or in Update the client is
    plays          \* how many videos were started

playerVars == <<m_bPlaying, m_flStartTime, drawn>>
audioVars == <<sourceVars, streamVars, ranDry>>
vars == <<audioVars, decoderVars, playerVars, m_flTime, clock, pc, plays>>

NotDrawn == -1

-----------------------------------------------------------------------------
Stop ==
    /\ m_bPlaying' = FALSE
    /\ Close
    /\ CloseVideo
    /\ m_flStartTime' = 0
    /\ drawn' = NotDrawn

\* The message or the command PlayVideo, with a file that does not open
PlayFails ==
    /\ pc = "idle"
    /\ Stop
    /\ UNCHANGED <<m_flTime, clock, pc, plays>>

\* PlayVideo with a video and no sound, or sound that does not open
PlaySilently(n, without) ==
    /\ pc = "idle" /\ plays < MaxPlays
    /\ plays' = plays + 1
    /\ OpenVideo(n, without)
    /\ Close
    /\ m_bPlaying' = TRUE
    /\ m_flStartTime' = m_flTime
    /\ drawn' = NotDrawn
    /\ UNCHANGED <<m_flTime, clock, pc>>

\* PlayVideo with a video and a sound
PlayWithSound(n, without, sound, short) ==
    /\ pc = "idle" /\ plays < MaxPlays
    /\ plays' = plays + 1
    /\ OpenVideo(n, without)
    /\ OpenAndPlay(sound, short)
    /\ m_bPlaying' = TRUE
    /\ m_flStartTime' = m_flTime
    /\ drawn' = NotDrawn
    /\ pc' = "queue"
    /\ UNCHANGED <<m_flTime, clock>>

QueueInitial ==
    /\ pc = "queue"
    /\ FillInitialBuffer
    /\ UNCHANGED <<decoderVars, playerVars, m_flTime, clock, pc, plays>>

StartSound ==
    /\ pc = "queue"
    /\ PlayQueued
    /\ pc' = "idle"
    /\ UNCHANGED <<decoderVars, playerVars, m_flTime, clock, plays>>

\* HUD_Init, HUD_VidInit or HUD_Shutdown.  With a new map the engine's time begins
\* anew, while the HUD keeps that of the last frame it drew.
VidInit(time) ==
    /\ pc = "idle"
    /\ Stop
    /\ clock' = time
    /\ UNCHANGED <<m_flTime, pc, plays>>

\* A frame: the HUD takes the time, and Update begins with the sound, if any.
Redraw ==
    /\ pc = "idle"
    /\ m_flTime' = clock
    /\ IF m_bPlaying /\ m_pAudio /\ m_bStreams
       THEN pc' = "sound" /\ CountProcessed
       ELSE /\ pc' = IF m_bPlaying THEN "picture" ELSE "idle"
            /\ UNCHANGED audioVars
    /\ UNCHANGED <<decoderVars, playerVars, clock, plays>>

UpdateSound ==
    /\ pc = "sound"
    /\ TakeBuffer \/ RefillBuffer
    /\ UNCHANGED <<decoderVars, playerVars, m_flTime, clock, pc, plays>>

SoundUpdated ==
    /\ pc = "sound"
    /\ RestartOrEnd
    /\ pc' = "picture"
    /\ UNCHANGED <<decoderVars, playerVars, m_flTime, clock, plays>>

\* The time in the video
Due == m_flTime - m_flStartTime

\* Mutant: the video is over when it has fewer pictures left than are due.
TooFewLeft == m_bVideoFinished \/ Due - m_iFrameIndex >= Pictures(packets)

\* Mutant: the video waits for its sound.
NothingLeftOrHeard ==
    /\ ~m_bStreams
    /\ m_bVideoFinished \/ (Due >= m_iFrameIndex /\ Pictures(packets) = 0)

\* DecodeToTime decodes nothing and sees, or has seen, the end of the file.
NothingLeft ==
    m_bVideoFinished \/ (Due >= m_iFrameIndex /\ Pictures(packets) = 0)

\* The rest of Update, and Draw
UpdatePicture ==
    /\ pc = "picture"
    /\ pc' = "idle"
    /\ IF NothingLeft
       THEN Stop
       ELSE /\ DecodeToTime(Due)
            /\ drawn' = m_iFrameIndex'
            /\ UNCHANGED <<audioVars, m_bPlaying, m_flStartTime>>
    /\ UNCHANGED <<m_flTime, clock, plays>>

Tick ==
    /\ pc = "idle"
    /\ clock < MaxTime + MaxPackets + 1
    /\ clock' = clock + 1
    /\ UNCHANGED <<audioVars, decoderVars, playerVars, m_flTime, pc, plays>>

SourceMixes ==
    /\ Mixer
    /\ UNCHANGED <<decoderVars, playerVars, m_flTime, clock, pc, plays>>

-----------------------------------------------------------------------------
\* The client was just started, or has played on a map for some time.
Init ==
    /\ queue = <<>> /\ played = 0 /\ sourcePlaying = FALSE
    /\ content = [b \in Buffers |-> 0] /\ begun = 0
    /\ m_pAudio = FALSE /\ parts = 0 /\ lastIsShort = FALSE /\ read = 0
    /\ m_bFinished = FALSE /\ m_bStreams = FALSE
    /\ processed = 0 /\ taken = 0 /\ lost = {} /\ ranDry = FALSE
    /\ packets = 0 /\ empty = {} /\ consumed = 0 /\ m_iFrameIndex = 0
    /\ m_bVideoFinished = FALSE
    /\ m_bPlaying = FALSE /\ m_flStartTime = 0 /\ drawn = NotDrawn
    /\ m_flTime \in 0..MaxTime /\ clock = m_flTime
    /\ pc = "idle" /\ plays = 0

PlayVideo ==
    \/ PlayFails
    \/ \E n \in 1..MaxPackets : \E without \in SUBSET (1..n) :
         /\ m_flTime <= MaxTime
         /\ \/ PlaySilently(n, without)
            \/ \E sound \in 0..MaxParts, short \in BOOLEAN :
                 PlayWithSound(n, without, sound, short)

Next ==
    \/ PlayVideo \/ QueueInitial \/ StartSound
    \/ \E time \in {0, clock} : VidInit(time)
    \/ Redraw \/ UpdateSound \/ SoundUpdated \/ UpdatePicture
    \/ Tick \/ SourceMixes

Spec == Init /\ [][Next]_vars

(***************************************************************************)
(* The client draws frames, which end, and the engine's time goes on.      *)
(***************************************************************************)
Fairness ==
    /\ WF_vars(Redraw) /\ SF_vars(Tick)
    /\ WF_vars(QueueInitial) /\ WF_vars(StartSound)
    /\ WF_vars(UpdateSound) /\ WF_vars(SoundUpdated) /\ WF_vars(UpdatePicture)

FairSpec == Spec /\ Fairness

-----------------------------------------------------------------------------
TypeOK ==
    /\ StreamTypeOK
    /\ DecoderTypeOK
    /\ m_bPlaying \in BOOLEAN
    /\ m_flStartTime \in 0..MaxTime
    /\ m_flTime \in 0..(MaxTime + MaxPackets + 1)
    /\ clock \in 0..(MaxTime + MaxPackets + 1)
    /\ drawn \in NotDrawn..MaxPackets
    /\ pc \in {"idle", "queue", "sound", "picture"}
    /\ plays \in 0..MaxPlays

\* The packets read so far that brought no picture
Silent == empty \cap 1..consumed

\* Packet p of the file is to be shown from time p - 1 on.  The video is never late,
\* after frames that took long or began late too: the packet of the time has been
\* read, unless no packet left brings a picture.  DecodeToTime counts pictures and
\* not packets (theora_decoder.cpp:337-352), so the video does run ahead of its time,
\* but only by the packets that brought none and the one the headers may take.
NeverLateNorFarAhead ==
    m_bPlaying /\ pc = "idle" /\ drawn # NotDrawn =>
      /\ drawn = m_iFrameIndex
      /\ Due >= consumed => Pictures(packets) = 0
      /\ consumed <= (IF Due < 0 THEN 0 ELSE Due + 1) + Cardinality(Silent) + 1

\* A video that ends by itself has had its last picture drawn: no frame both
\* decodes a picture and ends the video.
EndsAfterLastPicture ==
    [][pc = "picture" /\ m_bPlaying /\ ~m_bPlaying'
         => /\ Pictures(packets) = 0
            /\ drawn = m_iFrameIndex \/ m_iFrameIndex = 0]_vars

Audience == INSTANCE Screening WITH
    LastPart <- MaxParts, LastPicture <- MaxPackets,
    showing <- m_bPlaying, heard <- begun, refused <- lost, pictures <- drawn

\* The player implements Screening: whatever ends or replaces the video (message,
\* command, map, end of file) ends its sound, the mixer skips no part but a refused
\* one, and no frame goes back to an earlier picture.
ImplementsScreening == Audience!ScreeningSpec

\* A video ends, and with it the time in which the player's input is cleared
\* (input.cpp:898) and no key stops it: whatever its packets, its sound, and the
\* time it was started at.
VideoEnds == m_bPlaying ~> ~m_bPlaying

=============================================================================
