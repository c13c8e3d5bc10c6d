--------------------------- MODULE TheoraDecoder ---------------------------
(***************************************************************************)
(* CTheoraDecoder: the pictures of a video, decoded up to a time.  Time is *)
(* counted in pictures (m_flFPS); the packets of the file are numbers, and *)
(* some of them bring no picture of their own: th_decode_packetin returns  *)
(* something else than 0 for a repeated picture or a damaged packet.       *)
(***************************************************************************)
EXTENDS Integers, FiniteSets

CONSTANT MaxPackets \* bound: the packets of a video

ASSUME DecoderAssumption == MaxPackets \in Nat

VARIABLES
    packets,         \* how many packets the file has
    empty,           \* those that bring no picture
    consumed,        \* how many have been read
    m_iFrameIndex,   \* how many pictures have been decoded
    m_bVideoFinished \* the decoder's m_bFinished: the end of the file was seen

decoderVars == <<packets, empty, consumed, m_iFrameIndex, m_bVideoFinished>>

\* A file was opened.  The header loop counts three headers; whether the first,
\* given to the decoder twice, counts twice or the loop takes a packet of the
\* video for the third is up to the library.
OpenVideo(n, without) ==
    /\ packets' = n
    /\ empty' = without
    /\ consumed' \in {0, 1} /\ consumed' <= n
    /\ m_iFrameIndex' = 0
    /\ m_bVideoFinished' = FALSE

CloseVideo ==
    /\ packets' = 0
    /\ empty' = {}
    /\ consumed' = 0
    /\ m_iFrameIndex' = 0
    /\ m_bVideoFinished' = FALSE

\* The pictures in the packets up to p that have not been read yet
Pictures(p) == Cardinality((consumed + 1)..p \ empty)

\* Mutant: a frame decodes one picture at most, however long the one before took.
DecodeOnePicture(due) ==
    LET wanted == IF due < m_iFrameIndex THEN 0 ELSE 1
        enough == {p \in consumed..packets : Pictures(p) >= wanted}
    IN  IF m_bVideoFinished \/ wanted <= 0
        THEN UNCHANGED decoderVars
        ELSE /\ IF enough # {}
                THEN /\ consumed' \in enough
                     /\ \A p \in enough : consumed' <= p
                     /\ UNCHANGED m_bVideoFinished
                ELSE /\ consumed' = packets
                     /\ m_bVideoFinished' = TRUE
             /\ m_iFrameIndex' = m_iFrameIndex + Pictures(consumed')
             /\ UNCHANGED <<packets, empty>>

(***************************************************************************)
(* DecodeToTime with DecodeNextFrame: packets are read until the picture   *)
(* of time due is there.  The end of the file is only seen by asking for   *)
(* more than there is.                                                     *)
(***************************************************************************)
DecodeToTime(due) ==
    LET wanted == due + 1 - m_iFrameIndex
        enough == {p \in consumed..packets : Pictures(p) >= wanted}
    IN  IF m_bVideoFinished \/ wanted <= 0
        THEN UNCHANGED decoderVars
        ELSE /\ IF enough # {}
                THEN /\ consumed' \in enough
                     /\ \A p \in enough : consumed' <= p
                     /\ UNCHANGED m_bVideoFinished
                ELSE /\ consumed' = packets
                     /\ m_bVideoFinished' = TRUE
             /\ m_iFrameIndex' = m_iFrameIndex + Pictures(consumed')
             /\ UNCHANGED <<packets, empty>>

DecoderTypeOK ==
    /\ packets \in 0..MaxPackets
    /\ empty \in SUBSET (1..MaxPackets)
    /\ consumed \in 0..packets
    /\ m_iFrameIndex \in 0..consumed
    /\ m_bVideoFinished \in BOOLEAN

=============================================================================
