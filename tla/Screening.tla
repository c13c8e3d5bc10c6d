----------------------------- MODULE Screening -----------------------------
(***************************************************************************)
(* What the player of videos promises its audience: sound only while a     *)
(* video is shown, every part of it in its place unless it was refused,    *)
(* pictures that never go back, and a new video that begins with nothing   *)
(* left of the old one.                                                    *)
(***************************************************************************)
EXTENDS Integers

CONSTANTS
    LastPart,    \* the most parts a sound has
    LastPicture  \* the most pictures a video has

VARIABLES
    showing,  \* a video is on
    heard,    \* the furthest part of its sound that began to be heard
    refused,  \* the parts that will not be heard
    pictures  \* how many of its pictures were gone through, or NotShown

screeningVars == <<showing, heard, refused, pictures>>

NotShown == -1

Blank == heard = 0 /\ refused = {} /\ pictures = NotShown

ScreeningInit == showing = FALSE /\ Blank

\* A video begins, also in place of another one.
Begin == showing' = TRUE /\ Blank'

\* The video ends, by itself or for another reason.
End == showing' = FALSE /\ Blank'

\* A part that has not been reached is given up.
Refuse(n) ==
    /\ showing /\ n > heard
    /\ refused' = refused \cup {n}
    /\ UNCHANGED <<showing, heard, pictures>>

\* The next part that was not refused is heard.
Hear(n) ==
    /\ showing /\ n > heard
    /\ (heard + 1)..(n - 1) \subseteq refused
    /\ heard' = n
    /\ UNCHANGED <<showing, refused, pictures>>

Show(k) ==
    /\ showing /\ k >= pictures
    /\ pictures' = k
    /\ UNCHANGED <<showing, heard, refused>>

ScreeningNext ==
    \/ Begin
    \/ End
    \/ \E n \in 1..LastPart : Refuse(n) \/ Hear(n)
    \/ \E k \in 0..LastPicture : Show(k)

ScreeningSpec == ScreeningInit /\ [][ScreeningNext]_screeningVars

=============================================================================
