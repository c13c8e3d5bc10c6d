------------------------------ MODULE ALSource ------------------------------
(***************************************************************************)
(* A streaming source of OpenAL, as the stream uses it: a queue of buffers *)
(* that the mixer plays one after the other, on its own, while the client  *)
(* takes the ones that are done from the front and adds others to the end. *)
(* A source that comes to the end of its queue stops, and everything in    *)
(* the queue then counts as processed; played again, it begins with the    *)
(* first buffer that is still queued.                                      *)
(***************************************************************************)
EXTENDS Integers, Sequences

CONSTANT
    NUM_BUFFERS \* the buffers of a stream

ASSUME SourceAssumption == NUM_BUFFERS \in Nat \ {0}

Buffers == 1..NUM_BUFFERS

VARIABLES
    queue,         \* the buffers queued
    played,        \* how many of them the playing source has done
    sourcePlaying, \* AL_SOURCE_STATE is AL_PLAYING
    content,       \* the part of the file in a buffer, by number
    begun          \* the furthest part anybody has heard begin

sourceVars == <<queue, played, sourcePlaying, content, begun>>

\* The part of the file that is heard, or 0
Sounding == IF sourcePlaying THEN content[queue[played + 1]] ELSE 0

\* A part begins to play.
Begins(part) == begun' = IF part > begun THEN part ELSE begun

\* AL_BUFFERS_PROCESSED
Processed == IF sourcePlaying THEN played ELSE Len(queue)

\* alSourcePlay of a source that does not play
SourcePlay ==
    /\ sourcePlaying' = TRUE
    /\ played' = 0
    /\ Begins(content[Head(queue)])
    /\ UNCHANGED <<queue, content>>

\* alSourceUnqueueBuffers, of one buffer that is processed
UnqueueBuffer ==
    /\ queue' = Tail(queue)
    /\ played' = IF sourcePlaying THEN played - 1 ELSE 0
    /\ UNCHANGED <<sourcePlaying, content, begun>>

\* A new source with new buffers
NewSource ==
    /\ queue' = <<>>
    /\ played' = 0
    /\ sourcePlaying' = FALSE
    /\ content' = [b \in Buffers |-> 0]
    /\ begun' = 0

\* The mixer is done with a buffer.
MixerAdvances ==
    /\ sourcePlaying
    /\ IF played + 1 < Len(queue)
       THEN /\ played' = played + 1
            /\ Begins(content[queue[played + 2]])
            /\ UNCHANGED sourcePlaying
       ELSE /\ sourcePlaying' = FALSE
            /\ played' = 0
            /\ UNCHANGED begun
    /\ UNCHANGED <<queue, content>>

=============================================================================
