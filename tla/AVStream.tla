------------------------------ MODULE AVStream ------------------------------
(***************************************************************************)
(* CAVStream: the sound of a video, read from its file in parts of         *)
(* BUFFER_BYTES that go through the buffers of a source.  The mixer goes   *)
(* on between any two calls of OpenAL, so Update is split there.           *)
(***************************************************************************)
EXTENDS ALSource, FiniteSets

CONSTANTS
    MaxParts, \* bound: the parts of a file
    MaxLost   \* bound: the parts alBufferData refuses

ASSUME StreamAssumption == MaxParts \in Nat /\ MaxLost \in Nat

VARIABLES
    m_pAudio,    \* there is a stream, and its file is open
    parts,       \* how many parts its file has
    lastIsShort, \* the last of them is less than BUFFER_BYTES
    read,        \* how many have been read
    m_bFinished, \* the end of the file has been seen
    m_bStreams,  \* the stream's m_bPlaying
    processed,   \* Update: the buffers still to take from the queue
    taken,       \* Update, QueueInitialBuffers: the buffer to fill, or 0
    lost,        \* the parts alBufferData refused
    ranDry       \* the source has stopped before the file was read

fileVars == <<m_pAudio, parts, lastIsShort>>
streamVars == <<fileVars, read, m_bFinished, m_bStreams, processed, taken, lost>>

-----------------------------------------------------------------------------
\* Mutant: an error leaves what the buffer held, and it is queued.
FillBufferAnyway(b) ==
    \/ /\ read = parts
       /\ m_bFinished' = TRUE
       /\ UNCHANGED <<read, content, queue, lost>>
    \/ /\ read < parts
       /\ read' = read + 1
       /\ m_bFinished' = (m_bFinished \/ (read' = parts /\ lastIsShort))
       /\ queue' = Append(queue, b)
       /\ \/ /\ content' = [content EXCEPT ![b] = read']
             /\ UNCHANGED lost
          \/ /\ Cardinality(lost) < MaxLost
             /\ lost' = lost \cup {read'}
             /\ UNCHANGED content

(***************************************************************************)
(* FillBuffer(b), and b is queued if that worked.  A part that is less     *)
(* than a buffer shows the end of the file at once; one that just fills it *)
(* does not.  A part that alBufferData refuses is lost, and so is b, which *)
(* nobody queues again.                                                    *)
(***************************************************************************)
FillBuffer(b) ==
    \/ /\ read = parts
       /\ m_bFinished' = TRUE
       /\ UNCHANGED <<read, content, queue, lost>>
    \/ /\ read < parts
       /\ read' = read + 1
       /\ m_bFinished' = (m_bFinished \/ (read' = parts /\ lastIsShort))
       /\ \/ /\ content' = [content EXCEPT ![b] = read']
             /\ queue' = Append(queue, b)
             /\ UNCHANGED lost
          \/ /\ Cardinality(lost) < MaxLost
             /\ lost' = lost \cup {read'}
             /\ UNCHANGED <<content, queue>>

\* Open, on a file with n parts, and Play: the first buffer is next.
OpenAndPlay(n, short) ==
    /\ NewSource
    /\ m_pAudio' = TRUE
    /\ parts' = n
    /\ lastIsShort' = short
    /\ read' = 0
    /\ m_bFinished' = FALSE
    /\ m_bStreams' = FALSE
    /\ processed' = 0
    /\ taken' = 1
    /\ lost' = {}
    /\ ranDry' = FALSE

\* Mutant: the stream is deleted while its source plays on.
ClosePlaying ==
    /\ m_pAudio' = FALSE
    /\ m_bFinished' = FALSE
    /\ m_bStreams' = FALSE
    /\ processed' = 0 /\ taken' = 0 /\ lost' = {} /\ ranDry' = FALSE
    /\ UNCHANGED <<sourceVars, parts, lastIsShort, read>>

\* No stream: Close, and the stream is deleted.
Close ==
    /\ NewSource
    /\ m_pAudio' = FALSE
    /\ parts' = 0
    /\ lastIsShort' = FALSE
    /\ read' = 0
    /\ m_bFinished' = FALSE
    /\ m_bStreams' = FALSE
    /\ processed' = 0
    /\ taken' = 0
    /\ lost' = {}
    /\ ranDry' = FALSE

\* QueueInitialBuffers, one buffer
FillInitialBuffer ==
    /\ taken \in Buffers
    /\ FillBuffer(taken)
    /\ taken' = taken + 1
    /\ UNCHANGED <<fileVars, m_bStreams, processed, played, sourcePlaying, begun,
                   ranDry>>

\* The rest of Play: if nothing could be queued, there is nothing to play.
PlayQueued ==
    /\ taken = NUM_BUFFERS + 1
    /\ taken' = 0
    /\ IF queue = <<>>
       THEN /\ m_bFinished' = TRUE
            /\ UNCHANGED <<sourceVars, m_bStreams>>
       ELSE /\ SourcePlay
            /\ m_bStreams' = TRUE
            /\ UNCHANGED m_bFinished
    /\ UNCHANGED <<fileVars, read, processed, lost, ranDry>>

\* Update begins.
CountProcessed ==
    /\ m_pAudio /\ m_bStreams
    /\ processed' = Processed
    /\ UNCHANGED <<sourceVars, fileVars, read, m_bFinished, m_bStreams, taken,
                   lost, ranDry>>

\* Update takes the next buffer that was processed ...
TakeBuffer ==
    /\ processed > 0 /\ taken = 0
    /\ UnqueueBuffer
    /\ taken' = Head(queue)
    /\ processed' = processed - 1
    /\ UNCHANGED <<fileVars, read, m_bFinished, m_bStreams, lost, ranDry>>

\* ... and fills and queues it again, unless the file is at its end.
RefillBuffer ==
    /\ taken # 0
    /\ IF m_bFinished
       THEN UNCHANGED <<read, m_bFinished, content, queue, lost>>
       ELSE FillBuffer(taken)
    /\ taken' = 0
    /\ UNCHANGED <<fileVars, m_bStreams, processed, played, sourcePlaying, begun,
                   ranDry>>

\* Mutant: at its end the stream stops at once.
RestartUnlessFinished ==
    /\ processed = 0 /\ taken = 0
    /\ IF ~sourcePlaying /\ queue # <<>> /\ ~m_bFinished
       THEN SourcePlay
       ELSE UNCHANGED sourceVars
    /\ m_bStreams' = ~m_bFinished
    /\ UNCHANGED <<fileVars, read, m_bFinished, processed, taken, lost, ranDry>>

\* Mutant: what is queued when the source has run dry is dropped.
RestartAnew ==
    /\ processed = 0 /\ taken = 0
    /\ IF ~sourcePlaying /\ queue # <<>> /\ ~m_bFinished
       THEN queue' = <<Head(queue)>> /\ played' = 0 /\ sourcePlaying' = TRUE
            /\ Begins(content[Head(queue)]) /\ UNCHANGED content
       ELSE UNCHANGED sourceVars
    /\ m_bStreams' = (m_bStreams /\ (sourcePlaying \/ ~m_bFinished))
    /\ UNCHANGED <<fileVars, read, m_bFinished, processed, taken, lost, ranDry>>

\* Update ends: a source that has run dry is started again; at the end of the
\* file, the stream is over.
RestartOrEnd ==
    /\ processed = 0 /\ taken = 0
    /\ IF ~sourcePlaying /\ queue # <<>> /\ ~m_bFinished
       THEN SourcePlay
       ELSE UNCHANGED sourceVars
    /\ m_bStreams' = (m_bStreams /\ (sourcePlaying \/ ~m_bFinished))
    /\ UNCHANGED <<fileVars, read, m_bFinished, processed, taken, lost, ranDry>>

\* The mixer does not wait for the client.
Mixer ==
    /\ MixerAdvances
    /\ ranDry' = (ranDry \/ (~sourcePlaying' /\ read < parts))
    /\ UNCHANGED streamVars

-----------------------------------------------------------------------------
StreamTypeOK ==
    /\ queue \in Seq(Buffers)
    /\ played \in 0..Len(queue)
    /\ sourcePlaying \in BOOLEAN
    /\ content \in [Buffers -> 0..MaxParts]
    /\ begun \in 0..MaxParts
    /\ m_pAudio \in BOOLEAN
    /\ parts \in 0..MaxParts
    /\ lastIsShort \in BOOLEAN
    /\ read \in 0..parts
    /\ m_bFinished \in BOOLEAN
    /\ m_bStreams \in BOOLEAN
    /\ processed \in 0..Len(queue)
    /\ taken \in 0..(NUM_BUFFERS + 1)
    /\ lost \in SUBSET (1..MaxParts)
    /\ ranDry \in BOOLEAN

\* The buffers in the queue hold later and later parts, none is queued twice, and
\* the one that is filled is not in it: the mixer never plays what Update is
\* writing (alBufferData needs a buffer that is not queued).
QueueInOrder ==
    /\ \A i, j \in 1..Len(queue) : i < j => content[queue[i]] < content[queue[j]]
    /\ \A i \in 1..Len(queue) : queue[i] # taken /\ content[queue[i]] > 0

\* Every part that was read has been heard, waits in the queue, or was refused,
\* however long the client was busy and however often the source ran dry.
NothingForgotten ==
    \A n \in 1..read :
      \/ n <= begun
      \/ n \in lost
      \/ \E i \in 1..Len(queue) : content[queue[i]] = n

\* A stream that ends has been heard to the end, unless the source ran dry: then
\* its last parts may stay in the queue (av_stream.cpp:253).
HeardInFull ==
    m_pAudio /\ begun > 0 /\ ~m_bStreams /\ ~ranDry
      => \A n \in 1..parts : n <= begun \/ n \in lost

=============================================================================
