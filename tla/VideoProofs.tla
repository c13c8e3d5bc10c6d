---------------------------- MODULE VideoProofs ----------------------------
(***************************************************************************)
(* What is proved of the video player, for any number of buffers and any   *)
(* bounds: the types; of its sound, that the parts are queued in order and *)
(* none is forgotten, that a stream which never ran dry is heard in full,  *)
(* and that it ends with its video; of its pictures, that they are drawn   *)
(* in time; that the player implements Screening; and that a video whose   *)
(* time is up has nothing left.                                            *)
(***************************************************************************)
EXTENDS VideoPlayer, FiniteSetTheorems, TLAPS

-----------------------------------------------------------------------------
(***************************************************************************)
(* The inductive invariant of the sound.                                   *)
(***************************************************************************)

\* The types it needs
SoundTypeOK ==
    /\ StreamTypeOK
    /\ m_bPlaying \in BOOLEAN
    /\ pc \in {"idle", "queue", "sound", "picture"}

\* Where the client is in Play and Update, and what it has in hand there
PhaseInv ==
    /\ pc \in {"idle", "picture"} => taken = 0 /\ processed = 0
    /\ pc = "sound" => taken # NUM_BUFFERS + 1 /\ m_bStreams
    /\ pc = "queue" =>
         /\ m_pAudio /\ ~m_bStreams /\ ~sourcePlaying
         /\ begun = 0 /\ processed = 0 /\ taken # 0
         /\ \A i \in 1..Len(queue) : queue[i] < taken

\* The parts in the queue are some of those read.
ReadInv ==
    /\ begun <= read
    /\ \A i \in 1..Len(queue) : content[queue[i]] <= read
    /\ m_bFinished => read = parts \/ (begun = 0 /\ pc # "queue")

\* The first n buffers of the queue have been heard.
HeardUpTo(n) == \A i \in 1..n : content[queue[i]] <= begun

\* What has been heard: everything up to the buffer that plays, or all of it
\* when the source has stopped, but for what Update has queued since.
HeardInv ==
    /\ sourcePlaying =>
         /\ played < Len(queue) /\ processed <= played /\ m_bStreams
         /\ HeardUpTo(played + 1)
    /\ HeardUpTo(processed)
    /\ m_bStreams /\ pc # "sound" /\ ~sourcePlaying => HeardUpTo(Len(queue))
    /\ ~sourcePlaying /\ begun > 0 /\ ~ranDry =>
         read = parts /\ HeardUpTo(Len(queue))
    /\ m_bStreams => begun > 0

OwnerInv ==
    /\ m_bStreams => m_pAudio
    /\ m_pAudio => m_bPlaying

SoundInv ==
    /\ SoundTypeOK
    /\ PhaseInv
    /\ ReadInv
    /\ HeardInv
    /\ OwnerInv
    /\ QueueInOrder
    /\ NothingForgotten

-----------------------------------------------------------------------------
(***************************************************************************)
(* The steps that touch the sound.                                         *)
(***************************************************************************)

\* Without a stream there is nothing to keep.
LEMMA ClosedSound ==
    ASSUME Close, m_bPlaying' \in BOOLEAN, pc' = "idle"
    PROVE  SoundInv'
<1>1. SoundTypeOK'
  <2>1. queue' \in Seq(Buffers) /\ Len(queue') = 0
    BY DEF Close, NewSource
  <2>2. content' \in [Buffers -> 0..MaxParts] /\ taken' \in 0..(NUM_BUFFERS + 1)
    BY SourceAssumption, StreamAssumption DEF Close, NewSource, Buffers
  <2>3. played' = 0 /\ processed' = 0 /\ lost' \in SUBSET (1..MaxParts)
    BY DEF Close, NewSource
  <2>4. parts' \in 0..MaxParts /\ read' \in 0..parts' /\ begun' \in 0..MaxParts
    BY StreamAssumption DEF Close, NewSource
  <2>5. QED
    BY <2>1, <2>2, <2>3, <2>4 DEF Close, NewSource, SoundTypeOK, StreamTypeOK
<1>2. PhaseInv'
  BY SourceAssumption, StreamAssumption
     DEF Close, NewSource, PhaseInv
<1>3. ReadInv'
  BY SourceAssumption, StreamAssumption
     DEF Close, NewSource, ReadInv
<1>4. HeardInv'
  BY SourceAssumption, StreamAssumption
     DEF Close, NewSource, HeardInv, HeardUpTo
<1>5. OwnerInv'
  BY SourceAssumption, StreamAssumption
     DEF Close, NewSource, OwnerInv
<1>6. QueueInOrder'
  BY SourceAssumption, StreamAssumption
     DEF Close, NewSource, QueueInOrder
<1>7. NothingForgotten'
  BY SourceAssumption, StreamAssumption
     DEF Close, NewSource, NothingForgotten
<1>8. QED
  BY <1>1, <1>2, <1>3, <1>4, <1>5, <1>6, <1>7 DEF SoundInv

\* A stream that was just opened has nothing in its queue.
LEMMA OpenedSound ==
    ASSUME NEW n \in 0..MaxParts, NEW short \in BOOLEAN,
           OpenAndPlay(n, short), m_bPlaying' = TRUE, pc' = "queue"
    PROVE  SoundInv'
<1>1. SoundTypeOK'
  <2>1. queue' \in Seq(Buffers) /\ Len(queue') = 0
    BY DEF OpenAndPlay, NewSource
  <2>2. content' \in [Buffers -> 0..MaxParts] /\ taken' \in 0..(NUM_BUFFERS + 1)
    BY SourceAssumption, StreamAssumption DEF OpenAndPlay, NewSource, Buffers
  <2>3. played' = 0 /\ processed' = 0 /\ lost' \in SUBSET (1..MaxParts)
    BY DEF OpenAndPlay, NewSource
  <2>4. parts' \in 0..MaxParts /\ read' \in 0..parts' /\ begun' \in 0..MaxParts
    BY StreamAssumption DEF OpenAndPlay, NewSource
  <2>5. lastIsShort' \in BOOLEAN
    BY Zenon DEF OpenAndPlay
  <2>6. m_pAudio' = TRUE /\ sourcePlaying' = FALSE /\ m_bFinished' = FALSE
        /\ m_bStreams' = FALSE /\ ranDry' = FALSE
    BY DEF OpenAndPlay, NewSource
  <2>7. played' \in 0..Len(queue') /\ processed' \in 0..Len(queue')
    BY <2>1, <2>3
  <2>8. QED
    BY <2>1, <2>2, <2>3, <2>4, <2>5, <2>6, <2>7, Zenon
    DEF SoundTypeOK, StreamTypeOK
<1>2. PhaseInv'
  BY SourceAssumption, StreamAssumption
     DEF OpenAndPlay, NewSource, PhaseInv
<1>3. ReadInv'
  BY SourceAssumption, StreamAssumption
     DEF OpenAndPlay, NewSource, ReadInv
<1>4. HeardInv'
  BY SourceAssumption, StreamAssumption
     DEF OpenAndPlay, NewSource, HeardInv, HeardUpTo
<1>5. OwnerInv'
  BY SourceAssumption, StreamAssumption
     DEF OpenAndPlay, NewSource, OwnerInv
<1>6. QueueInOrder'
  BY SourceAssumption, StreamAssumption
     DEF OpenAndPlay, NewSource, QueueInOrder
<1>7. NothingForgotten'
  BY SourceAssumption, StreamAssumption
     DEF OpenAndPlay, NewSource, NothingForgotten
<1>8. QED
  BY <1>1, <1>2, <1>3, <1>4, <1>5, <1>6, <1>7 DEF SoundInv

\* Nothing of the sound changes, and the client is outside Update.
LEMMA SameSound ==
    ASSUME SoundInv, UNCHANGED audioVars, UNCHANGED m_bPlaying,
           pc' = pc \/ (pc \in {"idle", "picture"} /\ pc' \in {"idle", "picture"})
    PROVE  SoundInv'
  BY DEF SoundInv, SoundTypeOK, StreamTypeOK, PhaseInv, ReadInv, HeardInv,
         HeardUpTo, OwnerInv, QueueInOrder, NothingForgotten, audioVars, sourceVars,
         streamVars, fileVars

\* FillBuffer of a buffer that is in nobody's queue, in Play or in Update
LEMMA FilledSound ==
    ASSUME SoundInv, taken \in Buffers, FillBuffer(taken),
           UNCHANGED <<fileVars, m_bStreams, processed, played, sourcePlaying,
                       begun, ranDry, pc, m_bPlaying>>
    PROVE  /\ queue' \in Seq(Buffers) /\ Len(queue') >= Len(queue)
           /\ \A i \in 1..Len(queue) :
                queue'[i] = queue[i] /\ content'[queue'[i]] = content[queue[i]]
           /\ \A i \in 1..Len(queue') :
                i <= Len(queue) \/ (queue'[i] = taken /\ content'[queue'[i]] = read')
           /\ content' \in [Buffers -> 0..MaxParts]
           /\ read' \in read..parts /\ read' <= read + 1
           /\ read' = read =>
                queue' = queue /\ content' = content /\ lost' = lost
           /\ read' = read + 1 =>
                \/ Len(queue') = Len(queue) + 1 /\ lost' = lost
                \/ lost' = lost \cup {read'} /\ queue' = queue
           /\ Len(queue') > Len(queue) => read' = read + 1
           /\ lost' \in SUBSET (1..MaxParts)
           /\ m_bFinished' \in BOOLEAN
           /\ m_bFinished' => read' = parts \/ (begun = 0 /\ pc # "queue")
<1>1. /\ queue \in Seq(Buffers) /\ content \in [Buffers -> 0..MaxParts]
      /\ parts \in 0..MaxParts /\ read \in 0..parts /\ lost \in SUBSET (1..MaxParts)
      /\ m_bFinished \in BOOLEAN /\ lastIsShort \in BOOLEAN
      /\ \A i \in 1..Len(queue) : queue[i] # taken /\ queue[i] \in Buffers
  BY DEF SoundInv, SoundTypeOK, StreamTypeOK, QueueInOrder
<1>2. m_bFinished => read = parts \/ (begun = 0 /\ pc # "queue")
  BY DEF SoundInv, ReadInv
<1>3. CASE read = parts /\ m_bFinished' = TRUE
           /\ UNCHANGED <<read, content, queue, lost>>
  BY <1>1, <1>3
<1>4. CASE /\ read < parts /\ read' = read + 1
           /\ m_bFinished' = (m_bFinished \/ (read' = parts /\ lastIsShort))
           /\ content' = [content EXCEPT ![taken] = read']
           /\ queue' = Append(queue, taken)
           /\ UNCHANGED lost
  <2>1. /\ queue' \in Seq(Buffers) /\ Len(queue') = Len(queue) + 1
        /\ \A i \in 1..Len(queue) : queue'[i] = queue[i]
        /\ queue'[Len(queue) + 1] = taken
    BY <1>1, <1>4
  <2>2. /\ content' \in [Buffers -> 0..MaxParts] /\ content'[taken] = read'
        /\ \A b \in Buffers : b # taken => content'[b] = content[b]
    BY <1>1, <1>4, StreamAssumption
  <2>3. /\ m_bFinished' \in BOOLEAN
        /\ m_bFinished' => read' = parts \/ (begun = 0 /\ pc # "queue")
    BY <1>1, <1>2, <1>4
  <2>4. QED
    BY <1>1, <1>4, <2>1, <2>2, <2>3
<1>5. CASE /\ read < parts /\ read' = read + 1
           /\ m_bFinished' = (m_bFinished \/ (read' = parts /\ lastIsShort))
           /\ lost' = lost \cup {read'}
           /\ UNCHANGED <<content, queue>>
  <2>1. /\ m_bFinished' \in BOOLEAN
        /\ m_bFinished' => read' = parts \/ (begun = 0 /\ pc # "queue")
    BY <1>1, <1>2, <1>5
  <2>2. lost' \in SUBSET (1..MaxParts)
    BY <1>1, <1>5, StreamAssumption
  <2>3. QED
    BY <1>1, <1>5, <2>1, <2>2
<1>6. QED
  BY <1>3, <1>4, <1>5 DEF FillBuffer

\* What a filled buffer leaves true, whichever buffer is next
LEMMA FilledInv ==
    ASSUME SoundInv, taken \in Buffers, FillBuffer(taken),
           UNCHANGED <<fileVars, m_bStreams, processed, played, sourcePlaying,
                       begun, ranDry, pc, m_bPlaying>>,
           pc \in {"queue", "sound"}, taken' \in 0..(NUM_BUFFERS + 1),
           taken' # taken, \A i \in 1..Len(queue) : queue[i] # taken'
    PROVE  /\ SoundTypeOK' /\ ReadInv' /\ HeardInv' /\ OwnerInv'
           /\ QueueInOrder' /\ NothingForgotten'
<1> DEFINE Old(i) == content[queue[i]]
           New(i) == content'[queue'[i]]
           len == Len(queue)
           len1 == Len(queue')
<1>1. /\ queue' \in Seq(Buffers) /\ content' \in [Buffers -> 0..MaxParts]
      /\ lost' \in SUBSET (1..MaxParts) /\ m_bFinished' \in BOOLEAN
      /\ read' \in read..parts /\ read' <= read + 1
      /\ m_bFinished' => read' = parts \/ (begun = 0 /\ pc # "queue")
  BY FilledSound
<1>2. /\ len1 >= len
      /\ len1 > len => read' = read + 1
      /\ \A i \in 1..len : New(i) = Old(i) /\ queue'[i] = queue[i]
      /\ \A i \in 1..len1 : i <= len \/ (queue'[i] = taken /\ New(i) = read')
      /\ read' = read => len1 = len /\ lost' = lost
      /\ read' = read + 1 =>
           \/ len1 = len + 1 /\ lost' = lost
           \/ lost' = lost \cup {read'} /\ len1 = len
  BY FilledSound
<1>3. /\ queue \in Seq(Buffers) /\ content \in [Buffers -> 0..MaxParts]
      /\ parts \in 0..MaxParts /\ read \in 0..parts /\ begun \in 0..MaxParts
      /\ played \in 0..len /\ processed \in 0..len
  BY DEF SoundInv, SoundTypeOK, StreamTypeOK
<1>4. /\ begun <= read /\ \A i \in 1..len : Old(i) <= read
  BY DEF SoundInv, ReadInv
<1>5. /\ parts \in Nat /\ read \in Nat /\ begun \in Nat /\ len \in Nat
      /\ len1 \in Nat /\ read' \in Nat /\ \A i \in 1..len : Old(i) \in Nat
      /\ played \in Nat /\ processed \in Nat
  BY <1>1, <1>3, StreamAssumption
<1>6. /\ parts' = parts /\ begun' = begun /\ played' = played
      /\ processed' = processed
  BY DEF fileVars
<1>7. SoundTypeOK'
  <2>1. /\ played' \in 0..Len(queue') /\ processed' \in 0..Len(queue')
        /\ read' \in 0..parts'
    BY <1>1, <1>2, <1>3, <1>5, <1>6
  <2>2. QED
    BY <1>1, <1>3, <1>6, <2>1, Zenon
    DEF SoundInv, SoundTypeOK, StreamTypeOK, fileVars
<1> HIDE DEF Old, New, len, len1
<1>8. ReadInv'
  <2>1. \A i \in 1..len1 : New(i) <= read'
    BY <1>1, <1>2, <1>4, <1>5
  <2>2. begun' <= read' /\ (m_bFinished' => read' = parts' \/ (begun' = 0 /\ pc' # "queue"))
    BY <1>1, <1>4, <1>5, <1>6
  <2>3. QED
    BY <2>1, <2>2 DEF ReadInv, New, len1
<1>9. HeardInv'
  <2> DEFINE Heard(n) == \A i \in 1..n : Old(i) <= begun
             Heard1(n) == \A i \in 1..n : New(i) <= begun'
  <2>1. /\ sourcePlaying =>
             played < len /\ processed <= played /\ m_bStreams /\ Heard(played + 1)
        /\ Heard(processed)
        /\ ~sourcePlaying /\ begun > 0 /\ ~ranDry => read = parts /\ Heard(len)
        /\ m_bStreams => begun > 0
    BY DEF SoundInv, HeardInv, HeardUpTo, Old, len
  <2>2. pc = "queue" => ~m_bStreams
    BY DEF SoundInv, PhaseInv
  <2>3. \A n \in 0..len : Heard(n) => Heard1(n)
    BY <1>2, <1>5, <1>6
  <2> HIDE DEF Heard, Heard1
  <2>4. sourcePlaying =>
          played < len1 /\ processed <= played /\ m_bStreams /\ Heard1(played + 1)
    <3> HAVE sourcePlaying
    <3>1. played < len /\ processed <= played /\ m_bStreams /\ Heard(played + 1)
      BY <2>1
    <3>2. played < len1 /\ played + 1 \in 0..len
      <4>1. len1 >= len /\ len1 \in Nat /\ len \in Nat /\ played \in Nat
        BY <1>2, <1>5
      <4>2. QED
        BY <3>1, <4>1
    <3>3. QED
      BY <2>3, <3>1, <3>2
  <2>5. Heard1(processed)
    BY <1>3, <2>1, <2>3
  <2>6. ~sourcePlaying /\ begun > 0 /\ ~ranDry => read' = parts /\ Heard1(len1)
    BY <1>1, <1>2, <1>5, <2>1, <2>3
  <2>7. QED
    BY <1>6, <2>1, <2>2, <2>4, <2>5, <2>6 DEF HeardInv, HeardUpTo, Heard1, New, len1
<1>10. OwnerInv'
  BY DEF SoundInv, OwnerInv, fileVars
<1>11. QueueInOrder'
  <2>1. /\ \A i, j \in 1..len : i < j => Old(i) < Old(j)
        /\ \A i \in 1..len : Old(i) > 0
    BY DEF SoundInv, QueueInOrder, Old, len
  <2>2. \A i, j \in 1..len1 : i < j => New(i) < New(j)
    <3> SUFFICES ASSUME NEW i \in 1..len1, NEW j \in 1..len1, i < j
                 PROVE  New(i) < New(j)
      OBVIOUS
    <3>1. i <= len
      BY <1>2, <1>5
    <3>2. CASE j <= len
      BY <1>2, <1>5, <2>1, <3>1, <3>2
    <3>3. CASE ~(j <= len)
      BY <1>2, <1>4, <1>5, <3>1, <3>3
    <3>4. QED
      BY <3>2, <3>3
  <2>3. \A i \in 1..len1 : New(i) > 0
    BY <1>1, <1>2, <1>5, <2>1
  <2>4. \A i \in 1..len1 : queue'[i] # taken'
    BY <1>2, <1>5 DEF len
  <2>5. QED
    BY <2>2, <2>3, <2>4 DEF QueueInOrder, New, len1
<1>12. NothingForgotten'
  <2>1. \A n \in 1..read :
          n <= begun \/ n \in lost \/ \E i \in 1..len : Old(i) = n
    BY DEF SoundInv, NothingForgotten, Old, len
  <2>2. ASSUME NEW n \in 1..read'
        PROVE  n <= begun \/ n \in lost' \/ \E i \in 1..len1 : New(i) = n
    <3>1. CASE n <= read
      BY <1>1, <1>2, <1>5, <2>1, <3>1
    <3>2. CASE n = read + 1
      <4>1. CASE len1 = len + 1
        <5>1. len1 \in 1..len1 /\ New(len1) = n
          BY <1>1, <1>2, <1>5, <2>2, <3>2, <4>1
        <5>2. QED
          BY <5>1
      <4>2. CASE lost' = lost \cup {read'}
        BY <1>1, <1>5, <2>2, <3>2, <4>2
      <4>3. QED
        BY <1>1, <1>2, <1>5, <2>2, <3>2, <4>1, <4>2
    <3>3. QED
      BY <1>1, <1>5, <3>1, <3>2
  <2>3. QED
    BY <1>6, <2>2 DEF NothingForgotten, New, len1
<1>13. QED
  BY <1>7, <1>8, <1>9, <1>10, <1>11, <1>12

\* QueueInitialBuffers
LEMMA QueuedSound ==
    ASSUME SoundInv, QueueInitial
    PROVE  SoundInv'
<1>1. /\ pc = "queue" /\ FillInitialBuffer
      /\ UNCHANGED <<pc, m_bPlaying>>
  BY DEF QueueInitial, playerVars
<1>2. /\ taken \in Buffers /\ FillBuffer(taken) /\ taken' = taken + 1
      /\ UNCHANGED <<fileVars, m_bStreams, processed, played, sourcePlaying,
                     begun, ranDry, pc, m_bPlaying>>
  BY <1>1 DEF FillInitialBuffer
<1>3. /\ m_pAudio /\ ~m_bStreams /\ ~sourcePlaying
      /\ begun = 0 /\ processed = 0 /\ taken # 0
      /\ \A i \in 1..Len(queue) : queue[i] < taken
  BY <1>1 DEF SoundInv, PhaseInv
<1>4. /\ taken' \in 0..(NUM_BUFFERS + 1) /\ taken' # taken
      /\ \A i \in 1..Len(queue) : queue[i] # taken'
  <2>1. queue \in Seq(Buffers)
    BY DEF SoundInv, SoundTypeOK, StreamTypeOK
  <2>2. \A i \in 1..Len(queue) : queue[i] \in Nat
    BY <2>1, SourceAssumption DEF Buffers
  <2>3. QED
    BY <1>2, <1>3, <2>2, SourceAssumption DEF Buffers
<1>5. /\ SoundTypeOK' /\ ReadInv' /\ HeardInv' /\ OwnerInv'
      /\ QueueInOrder' /\ NothingForgotten'
  BY <1>1, <1>2, <1>4, FilledInv
<1>6. PhaseInv'
  <2>1. \A i \in 1..Len(queue') : queue'[i] < taken'
    <3>1. /\ \A i \in 1..Len(queue) : queue'[i] = queue[i]
          /\ \A i \in 1..Len(queue') : i <= Len(queue) \/ queue'[i] = taken
      BY <1>2, FilledSound
    <3>2. Len(queue) \in Nat /\ Len(queue') \in Nat /\ taken \in Nat
          /\ \A i \in 1..Len(queue) : queue[i] \in Nat
      <4>1. queue \in Seq(Buffers) /\ queue' \in Seq(Buffers)
        BY <1>5 DEF SoundInv, SoundTypeOK, StreamTypeOK
      <4>2. QED
        BY <1>2, <4>1, SourceAssumption DEF Buffers
    <3>3. QED
      BY <1>2, <1>3, <3>1, <3>2
  <2>2. QED
    BY <1>1, <1>2, <1>3, <1>4, <2>1, SourceAssumption DEF PhaseInv, Buffers, fileVars
<1>7. QED
  BY <1>5, <1>6 DEF SoundInv

\* The second half of what Update does with a buffer
LEMMA RefilledSound ==
    ASSUME SoundInv, UpdateSound, RefillBuffer
    PROVE  SoundInv'
<1>1. /\ pc = "sound" /\ taken # 0 /\ taken' = 0
      /\ UNCHANGED <<fileVars, m_bStreams, processed, played, sourcePlaying,
                     begun, ranDry, pc, m_bPlaying>>
  BY DEF UpdateSound, RefillBuffer, playerVars
<1>2. taken \in Buffers /\ m_bStreams
  BY <1>1, SourceAssumption
  DEF SoundInv, SoundTypeOK, StreamTypeOK, PhaseInv, Buffers
<1>3. PhaseInv'
  BY <1>1, <1>2, SourceAssumption DEF PhaseInv
<1>4. CASE m_bFinished
  <2>1. UNCHANGED <<read, m_bFinished, content, queue, lost>>
    BY <1>4 DEF RefillBuffer
  <2>2. \A i \in 1..Len(queue) : queue[i] # 0
    BY SourceAssumption DEF SoundInv, SoundTypeOK, StreamTypeOK, Buffers
  <2>3. QueueInOrder'
    BY <1>1, <2>1, <2>2 DEF SoundInv, QueueInOrder
  <2>4. SoundTypeOK' /\ OwnerInv'
    BY <1>1, <2>1, SourceAssumption
    DEF SoundInv, SoundTypeOK, StreamTypeOK, OwnerInv, fileVars
  <2>5. ReadInv' /\ HeardInv' /\ NothingForgotten'
    BY <1>1, <2>1
    DEF SoundInv, ReadInv, HeardInv, HeardUpTo, NothingForgotten, fileVars
  <2>6. QED
    BY <1>3, <2>3, <2>4, <2>5 DEF SoundInv
<1>5. CASE ~m_bFinished
  <2>1. FillBuffer(taken)
    BY <1>5 DEF RefillBuffer
  <2>2. /\ taken' \in 0..(NUM_BUFFERS + 1) /\ taken' # taken
        /\ \A i \in 1..Len(queue) : queue[i] # taken'
    BY <1>1, SourceAssumption DEF SoundInv, SoundTypeOK, StreamTypeOK, Buffers
  <2>3. QED
    BY <1>1, <1>2, <1>3, <2>1, <2>2, FilledInv DEF SoundInv
<1>6. QED
  BY <1>4, <1>5

\* What the source does to what was heard when a buffer of its queue begins to play
LEMMA BegunSound ==
    ASSUME SoundInv, NEW i \in 1..Len(queue), Begins(content[queue[i]])
    PROVE  /\ begun' \in 0..MaxParts /\ begun' <= read
           /\ begun' >= begun /\ begun' >= content[queue[i]] /\ begun' > 0
<1>1. /\ queue[i] \in Buffers /\ content[queue[i]] \in 0..MaxParts
      /\ begun \in 0..MaxParts /\ read \in 0..parts /\ parts \in 0..MaxParts
  BY DEF SoundInv, SoundTypeOK, StreamTypeOK
<1>2. begun <= read /\ content[queue[i]] <= read /\ content[queue[i]] > 0
  BY DEF SoundInv, ReadInv, QueueInOrder
<1>3. QED
  BY <1>1, <1>2, StreamAssumption DEF Begins

\* The end of Play
LEMMA StartedSound ==
    ASSUME SoundInv, StartSound
    PROVE  SoundInv'
<1>1. /\ pc = "queue" /\ pc' = "idle" /\ PlayQueued /\ UNCHANGED m_bPlaying
  BY DEF StartSound, playerVars
<1>2. /\ m_pAudio /\ ~m_bStreams /\ ~sourcePlaying /\ begun = 0 /\ processed = 0
      /\ taken' = 0 /\ processed' = 0
      /\ UNCHANGED <<fileVars, read, processed, lost, ranDry, queue, content>>
  BY <1>1 DEF SoundInv, PhaseInv, PlayQueued, SourcePlay, sourceVars
<1>3. /\ queue \in Seq(Buffers) /\ content \in [Buffers -> 0..MaxParts]
      /\ parts \in 0..MaxParts /\ read \in 0..parts /\ begun \in 0..MaxParts
      /\ \A i \in 1..Len(queue) : queue[i] # 0
  BY SourceAssumption DEF SoundInv, SoundTypeOK, StreamTypeOK, Buffers
<1>4. PhaseInv'
  BY <1>1, <1>2 DEF PhaseInv
<1>5. QueueInOrder'
  BY <1>2, <1>3 DEF SoundInv, QueueInOrder
<1>6. CASE queue = <<>>
  <2>1. m_bFinished' = TRUE /\ UNCHANGED <<played, sourcePlaying, begun, m_bStreams>>
    BY <1>1, <1>6 DEF PlayQueued, sourceVars
  <2>2. SoundTypeOK' /\ OwnerInv'
    BY <1>1, <1>2, <2>1, SourceAssumption
    DEF SoundInv, SoundTypeOK, StreamTypeOK, OwnerInv, fileVars
  <2>3. ReadInv' /\ NothingForgotten'
    BY <1>1, <1>2, <2>1 DEF SoundInv, ReadInv, NothingForgotten, fileVars
  <2>4. HeardInv'
    BY <1>2, <2>1 DEF HeardInv, HeardUpTo
  <2>5. QED
    BY <1>4, <1>5, <2>2, <2>3, <2>4 DEF SoundInv
<1>7. CASE queue # <<>>
  <2>1. /\ sourcePlaying' = TRUE /\ m_bStreams' = TRUE /\ played' = 0
        /\ Begins(content[queue[1]]) /\ UNCHANGED m_bFinished
    BY <1>1, <1>3, <1>7 DEF PlayQueued, SourcePlay
  <2>2. Len(queue) \in Nat /\ Len(queue) > 0 /\ 1 \in 1..Len(queue)
    BY <1>3, <1>7
  <2>3. /\ begun' \in 0..MaxParts /\ begun' <= read /\ begun' > 0
        /\ begun' >= content[queue[1]]
    BY <2>1, <2>2, BegunSound
  <2>4. SoundTypeOK' /\ OwnerInv'
    BY <1>1, <1>2, <2>1, <2>2, <2>3, SourceAssumption
    DEF SoundInv, SoundTypeOK, StreamTypeOK, OwnerInv, fileVars
  <2>5. ReadInv'
    <3>1. m_bFinished => read = parts
      BY <1>1 DEF SoundInv, ReadInv
    <3>2. QED
      BY <1>2, <2>1, <2>3, <3>1 DEF SoundInv, ReadInv, fileVars
  <2>6. NothingForgotten'
    BY <1>2, <1>3, <2>3, StreamAssumption DEF SoundInv, NothingForgotten
  <2>7. HeardInv'
    BY <1>2, <2>1, <2>2, <2>3 DEF HeardInv, HeardUpTo
  <2>8. QED
    BY <1>4, <1>5, <2>4, <2>5, <2>6, <2>7 DEF SoundInv
<1>8. QED
  BY <1>6, <1>7

\* The beginning of Update
LEMMA CountedSound ==
    ASSUME SoundInv, pc = "idle", pc' = "sound", CountProcessed, UNCHANGED m_bPlaying
    PROVE  SoundInv'
<1>1. /\ m_pAudio /\ m_bStreams /\ taken = 0 /\ processed' = Processed
      /\ UNCHANGED <<queue, played, sourcePlaying, content, begun, m_pAudio, parts,
                     lastIsShort, read, m_bFinished, m_bStreams, taken, lost, ranDry>>
  BY DEF CountProcessed, SoundInv, PhaseInv, sourceVars, fileVars
<1>2. Len(queue) \in Nat /\ played \in 0..Len(queue)
  BY DEF SoundInv, SoundTypeOK, StreamTypeOK
<1>3. SoundTypeOK'
  <2>1. processed' \in 0..Len(queue')
    BY <1>1, <1>2 DEF Processed
  <2>2. QED
    BY <1>1, <2>1 DEF SoundInv, SoundTypeOK, StreamTypeOK
<1>4. PhaseInv' /\ OwnerInv'
  BY <1>1, SourceAssumption DEF SoundInv, PhaseInv, OwnerInv
<1>5. ReadInv' /\ QueueInOrder' /\ NothingForgotten'
  BY <1>1 DEF SoundInv, ReadInv, QueueInOrder, NothingForgotten
<1>6. HeardInv'
  <2>1. CASE sourcePlaying
    BY <1>1, <1>2, <2>1 DEF SoundInv, HeardInv, HeardUpTo, Processed
  <2>2. CASE ~sourcePlaying
    BY <1>1, <1>2, <2>2 DEF SoundInv, HeardInv, HeardUpTo, Processed
  <2>3. QED
    BY <2>1, <2>2
<1>7. QED
  BY <1>3, <1>4, <1>5, <1>6 DEF SoundInv

\* The first half of what Update does with a buffer: it was heard.
LEMMA TakenSound ==
    ASSUME SoundInv, UpdateSound, TakeBuffer
    PROVE  SoundInv'
<1>1. /\ pc = "sound" /\ processed > 0 /\ taken = 0 /\ UnqueueBuffer
      /\ queue' = Tail(queue) /\ taken' = Head(queue) /\ processed' = processed - 1
      /\ played' = IF sourcePlaying THEN played - 1 ELSE 0
      /\ UNCHANGED <<sourcePlaying, content, begun, m_pAudio, parts, lastIsShort,
                     read, m_bFinished, m_bStreams, lost, ranDry, pc, m_bPlaying>>
  BY DEF UpdateSound, TakeBuffer, UnqueueBuffer, playerVars, fileVars
<1>2. /\ queue \in Seq(Buffers) /\ content \in [Buffers -> 0..MaxParts]
      /\ played \in 0..Len(queue) /\ processed \in 0..Len(queue) /\ begun \in Nat
  BY StreamAssumption DEF SoundInv, SoundTypeOK, StreamTypeOK
<1>3. Len(queue) \in Nat /\ Len(queue) >= 1 /\ played \in Nat /\ processed \in Nat
  BY <1>1, <1>2
<1>4. /\ queue' \in Seq(Buffers) /\ Len(queue') = Len(queue) - 1
      /\ \A i \in 1..Len(queue') : queue'[i] = queue[i + 1]
      /\ taken' = queue[1] /\ taken' \in Buffers
  BY <1>1, <1>2, <1>3
<1> DEFINE Old(i) == content[queue[i]]
           New(i) == content'[queue'[i]]
           len == Len(queue)
           len1 == Len(queue')
<1>5. /\ len \in Nat /\ len1 \in Nat /\ len1 = len - 1
      /\ \A i \in 1..len1 : New(i) = Old(i + 1)
      /\ \A i \in 1..len : Old(i) \in Nat
  BY <1>1, <1>2, <1>3, <1>4, StreamAssumption
<1>6. /\ sourcePlaying =>
           /\ played < len /\ processed <= played /\ m_bStreams
           /\ \A i \in 1..(played + 1) : Old(i) <= begun
      /\ \A i \in 1..processed : Old(i) <= begun
      /\ ~sourcePlaying /\ begun > 0 /\ ~ranDry =>
           read = parts /\ \A i \in 1..len : Old(i) <= begun
      /\ m_bStreams => begun > 0
  BY DEF SoundInv, HeardInv, HeardUpTo
<1>7. SoundTypeOK'
  <2>1. played' \in 0..Len(queue') /\ processed' \in 0..Len(queue')
    BY <1>1, <1>2, <1>3, <1>4, <1>6
  <2>2. taken' \in 0..(NUM_BUFFERS + 1)
    BY <1>4, SourceAssumption DEF Buffers
  <2>3. QED
    BY <1>1, <1>4, <2>1, <2>2, Zenon DEF SoundInv, SoundTypeOK, StreamTypeOK
<1>8. PhaseInv' /\ OwnerInv'
  BY <1>1, <1>4, SourceAssumption DEF SoundInv, PhaseInv, OwnerInv, Buffers
<1> HIDE DEF Old, New, len, len1
<1>9. ReadInv'
  <2>1. \A i \in 1..len : Old(i) <= read
    BY DEF SoundInv, ReadInv, Old, len
  <2>2. \A i \in 1..len1 : New(i) <= read
    BY <1>5, <2>1
  <2>3. QED
    BY <1>1, <2>2 DEF SoundInv, ReadInv, New, len1
<1>10. QueueInOrder'
  <2>1. /\ \A i, j \in 1..len : i < j => Old(i) < Old(j)
        /\ \A i \in 1..len : Old(i) > 0
    BY DEF SoundInv, QueueInOrder, Old, len
  <2>2. \A i, j \in 1..len1 : i < j => New(i) < New(j)
    BY <1>5, <2>1
  <2>3. \A i \in 1..len1 : New(i) > 0
    BY <1>5, <2>1
  <2>4. \A i \in 1..len1 : queue'[i] # taken'
    <3> SUFFICES ASSUME NEW i \in 1..len1, queue[i + 1] = queue[1]
                 PROVE  FALSE
      BY <1>4 DEF len1
    <3>1. Old(i + 1) = Old(1)
      BY DEF Old
    <3>2. Old(1) < Old(i + 1) /\ Old(1) \in Nat /\ Old(i + 1) \in Nat
      BY <1>5, <2>1
    <3>3. QED
      BY <3>1, <3>2
  <2>5. QED
    BY <2>2, <2>3, <2>4 DEF QueueInOrder, New, len1
<1>11. NothingForgotten'
  <2>1. \A n \in 1..read :
          n <= begun \/ n \in lost \/ \E i \in 1..len : Old(i) = n
    BY DEF SoundInv, NothingForgotten, Old, len
  <2>2. ASSUME NEW n \in 1..read, NEW i \in 1..len, Old(i) = n
        PROVE  n <= begun \/ \E j \in 1..len1 : New(j) = n
    <3>1. CASE i = 1
      BY <1>1, <1>3, <1>6, <2>2, <3>1
    <3>2. CASE i # 1
      <4>1. i - 1 \in 1..len1 /\ New(i - 1) = Old(i)
        BY <1>5, <3>2
      <4>2. QED
        BY <2>2, <4>1
    <3>3. QED
      BY <3>1, <3>2
  <2>3. QED
    BY <1>1, <2>1, <2>2 DEF NothingForgotten, New, len1
<1>12. HeardInv'
  <2>1. ASSUME NEW n \in 1..len, \A i \in 1..n : Old(i) <= begun
        PROVE  \A i \in 1..(n - 1) : New(i) <= begun'
    BY <1>1, <1>5, <2>1
  <2>2. sourcePlaying =>
          /\ played' < len1 /\ processed' <= played' /\ m_bStreams
          /\ \A i \in 1..(played' + 1) : New(i) <= begun'
    BY <1>1, <1>3, <1>5, <1>6, <2>1
  <2>3. \A i \in 1..processed' : New(i) <= begun'
    <3>1. processed \in 1..len /\ processed' = processed - 1
      BY <1>1, <1>2, <1>3 DEF len
    <3>2. QED
      BY <1>6, <2>1, <3>1
  <2>4. ~sourcePlaying /\ begun > 0 /\ ~ranDry =>
          read = parts /\ \A i \in 1..len1 : New(i) <= begun'
    BY <1>1, <1>3, <1>5, <1>6, <2>1 DEF len
  <2>5. QED
    BY <1>1, <1>6, <2>2, <2>3, <2>4 DEF HeardInv, HeardUpTo, New, len1
<1>13. QED
  BY <1>7, <1>8, <1>9, <1>10, <1>11, <1>12 DEF SoundInv

\* The end of Update
LEMMA UpdatedSound ==
    ASSUME SoundInv, SoundUpdated
    PROVE  SoundInv'
<1>1. /\ pc = "sound" /\ pc' = "picture" /\ m_bStreams
      /\ processed = 0 /\ taken = 0
      /\ m_bStreams' = (m_bStreams /\ (sourcePlaying \/ ~m_bFinished))
      /\ UNCHANGED <<queue, content, m_pAudio, parts, lastIsShort, read, m_bFinished,
                     processed, taken, lost, ranDry, m_bPlaying>>
  BY DEF SoundUpdated, RestartOrEnd, SourcePlay, sourceVars, playerVars, fileVars,
         SoundInv, PhaseInv
<1>2. /\ queue \in Seq(Buffers) /\ content \in [Buffers -> 0..MaxParts]
      /\ begun \in 0..MaxParts /\ read \in 0..parts /\ parts \in 0..MaxParts
      /\ m_bStreams' \in BOOLEAN
  <2>1. m_bStreams' \in BOOLEAN
    BY <1>1, Zenon
  <2>2. QED
    BY <2>1 DEF SoundInv, SoundTypeOK, StreamTypeOK
<1>3. PhaseInv' /\ OwnerInv' /\ QueueInOrder'
  BY <1>1 DEF SoundInv, PhaseInv, OwnerInv, QueueInOrder
<1>4. CASE ~sourcePlaying /\ queue # <<>> /\ ~m_bFinished
  <2>1. /\ sourcePlaying' = TRUE /\ m_bStreams' /\ played' = 0
        /\ Begins(content[queue[1]])
    <3>1. m_bStreams'
      BY <1>1, <1>4, Zenon
    <3>2. SourcePlay
      BY <1>4 DEF SoundUpdated, RestartOrEnd
    <3>3. Head(queue) = queue[1]
      BY <1>2, <1>4
    <3>4. QED
      BY <3>1, <3>2, <3>3 DEF SourcePlay
  <2>2. Len(queue) \in Nat /\ Len(queue) > 0 /\ 1 \in 1..Len(queue)
    BY <1>2, <1>4
  <2>3. /\ begun' \in 0..MaxParts /\ begun' <= read /\ begun' > 0
        /\ begun' >= content[queue[1]] /\ begun' >= begun
    BY <2>1, <2>2, BegunSound
  <2>4. SoundTypeOK'
    BY <1>1, <1>2, <2>1, <2>2, <2>3 DEF SoundInv, SoundTypeOK, StreamTypeOK
  <2>5. ReadInv'
    BY <1>1, <1>4, <2>3 DEF SoundInv, ReadInv
  <2>6. NothingForgotten'
    BY <1>1, <1>2, <2>3, StreamAssumption DEF SoundInv, NothingForgotten
  <2>7. HeardInv'
    BY <1>1, <2>1, <2>2, <2>3 DEF HeardInv, HeardUpTo
  <2>8. QED
    BY <1>3, <2>4, <2>5, <2>6, <2>7 DEF SoundInv
<1>5. CASE ~(~sourcePlaying /\ queue # <<>> /\ ~m_bFinished)
  <2>1. UNCHANGED <<played, sourcePlaying, begun>>
    BY <1>5 DEF SoundUpdated, RestartOrEnd, sourceVars
  <2>2. SoundTypeOK'
    BY <1>1, <1>2, <2>1, Zenon DEF SoundInv, SoundTypeOK, StreamTypeOK
  <2>3. ReadInv' /\ NothingForgotten'
    BY <1>1, <2>1 DEF SoundInv, ReadInv, NothingForgotten
  <2>4. HeardInv'
    BY <1>1, <1>5, <2>1 DEF SoundInv, HeardInv, HeardUpTo
  <2>5. QED
    BY <1>3, <2>2, <2>3, <2>4 DEF SoundInv
<1>6. QED
  BY <1>4, <1>5

\* The mixer, at any time
LEMMA MixedSound ==
    ASSUME SoundInv, SourceMixes
    PROVE  SoundInv'
<1>1. /\ sourcePlaying
      /\ ranDry' = (ranDry \/ (~sourcePlaying' /\ read < parts))
      /\ UNCHANGED <<queue, content, m_pAudio, parts, lastIsShort, read, m_bFinished,
                     m_bStreams, processed, taken, lost, pc, m_bPlaying>>
  BY DEF SourceMixes, Mixer, MixerAdvances, streamVars, fileVars, playerVars
<1>2. /\ queue \in Seq(Buffers) /\ content \in [Buffers -> 0..MaxParts]
      /\ begun \in 0..MaxParts /\ read \in 0..parts /\ parts \in 0..MaxParts
      /\ ranDry' \in BOOLEAN
  <2>1. ranDry' \in BOOLEAN
    BY <1>1, Zenon
  <2>2. QED
    BY <2>1 DEF SoundInv, SoundTypeOK, StreamTypeOK
<1>3. /\ played \in Nat /\ Len(queue) \in Nat /\ played < Len(queue)
      /\ processed <= played /\ m_bStreams /\ HeardUpTo(played + 1)
      /\ processed \in Nat /\ begun > 0 /\ pc # "queue"
  <2>1. played \in Nat /\ Len(queue) \in Nat /\ processed \in Nat
    BY DEF SoundInv, SoundTypeOK, StreamTypeOK
  <2>2. pc # "queue"
    BY <1>1 DEF SoundInv, PhaseInv
  <2>3. QED
    BY <1>1, <2>1, <2>2 DEF SoundInv, HeardInv
<1>4. PhaseInv' /\ OwnerInv' /\ QueueInOrder'
  BY <1>1, <1>3 DEF SoundInv, PhaseInv, OwnerInv, QueueInOrder
<1>5. CASE played + 1 < Len(queue)
  <2>1. /\ sourcePlaying' /\ played' = played + 1
        /\ Begins(content[queue[played + 2]]) /\ sourcePlaying' \in BOOLEAN
    BY <1>1, <1>5 DEF SourceMixes, Mixer, MixerAdvances, SoundInv, SoundTypeOK,
                      StreamTypeOK
  <2>2. played + 2 \in 1..Len(queue)
    BY <1>3, <1>5
  <2>3. /\ begun' \in 0..MaxParts /\ begun' <= read /\ begun' > 0
        /\ begun' >= content[queue[played + 2]] /\ begun' >= begun
    BY <2>1, <2>2, BegunSound
  <2>4. SoundTypeOK'
    <3>1. played' \in 0..Len(queue)
      BY <1>3, <1>5, <2>1
    <3>2. QED
      BY <1>1, <1>2, <2>1, <2>3, <3>1, Zenon DEF SoundInv, SoundTypeOK, StreamTypeOK
  <2>5. ReadInv'
    BY <1>1, <1>3, <2>3 DEF SoundInv, ReadInv
  <2>6. NothingForgotten'
    BY <1>1, <1>2, <2>3, StreamAssumption DEF SoundInv, NothingForgotten
  <2>7. HeardInv'
    <3> DEFINE Part(i) == content[queue[i]]
    <3>1. /\ \A i \in 1..(played + 1) : Part(i) <= begun
          /\ \A i \in 1..Len(queue) : Part(i) \in Nat
      BY <1>2, <1>3, StreamAssumption DEF HeardUpTo
    <3>2. Part(played + 2) <= begun' /\ begun' >= begun /\ begun' \in Nat
          /\ begun \in Nat
      BY <1>2, <2>3, StreamAssumption
    <3> HIDE DEF Part
    <3>3. \A i \in 1..(played + 2) : Part(i) <= begun'
      BY <1>3, <1>5, <3>1, <3>2
    <3>4. QED
      BY <1>1, <1>3, <1>5, <2>1, <2>3, <3>3 DEF HeardInv, HeardUpTo, Part
  <2>8. QED
    BY <1>4, <2>4, <2>5, <2>6, <2>7 DEF SoundInv
<1>6. CASE ~(played + 1 < Len(queue))
  <2>1. sourcePlaying' = FALSE /\ played' = 0 /\ begun' = begun
    BY <1>6 DEF SourceMixes, Mixer, MixerAdvances
  <2>2. SoundTypeOK'
    <3>1. played' \in 0..Len(queue)
      BY <1>3, <2>1
    <3>2. sourcePlaying' \in BOOLEAN
      BY <2>1
    <3>3. QED
      BY <1>1, <1>2, <2>1, <3>1, <3>2, Zenon DEF SoundInv, SoundTypeOK, StreamTypeOK
  <2>3. ReadInv' /\ NothingForgotten'
    BY <1>1, <2>1 DEF SoundInv, ReadInv, NothingForgotten
  <2>4. HeardInv'
    <3>1. Len(queue) = played + 1
      BY <1>3, <1>6
    <3>2. read' = parts' \/ ranDry'
      <4>1. read = parts \/ read < parts
        BY <1>2, StreamAssumption
      <4>2. read < parts => ranDry'
        BY <1>1, <2>1, Zenon
      <4>3. QED
        BY <1>1, <4>1, <4>2, Zenon
    <3>3. HeardUpTo(Len(queue))' /\ HeardUpTo(processed)'
      BY <1>1, <1>3, <2>1, <3>1 DEF HeardUpTo
    <3>4. QED
      BY <1>1, <1>3, <2>1, <3>2, <3>3 DEF HeardInv, HeardUpTo
  <2>5. QED
    BY <1>4, <2>2, <2>3, <2>4 DEF SoundInv
<1>7. QED
  BY <1>5, <1>6

-----------------------------------------------------------------------------
(***************************************************************************)
(* The sound's invariant holds, and what follows from it.                  *)
(***************************************************************************)

LEMMA InitSound == Init => SoundInv
<1> SUFFICES ASSUME Init PROVE SoundInv
  OBVIOUS
<1>1. SoundTypeOK
  <2>1. queue \in Seq(Buffers) /\ Len(queue) = 0
    BY DEF Init
  <2>2. content \in [Buffers -> 0..MaxParts] /\ taken \in 0..(NUM_BUFFERS + 1)
    BY SourceAssumption, StreamAssumption DEF Init, Buffers
  <2>3. /\ played \in 0..Len(queue) /\ processed \in 0..Len(queue)
        /\ begun \in 0..MaxParts /\ parts \in 0..MaxParts /\ read \in 0..parts
    BY <2>1, StreamAssumption DEF Init
  <2>4. /\ sourcePlaying = FALSE /\ m_pAudio = FALSE /\ lastIsShort = FALSE
        /\ m_bFinished = FALSE /\ m_bStreams = FALSE /\ ranDry = FALSE
        /\ m_bPlaying = FALSE /\ lost = {} /\ pc = "idle"
    BY DEF Init
  <2>5. QED
    BY <2>1, <2>2, <2>3, <2>4, Zenon DEF SoundTypeOK, StreamTypeOK
<1>2. PhaseInv /\ ReadInv /\ HeardInv /\ OwnerInv /\ QueueInOrder /\ NothingForgotten
  BY DEF Init, PhaseInv, ReadInv, HeardInv, HeardUpTo, OwnerInv, QueueInOrder,
         NothingForgotten
<1>3. QED
  BY <1>1, <1>2 DEF SoundInv

LEMMA SoundInductive == SoundInv /\ [Next]_vars => SoundInv'
<1> SUFFICES ASSUME SoundInv, [Next]_vars PROVE SoundInv'
  OBVIOUS
<1>1. ASSUME PlayFails PROVE SoundInv'
  BY <1>1, ClosedSound DEF PlayFails, Stop
<1>2. ASSUME NEW n, NEW without, PlaySilently(n, without) PROVE SoundInv'
  BY <1>2, ClosedSound DEF PlaySilently
<1>3. ASSUME NEW n, NEW without, NEW sound \in 0..MaxParts, NEW short \in BOOLEAN,
             PlayWithSound(n, without, sound, short)
      PROVE  SoundInv'
  BY <1>3, OpenedSound DEF PlayWithSound
<1>4. ASSUME QueueInitial PROVE SoundInv'
  BY <1>4, QueuedSound
<1>5. ASSUME StartSound PROVE SoundInv'
  BY <1>5, StartedSound
<1>6. ASSUME NEW time, VidInit(time) PROVE SoundInv'
  BY <1>6, ClosedSound DEF VidInit, Stop
<1>7. ASSUME Redraw PROVE SoundInv'
  <2>1. CASE m_bPlaying /\ m_pAudio /\ m_bStreams
    BY <1>7, <2>1, CountedSound DEF Redraw, playerVars
  <2>2. CASE ~(m_bPlaying /\ m_pAudio /\ m_bStreams)
    <3>1. /\ pc = "idle" /\ pc' \in {"idle", "picture"}
          /\ UNCHANGED audioVars /\ UNCHANGED m_bPlaying
      BY <1>7, <2>2 DEF Redraw, playerVars
    <3>2. QED
      BY <3>1, SameSound
  <2>3. QED
    BY <2>1, <2>2
<1>8. ASSUME UpdateSound PROVE SoundInv'
  BY <1>8, TakenSound, RefilledSound DEF UpdateSound
<1>9. ASSUME SoundUpdated PROVE SoundInv'
  BY <1>9, UpdatedSound
<1>10. ASSUME UpdatePicture PROVE SoundInv'
  <2>1. pc = "picture" /\ pc' = "idle"
    BY <1>10 DEF UpdatePicture
  <2>2. CASE NothingLeft
    BY <1>10, <2>1, <2>2, ClosedSound DEF UpdatePicture, Stop
  <2>3. CASE ~NothingLeft
    <3>1. UNCHANGED audioVars /\ UNCHANGED m_bPlaying
      BY <1>10, <2>3 DEF UpdatePicture
    <3>2. QED
      BY <2>1, <3>1, SameSound
  <2>4. QED
    BY <2>2, <2>3
<1>11. ASSUME Tick PROVE SoundInv'
  <2>1. UNCHANGED audioVars /\ UNCHANGED m_bPlaying /\ pc' = pc
    BY <1>11 DEF Tick, playerVars
  <2>2. QED
    BY <2>1, SameSound
<1>12. ASSUME SourceMixes PROVE SoundInv'
  BY <1>12, MixedSound
<1>13. CASE UNCHANGED vars
  <2>1. UNCHANGED audioVars /\ UNCHANGED m_bPlaying /\ pc' = pc
    BY <1>13 DEF vars, playerVars
  <2>2. QED
    BY <2>1, SameSound
<1>14. ASSUME PlayVideo PROVE SoundInv'
  BY <1>1, <1>2, <1>3, <1>14 DEF PlayVideo
<1> HIDE DEF SoundInv
<1>15. QED
  BY <1>4, <1>5, <1>6, <1>7, <1>8, <1>9, <1>10, <1>11, <1>12, <1>13, <1>14 DEF Next

THEOREM SoundCorrect == Spec => []SoundInv
<1>1. QED
  BY InitSound, SoundInductive, PTL DEF Spec

\* The parts are queued in order, and the buffer that is filled is not in the queue
\* (av_stream.cpp:177 FillBuffer, 228 Update), whatever the mixer does meanwhile.
THEOREM QueuedInOrder == Spec => []QueueInOrder
<1>1. SoundInv => QueueInOrder
  BY DEF SoundInv
<1>2. QED
  BY <1>1, SoundCorrect, PTL

\* No part that was read is forgotten (av_stream.cpp:228 Update).
THEOREM PartsNotForgotten == Spec => []NothingForgotten
<1>1. SoundInv => NothingForgotten
  BY DEF SoundInv
<1>2. QED
  BY <1>1, SoundCorrect, PTL

\* A stream that ends without having run dry was heard in full (av_stream.cpp:245).
THEOREM StreamsHeardInFull == Spec => []HeardInFull
<1>1. SoundInv => HeardInFull
  <2> SUFFICES ASSUME SoundInv, m_pAudio, begun > 0, ~m_bStreams, ~ranDry,
                      NEW n \in 1..parts
               PROVE  n <= begun \/ n \in lost
    BY DEF HeardInFull
  <2>1. ~sourcePlaying
    BY DEF SoundInv, HeardInv
  <2>2. read = parts /\ HeardUpTo(Len(queue))
    BY <2>1 DEF SoundInv, HeardInv
  <2>3. n <= begun \/ n \in lost \/ \E i \in 1..Len(queue) : content[queue[i]] = n
    BY <2>2 DEF SoundInv, NothingForgotten
  <2>4. QED
    BY <2>2, <2>3 DEF HeardUpTo
<1>2. QED
  BY <1>1, SoundCorrect, PTL

\* Sound is heard only while its video plays: whatever ends or replaces the video
\* (message, command, map, end of file) ends the stream with it.
SoundWithVideo == m_pAudio \/ sourcePlaying => m_bPlaying

\* The sound ends with its video (video_player.cpp:94 Stop).
THEOREM SoundEndsWithVideo == Spec => []SoundWithVideo
<1>1. SoundInv => SoundWithVideo
  BY DEF SoundInv, HeardInv, OwnerInv, SoundWithVideo
<1>2. QED
  BY <1>1, SoundCorrect, PTL

-----------------------------------------------------------------------------
(***************************************************************************)
(* The pictures.                                                           *)
(***************************************************************************)

\* The pictures still in the file, packet by packet
LEMMA PicturesBound ==
    ASSUME consumed \in Nat, NEW p \in Nat, p >= consumed
    PROVE  /\ Pictures(p) \in Nat /\ Pictures(p) <= p - consumed
           /\ p = consumed => Pictures(p) = 0
           /\ p > consumed => Pictures(p) <= Pictures(p - 1) + 1
<1> DEFINE Left(q) == (consumed + 1)..q \ empty
<1>1. \A q \in Int : IsFiniteSet((consumed + 1)..q)
  BY FS_Interval
<1>2. \A q \in Int : IsFiniteSet(Left(q)) /\ Cardinality(Left(q)) \in Nat
                     /\ Cardinality(Left(q)) <= Cardinality((consumed + 1)..q)
  <2> SUFFICES ASSUME NEW q \in Int
               PROVE  IsFiniteSet(Left(q)) /\ Cardinality(Left(q)) \in Nat
                      /\ Cardinality(Left(q)) <= Cardinality((consumed + 1)..q)
    OBVIOUS
  <2>1. Left(q) \in SUBSET ((consumed + 1)..q)
    OBVIOUS
  <2>2. IsFiniteSet(Left(q)) /\ Cardinality(Left(q)) <= Cardinality((consumed + 1)..q)
    BY <1>1, <2>1, FS_Subset
  <2>3. QED
    BY <2>2, FS_CardinalityType
<1>3. Cardinality((consumed + 1)..p) = p - consumed
  <2>1. Cardinality((consumed + 1)..p)
          = IF consumed + 1 > p THEN 0 ELSE p - (consumed + 1) + 1
    <3>1. consumed + 1 \in Int /\ p \in Int
      OBVIOUS
    <3>2. QED
      BY <3>1, FS_Interval
  <2>2. QED
    BY <2>1
<1>4. ASSUME p > consumed
      PROVE  Pictures(p) <= Pictures(p - 1) + 1
  <2>1. /\ IsFiniteSet(Left(p - 1)) /\ IsFiniteSet(Left(p))
        /\ Cardinality(Left(p - 1)) \in Nat /\ Cardinality(Left(p)) \in Nat
    <3>1. p \in Int /\ p - 1 \in Int
      OBVIOUS
    <3> HIDE DEF Left
    <3>2. QED
      BY <1>2, <3>1
  <2>2. /\ IsFiniteSet(Left(p - 1) \cup {p})
        /\ Cardinality(Left(p - 1) \cup {p}) <= Cardinality(Left(p - 1)) + 1
    BY <2>1, FS_AddElement
  <2>3. Left(p) \in SUBSET (Left(p - 1) \cup {p})
    BY <1>4
  <2>4. Cardinality(Left(p)) <= Cardinality(Left(p - 1) \cup {p})
    BY <2>2, <2>3, FS_Subset
  <2>5. Cardinality(Left(p - 1) \cup {p}) \in Nat
    BY <2>2, FS_CardinalityType
  <2>6. Cardinality(Left(p)) <= Cardinality(Left(p - 1)) + 1
    <3> HIDE DEF Left
    <3>1. QED
      BY <2>1, <2>2, <2>4, <2>5
  <2>7. QED
    BY <2>6 DEF Pictures
<1>5. QED
  BY <1>2, <1>3, <1>4 DEF Pictures

\* The types the pictures need
PictureTypeOK ==
    /\ DecoderTypeOK
    /\ m_bPlaying \in BOOLEAN
    /\ m_flStartTime \in 0..MaxTime
    /\ m_flTime \in 0..(MaxTime + MaxPackets + 1)
    /\ clock \in 0..(MaxTime + MaxPackets + 1)
    /\ drawn \in NotDrawn..MaxPackets
    /\ pc \in {"idle", "queue", "sound", "picture"}
    /\ plays \in 0..MaxPlays

\* What was drawn is what was decoded, and time does not go back in a video that
\* has shown a picture.
DrawnInv ==
    /\ m_bVideoFinished => consumed = packets
    /\ drawn = m_iFrameIndex \/ (drawn = NotDrawn /\ m_iFrameIndex = 0)
    /\ pc \in {"sound", "picture"} => m_flTime = clock
    /\ pc = "queue" => drawn = NotDrawn
    /\ m_bPlaying /\ m_iFrameIndex > 0 =>
         m_flTime <= clock /\ m_iFrameIndex <= Due + 1

\* In the decoder's own count of pictures, a drawn picture is the one its time asks
\* for, or the last one of the file.
CountedInTime ==
    m_bPlaying /\ pc = "idle" /\ drawn # NotDrawn =>
      \/ drawn = Due + 1
      \/ drawn = 0 /\ Due < 0
      \/ drawn < Due + 1 /\ drawn = m_iFrameIndex /\ Pictures(packets) = 0

PictureInv == PictureTypeOK /\ DrawnInv /\ CountedInTime

\* DecodeToTime stops at the picture that is due, or at the end of the file.
LEMMA DecodedPicture ==
    ASSUME DecoderTypeOK, m_bVideoFinished => consumed = packets,
           NEW due \in Int, DecodeToTime(due)
    PROVE  /\ DecoderTypeOK'
           /\ m_bVideoFinished' => consumed' = packets'
           /\ \/ UNCHANGED m_iFrameIndex /\ (m_bVideoFinished \/ m_iFrameIndex >= due + 1)
              \/ m_iFrameIndex' = due + 1
              \/ /\ m_iFrameIndex' < due + 1 /\ consumed' = packets'
                 /\ m_iFrameIndex' > 0 => due >= 0
<1> DEFINE wanted == due + 1 - m_iFrameIndex
           enough == {p \in consumed..packets : Pictures(p) >= wanted}
<1>1. /\ packets \in 0..MaxPackets /\ empty \in SUBSET (1..MaxPackets)
      /\ consumed \in 0..packets /\ m_iFrameIndex \in 0..consumed
      /\ m_bVideoFinished \in BOOLEAN
  BY DEF DecoderTypeOK
<1>2. packets \in Nat /\ consumed \in Nat /\ m_iFrameIndex \in Nat /\ wanted \in Int
  BY <1>1, DecoderAssumption
<1>3. \A p \in consumed..packets :
        /\ p \in Nat /\ Pictures(p) \in Nat /\ Pictures(p) <= p - consumed
        /\ p = consumed => Pictures(p) = 0
        /\ p > consumed => Pictures(p) <= Pictures(p - 1) + 1
  BY <1>2, PicturesBound
<1>4. CASE m_bVideoFinished \/ wanted <= 0
  <2>1. UNCHANGED decoderVars
    BY <1>4 DEF DecodeToTime
  <2>2. DecoderTypeOK' /\ (m_bVideoFinished' => consumed' = packets')
    BY <2>1 DEF decoderVars, DecoderTypeOK
  <2>3. UNCHANGED m_iFrameIndex /\ (m_bVideoFinished \/ m_iFrameIndex >= due + 1)
    BY <1>2, <1>4, <2>1 DEF decoderVars
  <2>4. QED
    BY <2>2, <2>3
<1>5. CASE ~(m_bVideoFinished \/ wanted <= 0)
  <2>1. /\ m_iFrameIndex' = m_iFrameIndex + Pictures(consumed')
        /\ packets' = packets /\ empty' = empty
    BY <1>5 DEF DecodeToTime
  <2>2. ASSUME consumed' \in consumed..packets
        PROVE  consumed' \in 0..packets' /\ m_iFrameIndex' \in 0..consumed'
    BY <1>1, <1>2, <1>3, <2>1, <2>2
  <2>3. CASE enough # {}
    <3>1. /\ consumed' \in enough /\ \A p \in enough : consumed' <= p
          /\ m_bVideoFinished' = m_bVideoFinished
      BY <1>5, <2>3 DEF DecodeToTime
    <3>2. consumed' \in consumed..packets /\ Pictures(consumed') >= wanted
      BY <3>1
    <3>3. consumed' > consumed
      BY <1>2, <1>3, <1>5, <3>2
    <3>4. consumed' - 1 \in consumed..packets /\ consumed' - 1 \notin enough
      <4> DEFINE last == consumed'
      <4>1. last \in consumed..packets /\ last > consumed
        BY <3>2, <3>3
      <4>2. \A p \in enough : last <= p
        BY <3>1
      <4> HIDE DEF last
      <4>3. last - 1 \in consumed..packets /\ ~(last <= last - 1)
        BY <1>2, <4>1
      <4>4. QED
        BY <4>2, <4>3 DEF last
    <3>5. Pictures(consumed' - 1) < wanted /\ Pictures(consumed' - 1) \in Nat
      BY <1>2, <1>3, <3>4
    <3>6. Pictures(consumed') = wanted
      <4>1. /\ Pictures(consumed') \in Nat
            /\ Pictures(consumed') <= Pictures(consumed' - 1) + 1
        BY <1>3, <3>2, <3>3
      <4> HIDE DEF wanted
      <4>2. QED
        BY <1>2, <3>2, <3>5, <4>1
    <3>7. m_iFrameIndex' = due + 1
      BY <1>2, <2>1, <3>6
    <3>8. DecoderTypeOK'
      BY <1>1, <2>1, <2>2, <3>1, <3>2, Zenon DEF DecoderTypeOK
    <3>9. ~m_bVideoFinished'
      BY <1>5, <3>1, Zenon
    <3>10. QED
      BY <3>7, <3>8, <3>9
  <2>4. CASE enough = {}
    <3>1. consumed' = packets /\ m_bVideoFinished' = TRUE
      BY <1>5, <2>4 DEF DecodeToTime
    <3>2. consumed' \in consumed..packets
      BY <1>1, <1>2, <3>1
    <3>3. Pictures(consumed') < wanted /\ Pictures(consumed') \in Nat
      BY <1>2, <1>3, <2>4, <3>2
    <3>4. m_iFrameIndex' < due + 1 /\ m_iFrameIndex' \in Nat
      BY <1>2, <2>1, <3>3
    <3>5. DecoderTypeOK'
      BY <1>1, <2>1, <2>2, <3>1, <3>2, Zenon DEF DecoderTypeOK
    <3>6. QED
      BY <2>1, <3>1, <3>4, <3>5
  <2>5. QED
    BY <2>3, <2>4
<1>6. QED
  BY <1>4, <1>5

\* Play, Stop, or a change of map: nothing was drawn of the video there is.
LEMMA NoPicture ==
    ASSUME OpenVideo(packets', empty') \/ CloseVideo,
           packets' \in 0..MaxPackets, empty' \in SUBSET (1..MaxPackets),
           m_bPlaying' \in BOOLEAN, m_flStartTime' \in 0..MaxTime,
           m_flTime' \in 0..(MaxTime + MaxPackets + 1),
           clock' \in 0..(MaxTime + MaxPackets + 1),
           drawn' = NotDrawn, pc' \in {"idle", "queue"}, plays' \in 0..MaxPlays
    PROVE  PictureInv'
<1>1. /\ consumed' \in 0..packets' /\ m_iFrameIndex' = 0 /\ m_bVideoFinished' = FALSE
      /\ packets' \in Nat
  BY DecoderAssumption DEF OpenVideo, CloseVideo
<1>2. m_iFrameIndex' \in 0..consumed' /\ drawn' \in NotDrawn..MaxPackets
  BY <1>1, DecoderAssumption DEF NotDrawn
<1>3. PictureTypeOK'
  BY <1>1, <1>2, Zenon DEF PictureTypeOK, DecoderTypeOK
<1>4. DrawnInv' /\ CountedInTime'
  BY <1>1 DEF DrawnInv, CountedInTime
<1>5. QED
  BY <1>3, <1>4 DEF PictureInv

\* A step that leaves the video alone, and the time of a video unless it goes on
LEMMA SamePicture ==
    ASSUME PictureInv, UNCHANGED decoderVars, UNCHANGED playerVars,
           UNCHANGED m_flTime, UNCHANGED plays,
           clock' \in 0..(MaxTime + MaxPackets + 1), clock' >= clock,
           \/ pc' = pc /\ clock' = clock
           \/ pc' = "idle" /\ pc \in {"idle", "queue"}
           \/ pc' = "picture" /\ pc = "sound" /\ clock' = clock
    PROVE  PictureInv'
<1>1. PictureTypeOK /\ DrawnInv /\ CountedInTime
  BY DEF PictureInv
<1>2. PictureTypeOK'
  BY <1>1 DEF PictureTypeOK, DecoderTypeOK, decoderVars, playerVars
<1>3. m_flTime \in Int /\ clock \in Int /\ clock' \in Int
  BY <1>1, DecoderAssumption, PlayerAssumption DEF PictureTypeOK
<1>4. DrawnInv'
  BY <1>1, <1>3 DEF DrawnInv, Due, decoderVars, playerVars
<1>5. CountedInTime'
  BY <1>1 DEF CountedInTime, DrawnInv, Due, Pictures, decoderVars, playerVars
<1>6. QED
  BY <1>2, <1>4, <1>5 DEF PictureInv

LEMMA InitPicture == Init => PictureInv
<1> SUFFICES ASSUME Init PROVE PictureInv
  OBVIOUS
<1>1. /\ packets \in 0..MaxPackets /\ consumed \in 0..packets
      /\ m_iFrameIndex \in 0..consumed /\ drawn \in NotDrawn..MaxPackets
      /\ m_flStartTime \in 0..MaxTime /\ m_flTime \in 0..(MaxTime + MaxPackets + 1)
      /\ clock \in 0..(MaxTime + MaxPackets + 1) /\ plays \in 0..MaxPlays
  BY DecoderAssumption, PlayerAssumption DEF Init, NotDrawn
<1>2. /\ empty = {} /\ m_bVideoFinished = FALSE /\ m_bPlaying = FALSE /\ pc = "idle"
      /\ m_iFrameIndex = 0 /\ drawn = NotDrawn
  BY DEF Init
<1>3. PictureTypeOK
  BY <1>1, <1>2, Zenon DEF PictureTypeOK, DecoderTypeOK
<1>4. DrawnInv /\ CountedInTime
  BY <1>2 DEF DrawnInv, CountedInTime
<1>5. QED
  BY <1>3, <1>4 DEF PictureInv

LEMMA RedrawnPicture == PictureInv /\ Redraw => PictureInv'
<1> SUFFICES ASSUME PictureInv, Redraw PROVE PictureInv'
  OBVIOUS
<1>1. /\ pc = "idle" /\ m_flTime' = clock
      /\ UNCHANGED <<decoderVars, playerVars, clock, plays>>
      /\ pc' \in {"sound", "picture", "idle"}
      /\ m_bPlaying => pc' # "idle"
  BY DEF Redraw
<1>2. PictureTypeOK /\ DrawnInv
  BY DEF PictureInv
<1>3. PictureTypeOK'
  BY <1>1, <1>2 DEF PictureTypeOK, DecoderTypeOK, decoderVars, playerVars
<1>4. /\ m_flTime \in Int /\ clock \in Int /\ m_flStartTime \in Int
      /\ m_iFrameIndex \in Int
  BY <1>2, DecoderAssumption, PlayerAssumption DEF PictureTypeOK, DecoderTypeOK
<1>5. DrawnInv'
  BY <1>1, <1>2, <1>4 DEF DrawnInv, Due, decoderVars, playerVars
<1>6. CountedInTime'
  BY <1>1 DEF CountedInTime, playerVars
<1>7. QED
  BY <1>3, <1>5, <1>6 DEF PictureInv

LEMMA DrawnPicture == PictureInv /\ UpdatePicture => PictureInv'
<1> SUFFICES ASSUME PictureInv, UpdatePicture PROVE PictureInv'
  OBVIOUS
<1>1. PictureTypeOK /\ DrawnInv
  BY DEF PictureInv
<1>2. /\ pc = "picture" /\ pc' = "idle"
      /\ UNCHANGED <<m_flTime, clock, plays>>
  BY DEF UpdatePicture
<1>3. /\ m_flTime \in Int /\ clock \in Int /\ m_flStartTime \in Int
      /\ m_iFrameIndex \in Nat /\ Due \in Int /\ packets \in Nat /\ consumed \in Nat
  BY <1>1, DecoderAssumption, PlayerAssumption DEF PictureTypeOK, DecoderTypeOK, Due
<1>4. CASE NothingLeft
  <2>1. Stop
    BY <1>4 DEF UpdatePicture
  <2>2. /\ packets' \in 0..MaxPackets /\ empty' \in SUBSET (1..MaxPackets)
        /\ m_flStartTime' \in 0..MaxTime /\ m_bPlaying' \in BOOLEAN
    <3>1. /\ packets' = 0 /\ empty' = {} /\ m_flStartTime' = 0 /\ m_bPlaying' = FALSE
      BY <2>1 DEF Stop, CloseVideo
    <3>2. 0 \in 0..MaxPackets /\ 0 \in 0..MaxTime
      BY DecoderAssumption, PlayerAssumption
    <3>3. QED
      BY <3>1, <3>2, Zenon
  <2>3. QED
    BY <1>1, <1>2, <2>1, <2>2, NoPicture DEF Stop, PictureTypeOK
<1>5. CASE ~NothingLeft
  <2>1. /\ DecodeToTime(Due) /\ drawn' = m_iFrameIndex'
        /\ UNCHANGED <<m_bPlaying, m_flStartTime>>
    BY <1>5 DEF UpdatePicture
  <2>2. ~m_bVideoFinished
    BY <1>5 DEF NothingLeft
  <2>3. /\ DecoderTypeOK'
        /\ m_bVideoFinished' => consumed' = packets'
        /\ \/ UNCHANGED m_iFrameIndex /\ m_iFrameIndex >= Due + 1
           \/ m_iFrameIndex' = Due + 1
           \/ /\ m_iFrameIndex' < Due + 1 /\ consumed' = packets'
              /\ m_iFrameIndex' > 0 => Due >= 0
    <3>1. DecoderTypeOK /\ (m_bVideoFinished => consumed = packets)
      BY <1>1 DEF PictureTypeOK, DrawnInv
    <3>2. QED
      BY <1>3, <2>1, <2>2, <3>1, DecodedPicture
  <2>4. Due' = Due /\ m_flTime' = m_flTime /\ clock' = clock /\ m_flTime = clock
    BY <1>1, <1>2, <2>1 DEF Due, DrawnInv
  <2>5. m_iFrameIndex' \in Nat /\ consumed' \in Nat
        /\ packets' \in Nat /\ m_iFrameIndex' <= MaxPackets
    BY <2>3, DecoderAssumption DEF DecoderTypeOK
  <2>6. PictureTypeOK'
    <3>1. drawn' \in NotDrawn..MaxPackets
      BY <2>1, <2>5, DecoderAssumption DEF NotDrawn
    <3>2. QED
      BY <1>1, <1>2, <2>1, <2>3, <3>1, Zenon DEF PictureTypeOK
  <2>7. m_bPlaying => m_iFrameIndex' = 0 \/ m_iFrameIndex' <= Due + 1
    BY <1>1, <1>3, <2>3, <2>5 DEF DrawnInv
  <2>8. DrawnInv'
    BY <1>2, <1>3, <2>1, <2>3, <2>4, <2>5, <2>7 DEF DrawnInv
  <2>9. CountedInTime'
    <3> SUFFICES ASSUME m_bPlaying
                 PROVE  \/ drawn' = Due + 1
                        \/ drawn' = 0 /\ Due < 0
                        \/ /\ drawn' < Due + 1 /\ drawn' = m_iFrameIndex'
                           /\ Pictures(packets)' = 0
      BY <2>1, <2>4 DEF CountedInTime
    <3>1. CASE m_iFrameIndex' = Due + 1
      BY <2>1, <3>1
    <3>2. CASE UNCHANGED m_iFrameIndex /\ m_iFrameIndex >= Due + 1
      BY <1>3, <2>1, <2>7, <3>2
    <3>3. CASE m_iFrameIndex' < Due + 1 /\ consumed' = packets'
      <4>1. (consumed' + 1)..packets' \ empty' = {}
        BY <2>5, <3>3
      <4>2. Pictures(packets)' = 0
        BY <4>1, FS_EmptySet DEF Pictures
      <4>3. QED
        BY <2>1, <3>3, <4>2
    <3>4. QED
      BY <2>3, <3>1, <3>2, <3>3
  <2>10. QED
    BY <2>6, <2>8, <2>9 DEF PictureInv
<1>6. QED
  BY <1>4, <1>5

LEMMA PictureInductive == PictureInv /\ [Next]_vars => PictureInv'
<1> SUFFICES ASSUME PictureInv, [Next]_vars PROVE PictureInv'
  OBVIOUS
<1>1. PictureTypeOK /\ DrawnInv
  BY DEF PictureInv
<1>2. /\ clock \in Nat /\ plays \in Nat /\ m_flTime \in Nat /\ m_flStartTime \in Nat
      /\ MaxPlays \in Nat /\ MaxTime \in Nat /\ MaxPackets \in Nat
  BY <1>1, DecoderAssumption, PlayerAssumption DEF PictureTypeOK
<1>3. ASSUME PlayFails PROVE PictureInv'
  <2>1. Stop /\ pc = "idle" /\ UNCHANGED <<m_flTime, clock, pc, plays>>
    BY <1>3 DEF PlayFails
  <2>2. /\ packets' = 0 /\ empty' = {} /\ m_flStartTime' = 0 /\ m_bPlaying' = FALSE
        /\ CloseVideo /\ drawn' = NotDrawn
    BY <2>1 DEF Stop, CloseVideo
  <2>3. /\ packets' \in 0..MaxPackets /\ empty' \in SUBSET (1..MaxPackets)
        /\ m_flStartTime' \in 0..MaxTime
    BY <1>2, <2>2
  <2>4. m_bPlaying' \in BOOLEAN
    BY <2>2, Zenon
  <2>5. QED
    BY <1>1, <2>1, <2>2, <2>3, <2>4, NoPicture DEF PictureTypeOK
<1>4. ASSUME NEW n \in 1..MaxPackets, NEW without \in SUBSET (1..n),
             m_flTime <= MaxTime, pc' \in {"idle", "queue"},
             OpenVideo(n, without), plays < MaxPlays, plays' = plays + 1,
             m_bPlaying' = TRUE, m_flStartTime' = m_flTime, drawn' = NotDrawn,
             UNCHANGED <<m_flTime, clock>>
      PROVE  PictureInv'
  <2>1. /\ packets' = n /\ empty' = without
        /\ packets' \in 0..MaxPackets /\ empty' \in SUBSET (1..MaxPackets)
    BY <1>2, <1>4 DEF OpenVideo
  <2>2. m_flStartTime' \in 0..MaxTime /\ plays' \in 0..MaxPlays
    BY <1>2, <1>4
  <2>3. QED
    BY <1>1, <1>4, <2>1, <2>2, NoPicture DEF PictureTypeOK
<1>5. ASSUME PlayVideo PROVE PictureInv'
  <2>1. CASE PlayFails
    BY <1>3, <2>1
  <2>2. CASE ~PlayFails
    <3>1. PICK n \in 1..MaxPackets : \E without \in SUBSET (1..n) :
            /\ m_flTime <= MaxTime
            /\ \/ PlaySilently(n, without)
               \/ \E sound \in 0..MaxParts, short \in BOOLEAN :
                    PlayWithSound(n, without, sound, short)
      BY <1>5, <2>2 DEF PlayVideo
    <3>2. PICK without \in SUBSET (1..n) :
            /\ m_flTime <= MaxTime
            /\ \/ PlaySilently(n, without)
               \/ \E sound \in 0..MaxParts, short \in BOOLEAN :
                    PlayWithSound(n, without, sound, short)
      BY <3>1
    <3>3. /\ pc' \in {"idle", "queue"} /\ OpenVideo(n, without)
          /\ plays < MaxPlays /\ plays' = plays + 1
          /\ m_bPlaying' = TRUE /\ m_flStartTime' = m_flTime /\ drawn' = NotDrawn
          /\ UNCHANGED <<m_flTime, clock>>
      BY <3>2 DEF PlaySilently, PlayWithSound
    <3>4. QED
      BY <1>4, <3>2, <3>3
  <2>3. QED
    BY <2>1, <2>2
<1>6. ASSUME UNCHANGED <<decoderVars, playerVars, m_flTime, clock, plays>>,
             \/ pc' = pc
             \/ pc = "queue" /\ pc' = "idle"
             \/ pc = "sound" /\ pc' = "picture"
      PROVE  PictureInv'
  <2>1. /\ UNCHANGED decoderVars /\ UNCHANGED playerVars
        /\ UNCHANGED m_flTime /\ UNCHANGED plays
        /\ clock' = clock /\ clock' >= clock
        /\ clock' \in 0..(MaxTime + MaxPackets + 1)
    BY <1>1, <1>2, <1>6 DEF PictureTypeOK
  <2>2. \/ pc' = pc /\ clock' = clock
        \/ pc' = "idle" /\ pc \in {"idle", "queue"}
        \/ pc' = "picture" /\ pc = "sound" /\ clock' = clock
    BY <1>6, <2>1
  <2>3. QED
    BY <2>1, <2>2, SamePicture
<1>7. ASSUME QueueInitial \/ StartSound \/ UpdateSound \/ SoundUpdated \/ SourceMixes
      PROVE  PictureInv'
  <2>1. /\ UNCHANGED <<decoderVars, playerVars, m_flTime, clock, plays>>
        /\ \/ pc' = pc
           \/ pc = "queue" /\ pc' = "idle"
           \/ pc = "sound" /\ pc' = "picture"
    BY <1>7 DEF QueueInitial, StartSound, UpdateSound, SoundUpdated, SourceMixes
  <2>2. QED
    BY <1>6, <2>1
<1>8. ASSUME NEW time \in {0, clock}, VidInit(time) PROVE PictureInv'
  <2>1. Stop /\ pc = "idle" /\ clock' = time /\ UNCHANGED <<m_flTime, pc, plays>>
    BY <1>8 DEF VidInit
  <2>2. /\ packets' = 0 /\ empty' = {} /\ m_flStartTime' = 0 /\ m_bPlaying' = FALSE
        /\ CloseVideo /\ drawn' = NotDrawn
    BY <2>1 DEF Stop, CloseVideo
  <2>3. clock' \in 0..(MaxTime + MaxPackets + 1)
    BY <1>1, <1>2, <2>1 DEF PictureTypeOK
  <2>4. /\ packets' \in 0..MaxPackets /\ empty' \in SUBSET (1..MaxPackets)
        /\ m_flStartTime' \in 0..MaxTime
    BY <1>2, <2>2
  <2>5. m_bPlaying' \in BOOLEAN
    BY <2>2, Zenon
  <2>6. QED
    BY <1>1, <2>1, <2>2, <2>3, <2>4, <2>5, NoPicture DEF PictureTypeOK
<1>9. ASSUME Tick PROVE PictureInv'
  <2>1. /\ pc = "idle" /\ pc' = "idle" /\ clock' = clock + 1
        /\ UNCHANGED decoderVars /\ UNCHANGED playerVars
        /\ UNCHANGED m_flTime /\ UNCHANGED plays
        /\ clock < MaxTime + MaxPackets + 1
    BY <1>9 DEF Tick
  <2>2. clock' \in 0..(MaxTime + MaxPackets + 1) /\ clock' >= clock
    BY <1>2, <2>1
  <2>3. pc' = "idle" /\ pc \in {"idle", "queue"}
    BY <2>1
  <2>4. QED
    BY <2>1, <2>2, <2>3, SamePicture
<1>10. CASE UNCHANGED vars
  BY <1>6, <1>10 DEF vars
<1> HIDE DEF PictureInv
<1>11. QED
  BY <1>5, <1>7, <1>8, <1>9, <1>10, RedrawnPicture, DrawnPicture DEF Next

THEOREM PicturesCorrect == Spec => []PictureInv
<1>1. QED
  BY InitPicture, PictureInductive, PTL DEF Spec

\* The variables of the player, its decoder and its stream keep their types.
THEOREM VideoTypeCorrect == Spec => []TypeOK
<1>1. SoundInv /\ PictureInv => TypeOK
  BY DEF SoundInv, SoundTypeOK, PictureInv, PictureTypeOK, TypeOK
<1>2. QED
  BY <1>1, SoundCorrect, PicturesCorrect, PTL

\* Each packet between two places of the file brings a picture or is silent.
LEMMA SilentCounted ==
    ASSUME NEW c \in Nat, NEW d \in Nat, c <= d, NEW E
    PROVE  /\ Cardinality(E \cap 1..c) \in Nat
           /\ Cardinality(E \cap 1..d)
                = Cardinality(E \cap 1..c) + (d - c) - Cardinality((c + 1)..d \ E)
<1> DEFINE Early == E \cap 1..c
           Later == (c + 1)..d \cap E
           Read == (c + 1)..d
<1>1. IsFiniteSet(Read) /\ IsFiniteSet(1..c) /\ Cardinality(Read) = d - c
  <2>1. IsFiniteSet(Read) /\ Cardinality(Read) = IF c + 1 > d THEN 0 ELSE d - (c + 1) + 1
    <3>1. c + 1 \in Int /\ d \in Int
      OBVIOUS
    <3>2. QED
      BY <3>1, FS_Interval
  <2>2. IsFiniteSet(1..c)
    <3>1. 1 \in Int /\ c \in Int
      OBVIOUS
    <3>2. QED
      BY <3>1, FS_Interval
  <2> HIDE DEF Read
  <2>3. QED
    BY <2>1, <2>2
<1>2. IsFiniteSet(Early) /\ IsFiniteSet(Later)
  <2> HIDE DEF Read
  <2>1. IsFiniteSet(Early)
    BY <1>1, FS_Intersection
  <2>2. IsFiniteSet(Read \cap E)
    BY <1>1, FS_Intersection
  <2>3. QED
    BY <2>1, <2>2 DEF Read
<1>3. Cardinality(Read \ E) = Cardinality(Read) - Cardinality(Read \cap E)
  <2> HIDE DEF Read
  <2>1. QED
    BY <1>1, FS_Difference
<1>4. E \cap 1..d = Early \cup Later /\ Early \cap Later = {}
  OBVIOUS
<1>5. Cardinality(Early \cup Later)
        = Cardinality(Early) + Cardinality(Later) - Cardinality(Early \cap Later)
  <2> HIDE DEF Early, Later
  <2>1. QED
    BY <1>2, FS_Union
<1>6. Cardinality(Early \cap Later) = 0
  BY <1>4, FS_EmptySet, Zenon
<1>7. Cardinality(Early) \in Nat /\ Cardinality(Later) \in Nat
  <2> HIDE DEF Early, Later
  <2>1. QED
    BY <1>2, FS_CardinalityType
<1>8. /\ Cardinality(E \cap 1..d) = Cardinality(Early \cup Later)
      /\ Cardinality(Read \ E) = (d - c) - Cardinality(Later)
  BY <1>1, <1>3, <1>4
<1> HIDE DEF Early, Later
<1>9. Cardinality(E \cap 1..d) = Cardinality(Early) + Cardinality(Later)
  BY <1>5, <1>6, <1>7, <1>8
<1>10. /\ Cardinality(Early) \in Nat
       /\ Cardinality(E \cap 1..d)
            = Cardinality(Early) + (d - c) - Cardinality((c + 1)..d \ E)
  BY <1>7, <1>8, <1>9
<1>11. QED
  BY <1>10 DEF Early

LEMMA SilentCountable ==
    ASSUME NEW c \in Nat, NEW E
    PROVE  Cardinality(E \cap 1..c) \in Nat
<1>1. c <= c
  OBVIOUS
<1>2. QED
  BY <1>1, SilentCounted

\* The packets read so far each brought a picture, but for the silent ones and the
\* one the headers may have taken.
AheadInv == consumed - m_iFrameIndex <= Cardinality(Silent) + 1

\* Opening or closing a video reads one packet at most.
LEMMA NothingRead ==
    ASSUME OpenVideo(packets', empty') \/ CloseVideo
    PROVE  AheadInv'
<1>1. consumed' \in {0, 1} /\ m_iFrameIndex' = 0
  BY DEF OpenVideo, CloseVideo
<1>2. Cardinality(Silent)' \in Nat
  <2>1. consumed' \in Nat
    BY <1>1
  <2>2. Cardinality(empty' \cap 1..consumed') \in Nat
    BY <2>1, SilentCountable, Zenon
  <2>3. QED
    BY <2>2 DEF Silent
<1>3. QED
  BY <1>1, <1>2 DEF AheadInv

LEMMA AheadInductive == PictureInv /\ AheadInv /\ [Next]_vars => AheadInv'
<1> SUFFICES ASSUME PictureInv, AheadInv, [Next]_vars PROVE AheadInv'
  OBVIOUS
<1>1. ASSUME UNCHANGED decoderVars PROVE AheadInv'
  BY <1>1 DEF AheadInv, Silent, decoderVars
<1>2. ASSUME DecodeToTime(Due) PROVE AheadInv'
  <2>1. CASE UNCHANGED decoderVars
    BY <1>1, <2>1
  <2>2. CASE ~UNCHANGED decoderVars
    <3>1. /\ consumed' \in consumed..packets
          /\ m_iFrameIndex' = m_iFrameIndex + Pictures(consumed') /\ empty' = empty
      <4>1. consumed \in 0..packets /\ packets \in Nat
        BY DecoderAssumption DEF PictureInv, PictureTypeOK, DecoderTypeOK
      <4>2. QED
        BY <1>2, <2>2, <4>1 DEF DecodeToTime
    <3>2. consumed \in Nat /\ consumed' \in Nat /\ consumed <= consumed'
          /\ m_iFrameIndex \in Nat
      BY <3>1, DecoderAssumption DEF PictureInv, PictureTypeOK, DecoderTypeOK
    <3>3. Pictures(consumed') \in Nat
      BY <3>2, PicturesBound
    <3>4. /\ Cardinality(empty \cap 1..consumed) \in Nat
          /\ Cardinality(empty \cap 1..consumed')
               = Cardinality(empty \cap 1..consumed) + (consumed' - consumed)
                   - Cardinality((consumed + 1)..consumed' \ empty)
      <4> DEFINE c == consumed
                 d == consumed'
      <4>1. c \in Nat /\ d \in Nat /\ c <= d
        BY <3>2
      <4> HIDE DEF c, d
      <4>2. /\ Cardinality(empty \cap 1..c) \in Nat
            /\ Cardinality(empty \cap 1..d)
                 = Cardinality(empty \cap 1..c) + (d - c)
                     - Cardinality((c + 1)..d \ empty)
        BY <4>1, SilentCounted
      <4>3. QED
        BY <4>2 DEF c, d
    <3>5. /\ Cardinality(Silent)' = Cardinality(empty \cap 1..consumed')
          /\ Cardinality(Silent) = Cardinality(empty \cap 1..consumed)
          /\ Pictures(consumed') = Cardinality((consumed + 1)..consumed' \ empty)
      BY <3>1 DEF Silent, Pictures
    <3>6. /\ Cardinality(Silent) \in Nat
          /\ Cardinality(Silent)'
               = Cardinality(Silent) + (consumed' - consumed) - Pictures(consumed')
      BY <3>4, <3>5
    <3>7. QED
      BY <3>1, <3>2, <3>3, <3>6 DEF AheadInv
  <2>3. QED
    BY <2>1, <2>2
<1>3. CASE PlayVideo
  <2>1. OpenVideo(packets', empty') \/ CloseVideo
    BY <1>3 DEF PlayVideo, PlayFails, PlaySilently, PlayWithSound, Stop, OpenVideo
  <2>2. QED
    BY <2>1, NothingRead
<1>4. CASE \E time \in {0, clock} : VidInit(time)
  BY <1>4, NothingRead DEF VidInit, Stop
<1>5. CASE UpdatePicture
  BY <1>2, <1>5, NothingRead DEF UpdatePicture, Stop
<1>6. CASE QueueInitial \/ StartSound \/ Redraw \/ UpdateSound \/ SoundUpdated
           \/ Tick \/ SourceMixes \/ UNCHANGED vars
  <2>1. UNCHANGED decoderVars
    BY <1>6 DEF QueueInitial, StartSound, Redraw, UpdateSound, SoundUpdated, Tick,
       SourceMixes, vars
  <2>2. QED
    BY <1>1, <2>1
<1>7. QED
  BY <1>3, <1>4, <1>5, <1>6 DEF Next

\* A video that is shown is never late, and ahead of its time only by the packets
\* without a picture and one the headers may take (theora_decoder.cpp:294
\* DecodeToTime, :337-352 DecodeNextFrame, video_player.cpp:125 Update).
THEOREM PicturesInTime == Spec => []NeverLateNorFarAhead
<1>1. Init => AheadInv
  <2> SUFFICES ASSUME Init PROVE AheadInv
    OBVIOUS
  <2>1. consumed = 0 /\ m_iFrameIndex = 0 /\ Silent = {}
    BY DEF Init, Silent
  <2>2. Cardinality(Silent) = 0
    BY <2>1, FS_EmptySet
  <2>3. QED
    BY <2>1, <2>2 DEF AheadInv
<1>2. PictureInv /\ AheadInv => NeverLateNorFarAhead
  <2> SUFFICES ASSUME PictureInv, AheadInv, m_bPlaying, pc = "idle", drawn # NotDrawn
               PROVE  /\ drawn = m_iFrameIndex
                      /\ Due >= consumed => Pictures(packets) = 0
                      /\ consumed <= (IF Due < 0 THEN 0 ELSE Due + 1)
                                       + Cardinality(Silent) + 1
    BY DEF NeverLateNorFarAhead
  <2>1. /\ drawn = m_iFrameIndex /\ m_iFrameIndex \in Nat /\ consumed \in Nat
        /\ m_iFrameIndex <= consumed /\ Due \in Int
    BY DecoderAssumption, PlayerAssumption
    DEF PictureInv, PictureTypeOK, DecoderTypeOK, DrawnInv, Due
  <2>2. \/ drawn = Due + 1
        \/ drawn = 0 /\ Due < 0
        \/ drawn < Due + 1 /\ Pictures(packets) = 0
    BY DEF PictureInv, CountedInTime
  <2>3. Cardinality(Silent) \in Nat
    BY <2>1, SilentCountable, Zenon DEF Silent
  <2>4. m_iFrameIndex <= (IF Due < 0 THEN 0 ELSE Due + 1)
    BY <2>1, <2>2
  <2>5. consumed <= (IF Due < 0 THEN 0 ELSE Due + 1) + Cardinality(Silent) + 1
    BY <2>1, <2>3, <2>4 DEF AheadInv
  <2>6. Due >= consumed => Pictures(packets) = 0
    BY <2>1, <2>2
  <2>7. QED
    BY <2>1, <2>5, <2>6
<1>3. Spec => []AheadInv
  BY <1>1, PicturesCorrect, AheadInductive, PTL DEF Spec
<1>4. QED
  BY <1>2, <1>3, PicturesCorrect, PTL

\* A video that ends by itself has shown its last picture (video_player.cpp:135).
THEOREM LastPictureShown == Spec => EndsAfterLastPicture
<1>1. ASSUME PictureInv, [Next]_vars, pc = "picture", m_bPlaying, ~m_bPlaying'
      PROVE  Pictures(packets) = 0 /\ (drawn = m_iFrameIndex \/ m_iFrameIndex = 0)
  <2>1. drawn = m_iFrameIndex \/ m_iFrameIndex = 0
    BY <1>1 DEF PictureInv, DrawnInv
  <2>2. UpdatePicture
    BY <1>1 DEF Next, PlayVideo, PlayFails, PlaySilently, PlayWithSound, QueueInitial,
       StartSound, VidInit, Redraw, UpdateSound, SoundUpdated, Tick, SourceMixes, vars,
       playerVars
  <2>3. m_bVideoFinished \/ Pictures(packets) = 0
    BY <1>1, <2>2 DEF UpdatePicture, NothingLeft
  <2>4. ASSUME m_bVideoFinished PROVE Pictures(packets) = 0
    <3>1. consumed = packets /\ packets \in Nat
      BY <1>1, <2>4, DecoderAssumption
      DEF PictureInv, PictureTypeOK, DecoderTypeOK, DrawnInv
    <3>2. QED
      BY <3>1, PicturesBound
  <2>5. QED
    BY <2>1, <2>3, <2>4
<1>2. QED
  BY <1>1, PicturesCorrect, PTL DEF Spec, EndsAfterLastPicture

-----------------------------------------------------------------------------
(***************************************************************************)
(* The player implements Screening.                                        *)
(***************************************************************************)

\* What the audience does not notice
Unnoticed == UNCHANGED <<m_bPlaying, begun, lost, drawn>>

\* Update runs only while a video plays.
BusyInv == pc # "idle" => m_bPlaying

LEMMA BusyInductive == BusyInv /\ SoundInv /\ [Next]_vars => BusyInv'
<1> SUFFICES ASSUME BusyInv, SoundInv, [Next]_vars PROVE BusyInv'
  OBVIOUS
<1>1. CASE PlayVideo
  <2>1. pc' = "idle" \/ m_bPlaying' = TRUE
    BY <1>1 DEF PlayVideo, PlayFails, PlaySilently, PlayWithSound
  <2>2. QED
    BY <2>1 DEF BusyInv
<1>2. CASE QueueInitial \/ StartSound \/ UpdateSound \/ SoundUpdated \/ SourceMixes
           \/ Tick \/ UNCHANGED vars
  <2>1. m_bPlaying' = m_bPlaying /\ (pc' = "idle" \/ pc # "idle")
    BY <1>2 DEF QueueInitial, StartSound, UpdateSound, SoundUpdated, SourceMixes, Tick,
       vars, playerVars
  <2>2. QED
    BY <2>1 DEF BusyInv
<1>3. CASE \E time \in {0, clock} : VidInit(time)
  BY <1>3 DEF VidInit, BusyInv
<1>4. CASE Redraw
  <2>1. m_bPlaying' = m_bPlaying /\ (m_bPlaying \/ pc' = "idle")
    BY <1>4 DEF Redraw, playerVars
  <2>2. QED
    BY <2>1 DEF BusyInv
<1>5. CASE UpdatePicture
  BY <1>5 DEF UpdatePicture, BusyInv
<1>6. QED
  BY <1>1, <1>2, <1>3, <1>4, <1>5 DEF Next

\* A buffer begins to play whose part was heard before, or all parts between the
\* last one heard and this one were refused.
LEMMA BegunIsNext ==
    ASSUME SoundInv, NEW i \in 1..Len(queue), Begins(content[queue[i]]),
           \A j \in 1..Len(queue) : j < i => content[queue[j]] <= begun,
           m_bPlaying = TRUE, UNCHANGED <<m_bPlaying, lost, drawn>>
    PROVE  Unnoticed \/ \E n \in 1..MaxParts : Audience!Hear(n)
<1> DEFINE Part(j) == content[queue[j]]
<1>1. /\ \A j \in 1..Len(queue) : Part(j) \in Nat
      /\ begun \in Nat /\ read \in Nat /\ Part(i) \in 0..MaxParts /\ Len(queue) \in Nat
  BY StreamAssumption DEF SoundInv, SoundTypeOK, StreamTypeOK
<1>2. /\ Part(i) <= read
      /\ \A j, k \in 1..Len(queue) : j < k => Part(j) < Part(k)
      /\ \A n \in 1..read : n <= begun \/ n \in lost
                            \/ \E j \in 1..Len(queue) : Part(j) = n
  BY DEF SoundInv, ReadInv, QueueInOrder, NothingForgotten
<1>3. CASE Part(i) <= begun
  <2>1. begun' = begun
    BY <1>1, <1>3 DEF Begins
  <2>2. QED
    BY <2>1 DEF Unnoticed
<1>4. CASE Part(i) > begun
  <2>1. begun' = Part(i) /\ Part(i) \in 1..MaxParts
    BY <1>1, <1>4, StreamAssumption DEF Begins
  <2>2. \A j \in 1..Len(queue) : j < i => Part(j) <= begun
    OBVIOUS
  <2> HIDE DEF Part
  <2>3. (begun + 1)..(Part(i) - 1) \subseteq lost
    <3> SUFFICES ASSUME NEW n \in (begun + 1)..(Part(i) - 1), n \notin lost
                 PROVE  FALSE
      OBVIOUS
    <3>1. n \in 1..read /\ ~(n <= begun) /\ n < Part(i)
      BY <1>1, <1>2, <1>4
    <3>2. PICK j \in 1..Len(queue) : Part(j) = n
      BY <1>2, <3>1
    <3>3. j < i \/ j = i \/ i < j
      BY <1>1
    <3>4. QED
      BY <1>1, <1>2, <2>2, <3>1, <3>2, <3>3
  <2>4. Audience!Hear(Part(i))
    BY <1>4, <2>1, <2>3 DEF Audience!Hear
  <2>5. QED
    BY <2>1, <2>4
<1>5. QED
  BY <1>1, <1>3, <1>4

\* A part is read: it is queued, or it is refused.
LEMMA FilledIsRefused ==
    ASSUME SoundInv, NEW b, FillBuffer(b), m_bPlaying = TRUE,
           UNCHANGED <<m_bPlaying, begun, drawn>>
    PROVE  Unnoticed \/ \E n \in 1..MaxParts : Audience!Refuse(n)
<1>1. /\ begun \in Nat /\ read \in Nat /\ parts \in 0..MaxParts /\ begun <= read
  BY StreamAssumption DEF SoundInv, SoundTypeOK, StreamTypeOK, ReadInv
<1>2. CASE lost' = lost
  BY <1>2 DEF Unnoticed
<1>3. CASE lost' # lost
  <2>1. read < parts /\ lost' = lost \cup {read + 1}
    BY <1>3 DEF FillBuffer
  <2>2. read + 1 \in 1..MaxParts /\ read + 1 > begun
    BY <1>1, <2>1, StreamAssumption
  <2>3. Audience!Refuse(read + 1)
    BY <2>1, <2>2 DEF Audience!Refuse
  <2>4. QED
    BY <2>2, <2>3
<1>4. QED
  BY <1>2, <1>3

\* The pictures decoded become no fewer.
LEMMA DecodedNoFewer ==
    ASSUME DecoderTypeOK, NEW due \in Int, DecodeToTime(due)
    PROVE  m_iFrameIndex' >= m_iFrameIndex
<1> DEFINE wanted == due + 1 - m_iFrameIndex
           enough == {p \in consumed..packets : Pictures(p) >= wanted}
<1>1. packets \in Nat /\ consumed \in Nat /\ m_iFrameIndex \in Nat /\ consumed <= packets
  BY DecoderAssumption DEF DecoderTypeOK
<1>2. CASE m_bVideoFinished \/ wanted <= 0
  <2>1. m_iFrameIndex' = m_iFrameIndex
    BY <1>2 DEF DecodeToTime, decoderVars
  <2>2. QED
    BY <1>1, <2>1
<1>3. CASE ~(m_bVideoFinished \/ wanted <= 0)
  <2>1. m_iFrameIndex' = m_iFrameIndex + Pictures(consumed')
    BY <1>3 DEF DecodeToTime
  <2>2. consumed' \in enough \/ consumed' = packets
    BY <1>3 DEF DecodeToTime
  <2>3. consumed' \in Nat /\ consumed' >= consumed
    BY <1>1, <2>2
  <2>4. Pictures(consumed') \in Nat
    BY <1>1, <2>3, PicturesBound
  <2>5. QED
    BY <1>1, <2>1, <2>4
<1>4. QED
  BY <1>2, <1>3

\* The steps of the sound
LEMMA ScreenedSound ==
    ASSUME SoundInv, BusyInv,
           QueueInitial \/ StartSound \/ UpdateSound \/ SoundUpdated \/ SourceMixes
    PROVE  \/ Unnoticed
           \/ \E n \in 1..MaxParts : Audience!Refuse(n) \/ Audience!Hear(n)
<1>1. m_bPlaying' = m_bPlaying /\ drawn' = drawn
  BY DEF QueueInitial, StartSound, UpdateSound, SoundUpdated, SourceMixes, playerVars
<1>2. /\ m_bPlaying \in BOOLEAN /\ queue \in Seq(Buffers) /\ Len(queue) \in Nat
      /\ played \in Nat /\ begun \in Nat
  BY StreamAssumption DEF SoundInv, SoundTypeOK, StreamTypeOK
<1>3. pc # "idle" => m_bPlaying = TRUE
  BY <1>2 DEF BusyInv
<1>4. queue # <<>> => Head(queue) = queue[1] /\ 1 \in 1..Len(queue)
  BY <1>2
<1>5. ASSUME SourcePlay, queue # <<>>, pc # "idle", lost' = lost
      PROVE  Unnoticed \/ \E n \in 1..MaxParts : Audience!Hear(n)
  <2>1. Begins(content[queue[1]]) /\ 1 \in 1..Len(queue)
    BY <1>4, <1>5 DEF SourcePlay
  <2>2. \A j \in 1..Len(queue) : j < 1 => content[queue[j]] <= begun
    OBVIOUS
  <2>3. QED
    BY <1>1, <1>3, <1>5, <2>1, <2>2, BegunIsNext
<1>6. CASE QueueInitial
  <2>1. FillBuffer(taken) /\ begun' = begun /\ pc = "queue"
    BY <1>6 DEF QueueInitial, FillInitialBuffer
  <2>2. QED
    BY <1>1, <1>3, <2>1, FilledIsRefused
<1>7. CASE StartSound
  <2>1. pc = "queue" /\ PlayQueued /\ lost' = lost
    BY <1>7 DEF StartSound, PlayQueued
  <2>2. CASE queue = <<>>
    BY <1>1, <2>1, <2>2 DEF PlayQueued, sourceVars, Unnoticed
  <2>3. CASE queue # <<>>
    <3>1. SourcePlay
      BY <2>1, <2>3 DEF PlayQueued
    <3>2. QED
      BY <1>5, <2>1, <2>3, <3>1
  <2>4. QED
    BY <2>2, <2>3
<1>8. CASE UpdateSound
  <2>1. pc = "sound" /\ (TakeBuffer \/ RefillBuffer) /\ begun' = begun
    BY <1>8 DEF UpdateSound, TakeBuffer, RefillBuffer, UnqueueBuffer
  <2>2. CASE lost' = lost
    BY <1>1, <2>1, <2>2 DEF Unnoticed
  <2>3. CASE lost' # lost
    <3>1. FillBuffer(taken)
      BY <2>1, <2>3 DEF TakeBuffer, RefillBuffer
    <3>2. QED
      BY <1>1, <1>3, <2>1, <3>1, FilledIsRefused
  <2>4. QED
    BY <2>2, <2>3
<1>9. CASE SoundUpdated
  <2>1. pc = "sound" /\ RestartOrEnd /\ lost' = lost
    BY <1>9 DEF SoundUpdated, RestartOrEnd
  <2>2. CASE UNCHANGED sourceVars
    BY <1>1, <2>1, <2>2 DEF sourceVars, Unnoticed
  <2>3. CASE SourcePlay /\ queue # <<>>
    BY <1>5, <2>1, <2>3
  <2>4. QED
    BY <2>1, <2>2, <2>3 DEF RestartOrEnd
<1>10. CASE SourceMixes
  <2>1. sourcePlaying /\ MixerAdvances /\ lost' = lost
    BY <1>10 DEF SourceMixes, Mixer, MixerAdvances, streamVars
  <2>2. m_bPlaying = TRUE /\ HeardUpTo(played + 1)
    BY <1>2, <2>1 DEF SoundInv, HeardInv, OwnerInv
  <2>3. CASE played + 1 < Len(queue)
    <3>1. Begins(content[queue[played + 2]]) /\ played + 2 \in 1..Len(queue)
      BY <1>2, <2>1, <2>3 DEF MixerAdvances
    <3>2. \A j \in 1..Len(queue) : j < played + 2 => content[queue[j]] <= begun
      BY <1>2, <2>2 DEF HeardUpTo
    <3>3. QED
      BY <1>1, <2>1, <2>2, <3>1, <3>2, BegunIsNext
  <2>4. CASE ~(played + 1 < Len(queue))
    BY <1>1, <2>1, <2>4 DEF MixerAdvances, Unnoticed
  <2>5. QED
    BY <2>3, <2>4
<1>11. QED
  BY <1>6, <1>7, <1>8, <1>9, <1>10

\* The frame that draws a picture
LEMMA ScreenedPicture ==
    ASSUME PictureInv, BusyInv, UpdatePicture
    PROVE  Audience!End \/ \E k \in 0..MaxPackets : Audience!Show(k)
<1>1. CASE NothingLeft
  <2>1. Stop
    BY <1>1 DEF UpdatePicture
  <2>2. QED
    BY <2>1 DEF Stop, Close, NewSource, NotDrawn, Audience!End, Audience!Blank,
       Audience!NotShown
<1>2. CASE ~NothingLeft
  <2>1. /\ DecodeToTime(Due) /\ drawn' = m_iFrameIndex' /\ pc = "picture"
        /\ UNCHANGED <<m_bPlaying, begun, lost>>
    BY <1>2 DEF UpdatePicture, audioVars, sourceVars, streamVars
  <2>2. /\ DecoderTypeOK /\ Due \in Int /\ m_bPlaying = TRUE
        /\ drawn = m_iFrameIndex \/ (drawn = NotDrawn /\ m_iFrameIndex = 0)
        /\ m_bVideoFinished => consumed = packets
    BY <2>1, PlayerAssumption, DecoderAssumption
    DEF PictureInv, PictureTypeOK, DrawnInv, BusyInv, Due
  <2>3. m_iFrameIndex' >= m_iFrameIndex
    BY <2>1, <2>2, DecodedNoFewer
  <2>4. DecoderTypeOK'
    BY <2>1, <2>2, DecodedPicture
  <2>5. m_iFrameIndex' \in 0..MaxPackets /\ m_iFrameIndex \in Nat
    BY <2>2, <2>4, DecoderAssumption DEF DecoderTypeOK
  <2>6. drawn' >= drawn
    BY <2>1, <2>2, <2>3, <2>5 DEF NotDrawn
  <2>7. Audience!Show(m_iFrameIndex')
    BY <2>1, <2>2, <2>6 DEF Audience!Show
  <2>8. QED
    BY <2>5, <2>7
<1>3. QED
  BY <1>1, <1>2

LEMMA ScreeningStep ==
    ASSUME SoundInv, PictureInv, BusyInv, [Next]_vars
    PROVE  [Audience!ScreeningNext]_<<m_bPlaying, begun, lost, drawn>>
<1>1. CASE PlayVideo
  <2>1. Audience!Begin \/ Audience!End
    BY <1>1 DEF PlayVideo, PlayFails, PlaySilently, PlayWithSound, Stop, Close,
       OpenAndPlay, NewSource, NotDrawn, Audience!Begin, Audience!End, Audience!Blank,
       Audience!NotShown
  <2>2. QED
    BY <2>1 DEF Audience!ScreeningNext
<1>2. CASE \E time \in {0, clock} : VidInit(time)
  <2>1. Stop
    BY <1>2 DEF VidInit
  <2>2. Audience!End
    BY <2>1 DEF Stop, Close, NewSource, NotDrawn, Audience!End, Audience!Blank,
       Audience!NotShown
  <2>3. QED
    BY <2>2 DEF Audience!ScreeningNext
<1>3. CASE QueueInitial \/ StartSound \/ UpdateSound \/ SoundUpdated \/ SourceMixes
  BY <1>3, ScreenedSound DEF Unnoticed, Audience!ScreeningNext
<1>4. CASE UpdatePicture
  BY <1>4, ScreenedPicture DEF Audience!ScreeningNext
<1>5. CASE Redraw \/ Tick \/ UNCHANGED vars
  BY <1>5 DEF Redraw, CountProcessed, Tick, vars, audioVars, sourceVars, streamVars,
     playerVars
<1>6. QED
  BY <1>1, <1>2, <1>3, <1>4, <1>5 DEF Next

\* The player implements Screening: sound only with its video, no part skipped but
\* a refused one, and no picture before one that was shown (video_player.cpp:41
\* Play, 94 Stop, 125 Update, av_stream.cpp:228 Update).
THEOREM PlayerImplementsScreening == Spec => ImplementsScreening
<1>1. Init => Audience!ScreeningInit /\ BusyInv
  BY DEF Init, NotDrawn, BusyInv, Audience!ScreeningInit, Audience!Blank,
     Audience!NotShown
<1>2. SoundInv /\ PictureInv /\ BusyInv /\ [Next]_vars
        => [Audience!ScreeningNext]_Audience!screeningVars
  BY ScreeningStep DEF Audience!screeningVars
<1>3. QED
  BY <1>1, <1>2, BusyInductive, SoundCorrect, PicturesCorrect, PTL
  DEF Spec, ImplementsScreening, Audience!ScreeningSpec

-----------------------------------------------------------------------------
(***************************************************************************)
(* Why a video ends: the part of VideoEnds that needs no fairness.         *)
(***************************************************************************)

\* A video whose time is up has nothing left.
LateIsOver ==
    m_bPlaying /\ pc = "idle" /\ drawn # NotDrawn /\ Due >= packets => NothingLeft

\* A video that has nothing left never has again: it ends, or stays so until it ends.
OverForGood ==
    [][m_bPlaying /\ drawn # NotDrawn /\ NothingLeft
         => ~m_bPlaying' \/ plays' # plays \/ NothingLeft']_vars

\* A frame that drew a picture of the video was drawn on the same map.
TimeInv == m_bPlaying /\ drawn # NotDrawn => m_flTime <= clock

LEMMA TimeInductive == TimeInv /\ PictureInv /\ [Next]_vars => TimeInv'
<1> SUFFICES ASSUME TimeInv, PictureInv, [Next]_vars PROVE TimeInv'
  OBVIOUS
<1>1. clock \in Int /\ m_flTime \in Int
  BY DecoderAssumption, PlayerAssumption DEF PictureInv, PictureTypeOK
<1>2. CASE PlayVideo
  <2>1. m_bPlaying' = FALSE \/ drawn' = NotDrawn
    BY <1>2 DEF PlayVideo, PlayFails, PlaySilently, PlayWithSound, Stop
  <2>2. QED
    BY <2>1 DEF TimeInv
<1>3. CASE QueueInitial \/ StartSound \/ UpdateSound \/ SoundUpdated \/ SourceMixes
           \/ Tick \/ UNCHANGED vars
  <2>1. /\ m_bPlaying' = m_bPlaying /\ drawn' = drawn /\ m_flTime' = m_flTime
        /\ clock' = clock \/ clock' = clock + 1
    BY <1>3 DEF QueueInitial, StartSound, UpdateSound, SoundUpdated, SourceMixes, Tick,
       vars, playerVars
  <2>2. QED
    BY <1>1, <2>1 DEF TimeInv
<1>4. CASE \E time \in {0, clock} : VidInit(time)
  BY <1>4 DEF VidInit, Stop, TimeInv
<1>5. CASE Redraw
  BY <1>1, <1>5 DEF Redraw, TimeInv
<1>6. CASE UpdatePicture
  <2>1. pc = "picture" /\ m_flTime' = m_flTime /\ clock' = clock
    BY <1>6 DEF UpdatePicture
  <2>2. m_flTime = clock
    BY <2>1 DEF PictureInv, DrawnInv
  <2>3. QED
    BY <1>1, <2>1, <2>2 DEF TimeInv
<1>7. QED
  BY <1>2, <1>3, <1>4, <1>5, <1>6 DEF Next

\* Once a frame was drawn at the time of the last packet or later, DecodeToTime has
\* nothing more to give (video_player.cpp:133-145, theora_decoder.cpp:356).
THEOREM VideoRunsOut == Spec => []LateIsOver
<1>1. PictureInv => LateIsOver
  <2> SUFFICES ASSUME PictureInv, m_bPlaying, pc = "idle", drawn # NotDrawn,
                      Due >= packets
               PROVE  NothingLeft
    BY DEF LateIsOver
  <2>1. /\ drawn = m_iFrameIndex /\ m_iFrameIndex \in Nat /\ packets \in Nat
        /\ m_iFrameIndex <= packets /\ Due \in Int
    BY DecoderAssumption, PlayerAssumption
    DEF PictureInv, PictureTypeOK, DecoderTypeOK, DrawnInv, Due
  <2>2. Pictures(packets) = 0
    BY <2>1 DEF PictureInv, CountedInTime
  <2>3. Due >= m_iFrameIndex
    BY <2>1
  <2>4. QED
    BY <2>2, <2>3 DEF NothingLeft
<1>2. QED
  BY <1>1, PicturesCorrect, PTL

\* The next frame then ends the video: nothing decodes, and no time goes back, in
\* between (video_player.cpp:135-144; hud_redraw.cpp sets m_flTime).
THEOREM OverStaysOver == Spec => OverForGood
<1>1. Init => TimeInv
  BY DEF Init, TimeInv
<1>2. ASSUME PictureInv, TimeInv, [Next]_vars, m_bPlaying, drawn # NotDrawn, NothingLeft
      PROVE  ~m_bPlaying' \/ plays' # plays \/ NothingLeft'
  <2>1. /\ m_flTime \in Int /\ clock \in Int /\ m_flStartTime \in Int
        /\ m_iFrameIndex \in Int /\ plays \in Int /\ m_flTime <= clock
    BY <1>2, DecoderAssumption, PlayerAssumption
    DEF PictureInv, PictureTypeOK, DecoderTypeOK, TimeInv
  <2>2. ASSUME UNCHANGED decoderVars, UNCHANGED playerVars,
               m_flTime' = m_flTime \/ m_flTime' = clock
        PROVE  NothingLeft'
    <3>1. Pictures(packets)' = Pictures(packets)
      BY <2>2 DEF Pictures, decoderVars
    <3>2. /\ m_bVideoFinished' = m_bVideoFinished /\ m_iFrameIndex' = m_iFrameIndex
          /\ Due >= m_iFrameIndex => Due' >= m_iFrameIndex
      BY <2>1, <2>2 DEF Due, decoderVars, playerVars
    <3>3. QED
      BY <1>2, <3>1, <3>2 DEF NothingLeft
  <2>3. CASE PlayVideo
    BY <2>1, <2>3 DEF PlayVideo, PlayFails, PlaySilently, PlayWithSound, Stop
  <2>4. CASE \E time \in {0, clock} : VidInit(time)
    BY <2>4 DEF VidInit, Stop
  <2>5. CASE UpdatePicture
    BY <1>2, <2>5 DEF UpdatePicture, Stop
  <2>6. CASE QueueInitial \/ StartSound \/ Redraw \/ UpdateSound \/ SoundUpdated
             \/ Tick \/ SourceMixes \/ UNCHANGED vars
    <3>1. /\ UNCHANGED decoderVars /\ UNCHANGED playerVars
          /\ m_flTime' = m_flTime \/ m_flTime' = clock
      BY <2>6 DEF QueueInitial, StartSound, Redraw, UpdateSound, SoundUpdated, Tick,
         SourceMixes, vars
    <3>2. QED
      BY <2>2, <3>1
  <2>7. QED
    BY <1>2, <2>3, <2>4, <2>5, <2>6 DEF Next
<1>3. QED
  BY <1>1, <1>2, TimeInductive, PicturesCorrect, PTL DEF Spec, OverForGood

=============================================================================
