\* Two videos, their sound, a mixer that overtakes the client, a change of map.
SPECIFICATION FairSpec

CONSTANTS
    NUM_BUFFERS = 2
    MaxParts = 4
    MaxLost = 1
    MaxPackets = 2
    MaxPlays = 2
    MaxTime = 1

INVARIANTS
    QueueInOrder
    NothingForgotten
    HeardInFull
    NeverLateNorFarAhead

PROPERTIES
    EndsAfterLastPicture
    ImplementsScreening
    VideoEnds
