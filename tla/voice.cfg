\* The squelch masks, with a client that connects again and vbans that get lost.
SPECIFICATION FairSpec

CONSTANTS
    Slots = {self, other}
    Self = self
    Players = {me, p, q}
    Me = me
    None = None
    MaxToClient = 2
    MaxToServer = 1
    MaxVbans = 1
    MaxChanges = 2

INVARIANTS
    MasksAgree
    ModEnableAgrees

PROPERTIES
    HeardAsWanted
    MutesArriveWithVoice
