SPECIFICATION FairSpec
CONSTANTS
    Chats = {c1}
    Mine = c1
    Streams = {"socket", "sse"}
    MaxEpoch = 2
    MaxBeats = 2
    MaxWire = 2
    MaxFaults = 1
INVARIANT TranscriptIsFaithful
PROPERTIES EveryBeatIsShown
CHECK_DEADLOCK FALSE
