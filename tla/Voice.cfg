CONSTANTS
    MaxTalks = 2
    MaxFrames = 3
    WsQueueBlocks = 2
    RelayBlocks = 2
    RingBlocks = 1
    SentenceBlocks = 1
    QueueLen = 1
    MaxUpsets = 2
SPECIFICATION Spec
INVARIANTS
    TypeOK
    OneVoice
    CodecFollows
    RingIsOurs
    FramesReachRing
    AtMostOneLoadLost
PROPERTIES
    FallbackSpoken
    SentenceTaken
    SessionEnds
CHECK_DEADLOCK FALSE
