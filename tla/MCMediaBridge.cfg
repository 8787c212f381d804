SPECIFICATION Spec
CONSTANTS
    Replies = 2
    Chunks = 2
    VadThreshold = 3
    SpeechFaults = TRUE
INVARIANTS
    TypeOK
    CallerStopsAgent
    InterruptibleWhileStreaming
    InterruptedReplyStops
    CutByOwnBargeIn
PROPERTIES
    AudioArrives
    BridgeStops
