SPECIFICATION Spec
CONSTANTS
    MaxTurns = 1
    InfoKeys = {}
    InfoValues = {}
    ClassifierLanguages = {"en", "es"}
    ReportKinds = {"llm", "fallback", "unstorable"}
    NonObjectAnswers = TRUE
    QueueCap = 2
    DbFaults = TRUE
    Strict = TRUE
    SpeechFaults = TRUE
INVARIANTS
    TranscriptCovers
    OneTurnAfterHangUp
    ClosedWithReport
    RegisteredUntilSaved
PROPERTIES
    SessionEnds
