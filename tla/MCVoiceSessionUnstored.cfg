SPECIFICATION Spec
CONSTANTS
    MaxTurns = 1
    InfoKeys = {}
    InfoValues = {}
    ClassifierLanguages = {"en", "null"}
    ReportKinds = {"llm", "fallback"}
    NonObjectAnswers = FALSE
    QueueCap = 1
    DbFaults = FALSE
    Strict = FALSE
    SpeechFaults = FALSE
INVARIANTS
    EveryCallReported
