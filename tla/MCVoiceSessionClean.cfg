SPECIFICATION Spec
CONSTANTS
    MaxTurns = 2
    InfoKeys = {}
    InfoValues = {}
    ClassifierLanguages = {"en", "es"}
    ReportKinds = {"llm", "fallback"}
    NonObjectAnswers = FALSE
    QueueCap = 2
    DbFaults = FALSE
    Strict = FALSE
    SpeechFaults = FALSE
INVARIANTS
    EveryCallReported
PROPERTIES
    ReportedCallHangsUp
    SessionAsRouted
