SPECIFICATION Spec
CONSTANTS
    MaxTurns = 3
    InfoKeys = {"name", "date"}
    InfoValues = {"null", "told"}
    ClassifierLanguages = {"en", "es"}
    ReportKinds = {"llm", "fallback", "unstorable"}
    NonObjectAnswers = TRUE
INVARIANTS
    TypeOK
    TurnBudget
    TranscriptMatchesTurns
    OpenCallIsUnfinished
    ReportIsComplete
    ExtractionIsLastWord
PROPERTIES
    TalkingEnds
    KeepsContract
