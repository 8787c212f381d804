------------------------------ MODULE AgentGraph ------------------------------
(***************************************************************************)
(* The LangGraph conversation graph of agent/graph.py, as operators.       *)
(*                                                                         *)
(* A node of the graph reads the agent state and returns the keys it       *)
(* changes.  What a node returns depends on the answer of a language       *)
(* model, so a node is the SET of agent states it may produce: one for     *)
(* each answer, and one for the except branch taken when the model fails.  *)
(*                                                                         *)
(* The agent state keeps the keys that control the call.  The texts spoken *)
(* are left out: a transcript is the sequence of its speakers.  The keys   *)
(* use_smart_model (which model the responder asks) and                    *)
(* interruption_detected (written, never read) are left out too.           *)
(***************************************************************************)
EXTENDS Naturals, Sequences

CONSTANTS
    MaxTurns,             \* "max_turns" of the agent state
    InfoKeys,             \* the keys the classifier may extract ("key_info")
    InfoValues,           \* the values it may give them, "null" among them
    ClassifierLanguages,  \* the values the classifier may answer for "language"
    ReportKinds,          \* the reports the reporter may produce, see Report
    NonObjectAnswers      \* may a model answer JSON of the wrong shape?

ASSUME AgentGraphAssumption ==
    /\ MaxTurns \in Nat
    /\ "untold" \notin InfoValues
    /\ ReportKinds \subseteq {"llm", "fallback", "unstorable"}
    /\ NonObjectAnswers \in BOOLEAN

\* The languages the program knows: the members of db.models.Language.
Language == {"en", "fr"}

\* Routing tells "end_call" from every other intent; "unclear" stands for these.
Intent == {"end_call", "unclear"}

\* Values of "call_status" that some line of the program assigns.
CallStatus == {"initializing", "greeting", "listening", "processing",
               "speaking", "wrapping_up", "completed"}

Speaker == {"agent", "caller"}

(***************************************************************************)
(* A report has the transcript it was generated from.  Its kind is "llm"   *)
(* for a report the model wrote, "fallback" for the one built when the     *)
(* model failed, "unstorable" for one the model wrote with a field the     *)
(* call_reports table rejects (a null outcome, say), and "none" where the  *)
(* program has None.                                                       *)
(***************************************************************************)
Report == [kind : {"none", "llm", "fallback", "unstorable"}, transcript : Seq(Speaker)]

NoReport == [kind |-> "none", transcript |-> <<>>]

\* A dict of extracted information: "untold" for a key the dict does not have.
KeyInfo == [InfoKeys -> InfoValues \cup {"untold"}]

NoInfo == [k \in InfoKeys |-> "untold"]

AgentState ==
    [history        : Seq(Speaker),
     call_status    : CallStatus,
     task_completed : BOOLEAN,
     turn_count     : Nat,
     intent         : Intent,
     language       : Language \cup ClassifierLanguages,
     extraction     : KeyInfo,
     report         : Report]

\* The agent state a session starts with; the language is the contact's.
InitialAgentState(language) ==
    [history        |-> <<>>,
     call_status    |-> "initializing",
     task_completed |-> FALSE,
     turn_count     |-> 0,
     intent         |-> "unclear",
     language       |-> language,
     extraction     |-> NoInfo,
     report         |-> NoReport]

-------------------------------------------------------------------------------
(* The nodes.                                                              *)

Greeting(s) ==
    [s EXCEPT !.history = Append(@, "agent"),
              !.call_status = "greeting",
              !.turn_count = 0]

\* Mutant of Classified: the new key_info replaces what was extracted before.
ClassifiedForgetting(s, intent, language, info) ==
    [s EXCEPT !.history = Append(@, "caller"),
              !.call_status = "processing",
              !.intent = intent,
              !.language = language,
              !.extraction = info]

\* {**existing, **key_info}: what is told now, null too, hides what was told before.
Merged(existing, info) ==
    [k \in InfoKeys |-> IF info[k] = "untold" THEN existing[k] ELSE info[k]]

Classified(s, intent, language, info) ==
    [s EXCEPT !.history = Append(@, "caller"),
              !.call_status = "processing",
              !.intent = intent,
              !.language = language,
              !.extraction = Merged(@, info)]

\* The model's classification, or the one assumed when the model fails.
Classification(s) ==
    [intent : Intent, language : ClassifierLanguages, info : KeyInfo]
        \cup {[intent |-> "unclear", language |-> s.language, info |-> NoInfo]}

IntentClassifier(s) ==
    {Classified(s, c.intent, c.language, c.info) : c \in Classification(s)}

\* Mutant of RouteAfterIntent: the edge to wrap_up is missing.
RouteAfterIntentUnconditional(s) == "completion_checker"

RouteAfterIntent(s) ==
    IF s.intent = "end_call" THEN "wrap_up" ELSE "completion_checker"

Checked(s, completed, wrapUp) ==
    [s EXCEPT !.task_completed = completed,
              !.call_status = IF completed \/ wrapUp THEN "wrapping_up" ELSE "listening"]

\* Mutant of AtTurnLimit: the limit is noticed one turn late.
AtTurnLimitOffByOne(s) == s.turn_count > MaxTurns

AtTurnLimit(s) == s.turn_count >= MaxTurns

\* At the turn limit the model is not asked; a failing model answers neither.
CompletionChecker(s) ==
    IF AtTurnLimit(s)
    THEN {Checked(s, TRUE, TRUE)}
    ELSE {Checked(s, c, w) : c \in BOOLEAN, w \in BOOLEAN}

RouteAfterCompletionCheck(s) ==
    IF s.call_status = "wrapping_up" \/ s.task_completed THEN "wrap_up" ELSE "responder"

\* A failing model still gives a reply (the apology), so there is one result.
Responder(s) ==
    [s EXCEPT !.history = Append(@, "agent"),
              !.call_status = "speaking",
              !.turn_count = @ + 1]

WrapUp(s) ==
    [s EXCEPT !.history = Append(@, "agent"),
              !.call_status = "completed"]

\* Mutant of Reported: a status of the AgentState type that no code assigns.
ReportedAsFailed(s, report) ==
    [s EXCEPT !.report = report,
              !.call_status = "failed"]

Reported(s, report) ==
    [s EXCEPT !.report = report,
              !.call_status = "completed"]

\* The reports the reporter may build from a transcript.
ReportsOf(transcript) ==
    {[kind |-> k, transcript |-> transcript] : k \in ReportKinds}

\* Mutant of Reporter: the window of six entries of the completion checker.
ReporterOfRecentHistory(s) ==
    {Reported(s, r) : r \in
        ReportsOf(IF Len(s.history) > 6
                  THEN SubSeq(s.history, Len(s.history) - 5, Len(s.history)) ELSE s.history)}

Reporter(s) == {Reported(s, r) : r \in ReportsOf(s.history)}

-------------------------------------------------------------------------------
(* One invocation of conversation_graph: the agent states it may return    *)
(* when it is invoked on s.  An invocation may raise instead (see          *)
(* NonObjectAnswers), and then returns nothing.                            *)

\* Mutant of TurnResults: the edge from wrap_up to reporter is missing.
TurnResultsUnreported(s) ==
    LET classified == IntentClassifier(s)
        checked    == UNION {CompletionChecker(c) : c \in classified}
    IN  {Responder(c) : c \in checked} \cup {WrapUp(c) : c \in checked}

TurnResults(s) ==
    LET classified == IntentClassifier(s)
        checked    == UNION {CompletionChecker(c) : c \in
                        {c \in classified : RouteAfterIntent(c) = "completion_checker"}}
        answered   == {c \in checked : RouteAfterCompletionCheck(c) = "responder"}
        closing    == {c \in classified : RouteAfterIntent(c) = "wrap_up"}
                        \cup {c \in checked : RouteAfterCompletionCheck(c) = "wrap_up"}
    IN  {Responder(c) : c \in answered} \cup UNION {Reporter(WrapUp(c)) : c \in closing}

===============================================================================
