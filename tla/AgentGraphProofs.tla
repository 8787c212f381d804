--------------------------- MODULE AgentGraphProofs ---------------------------
(***************************************************************************)
(* What the nodes of AgentGraph, and an invocation of conversation_graph,  *)
(* do to an agent state, for all limits, languages and kinds of report.    *)
(***************************************************************************)
EXTENDS AgentGraph, TLAPS

\* A line added to a history gives a history.
LEMMA LineAdded ==
    ASSUME NEW s \in AgentState, NEW x \in Speaker
    PROVE  Append(s.history, x) \in Seq(Speaker)
<1>1. s.history \in Seq(Speaker)
  BY DEF AgentState
<1> QED BY <1>1

\* The greeting adds one line to the history, and no report.
LEMMA GreetingFacts ==
    ASSUME NEW s \in AgentState
    PROVE  /\ Greeting(s) \in AgentState
           /\ Greeting(s).history = Append(s.history, "agent")
           /\ Greeting(s).report = s.report
           /\ Greeting(s).call_status = "greeting"
           /\ Greeting(s).turn_count = 0
           /\ Greeting(s).language = s.language
           /\ Greeting(s).extraction = s.extraction
           /\ Greeting(s).intent = s.intent
           /\ Greeting(s).task_completed = s.task_completed
<1>1. Append(s.history, "agent") \in Seq(Speaker)
  BY LineAdded DEF Speaker
<1> QED BY <1>1 DEF Greeting, AgentState, CallStatus

\* The information of a merge is information.
LEMMA MergedFacts ==
    ASSUME NEW old \in KeyInfo, NEW new \in KeyInfo
    PROVE  Merged(old, new) \in KeyInfo
BY DEF Merged, KeyInfo

\* Classification adds the caller's line and merges what was extracted; it
\* changes neither report nor turns.
LEMMA ClassifierFacts ==
    ASSUME NEW s \in AgentState, NEW c \in Classification(s), NEW a,
           a = Classified(s, c.intent, c.language, c.info)
    PROVE  /\ a \in AgentState
           /\ a.history = Append(s.history, "caller")
           /\ a.report = s.report
           /\ a.turn_count = s.turn_count
           /\ a.language \in ClassifierLanguages \cup {s.language}
           /\ a.extraction = Merged(s.extraction, c.info)
           /\ c.info \in KeyInfo
<1>1. NoInfo \in KeyInfo
  BY DEF NoInfo, KeyInfo
<1>2. /\ c.intent \in Intent /\ c.language \in ClassifierLanguages \cup {s.language}
      /\ c.info \in KeyInfo
  BY <1>1 DEF Classification, Intent
<1>3. /\ s.history \in Seq(Speaker) /\ "caller" \in Speaker
      /\ s.extraction \in KeyInfo
      /\ c.language \in Language \cup ClassifierLanguages
  BY <1>2 DEF AgentState, Speaker
<1>4. Merged(s.extraction, c.info) \in KeyInfo
  BY <1>2, <1>3, MergedFacts
<1>5. Append(s.history, "caller") \in Seq(Speaker)
  BY <1>3
<1> QED BY <1>2, <1>3, <1>4, <1>5 DEF Classified, AgentState, CallStatus

\* The completion check touches the flags the edges read, and nothing else.
LEMMA CheckerFacts ==
    ASSUME NEW s \in AgentState, NEW a \in CompletionChecker(s)
    PROVE  /\ a \in AgentState
           /\ a.history = s.history
           /\ a.report = s.report
           /\ a.turn_count = s.turn_count
           /\ a.language = s.language
           /\ a.extraction = s.extraction
           /\ a.intent = s.intent
           /\ AtTurnLimit(s) => a.call_status = "wrapping_up"
<1>1. CASE AtTurnLimit(s)
  <2>1. a = Checked(s, TRUE, TRUE)
    BY <1>1 DEF CompletionChecker
  <2> QED BY <2>1 DEF Checked, AgentState, CallStatus
<1>2. CASE ~AtTurnLimit(s)
  <2>1. PICK c \in BOOLEAN, w \in BOOLEAN : a = Checked(s, c, w)
    BY <1>2 DEF CompletionChecker
  <2> QED BY <1>2, <2>1 DEF Checked, AgentState, CallStatus
<1> QED BY <1>1, <1>2

\* A reply adds the agent's line and counts the turn.
LEMMA ResponderFacts ==
    ASSUME NEW s \in AgentState
    PROVE  /\ Responder(s) \in AgentState
           /\ Responder(s).history = Append(s.history, "agent")
           /\ Responder(s).report = s.report
           /\ Responder(s).turn_count = s.turn_count + 1
           /\ Responder(s).language = s.language
           /\ Responder(s).extraction = s.extraction
           /\ Responder(s).intent = s.intent
           /\ Responder(s).task_completed = s.task_completed
           /\ Responder(s).call_status = "speaking"
<1>1. Append(s.history, "agent") \in Seq(Speaker)
  BY LineAdded DEF Speaker
<1>2. s.turn_count + 1 \in Nat
  BY DEF AgentState
<1> QED BY <1>1, <1>2 DEF Responder, AgentState, CallStatus

\* The closing line completes the call, and counts no turn.
LEMMA WrapUpFacts ==
    ASSUME NEW s \in AgentState
    PROVE  /\ WrapUp(s) \in AgentState
           /\ WrapUp(s).history = Append(s.history, "agent")
           /\ WrapUp(s).report = s.report
           /\ WrapUp(s).turn_count = s.turn_count
           /\ WrapUp(s).language = s.language
           /\ WrapUp(s).extraction = s.extraction
<1>1. Append(s.history, "agent") \in Seq(Speaker)
  BY LineAdded DEF Speaker
<1> QED BY <1>1 DEF WrapUp, AgentState, CallStatus

\* A report is made from the transcript it was asked for, and is one of ReportKinds.
LEMMA ReportsFacts ==
    ASSUME NEW h \in Seq(Speaker), NEW r \in ReportsOf(h)
    PROVE  r \in Report /\ r # NoReport /\ r.transcript = h /\ r.kind \in ReportKinds
<1>1. PICK k \in ReportKinds : r = [kind |-> k, transcript |-> h]
  BY DEF ReportsOf
<1>2. k \in {"llm", "fallback", "unstorable"}
  BY AgentGraphAssumption
<1> QED BY <1>1, <1>2 DEF Report, NoReport

\* The reporter adds the report, and completes the call.
LEMMA ReportedFacts ==
    ASSUME NEW s \in AgentState, NEW r \in Report
    PROVE  /\ Reported(s, r) \in AgentState
           /\ Reported(s, r).history = s.history
           /\ Reported(s, r).report = r
           /\ Reported(s, r).turn_count = s.turn_count
           /\ Reported(s, r).language = s.language
           /\ Reported(s, r).extraction = s.extraction
           /\ Reported(s, r).call_status = "completed"
BY DEF Reported, AgentState, CallStatus

\* What the reporter returns has a report of the history it was given.
LEMMA ReporterFacts ==
    ASSUME NEW s \in AgentState, NEW a \in Reporter(s)
    PROVE  /\ a \in AgentState
           /\ a.history = s.history
           /\ a.turn_count = s.turn_count
           /\ a.extraction = s.extraction
           /\ a.report # NoReport
           /\ a.report.transcript = a.history
<1>1. PICK r \in ReportsOf(s.history) : a = Reported(s, r)
  BY DEF Reporter
<1>2. s.history \in Seq(Speaker)
  BY DEF AgentState
<1>3. r \in Report /\ r # NoReport /\ r.transcript = s.history
  BY <1>2, ReportsFacts
<1> QED BY <1>1, <1>3, ReportedFacts

(***************************************************************************)
(* One invocation of conversation_graph adds exactly the caller's line and *)
(* one answer to the history.  It either replies, and changes no report,   *)
(* or completes the call with a report of the whole history.               *)
(***************************************************************************)
THEOREM TurnFacts ==
    ASSUME NEW s \in AgentState, NEW a \in TurnResults(s)
    PROVE  /\ a \in AgentState
           /\ a.history = Append(Append(s.history, "caller"), "agent")
           /\ a.language \in ClassifierLanguages \cup {s.language}
           /\ \/ a.report = s.report /\ a.call_status = "speaking"
              \/ /\ a.report # NoReport /\ a.report.kind \in ReportKinds
                 /\ a.report.transcript = a.history
                 /\ a.call_status = "completed"
<1>1. PICK c \in AgentState :
        /\ c.history = Append(s.history, "caller")
        /\ c.report = s.report
        /\ c.language \in ClassifierLanguages \cup {s.language}
        /\ a = Responder(c) \/ a \in Reporter(WrapUp(c))
  <2> DEFINE C == IntentClassifier(s)
             K == UNION {CompletionChecker(c) : c \in
                            {c \in C : RouteAfterIntent(c) = "completion_checker"}}
  <2>1. \A c \in C \cup K : /\ c \in AgentState
                            /\ c.history = Append(s.history, "caller")
                            /\ c.report = s.report
                            /\ c.language \in ClassifierLanguages \cup {s.language}
    <3>1. ASSUME NEW c \in K
          PROVE  \E d \in C : c \in CompletionChecker(d)
      BY <3>1
    <3> HIDE DEF C, K
    <3>2. ASSUME NEW c \in C
          PROVE  /\ c \in AgentState
                 /\ c.history = Append(s.history, "caller")
                 /\ c.report = s.report
                 /\ c.language \in ClassifierLanguages \cup {s.language}
      <4>1. PICK d \in Classification(s) : c = Classified(s, d.intent, d.language, d.info)
        BY <3>2 DEF C, IntentClassifier
      <4> QED BY <4>1, ClassifierFacts
    <3>3. ASSUME NEW c \in K
          PROVE  /\ c \in AgentState
                 /\ c.history = Append(s.history, "caller")
                 /\ c.report = s.report
                 /\ c.language \in ClassifierLanguages \cup {s.language}
      <4>1. PICK d \in C : c \in CompletionChecker(d)
        BY <3>1, <3>3
      <4> QED BY <3>2, <4>1, CheckerFacts
    <3> QED BY <3>2, <3>3
  <2>2. \E c \in C \cup K : a = Responder(c) \/ a \in Reporter(WrapUp(c))
    BY DEF TurnResults
  <2> QED BY <2>1, <2>2
<1>2. CASE a = Responder(c)
  BY <1>1, <1>2, ResponderFacts
<1>3. CASE a \in Reporter(WrapUp(c))
  <2>1. PICK r \in ReportsOf(WrapUp(c).history) : a = Reported(WrapUp(c), r)
    BY <1>3 DEF Reporter
  <2>2. WrapUp(c) \in AgentState /\ WrapUp(c).history \in Seq(Speaker)
    BY WrapUpFacts DEF AgentState
  <2>3. r \in Report /\ r # NoReport /\ r.transcript = WrapUp(c).history
          /\ r.kind \in ReportKinds
    BY <2>1, <2>2, ReportsFacts
  <2> QED BY <1>1, <2>1, <2>2, <2>3, WrapUpFacts, ReportedFacts
<1> QED BY <1>1, <1>2, <1>3

===============================================================================
