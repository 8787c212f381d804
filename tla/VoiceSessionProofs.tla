-------------------------- MODULE VoiceSessionProofs --------------------------
(***************************************************************************)
(* What holds of VoiceSession for all turn limits, languages, reports,     *)
(* queue bounds and faults.                                                *)
(***************************************************************************)
EXTENDS VoiceSession, AgentGraphProofs

-------------------------------------------------------------------------------
(* Types.                                                                  *)

LEMMA InitialTypes ==
    ASSUME NEW l \in Language
    PROVE  /\ InitialAgentState(l) \in AgentState
           /\ InitialAgentState(l).history = <<>>
           /\ InitialAgentState(l).report = NoReport
           /\ InitialAgentState(l).call_status = "initializing"
           /\ InitialAgentState(l).language = l
<1>1. NoReport \in Report /\ <<>> \in Seq(Speaker) /\ NoInfo \in KeyInfo
  BY DEF NoReport, Report, NoInfo, KeyInfo
<1> QED BY <1>1 DEF InitialAgentState, AgentState, CallStatus, Intent

\* What the save is given is what the agent state has, or a fresh report.
LEMMA SaveTypes ==
    ASSUME NEW s \in AgentState, NEW r \in Report
    PROVE  /\ SaveOf(r, s.language) \in Saving
           /\ SaveOf(r, s.language).report = r
           /\ SaveOf(r, s.language).language = s.language
           /\ s.report \in Report /\ s.history \in Seq(Speaker)
BY DEF SaveOf, Saving, AgentState

\* TypeOK in two parts: where the tasks stand, and what they work on.
ControlOK ==
    /\ session \in {"connecting", "running", "exited", "failed"}
    /\ bridge \in {"absent", "receiving", "starting", "reporting", "saving", "done"}
    /\ conv \in {"absent", "waiting", "greeting", "greetingSpeech", "listening",
                 "thinking", "replySpeech", "closing", "done"}
    /\ ws \in {"open", "closed"}
    /\ stt \in {"connecting", "open", "closed"}
    /\ callActive \in BOOLEAN
    /\ started \in BOOLEAN
    /\ timedOut \in BOOLEAN
    /\ registered \in BOOLEAN

DataOK ==
    /\ queue \in Seq(Transcript)
    /\ agent \in AgentState
    /\ work \in AgentState
    /\ ending \in Seq(Speaker)
    /\ saving \in Saving
    /\ row \in [status : {"dialing", "active", "completed"}, report : Report]

LEMMA TypesInParts == TypeOK <=> ControlOK /\ DataOK
BY DEF TypeOK, ControlOK, DataOK

LEMMA ControlStep ==
    ASSUME ControlOK, [Next]_vars
    PROVE  ControlOK'
<1> USE DEF ControlOK, line, call, graph, record
<1>1. CASE Run
  BY <1>1 DEF Run, SttConnected, SttRefused, Exit
<1>2. CASE World
  BY <1>2 DEF World, HangUp, Transcribe, SttCloses
<1>3. CASE Bridge
  <2>1. CASE ReceiveStart \/ StartRecorded
    BY <2>1 DEF ReceiveStart, StartRecorded, Started
  <2>2. CASE Disconnect
    BY <2>2 DEF Disconnect
  <2>3. CASE ReporterReturns \/ ReporterRaises
    BY <2>3 DEF ReporterReturns, HistoryReported, ReporterRaises
  <2>4. CASE SaveCommits \/ SaveFails
    BY <2>4 DEF SaveCommits, SaveEnds, SaveFails
  <2> QED BY <1>3, <2>1, <2>2, <2>3, <2>4 DEF Bridge
<1>4. CASE Loop
  <2>1. CASE StartTimeout \/ Greet \/ Greeted \/ GreetingSpoken
    BY <2>1 DEF StartTimeout, Greet, Greeted, GreetingSpoken, GoesOn
  <2>2. CASE Hear
    BY <2>2 DEF Hear, LoopIsOver
  <2>3. CASE TurnReturns \/ TurnRaises \/ ReplySpoken
    BY <2>3 DEF TurnReturns, TurnRaises, GoesOn, ReplySpoken, CallCompleted
  <2>4. CASE SpeechFails \/ CloseCall
    BY <2>4 DEF SpeechFails, CloseCall, GoesOn
  <2> QED BY <1>4, <2>1, <2>2, <2>3, <2>4 DEF Loop
<1>5. CASE Terminated \/ UNCHANGED vars
  BY <1>5 DEF Terminated, vars
<1> QED BY <1>1, <1>2, <1>3, <1>4, <1>5 DEF Next

LEMMA DataStep ==
    ASSUME DataOK, [Next]_vars
    PROVE  DataOK'
<1> DEFINE data == <<agent, work, ending, saving, row>>
<1> USE DEF line, call, graph, record
<1>1. ASSUME UNCHANGED data, queue' \in Seq(Transcript) PROVE DataOK'
  BY <1>1 DEF DataOK
<1>2. CASE UNCHANGED <<queue, data>>
  BY <1>1, <1>2 DEF DataOK
<1>3. CASE World
  <2>1. UNCHANGED data
    BY <1>3 DEF World, HangUp, Transcribe, SttCloses
  <2>2. queue \in Seq(Transcript)
    BY DEF DataOK
  <2>3. queue' = queue \/ \E t \in Transcript : queue' = Append(queue, t)
    BY <1>3 DEF World, HangUp, Transcribe, SttCloses, Transcript
  <2>4. \A t \in Transcript : Append(queue, t) \in Seq(Transcript)
    BY <2>2
  <2> QED BY <1>1, <2>1, <2>2, <2>3, <2>4
<1>4. CASE StartRecorded
  <2>1. row' \in [status : {"dialing", "active", "completed"}, report : Report]
    BY <1>4 DEF StartRecorded, Started, DataOK
  <2>2. UNCHANGED <<queue, agent, work, ending, saving>>
    BY <1>4 DEF StartRecorded, Started
  <2> QED BY <2>1, <2>2 DEF DataOK
<1>5. CASE Disconnect
  <2>1. agent.history \in Seq(Speaker) /\ SaveOf(agent.report, agent.language) \in Saving
    BY SaveTypes DEF DataOK
  <2>2. saving' \in Saving
    BY <1>5, <2>1 DEF Disconnect, DataOK
  <2>3. ending' = agent.history /\ UNCHANGED <<queue, agent, work, row>>
    BY <1>5 DEF Disconnect
  <2> QED BY <2>1, <2>2, <2>3 DEF DataOK
<1>6. CASE ReporterReturns
  <2>1. PICK r \in ReportsOf(ending) :
          agent' = Reported(agent, r) /\ saving' = SaveOf(r, agent.language)
    BY <1>6 DEF ReporterReturns, HistoryReported
  <2>2. agent \in AgentState /\ ending \in Seq(Speaker)
    BY DEF DataOK
  <2>3. r \in Report
    BY <2>2, ReportsFacts
  <2>4. agent' \in AgentState /\ saving' \in Saving
    BY <2>1, <2>2, <2>3, ReportedFacts, SaveTypes
  <2>5. UNCHANGED <<queue, work, ending, row>>
    BY <1>6 DEF ReporterReturns, HistoryReported
  <2> QED BY <2>4, <2>5 DEF DataOK
<1>7. CASE ReporterRaises
  <2>1. saving' \in Saving
    BY <1>7, SaveTypes DEF ReporterRaises, DataOK, AgentState
  <2>2. UNCHANGED <<queue, agent, work, ending, row>>
    BY <1>7 DEF ReporterRaises
  <2> QED BY <2>1, <2>2 DEF DataOK
<1>8. CASE SaveCommits
  <2>1. saving.report \in Report
    BY DEF DataOK, Saving
  <2>2. row' \in [status : {"dialing", "active", "completed"}, report : Report]
    BY <1>8, <2>1 DEF SaveCommits, SaveEnds
  <2>3. UNCHANGED <<queue, agent, work, ending, saving>>
    BY <1>8 DEF SaveCommits, SaveEnds
  <2> QED BY <2>2, <2>3 DEF DataOK
<1>9. CASE Greet \/ Hear
  <2>1. work' \in {work, agent} /\ UNCHANGED <<agent, ending, saving, row>>
    BY <1>9 DEF Greet, Hear, LoopIsOver
  <2>2. queue \in Seq(Transcript)
    BY DEF DataOK
  <2>3. queue' = queue \/ (queue # <<>> /\ queue' = Tail(queue))
    BY <1>9 DEF Greet, Hear, LoopIsOver
  <2>4. queue' \in Seq(Transcript)
    BY <2>2, <2>3
  <2> QED BY <2>1, <2>4 DEF DataOK
<1>10. CASE Greeted \/ TurnReturns
  <2>1. agent' \in AgentState
    BY <1>10, GreetingFacts, TurnFacts DEF Greeted, TurnReturns, DataOK
  <2>2. UNCHANGED <<queue, work, ending, saving, row>>
    BY <1>10 DEF Greeted, TurnReturns
  <2> QED BY <2>1, <2>2 DEF DataOK
<1>11. CASE Run \/ ReceiveStart \/ SaveFails \/ Terminated \/ UNCHANGED vars
  BY <1>2, <1>11 DEF Run, SttConnected, SttRefused, Exit, ReceiveStart, SaveFails,
                     SaveEnds, Terminated, vars
<1>12. CASE StartTimeout \/ GreetingSpoken \/ TurnRaises \/ ReplySpoken \/ SpeechFails \/ CloseCall
  BY <1>2, <1>12 DEF StartTimeout, GreetingSpoken, GoesOn, TurnRaises, ReplySpoken,
                     CallCompleted, SpeechFails, CloseCall
<1> QED
  BY <1>3, <1>4, <1>5, <1>6, <1>7, <1>8, <1>9, <1>10, <1>11, <1>12 DEF Next, Bridge,
     Loop

(***************************************************************************)
(* Every variable keeps its type, through all interleavings of the tasks.  *)
(***************************************************************************)
THEOREM TypeCorrect == Spec => []TypeOK
<1>1. Init => TypeOK
  <2> SUFFICES ASSUME Init PROVE TypeOK
    OBVIOUS
  <2>1. agent \in AgentState /\ agent.language \in Language
    BY InitialTypes DEF Init
  <2>2. saving \in Saving /\ row \in [status : {"dialing", "active", "completed"}, report : Report]
    <3>1. NoReport \in Report
      BY DEF NoReport, Report
    <3> QED BY <2>1, <3>1 DEF Init, Saving
  <2>3. work \in AgentState
    BY <2>1 DEF Init
  <2>4. queue \in Seq(Transcript) /\ ending \in Seq(Speaker)
    BY DEF Init
  <2>5. ControlOK
    BY DEF Init, ControlOK
  <2> QED BY <2>1, <2>2, <2>3, <2>4, <2>5, TypesInParts DEF DataOK
<1>2. TypeOK /\ [Next]_vars => TypeOK'
  BY ControlStep, DataStep DEF TypeOK, ControlOK, DataOK
<1> QED BY <1>1, <1>2, PTL DEF Spec

-------------------------------------------------------------------------------
(* The record of the call.                                                 *)

Over == bridge \in {"reporting", "saving", "done"}

\* Which task can have made what is in the agent state and in the graph's copy.
AgentInv ==
    /\ Over <=> ~callActive
    /\ conv \in {"greeting", "thinking"} => work.history = agent.history
    /\ conv = "thinking" => work.report = NoReport
    /\ agent.call_status = "completed" => agent.report # NoReport
    /\ agent.report # NoReport /\ ~Over =>
          conv \in {"replySpeech", "closing", "done"} /\ agent.report.transcript = agent.history
    /\ conv = "greeting" /\ work.report # NoReport => Over

\* What the history held when the line went down is in every report.
EndingInv ==
    Over =>
        /\ ending \in Seq(Speaker)
        /\ conv \in {"waiting", "greeting", "thinking"} => agent.history = ending
        /\ Len(agent.history) <= Len(ending) + 2
        /\ agent.report # NoReport => Begins(ending, agent.report.transcript)
        /\ conv = "greeting" /\ work.report # NoReport => Begins(ending, work.report.transcript)

SavedInv ==
    /\ bridge \in {"saving", "done"} /\ saving.report # NoReport
          => Begins(ending, saving.report.transcript)
    /\ row.report # NoReport => bridge = "done" /\ row.report = saving.report

ClosingInv == conv = "closing" => agent.report # NoReport

SetupInv == session = "connecting" => bridge = "absent" /\ conv = "absent"

RecordInv == AgentInv /\ EndingInv /\ SavedInv /\ ClosingInv /\ SetupInv

LEMMA BeginsItself ==
    ASSUME NEW h \in Seq(Speaker)
    PROVE  Begins(h, h)
BY DEF Begins

LEMMA BeginsLonger ==
    ASSUME NEW h \in Seq(Speaker), NEW x, NEW y
    PROVE  /\ Begins(h, Append(Append(h, x), y))
           /\ Len(Append(Append(h, x), y)) = Len(h) + 2
           /\ Len(Append(h, x)) = Len(h) + 1
<1>1. \A i \in 1..Len(h) : Append(Append(h, x), y)[i] = h[i]
  OBVIOUS
<1> QED BY <1>1 DEF Begins

LEMMA RecordInvInit == Init => RecordInv
<1> SUFFICES ASSUME Init PROVE RecordInv
  OBVIOUS
<1>1. agent.report = NoReport /\ agent.call_status = "initializing"
  BY InitialTypes DEF Init
<1> QED
  BY <1>1 DEF Init, RecordInv, AgentInv, EndingInv, SavedInv, ClosingInv, SetupInv,
              Over

LEMMA RecordInvBridge ==
    ASSUME TypeOK, RecordInv, Bridge
    PROVE  RecordInv'
<1> USE DEF RecordInv, AgentInv, EndingInv, SavedInv, ClosingInv, SetupInv, Over,
            line, call, graph, record
<1>1. CASE ReceiveStart
  BY <1>1 DEF ReceiveStart, Begins
<1>2. CASE StartRecorded
  <2>1. row'.report = row.report
    BY <1>2 DEF StartRecorded, Started, TypeOK
  <2> QED BY <1>2, <2>1 DEF StartRecorded, Started
<1>3. CASE Disconnect
  <2>1. ~Over /\ Over' /\ ending' = agent.history
    BY <1>3 DEF Disconnect
  <2>2. agent.history \in Seq(Speaker) /\ Begins(agent.history, agent.history)
    BY BeginsItself, SaveTypes DEF TypeOK, AgentState
  <2>3. AgentInv' /\ ClosingInv' /\ SetupInv'
    BY <1>3, <2>1 DEF Disconnect
  <2>4. EndingInv'
    <3>1. agent.report # NoReport => Begins(ending', agent.report.transcript)
      BY <2>1, <2>2
    <3>2. Len(agent.history) <= Len(ending') + 2
      BY <2>1, <2>2
    <3>3. ~(conv = "greeting" /\ work.report # NoReport)
      BY <2>1
    <3>4. UNCHANGED <<conv, agent, work>>
      BY <1>3 DEF Disconnect
    <3> QED BY <2>1, <2>2, <3>1, <3>2, <3>3, <3>4
  <2>5. SavedInv'
    <3>1. row' = row /\ row.report = NoReport /\ bridge' # "done"
      BY <1>3 DEF Disconnect
    <3>2. CASE agent.report = NoReport
      BY <1>3, <3>1, <3>2 DEF Disconnect
    <3>3. CASE agent.report # NoReport
      <4>1. saving'.report = agent.report
        BY <1>3, <3>3 DEF Disconnect, SaveOf
      <4>2. Begins(ending', agent.report.transcript)
        BY <2>1, <2>2, <3>3
      <4> QED BY <3>1, <4>1, <4>2
    <3> QED BY <3>2, <3>3
  <2> QED BY <2>3, <2>4, <2>5
<1>4. CASE ReporterReturns
  <2>1. PICK r \in ReportsOf(ending) :
          agent' = Reported(agent, r) /\ saving' = SaveOf(r, agent.language)
    BY <1>4 DEF ReporterReturns, HistoryReported
  <2>2. r \in Report /\ r # NoReport /\ r.transcript = ending /\ Begins(ending, ending)
    BY ReportsFacts, BeginsItself DEF TypeOK
  <2>3. /\ agent'.history = agent.history /\ agent'.report = r
        /\ saving'.report = r
    BY <2>1, <2>2, ReportedFacts, SaveTypes DEF TypeOK
  <2>4. Over /\ Over' /\ bridge' = "saving" /\ row.report = NoReport
        /\ UNCHANGED <<session, conv, call, work, ending, row>>
    BY <1>4 DEF ReporterReturns, HistoryReported
  <2>5. AgentInv' /\ ClosingInv' /\ SetupInv'
    BY <2>2, <2>3, <2>4
  <2>6. EndingInv'
    BY <2>2, <2>3, <2>4
  <2>7. SavedInv'
    BY <2>2, <2>3, <2>4
  <2> QED BY <2>5, <2>6, <2>7
<1>5. CASE ReporterRaises
  <2>1. saving'.report = agent.report
    BY <1>5 DEF ReporterRaises, SaveOf
  <2> QED BY <1>5, <2>1 DEF ReporterRaises
<1>6. CASE SaveCommits
  <2>1. row'.report = saving.report
    BY <1>6 DEF SaveCommits, SaveEnds
  <2> QED BY <1>6, <2>1 DEF SaveCommits, SaveEnds
<1>7. CASE SaveFails
  BY <1>7 DEF SaveFails, SaveEnds
<1> QED BY <1>1, <1>2, <1>3, <1>4, <1>5, <1>6, <1>7 DEF Bridge

LEMMA RecordInvLoop ==
    ASSUME TypeOK, RecordInv, Loop
    PROVE  RecordInv'
<1> USE DEF RecordInv, AgentInv, EndingInv, SavedInv, ClosingInv, SetupInv, Over,
            line, call, graph, record
<1>1. CASE StartTimeout \/ GreetingSpoken \/ TurnRaises \/ SpeechFails \/ CloseCall
  BY <1>1 DEF StartTimeout, GreetingSpoken, GoesOn, TurnRaises, SpeechFails,
              CloseCall
<1>2. CASE Greet
  BY <1>2 DEF Greet
<1>3. CASE Greeted
  <2>1. /\ agent'.history = Append(agent.history, "agent")
        /\ agent'.report = work.report
        /\ agent'.call_status = "greeting"
    BY <1>3, GreetingFacts DEF Greeted, TypeOK
  <2>2. conv = "greeting" /\ conv' = "greetingSpeech" /\ UNCHANGED <<session, bridge, call, record>>
    BY <1>3 DEF Greeted
  <2>3. agent.history \in Seq(Speaker)
    BY SaveTypes DEF TypeOK, AgentState
  <2>4. Len(agent'.history) = Len(agent.history) + 1
    BY <2>1, <2>3, BeginsLonger
  <2>5. Over => Len(agent'.history) <= Len(ending) + 2
    BY <2>2, <2>3, <2>4
  <2> QED BY <2>1, <2>2, <2>5
<1>4. CASE Hear
  BY <1>4 DEF Hear, LoopIsOver
<1>5. CASE TurnReturns
  <2>1. /\ agent'.history = Append(Append(agent.history, "caller"), "agent")
        /\ \/ agent'.report = NoReport /\ agent'.call_status = "speaking"
           \/ /\ agent'.report # NoReport
              /\ agent'.report.transcript = agent'.history
    BY <1>5, TurnFacts DEF TurnReturns, TypeOK
  <2>2. conv = "thinking" /\ conv' = "replySpeech" /\ UNCHANGED <<session, bridge, call, record>>
    BY <1>5 DEF TurnReturns
  <2>3. agent.history \in Seq(Speaker)
    BY SaveTypes DEF TypeOK, AgentState
  <2>4. Begins(agent.history, agent'.history) /\ Len(agent'.history) = Len(agent.history) + 2
    BY <2>1, <2>3, BeginsLonger
  <2>5. AgentInv' /\ SavedInv' /\ ClosingInv' /\ SetupInv'
    BY <2>1, <2>2
  <2>6. EndingInv'
    <3> SUFFICES ASSUME Over PROVE EndingInv'
      BY <2>2
    <3>1. agent.history = ending
      BY <2>2
    <3>2. Len(agent'.history) <= Len(ending) + 2
      BY <2>4, <2>3, <3>1
    <3> QED BY <2>1, <2>2, <2>4, <3>1, <3>2
  <2> QED BY <2>5, <2>6
<1>6. CASE ReplySpoken
  BY <1>6 DEF ReplySpoken, CallCompleted, GoesOn
<1> QED BY <1>1, <1>2, <1>3, <1>4, <1>5, <1>6 DEF Loop

LEMMA RecordInvRest ==
    ASSUME TypeOK, RecordInv, Run \/ World \/ Terminated \/ UNCHANGED vars
    PROVE  RecordInv'
<1> USE DEF RecordInv, AgentInv, EndingInv, SavedInv, ClosingInv, SetupInv, Over,
            line, call, graph, record
<1>1. CASE Run
  BY <1>1 DEF Run, SttConnected, SttRefused, Exit
<1>2. CASE World
  BY <1>2 DEF World, HangUp, Transcribe, SttCloses
<1>3. CASE Terminated \/ UNCHANGED vars
  BY <1>3 DEF Terminated, vars
<1> QED BY <1>1, <1>2, <1>3

LEMMA RecordInvariant == Spec => []RecordInv
<1>1. TypeOK /\ RecordInv /\ [Next]_vars => RecordInv'
  BY RecordInvBridge, RecordInvLoop, RecordInvRest DEF Next
<1> QED BY <1>1, RecordInvInit, TypeCorrect, PTL DEF Spec

(***************************************************************************)
(* The stored report covers what was said while the line was up, whatever  *)
(* the loop was doing when it went down.                                   *)
(***************************************************************************)
THEOREM StoredReportCovers == Spec => []TranscriptCovers
<1>1. RecordInv => TranscriptCovers
  BY DEF RecordInv, SavedInv, TranscriptCovers
<1> QED BY <1>1, RecordInvariant, PTL

(***************************************************************************)
(* A hang-up is followed by the rest of at most one turn.                  *)
(***************************************************************************)
THEOREM AtMostOneTurnAfterHangUp == Spec => []OneTurnAfterHangUp
<1>1. RecordInv => OneTurnAfterHangUp
  BY DEF RecordInv, EndingInv, Over, OneTurnAfterHangUp
<1> QED BY <1>1, RecordInvariant, PTL

(***************************************************************************)
(* The loop closes no call that has no report.                             *)
(***************************************************************************)
THEOREM OnlyReportedCallsAreClosed == Spec => []ClosedWithReport
<1>1. RecordInv => ClosedWithReport
  BY DEF RecordInv, ClosingInv, ClosedWithReport
<1> QED BY <1>1, RecordInvariant, PTL

(***************************************************************************)
(* The registry has the session exactly while the bridge is at work.       *)
(***************************************************************************)
THEOREM RegistryIsExact == Spec => []RegisteredUntilSaved
<1> DEFINE Inv == RegisteredUntilSaved /\ SetupInv
<1> USE DEF RegisteredUntilSaved, SetupInv, line, call, graph, record
<1>1. Init => Inv
  BY DEF Init
<1>2. Inv /\ [Next]_vars => Inv'
  <2> SUFFICES ASSUME Inv, [Next]_vars PROVE Inv'
    OBVIOUS
  <2>1. CASE Run
    BY <2>1 DEF Run, SttConnected, SttRefused, Exit
  <2>2. CASE World
    BY <2>2 DEF World, HangUp, Transcribe, SttCloses
  <2>3. CASE Bridge
    <3>1. CASE ReceiveStart \/ StartRecorded \/ Disconnect
      BY <3>1 DEF ReceiveStart, StartRecorded, Started, Disconnect
    <3>2. CASE ReporterReturns \/ ReporterRaises
      BY <3>2 DEF ReporterReturns, HistoryReported, ReporterRaises
    <3>3. CASE SaveCommits \/ SaveFails
      BY <3>3 DEF SaveCommits, SaveEnds, SaveFails
    <3> QED BY <2>3, <3>1, <3>2, <3>3 DEF Bridge
  <2>4. CASE Loop
    <3>1. conv # "absent"
      BY <2>4 DEF Loop, StartTimeout, Greet, Greeted, GreetingSpoken, GoesOn, Hear,
                  LoopIsOver, TurnReturns, TurnRaises, ReplySpoken, SpeechFails,
                  CloseCall
    <3>2. UNCHANGED <<session, bridge, registered>>
      BY <2>4 DEF Loop, StartTimeout, Greet, Greeted, GreetingSpoken, GoesOn, Hear,
                  LoopIsOver, TurnReturns, TurnRaises, ReplySpoken, SpeechFails,
                  CloseCall
    <3> QED BY <3>1, <3>2
  <2>5. CASE Terminated \/ UNCHANGED vars
    BY <2>5 DEF Terminated, vars
  <2> QED BY <2>1, <2>2, <2>3, <2>4, <2>5 DEF Next
<1>3. Inv => RegisteredUntilSaved
  OBVIOUS
<1> QED BY <1>1, <1>2, <1>3, PTL DEF Spec

-------------------------------------------------------------------------------
(* The calls that are stored.                                              *)

\* What must not happen for every call to be stored.
Faultless ==
    /\ ~DbFaults
    /\ ~NonObjectAnswers
    /\ \A l \in ClassifierLanguages : StorableLanguage(l)
    /\ "unstorable" \notin ReportKinds

\* Every report is one the table takes, and the bridge saves one.
StoredInv ==
    /\ agent.report.kind # "unstorable" /\ work.report.kind # "unstorable"
    /\ bridge = "saving" => saving.report # NoReport /\ saving.report.kind # "unstorable"
    /\ EveryCallReported

LEMMA StoredInvInit == Init => StoredInv
<1> SUFFICES ASSUME Init PROVE StoredInv
  OBVIOUS
<1>1. agent.report = NoReport /\ work.report = NoReport
  BY InitialTypes DEF Init
<1> QED BY <1>1 DEF Init, StoredInv, EveryCallReported, NoReport

LEMMA StoredInvBridge ==
    ASSUME Faultless, TypeOK, StoredInv, SavedInv, Bridge
    PROVE  StoredInv'
<1> USE DEF Faultless, StoredInv, EveryCallReported, line, call, graph, record
<1>1. CASE ReceiveStart \/ StartRecorded
  BY <1>1 DEF ReceiveStart, StartRecorded, Started
<1>2. CASE Disconnect
  <2>1. saving' = saving \/ saving'.report = agent.report
    BY <1>2 DEF Disconnect, SaveOf
  <2> QED BY <1>2, <2>1 DEF Disconnect, SaveOf
<1>3. CASE ReporterReturns
  <2>1. PICK r \in ReportsOf(ending) :
          agent' = Reported(agent, r) /\ saving' = SaveOf(r, agent.language)
    BY <1>3 DEF ReporterReturns, HistoryReported
  <2>2. r \in Report /\ r # NoReport /\ r.kind # "unstorable"
    BY ReportsFacts DEF TypeOK
  <2>3. agent'.report = r /\ saving'.report = r
    <3>1. agent \in AgentState
      BY DEF TypeOK
    <3> QED BY <2>1, <2>2, <3>1, ReportedFacts, SaveTypes
  <2>4. bridge' = "saving" /\ work' = work
    BY <1>3 DEF ReporterReturns, HistoryReported
  <2> QED BY <2>2, <2>3, <2>4
<1>4. CASE ReporterRaises
  BY <1>4 DEF ReporterRaises
<1>5. CASE SaveCommits
  <2>1. row'.report = saving.report /\ row'.status = "completed"
    BY <1>5 DEF SaveCommits, SaveEnds
  <2> QED BY <1>5, <2>1 DEF SaveCommits, SaveEnds
<1>6. CASE SaveFails
  <2>1. StorableLanguage(saving.language)
    BY DEF TypeOK, Saving, StorableLanguage, Language
  <2> QED BY <1>6, <2>1 DEF SaveFails, SaveEnds, Storable
<1> QED BY <1>1, <1>2, <1>3, <1>4, <1>5, <1>6 DEF Bridge

LEMMA StoredInvRest ==
    ASSUME Faultless, TypeOK, StoredInv, SetupInv,
           Run \/ Loop \/ World \/ Terminated \/ UNCHANGED vars
    PROVE  StoredInv'
<1> USE DEF Faultless, StoredInv, EveryCallReported, SetupInv, line, call, graph, record
<1>1. CASE Run
  BY <1>1 DEF Run, SttConnected, SttRefused, Exit
<1>2. CASE World
  BY <1>2 DEF World, HangUp, Transcribe, SttCloses
<1>3. CASE StartTimeout \/ GreetingSpoken \/ TurnRaises \/ ReplySpoken \/ SpeechFails \/ CloseCall
  BY <1>3 DEF StartTimeout, GreetingSpoken, GoesOn, TurnRaises, ReplySpoken,
              CallCompleted, SpeechFails, CloseCall
<1>4. CASE Greet \/ Hear
  BY <1>4 DEF Greet, Hear, LoopIsOver
<1>5. CASE Greeted
  <2>1. agent'.report = work.report
    BY <1>5, GreetingFacts DEF Greeted, TypeOK
  <2> QED BY <1>5, <2>1 DEF Greeted
<1>6. CASE TurnReturns
  <2>1. agent'.report.kind # "unstorable"
    BY <1>6, TurnFacts DEF TurnReturns, TypeOK
  <2> QED BY <1>6, <2>1 DEF TurnReturns
<1>7. CASE Terminated \/ UNCHANGED vars
  BY <1>7 DEF Terminated, vars
<1> QED BY <1>1, <1>2, <1>3, <1>4, <1>5, <1>6, <1>7 DEF Loop

(***************************************************************************)
(* When the database takes every transaction and the models answer JSON    *)
(* objects with values the columns can hold, every call that ends has its  *)
(* report stored: wherever the hang-up falls in a turn, and although the   *)
(* result of that turn takes the report out of the agent state again.      *)
(***************************************************************************)
THEOREM FaultlessCallsAreReported == Faultless => (Spec => []EveryCallReported)
<1> SUFFICES ASSUME Faultless PROVE Spec => []EveryCallReported
  OBVIOUS
<1>1. Init => StoredInv
  BY StoredInvInit
<1>2. TypeOK /\ RecordInv /\ StoredInv /\ [Next]_vars => StoredInv'
  BY StoredInvBridge, StoredInvRest DEF RecordInv, Next
<1>3. StoredInv => EveryCallReported
  BY DEF StoredInv
<1> QED BY <1>1, <1>2, <1>3, TypeCorrect, RecordInvariant, PTL DEF Spec

-------------------------------------------------------------------------------
(* The session as CallRouting sees it.                                     *)

\* A report is on its way only when the line is gone, for good; and there is
\* one start message.
LineInv ==
    /\ bridge \in {"reporting", "saving", "done"} => ws = "closed"
    /\ bridge = "starting" => ~started

LEMMA LineInvariant == Spec => []LineInv
<1>1. Init => LineInv
  BY DEF Init, LineInv
<1>2. TypeOK /\ RecordInv /\ LineInv /\ [Next]_vars => LineInv'
  <2> SUFFICES ASSUME TypeOK, RecordInv, LineInv, [Next]_vars PROVE LineInv'
    OBVIOUS
  <2> USE DEF LineInv, RecordInv, SetupInv, line, call, graph, record
  <2>1. CASE Run
    BY <2>1 DEF Run, SttConnected, SttRefused, Exit
  <2>2. CASE World
    BY <2>2 DEF World, HangUp, Transcribe, SttCloses
  <2>3. CASE Bridge
    BY <2>3 DEF Bridge, ReceiveStart, StartRecorded, Disconnect, ReporterReturns, ReporterRaises,
                SaveCommits, SaveFails, SaveEnds
  <2>4. CASE Loop
    BY <2>4 DEF Loop, StartTimeout, Greet, Greeted, GreetingSpoken, GoesOn, Hear, TurnReturns,
                TurnRaises, ReplySpoken, SpeechFails, CloseCall
  <2>5. CASE Terminated \/ UNCHANGED vars
    BY <2>5 DEF Terminated, vars
  <2> QED BY <2>1, <2>2, <2>3, <2>4, <2>5 DEF Next
<1> QED BY <1>1, <1>2, TypeCorrect, RecordInvariant, PTL DEF Spec

\* What CallRouting does not see of a step.
LEMMA HiddenStep ==
    ASSUME UNCHANGED <<ws, RoutedMedia, RoutedRow>>
    PROVE  UNCHANGED Routing!vars
BY DEF Routing!vars, Routing!database, Routing!twilio

LEMMA HangUpIsRouted ==
    ASSUME ws = "open", ws' = "closed", UNCHANGED <<RoutedMedia, RoutedRow>>
    PROVE  Routing!HangUp("call")
<1>1. [l \in {"call"} |-> IF ws' = "open" THEN "in-progress" ELSE "completed"]
        = [[l \in {"call"} |-> IF ws = "open" THEN "in-progress" ELSE "completed"]
             EXCEPT !["call"] = "completed"]
  OBVIOUS
<1>2. [l \in {"call"} |-> IF ws = "open" THEN "in-progress" ELSE "completed"]["call"] = "in-progress"
  OBVIOUS
<1> QED BY <1>1, <1>2 DEF Routing!HangUp, Routing!database

RoutedRows == [status : {"dialing", "active", "completed"}, sid : {"call"}, report : {"none", "call"}]

\* Two rows with the same columns are the same.
LEMMA SameRow ==
    ASSUME NEW p \in RoutedRows, NEW q \in RoutedRows,
           p.status = q.status, p.sid = q.sid, p.report = q.report
    PROVE  p = q
BY DEF RoutedRows

\* What CallRouting writes into a row.
LEMMA RowWrites ==
    ASSUME NEW p \in RoutedRows
    PROVE  /\ LET q == [p EXCEPT !.sid = "call", !.status = "active"] IN
                 q \in RoutedRows /\ q.status = "active" /\ q.sid = "call" /\ q.report = p.report
           /\ LET q == [p EXCEPT !.status = "completed", !.report = "call"] IN
                 q \in RoutedRows /\ q.status = "completed" /\ q.sid = "call" /\ q.report = "call"
BY DEF RoutedRows

LEMMA RoutedRowFacts ==
    ASSUME NEW r \in [status : {"dialing", "active", "completed"}, report : Report]
    PROVE  LET q == RoutedAs(r.status, IF r.report = NoReport THEN "none" ELSE "call") IN
           /\ q \in RoutedRows
           /\ q.status = r.status /\ q.sid = "call"
           /\ q.report = IF r.report = NoReport THEN "none" ELSE "call"
BY DEF RoutedAs, RoutedRows

LEMMA StartIsRouted ==
    ASSUME Faultless, TypeOK, TypeOK', LineInv, StartRecorded
    PROVE  Routing!RecordStart("call")
<1>1. RoutedMedia = "open" /\ RoutedMedia' = "started"
  BY DEF StartRecorded, RoutedMedia, LineInv
<1>2. row' = [row EXCEPT !.status = "active"] /\ ws' = ws
  BY DEF StartRecorded, Started, Faultless, line
<1>3. RoutedRow' = [RoutedRow EXCEPT !.sid = "call", !.status = "active"]
  <2>1. row'.status = "active" /\ row'.report = row.report
    BY <1>2 DEF TypeOK
  <2>2. RoutedRow' \in RoutedRows /\ RoutedRow'.status = "active" /\ RoutedRow'.sid = "call"
          /\ RoutedRow'.report = RoutedRow.report
    BY <2>1, RoutedRowFacts DEF RoutedRow, TypeOK
  <2> DEFINE q == [RoutedRow EXCEPT !.sid = "call", !.status = "active"]
  <2>3. RoutedRow \in RoutedRows
    BY RoutedRowFacts DEF RoutedRow, TypeOK
  <2>4. q \in RoutedRows /\ q.status = "active" /\ q.sid = "call" /\ q.report = RoutedRow.report
    BY <2>3, RowWrites
  <2> HIDE DEF q
  <2>5. RoutedRow' = q
    BY <2>2, <2>4, SameRow
  <2> QED BY <2>5 DEF q
<1>4. Routing!BySid("call") \subseteq {"call"}
  BY DEF Routing!BySid, Routing!Legs
<1>5. RoutedMedia' = "started" /\ UNCHANGED <<ws>>
  BY <1>1, <1>2
<1> QED BY <1>1, <1>2, <1>3, <1>4, Zenon DEF Routing!RecordStart, Routing!twilio

LEMMA EndIsRouted ==
    ASSUME TypeOK, TypeOK', RecordInv, LineInv, StoredInv, SaveCommits
    PROVE  Routing!RecordEnd("call")
<1>1. ws = "closed" /\ ws' = "closed" /\ bridge = "saving"
  BY DEF SaveCommits, SaveEnds, LineInv, line
<1>2. RoutedMedia \in {"open", "started"} /\ RoutedMedia' = "over"
  BY <1>1 DEF SaveCommits, SaveEnds, RoutedMedia
<1>3. row.report = NoReport /\ saving.report # NoReport
  BY <1>1 DEF RecordInv, SavedInv, StoredInv
<1>4. row'.status = "completed" /\ row'.report = saving.report
  BY DEF SaveCommits
<1>5. RoutedRow.report = "none"
  BY <1>3, RoutedRowFacts DEF RoutedRow, TypeOK
<1>6. RoutedRow' = [RoutedRow EXCEPT !.status = "completed", !.report = "call"]
  <2>1. RoutedRow' \in RoutedRows /\ RoutedRow'.status = "completed" /\ RoutedRow'.sid = "call"
          /\ RoutedRow'.report = "call"
    BY <1>3, <1>4, RoutedRowFacts DEF RoutedRow, TypeOK
  <2> DEFINE q == [RoutedRow EXCEPT !.status = "completed", !.report = "call"]
  <2>2. RoutedRow \in RoutedRows
    BY RoutedRowFacts DEF RoutedRow, TypeOK
  <2>3. q \in RoutedRows /\ q.status = "completed" /\ q.sid = "call" /\ q.report = "call"
    BY <2>2, RowWrites
  <2> HIDE DEF q
  <2>4. RoutedRow' = q
    BY <2>1, <2>3, SameRow
  <2> QED BY <2>4 DEF q
<1> QED BY <1>1, <1>2, <1>5, <1>6 DEF Routing!RecordEnd, Routing!SessionEnds, Routing!twilio

\* All other steps leave the row alone, and can only take the line down.
LEMMA OtherSteps ==
    ASSUME Faultless, TypeOK, RecordInv, LineInv, StoredInv, [Next]_vars,
           ~StartRecorded, ~SaveCommits
    PROVE  /\ UNCHANGED <<RoutedMedia, row>>
           /\ ws' = ws \/ (ws = "open" /\ ws' = "closed")
<1> USE DEF line, call, graph, record, RoutedMedia
<1>1. CASE Run
  BY <1>1 DEF Run, SttConnected, SttRefused, Exit, RecordInv, SetupInv, TypeOK
<1>2. CASE World
  BY <1>2 DEF World, HangUp, Transcribe, SttCloses
<1>3. CASE Bridge
  <2>1. ~SaveFails
    <3>1. saving \in Saving => StorableLanguage(saving.language)
      BY DEF Saving, Faultless, StorableLanguage, Language
    <3> QED BY <3>1 DEF SaveFails, SaveEnds, Faultless, Storable, StoredInv, TypeOK
  <2> QED BY <1>3, <2>1 DEF Bridge, ReceiveStart, Disconnect, ReporterReturns, ReporterRaises
<1>4. CASE Loop
  BY <1>4 DEF Loop, StartTimeout, Greet, Greeted, GreetingSpoken, GoesOn, Hear, TurnReturns,
              TurnRaises, ReplySpoken, SpeechFails, CloseCall, TypeOK
<1>5. CASE Terminated \/ UNCHANGED vars
  BY <1>5 DEF Terminated, vars
<1> QED BY <1>1, <1>2, <1>3, <1>4, <1>5 DEF Next

(***************************************************************************)
(* A session of which nothing fails is, to the rest of the system, no more *)
(* than what CallRouting says of it, however its tasks interleave: so what *)
(* is proved of CallRouting does not depend on how a session goes about    *)
(* its work.  With faults it would not be: a start or a report that is not *)
(* recorded is no step of CallRouting, whose database answers.             *)
(***************************************************************************)
THEOREM FaultlessSessionsAreRouted == Faultless => (Spec => SessionAsRouted)
<1> SUFFICES ASSUME Faultless PROVE Spec => SessionAsRouted
  OBVIOUS
<1>1. Init => StoredInv
  BY StoredInvInit
<1>2. TypeOK /\ RecordInv /\ StoredInv /\ [Next]_vars => StoredInv'
  BY StoredInvBridge, StoredInvRest DEF RecordInv, Next
<1>3. TypeOK /\ TypeOK' /\ RecordInv /\ LineInv /\ StoredInv /\ [Next]_vars
        => [RoutedStep]_(Routing!vars)
  <2> SUFFICES ASSUME TypeOK, TypeOK', RecordInv, LineInv, StoredInv, [Next]_vars
               PROVE  [RoutedStep]_(Routing!vars)
    OBVIOUS
  <2>1. CASE StartRecorded
    BY <2>1, StartIsRouted DEF RoutedStep
  <2>2. CASE SaveCommits
    BY <2>2, EndIsRouted DEF RoutedStep
  <2>3. CASE ~StartRecorded /\ ~SaveCommits
    <3>1. UNCHANGED <<RoutedMedia, RoutedRow>>
      BY <2>3, OtherSteps DEF RoutedRow
    <3>2. CASE ws' = ws
      BY <3>1, <3>2, HiddenStep
    <3>3. CASE ws = "open" /\ ws' = "closed"
      BY <3>1, <3>3, HangUpIsRouted DEF RoutedStep
    <3> QED BY <2>3, <3>2, <3>3, OtherSteps
  <2> QED BY <2>1, <2>2, <2>3
<1> QED BY <1>1, <1>2, <1>3, TypeCorrect, RecordInvariant, LineInvariant, PTL
        DEF Spec, SessionAsRouted

===============================================================================
