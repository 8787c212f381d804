----------------------------- MODULE VoiceSession -----------------------------
(***************************************************************************)
(* One call, as voice/session_manager.py runs it: the tasks that share a   *)
(* VoiceSession on one event loop.                                         *)
(*                                                                         *)
(*   bridge    TwilioMediaBridge.run: the messages of the telephone line,  *)
(*             and, once the line is gone, _on_call_ended                  *)
(*   conv      _conversation_loop: greeting, turns, replies, closing       *)
(*   Deepgram  the receive loop of DeepgramSTT, which feeds the queue of   *)
(*             transcripts                                                 *)
(*                                                                         *)
(* An action runs from one await of a task to its next.  Between two       *)
(* awaits nothing else runs; at an await anything else may: a hang-up can  *)
(* fall anywhere inside a turn, and _on_call_ended can be in the middle of *)
(* its report while the loop is in the middle of a turn.                   *)
(***************************************************************************)
EXTENDS AgentGraph

CONSTANTS
    QueueCap,     \* bound: transcripts waiting in the queue
    DbFaults,     \* may a database transaction fail?
    Strict,       \* does the database check the Enum columns?  PostgreSQL does, SQLite not
    SpeechFaults  \* may a TTS connection fail?

ASSUME VoiceSessionAssumption ==
    QueueCap \in Nat /\ {DbFaults, Strict, SpeechFaults} \subseteq BOOLEAN

VARIABLES
    session,     \* VoiceSession.run
    bridge,      \* where bridge.run stands
    conv,        \* where _conversation_loop stands
    ws,          \* the Twilio WebSocket
    stt,         \* the Deepgram connection
    queue,       \* DeepgramSTT._transcript_queue
    callActive,  \* _call_active
    started,     \* _call_started_event
    timedOut,    \* the loop gave up waiting for the start message
    agent,       \* agent_state
    work,        \* the copy of agent_state the running graph works on
    ending,      \* the history when _on_call_ended ran
    saving,      \* the report and language _save_report_to_db is writing
    row,         \* the calls row: its status, and its call_reports row
    registered   \* is the session in _active_sessions?

line == <<ws, stt, queue>>
call == <<callActive, started, timedOut>>
graph == <<agent, work>>
record == <<ending, saving, row, registered>>
vars == <<session, bridge, conv, line, call, graph, record>>

\* A transcript from Deepgram; "end" is the sentinel None.
Transcript == {"interim", "final", "end"}

Saving == [report : Report, language : Language \cup ClassifierLanguages]

Init ==
    /\ session = "connecting"
    /\ bridge = "absent"
    /\ conv = "absent"
    /\ ws = "open"
    /\ stt = "connecting"
    /\ queue = <<>>
    /\ callActive = TRUE
    /\ started = FALSE
    /\ timedOut = FALSE
    /\ \E l \in Language : agent = InitialAgentState(l)
    /\ work = agent
    /\ ending = <<>>
    /\ saving = [report |-> NoReport, language |-> agent.language]
    /\ \E s \in {"dialing", "active"} : row = [status |-> s, report |-> NoReport]
    /\ registered = FALSE

-------------------------------------------------------------------------------
(* VoiceSession.run                                                        *)

SttConnected ==
    /\ session = "connecting"
    /\ session' = "running"
    /\ stt' = "open"
    /\ bridge' = "receiving"
    /\ conv' = "waiting"
    /\ registered' = TRUE
    /\ UNCHANGED <<ws, queue, call, graph, ending, saving, row>>

\* DeepgramSTT.__aenter__ raises: no bridge, no loop; the socket is dropped.
SttRefused ==
    /\ session = "connecting"
    /\ session' = "failed"
    /\ stt' = "closed"
    /\ ws' = "closed"
    /\ UNCHANGED <<bridge, conv, queue, call, graph, record>>

\* asyncio.gather returns when both tasks have, however they ended.
Exit ==
    /\ session = "running"
    /\ bridge = "done"
    /\ conv = "done"
    /\ session' = "exited"
    /\ stt' = "closed"
    /\ ws' = "closed"
    /\ UNCHANGED <<bridge, conv, queue, call, graph, record>>

-------------------------------------------------------------------------------
(* The world outside: the telephone line and Deepgram.                     *)

HangUp ==
    /\ ws = "open"
    /\ ws' = "closed"
    /\ UNCHANGED <<session, bridge, conv, stt, queue, call, graph, record>>

\* Twilio sends the caller's audio after the start message only.
Transcribe ==
    /\ stt = "open"
    /\ started
    /\ Len(queue) < QueueCap
    /\ \E t \in {"interim", "final"} : queue' = Append(queue, t)
    /\ UNCHANGED <<session, bridge, conv, ws, stt, call, graph, record>>

\* Mutant of SttCloses: the receive loop has no finally, and sends no sentinel.
SttClosesSilently ==
    /\ stt = "open"
    /\ stt' = "closed"
    /\ UNCHANGED <<session, bridge, conv, ws, queue, call, graph, record>>

\* The connection drops, or Deepgram closes it: the sentinel follows.
SttCloses ==
    /\ stt = "open"
    /\ stt' = "closed"
    /\ queue' = Append(queue, "end")
    /\ UNCHANGED <<session, bridge, conv, ws, call, graph, record>>

-------------------------------------------------------------------------------
(* The bridge.                                                             *)

\* The start message; _on_call_started awaits the database.
ReceiveStart ==
    /\ bridge = "receiving"
    /\ ~started
    /\ bridge' = "starting"
    /\ UNCHANGED <<session, conv, line, call, graph, record>>

\* Mutant of Started: Twilio's name of the status is stored.
StartedAsTwilioSays == row' = [row EXCEPT !.status = "in-progress"]

\* _update_db_call_started swallows a failure of the transaction.
Started == row' = [row EXCEPT !.status = "active"] \/ (DbFaults /\ row' = row)

StartRecorded ==
    /\ bridge = "starting"
    /\ Started
    /\ started' = TRUE
    /\ bridge' = "receiving"
    /\ UNCHANGED <<session, conv, line, callActive, timedOut, graph,
                   ending, saving, registered>>

SaveOf(report, language) == [report |-> report, language |-> language]

\* The line is gone: _on_call_ended, up to the reporter's or the save's await.
Disconnect ==
    /\ bridge = "receiving"
    /\ ws = "closed"
    /\ callActive' = FALSE
    /\ ending' = agent.history
    /\ \/ /\ agent.report = NoReport
          /\ bridge' = "reporting"
          /\ UNCHANGED saving
       \/ /\ agent.report # NoReport
          /\ bridge' = "saving"
          /\ saving' = SaveOf(agent.report, agent.language)
    /\ UNCHANGED <<session, conv, line, started, timedOut, graph, row, registered>>

\* Mutant of HistoryReported: the report is made from the graph's copy.
HistoryReportedStale == work.history

\* The history the reporter was given: it was read before the await.
HistoryReported == ending

\* _run_reporter: the rest of the agent state is read after the await.
ReporterReturns ==
    /\ bridge = "reporting"
    /\ \E r \in ReportsOf(HistoryReported) :
          /\ agent' = Reported(agent, r)
          /\ saving' = SaveOf(r, agent.language)
    /\ bridge' = "saving"
    /\ UNCHANGED <<session, conv, line, call, work, ending, row, registered>>

\* _run_reporter swallows the exception; what is saved is what there is by then.
ReporterRaises ==
    /\ NonObjectAnswers
    /\ bridge = "reporting"
    /\ saving' = SaveOf(agent.report, agent.language)
    /\ bridge' = "saving"
    /\ UNCHANGED <<session, conv, line, call, graph, ending, row, registered>>

\* No database takes a null language.  The ORM hands on any other string to the
\* column detected_language, an Enum.
StorableLanguage(l) == l # "null" /\ (Strict => l \in Language)

Storable(s) == StorableLanguage(s.language) /\ s.report.kind # "unstorable"

\* The rest of _on_call_ended, whatever has become of the row.
SaveEnds ==
    /\ bridge = "saving"
    /\ bridge' = "done"
    /\ registered' = FALSE
    /\ UNCHANGED <<session, conv, line, call, graph, ending, saving>>

\* Mutant of SaveCommits: the report is read when the transaction ends.
SaveCommitsWhatIsThere ==
    Storable(saving) /\ row' = [status |-> "completed", report |-> agent.report] /\ SaveEnds

\* One transaction for the calls row and the call_reports row.
SaveCommits ==
    Storable(saving) /\ row' = [status |-> "completed", report |-> saving.report] /\ SaveEnds

\* Mutant of SaveFails: the session is removed only when the save succeeds.
SaveFailsRegistered ==
    /\ bridge = "saving" /\ (DbFaults \/ ~Storable(saving))
    /\ bridge' = "done"
    /\ UNCHANGED <<session, conv, line, call, graph, record>>

\* The failure is logged, and nothing is written.
SaveFails == (DbFaults \/ ~Storable(saving)) /\ UNCHANGED row /\ SaveEnds

-------------------------------------------------------------------------------
(* The conversation loop.                                                  *)

StartTimeout ==
    /\ conv = "waiting"
    /\ ~started
    /\ conv' = "done"
    /\ timedOut' = TRUE
    /\ UNCHANGED <<session, bridge, line, callActive, started, graph, record>>

Greet ==
    /\ conv = "waiting"
    /\ started
    /\ conv' = "greeting"
    /\ work' = agent
    /\ UNCHANGED <<session, bridge, line, call, agent, record>>

\* agent_state.update overwrites every key with the graph's.
Greeted ==
    /\ conv = "greeting"
    /\ agent' = Greeting(work)
    /\ conv' = "greetingSpeech"
    /\ UNCHANGED <<session, bridge, line, call, work, record>>

\* The loop goes on to its next await, and leaves all else alone.
GoesOn(from, to) ==
    /\ conv = from
    /\ conv' = to
    /\ UNCHANGED <<session, bridge, line, call, graph, record>>

GreetingSpoken == GoesOn("greetingSpeech", "listening")

\* Mutant of LoopIsOver: _call_active is not looked at.
LoopIsOverAtSentinel == Head(queue) = "end"

\* The next item of transcripts() ends the loop.
LoopIsOver == Head(queue) = "end" \/ ~callActive

Hear ==
    /\ conv = "listening"
    /\ queue # <<>>
    /\ queue' = Tail(queue)
    /\ \/ LoopIsOver /\ conv' = "done" /\ work' = work
       \/ ~LoopIsOver /\ Head(queue) = "interim" /\ UNCHANGED <<conv, work>>
       \/ ~LoopIsOver /\ Head(queue) = "final" /\ conv' = "thinking" /\ work' = agent
    /\ UNCHANGED <<session, bridge, ws, stt, call, agent, record>>

TurnReturns ==
    /\ conv = "thinking"
    /\ agent' \in TurnResults(work)
    /\ conv' = "replySpeech"
    /\ UNCHANGED <<session, bridge, line, call, work, record>>

TurnRaises == NonObjectAnswers /\ GoesOn("thinking", "done")

\* Mutant of CallCompleted: only a completed task closes the call.
CallCompletedByTaskOnly == agent.task_completed

CallCompleted == agent.call_status = "completed" \/ agent.report # NoReport

ReplySpoken == GoesOn("replySpeech", IF CallCompleted THEN "closing" ELSE "listening")

\* _speak raises out of the loop, which gather collects.
SpeechFails ==
    SpeechFaults /\ \E speech \in {"greetingSpeech", "replySpeech"} : GoesOn(speech, "done")

\* 1.5 s after the closing line the bridge closes the socket.
CloseCall ==
    /\ conv = "closing"
    /\ ws' = "closed"
    /\ conv' = "done"
    /\ UNCHANGED <<session, bridge, stt, queue, call, graph, record>>

Terminated ==
    /\ session \in {"exited", "failed"}
    /\ UNCHANGED vars

Run == SttConnected \/ SttRefused \/ Exit

Bridge ==
    \/ ReceiveStart \/ StartRecorded \/ Disconnect
    \/ ReporterReturns \/ ReporterRaises \/ SaveCommits \/ SaveFails

Loop ==
    \/ StartTimeout \/ Greet \/ Greeted \/ GreetingSpoken \/ Hear
    \/ TurnReturns \/ TurnRaises \/ ReplySpoken \/ SpeechFails \/ CloseCall

World == HangUp \/ Transcribe \/ SttCloses

Next == Run \/ Bridge \/ Loop \/ World \/ Terminated

(***************************************************************************)
(* The event loop serves every task that can go on, requests to the        *)
(* database and the models answer or fail, speech comes to an end, and the *)
(* 30 s timer runs out.  The start message need not come, the caller need  *)
(* neither speak nor hang up.  Deepgram closes a connection that has       *)
(* carried no audio for a while, so one whose call is over is closed.      *)
(***************************************************************************)
SttIdles == ~callActive /\ SttCloses

Fairness ==
    /\ WF_vars(Run)
    /\ WF_vars(StartRecorded)
    /\ WF_vars(Disconnect)
    /\ WF_vars(ReporterReturns \/ ReporterRaises)
    /\ WF_vars(SaveCommits \/ SaveFails)
    /\ WF_vars(Loop)
    /\ WF_vars(SttIdles)

Spec == Init /\ [][Next]_vars /\ Fairness

-------------------------------------------------------------------------------
TypeOK ==
    /\ session \in {"connecting", "running", "exited", "failed"}
    /\ bridge \in {"absent", "receiving", "starting", "reporting", "saving", "done"}
    /\ conv \in {"absent", "waiting", "greeting", "greetingSpeech", "listening",
                 "thinking", "replySpeech", "closing", "done"}
    /\ ws \in {"open", "closed"}
    /\ stt \in {"connecting", "open", "closed"}
    /\ queue \in Seq(Transcript)
    /\ callActive \in BOOLEAN
    /\ started \in BOOLEAN
    /\ timedOut \in BOOLEAN
    /\ agent \in AgentState
    /\ work \in AgentState
    /\ ending \in Seq(Speaker)
    /\ saving \in Saving
    /\ row \in [status : {"dialing", "active", "completed"}, report : Report]
    /\ registered \in BOOLEAN

(***************************************************************************)
(* The stored report covers the call: whatever the transcript held when    *)
(* the line went down is the beginning of the stored transcript, although  *)
(* the loop may be in the middle of a turn while the bridge reports, and   *)
(* its result overwrites the agent state.                                  *)
(***************************************************************************)
Begins(h, t) == Len(h) <= Len(t) /\ \A i \in 1..Len(h) : h[i] = t[i]

TranscriptCovers == row.report # NoReport => Begins(ending, row.report.transcript)

(***************************************************************************)
(* A call that is over is left alone: after the hang-up at most the turn   *)
(* in flight is added to the history (an utterance and its answer), no     *)
(* matter how many transcripts are still in the queue.                     *)
(***************************************************************************)
OneTurnAfterHangUp ==
    bridge \in {"reporting", "saving", "done"} => Len(agent.history) <= Len(ending) + 2

(***************************************************************************)
(* The program hangs up only on calls it has a report for: the report is   *)
(* in the agent state when the loop decides to close, and no other task    *)
(* takes it away while the closing line plays.                             *)
(***************************************************************************)
ClosedWithReport == conv = "closing" => agent.report # NoReport

(***************************************************************************)
(* When _on_call_ended is through, the database has a report of the call,  *)
(* and the call is completed: "generates a structured call report after    *)
(* every call" (agent/nodes/reporter.py:2).                                *)
(***************************************************************************)
EveryCallReported == bridge = "done" => row.report # NoReport /\ row.status = "completed"

(***************************************************************************)
(* The registry counts the sessions whose line may be up or whose record   *)
(* is still being written, and no other: a failing save leaks no entry.    *)
(***************************************************************************)
RegisteredUntilSaved == registered <=> bridge \notin {"absent", "done"}

(***************************************************************************)
(* Once the line is down the session comes to an end, wherever the bridge  *)
(* and the loop were: neither of them, nor gather, waits for ever.         *)
(***************************************************************************)
SessionEnds == ws = "closed" ~> session \in {"exited", "failed"}

(***************************************************************************)
(* A call with a report is hung up: "Repeat until call_status ==           *)
(* "completed" or report is populated" (agent/graph.py:12).                *)
(***************************************************************************)
ReportedCallHangsUp == agent.report # NoReport ~> ws = "closed"

(***************************************************************************)
(* A session as CallRouting sees it: one leg, which has found its row.     *)
(***************************************************************************)
RoutedMedia == IF bridge = "done" THEN "over" ELSE IF started THEN "started" ELSE "open"

RoutedAs(status, report) == [status |-> status, sid |-> "call", report |-> report]

RoutedRow == RoutedAs(row.status, IF row.report = NoReport THEN "none" ELSE "call")

Routing == INSTANCE CallRouting WITH
    Outbound <- {}, Inbound <- {"call"}, Reordered <- {}, None <- "none",
    rows <- [l \in {"call"} |-> RoutedRow],
    leg <- [l \in {"call"} |-> IF ws = "open" THEN "in-progress" ELSE "completed"],
    media <- [l \in {"call"} |-> RoutedMedia],
    stream <- [l \in {"call"} |-> "call"],
    dial <- <<>>, sent <- <<>>, handlers <- <<>>, missed <- {}

(***************************************************************************)
(* With a database that answers, a session is what CallRouting takes it    *)
(* for: it marks its row active at the start message and stores the report *)
(* and the end in one write, once, after the line is gone; whatever the    *)
(* loop and the graph do in between, it touches the row no more.           *)
(***************************************************************************)
RoutedStep == Routing!RecordStart("call") \/ Routing!RecordEnd("call") \/ Routing!HangUp("call")

SessionAsRouted == [][RoutedStep]_(Routing!vars)

===============================================================================
