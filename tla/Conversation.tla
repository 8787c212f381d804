----------------------------- MODULE Conversation -----------------------------
(***************************************************************************)
(* The conversation of one call, node by node: the greeting graph, then    *)
(* conversation_graph once per caller utterance, driven by the loop of     *)
(* VoiceSession._conversation_loop.  The telephone line is perfect here:   *)
(* VoiceSession.tla has the hang-ups and the concurrency.                  *)
(***************************************************************************)
EXTENDS AgentGraph

VARIABLES
    agent,  \* VoiceSession.agent_state
    node,   \* the node to run next, or where the driving loop stands
    work,   \* the state the running graph invocation works on
    answers \* history variable: the key_info of every classification so far

vars == <<agent, node, work, answers>>

Nodes == {"intent_classifier", "completion_checker", "responder", "wrap_up", "reporter"}

Init ==
    /\ \E l \in Language : agent = InitialAgentState(l)
    /\ node = "greeting"
    /\ work = agent
    /\ answers = <<>>

\* greeting_graph: START -> greeting -> END.
Greet ==
    /\ node = "greeting"
    /\ agent' = Greeting(agent)
    /\ node' = "listening"
    /\ work' = agent'
    /\ UNCHANGED answers

\* The caller has spoken: the loop invokes conversation_graph on the agent state.
Hear ==
    /\ node = "listening"
    /\ work' = agent
    /\ node' = "intent_classifier"
    /\ UNCHANGED <<agent, answers>>

Classify ==
    /\ node = "intent_classifier"
    /\ \E c \in Classification(work) :
          /\ work' = Classified(work, c.intent, c.language, c.info)
          /\ answers' = Append(answers, c.info)
    /\ node' = RouteAfterIntent(work')
    /\ UNCHANGED agent

\* Mutant of CheckCompletion: the edge to wrap_up leads back to the checker.
CheckCompletionAgain ==
    /\ node = "completion_checker"
    /\ work' \in CompletionChecker(work)
    /\ node' = IF RouteAfterCompletionCheck(work') = "responder"
               THEN "responder" ELSE "completion_checker"
    /\ UNCHANGED <<agent, answers>>

CheckCompletion ==
    /\ node = "completion_checker"
    /\ work' \in CompletionChecker(work)
    /\ node' = RouteAfterCompletionCheck(work')
    /\ UNCHANGED <<agent, answers>>

\* Mutant of Respond: the result of the graph is not merged into the agent state.
RespondUnmerged ==
    /\ node = "responder"
    /\ work' = Responder(work)
    /\ agent' = [work' EXCEPT !.history = agent.history]
    /\ node' = "listening"
    /\ UNCHANGED answers

\* responder -> END: the loop updates the agent state and waits for the caller.
Respond ==
    /\ node = "responder"
    /\ work' = Responder(work)
    /\ agent' = work'
    /\ node' = "listening"
    /\ UNCHANGED answers

\* Mutant of SayGoodbye: the call ends without the reporter.
SayGoodbyeAndEnd ==
    /\ node = "wrap_up"
    /\ work' = WrapUp(work)
    /\ agent' = work'
    /\ node' = "ended"
    /\ UNCHANGED answers

SayGoodbye ==
    /\ node = "wrap_up"
    /\ work' = WrapUp(work)
    /\ node' = "reporter"
    /\ UNCHANGED <<agent, answers>>

\* reporter -> END: the loop sees the report and closes the call.
GenerateReport ==
    /\ node = "reporter"
    /\ work' \in Reporter(work)
    /\ agent' = work'
    /\ node' = "ended"
    /\ UNCHANGED answers

\* classification.get and **report_data are outside the nodes' try blocks: an
\* answer that is JSON but not an object raises out of the graph and the loop.
Raise ==
    /\ NonObjectAnswers
    /\ node \in {"intent_classifier", "reporter"}
    /\ node' = "raised"
    /\ UNCHANGED <<agent, work, answers>>

Terminated ==
    /\ node \in {"ended", "raised"}
    /\ UNCHANGED vars

RunNode == Classify \/ CheckCompletion \/ Respond \/ SayGoodbye \/ GenerateReport \/ Raise

Next == Greet \/ Hear \/ RunNode \/ Terminated

(***************************************************************************)
(* A node that has started returns: each awaits one model request, which   *)
(* answers or fails.  Nothing obliges the caller to speak.                 *)
(***************************************************************************)
Spec == Init /\ [][Next]_vars /\ WF_vars(RunNode)

-------------------------------------------------------------------------------
TypeOK ==
    /\ agent \in AgentState
    /\ work \in AgentState
    /\ node \in Nodes \cup {"greeting", "listening", "ended", "raised"}
    /\ answers \in Seq(KeyInfo)

(***************************************************************************)
(* The agent never answers more turns than max_turns allows: the check     *)
(* runs before the reply that would exceed the limit, on every path.       *)
(***************************************************************************)
TurnBudget == work.turn_count <= MaxTurns /\ agent.turn_count <= MaxTurns

(***************************************************************************)
(* Between turns the transcript is exactly the greeting and one exchange   *)
(* per counted turn, agent and caller in alternation: no utterance or      *)
(* reply is lost, duplicated or reordered by the merge of graph results    *)
(* into the agent state, and turn_count counts what the transcript has.    *)
(***************************************************************************)
Alternates(h) == \A i \in 1..Len(h) : h[i] = IF i % 2 = 1 THEN "agent" ELSE "caller"

TranscriptMatchesTurns ==
    /\ node = "listening" => Len(agent.history) = 2 * agent.turn_count + 1
    /\ node = "ended" => Len(agent.history) = 2 * agent.turn_count + 3
    /\ Alternates(agent.history)

(***************************************************************************)
(* A call that is left open is unfinished business: whenever the loop      *)
(* waits for the caller, the last turn neither completed the task nor      *)
(* heard the caller ask to end the call, and there is no report yet.       *)
(***************************************************************************)
OpenCallIsUnfinished ==
    node = "listening" =>
        ~agent.task_completed /\ agent.intent # "end_call" /\ agent.report = NoReport

(***************************************************************************)
(* The report is generated from the whole conversation: when the loop sees *)
(* it, its transcript is the full history, the closing line included.      *)
(***************************************************************************)
ReportIsComplete ==
    agent.report # NoReport => agent.report.transcript = agent.history

(***************************************************************************)
(* Between turns extraction_data is the last word on every key: the value  *)
(* the latest classification gave that had the key, null when that was     *)
(* null.  A classification without the key, or a failing model, takes      *)
(* nothing away, and nothing the classifier told is lost between the copy  *)
(* the graph works on and the agent state.                                 *)
(***************************************************************************)
LastWord(said, k, value) ==
    \/ value = "untold" /\ \A i \in 1..Len(said) : said[i][k] = "untold"
    \/ /\ value # "untold"
       /\ \E i \in 1..Len(said) :
             /\ said[i][k] = value
             /\ \A j \in (i + 1)..Len(said) : said[j][k] = "untold"

ExtractionIsLastWord ==
    node \in {"listening", "ended"} =>
        \A k \in InfoKeys : LastWord(answers, k, agent.extraction[k])

(***************************************************************************)
(* A caller who keeps talking does not keep the call open for ever: if     *)
(* graph invocations never cease, one of them ends the call (or raises).   *)
(***************************************************************************)
TalkingEnds == []<>(node \in Nodes) => <>(node \in {"ended", "raised"})

-------------------------------------------------------------------------------
(* The conversation keeps the contract of Dialogue.tla.                    *)

DialoguePhase ==
    CASE node = "greeting" -> "greeting"
      [] node = "ended"    -> "closed"
      [] node = "raised"   -> "broken"
      [] OTHER             -> "open"

Contract == INSTANCE Dialogue WITH
                phase <- DialoguePhase,
                exchanges <- agent.turn_count,
                reported <- agent.report # NoReport

KeepsContract == Contract!Spec

===============================================================================
