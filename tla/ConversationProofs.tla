-------------------------- MODULE ConversationProofs --------------------------
(***************************************************************************)
(* What holds of Conversation for all turn limits, languages, keys and     *)
(* reports: its invariants, and the contract of Dialogue.                   *)
(***************************************************************************)
EXTENDS Conversation, AgentGraphProofs

(***************************************************************************)
(* The two agent states and the node keep their types.                     *)
(***************************************************************************)
THEOREM TypeCorrect == Spec => []TypeOK
<1>1. Init => TypeOK
  <2>1. \A l \in Language : InitialAgentState(l) \in AgentState
    <3>1. NoReport \in Report /\ <<>> \in Seq(Speaker) /\ NoInfo \in KeyInfo
      BY DEF NoReport, Report, NoInfo, KeyInfo
    <3> QED BY <3>1 DEF InitialAgentState, AgentState, CallStatus, Intent
  <2> QED BY <2>1 DEF Init, TypeOK
<1>2. TypeOK /\ [Next]_vars => TypeOK'
  <2> SUFFICES ASSUME TypeOK, [Next]_vars PROVE TypeOK'
    OBVIOUS
  <2> USE DEF TypeOK, Nodes
  <2>1. CASE Greet
    BY <2>1, GreetingFacts DEF Greet
  <2>2. CASE Hear \/ Raise \/ Terminated \/ UNCHANGED vars
    BY <2>2 DEF Hear, Raise, Terminated, vars
  <2>3. CASE Classify
    <3>1. PICK c \in Classification(work) :
            /\ work' = Classified(work, c.intent, c.language, c.info)
            /\ answers' = Append(answers, c.info)
      BY <2>3 DEF Classify
    <3>2. work' \in AgentState /\ c.info \in KeyInfo
      BY <3>1, ClassifierFacts
    <3>3. answers' \in Seq(KeyInfo)
      BY <3>1, <3>2
    <3> QED BY <2>3, <3>2, <3>3 DEF Classify, RouteAfterIntent
  <2>4. CASE CheckCompletion
    BY <2>4, CheckerFacts DEF CheckCompletion, RouteAfterCompletionCheck
  <2>5. CASE Respond
    BY <2>5, ResponderFacts DEF Respond
  <2>6. CASE SayGoodbye
    BY <2>6, WrapUpFacts DEF SayGoodbye
  <2>7. CASE GenerateReport
    BY <2>7, ReporterFacts DEF GenerateReport
  <2> QED BY <2>1, <2>2, <2>3, <2>4, <2>5, <2>6, <2>7 DEF Next, RunNode
<1> QED BY <1>1, <1>2, PTL DEF Spec

-------------------------------------------------------------------------------
(* The invariant: what the running graph has made of its copy so far.      *)

TurnsInv ==
    /\ node = "greeting" => agent.turn_count = 0
    /\ node \in Nodes => work.turn_count = agent.turn_count
    /\ node = "responder" => work.turn_count < MaxTurns
    /\ TurnBudget

ReportInv ==
    /\ node # "ended" => agent.report = NoReport
    /\ node \in Nodes => work.report = NoReport
    /\ node = "ended" => agent.report # NoReport
    /\ ReportIsComplete

OpenInv ==
    /\ node = "greeting" => ~agent.task_completed /\ agent.intent # "end_call"
    /\ node \in {"completion_checker", "responder"} => work.intent # "end_call"
    /\ node = "responder" => ~work.task_completed
    /\ OpenCallIsUnfinished

ConversationInv == TurnsInv /\ ReportInv /\ OpenInv

LEMMA ConversationInvStep ==
    ASSUME TypeOK, ConversationInv, [Next]_vars
    PROVE  ConversationInv'
<1> USE DEF ConversationInv, TurnsInv, ReportInv, OpenInv, TurnBudget,
            ReportIsComplete, OpenCallIsUnfinished, Nodes
<1>0. agent \in AgentState /\ work \in AgentState
  BY DEF TypeOK
<1>1. CASE Greet
  BY <1>0, <1>1, GreetingFacts, AgentGraphAssumption DEF Greet
<1>2. CASE Hear \/ Raise \/ Terminated \/ UNCHANGED vars
  BY <1>2 DEF Hear, Raise, Terminated, vars
<1>3. CASE Classify
  <2>1. PICK c \in Classification(work) : work' = Classified(work, c.intent, c.language, c.info)
    BY <1>3 DEF Classify
  <2>2. work'.report = work.report /\ work'.turn_count = work.turn_count
    BY <1>0, <2>1, ClassifierFacts
  <2> QED BY <1>0, <1>3, <2>2 DEF Classify, RouteAfterIntent
<1>4. CASE CheckCompletion
  <2>1. node = "completion_checker" /\ work' \in CompletionChecker(work)
        /\ node' = RouteAfterCompletionCheck(work') /\ UNCHANGED agent
    BY <1>4 DEF CheckCompletion
  <2>2. node' \in {"responder", "wrap_up"}
    BY <2>1 DEF RouteAfterCompletionCheck
  <2>3. node' = "responder" => ~AtTurnLimit(work) /\ ~work'.task_completed
    BY <1>0, <2>1, CheckerFacts DEF RouteAfterCompletionCheck
  <2>4. node' = "responder" => work.turn_count < MaxTurns
    BY <1>0, <2>3, AgentGraphAssumption DEF AtTurnLimit, AgentState
  <2>5. /\ work'.turn_count = work.turn_count /\ work'.report = work.report
        /\ work'.intent = work.intent
    BY <1>0, <2>1, CheckerFacts
  <2> QED BY <2>1, <2>2, <2>3, <2>4, <2>5
<1>5. CASE Respond
  <2>1. work.turn_count \in Nat /\ MaxTurns \in Nat
    BY <1>0, AgentGraphAssumption DEF AgentState
  <2> QED BY <1>0, <1>5, <2>1, ResponderFacts DEF Respond
<1>6. CASE SayGoodbye
  BY <1>0, <1>6, WrapUpFacts DEF SayGoodbye
<1>7. CASE GenerateReport
  BY <1>0, <1>7, ReporterFacts DEF GenerateReport
<1> QED BY <1>1, <1>2, <1>3, <1>4, <1>5, <1>6, <1>7 DEF Next, RunNode

LEMMA ConversationInvariant == Spec => []ConversationInv
<1>1. Init => ConversationInv
  BY AgentGraphAssumption DEF Init, InitialAgentState, ConversationInv, TurnsInv, ReportInv,
     OpenInv, TurnBudget, ReportIsComplete, OpenCallIsUnfinished, Nodes
<1>2. TypeOK /\ ConversationInv /\ [Next]_vars => ConversationInv'
  BY ConversationInvStep
<1> QED BY <1>1, <1>2, TypeCorrect, PTL DEF Spec

(***************************************************************************)
(* No path through the graph answers more turns than max_turns.            *)
(***************************************************************************)
THEOREM TurnsAreBounded == Spec => []TurnBudget
<1>1. ConversationInv => TurnBudget
  BY DEF ConversationInv, TurnsInv
<1> QED BY <1>1, ConversationInvariant, PTL

(***************************************************************************)
(* The loop waits for the caller only in calls with something left to do.  *)
(***************************************************************************)
THEOREM FinishedCallsAreClosed == Spec => []OpenCallIsUnfinished
<1>1. ConversationInv => OpenCallIsUnfinished
  BY DEF ConversationInv, OpenInv
<1> QED BY <1>1, ConversationInvariant, PTL

(***************************************************************************)
(* A report the loop sees has the whole history.                           *)
(***************************************************************************)
THEOREM ReportsAreComplete == Spec => []ReportIsComplete
<1>1. ConversationInv => ReportIsComplete
  BY DEF ConversationInv, ReportInv
<1> QED BY <1>1, ConversationInvariant, PTL

-------------------------------------------------------------------------------
(* What the classifier told, and what extraction_data has of it.           *)

\* Merging one more answer keeps the last word on a key.
LEMMA LastWordOfOneMore ==
    ASSUME NEW said \in Seq(KeyInfo), NEW old \in KeyInfo, NEW info \in KeyInfo,
           NEW k \in InfoKeys, LastWord(said, k, old[k])
    PROVE  LastWord(Append(said, info), k, Merged(old, info)[k])
<1> DEFINE more == Append(said, info)
<1>1. Len(said) \in Nat /\ Len(more) = Len(said) + 1 /\ more[Len(said) + 1] = info
  OBVIOUS
<1>2. \A i \in 1..Len(said) : more[i] = said[i]
  OBVIOUS
<1>3. Merged(old, info)[k] = IF info[k] = "untold" THEN old[k] ELSE info[k]
  BY DEF Merged
<1> HIDE DEF more
<1>4. CASE info[k] = "untold"
  <2>1. CASE old[k] = "untold"
    <3>1. \A i \in 1..Len(said) : said[i][k] = "untold"
      BY <2>1 DEF LastWord
    <3>2. \A i \in 1..Len(more) : more[i][k] = "untold"
      BY <1>1, <1>2, <1>4, <3>1
    <3> QED BY <1>3, <1>4, <2>1, <3>2 DEF LastWord, more
  <2>2. CASE old[k] # "untold"
    <3>1. PICK i \in 1..Len(said) :
            said[i][k] = old[k] /\ \A j \in (i + 1)..Len(said) : said[j][k] = "untold"
      BY <2>2 DEF LastWord
    <3>2. /\ i \in 1..Len(more) /\ more[i][k] = old[k]
          /\ \A j \in (i + 1)..Len(more) : more[j][k] = "untold"
      BY <1>1, <1>2, <1>4, <3>1
    <3> QED BY <1>3, <1>4, <2>2, <3>2 DEF LastWord, more
  <2> QED BY <2>1, <2>2
<1>5. CASE info[k] # "untold"
  <2>1. /\ Len(more) \in 1..Len(more) /\ more[Len(more)][k] = info[k]
        /\ \A j \in (Len(more) + 1)..Len(more) : more[j][k] = "untold"
    BY <1>1
  <2> QED BY <1>3, <1>5, <2>1 DEF LastWord, more
<1> QED BY <1>4, <1>5

\* The copy a running graph works on has the last word on every key too.
ToldInv ==
    /\ node = "greeting" => answers = <<>> /\ agent.extraction = NoInfo
    /\ node \in Nodes => \A k \in InfoKeys : LastWord(answers, k, work.extraction[k])
    /\ ExtractionIsLastWord

LEMMA ToldInvStep ==
    ASSUME TypeOK, ToldInv, [Next]_vars
    PROVE  ToldInv'
<1> USE DEF ToldInv, ExtractionIsLastWord, Nodes
<1>0. /\ agent \in AgentState /\ work \in AgentState /\ answers \in Seq(KeyInfo)
      /\ agent.extraction \in KeyInfo /\ work.extraction \in KeyInfo
  BY DEF TypeOK, AgentState
<1>1. CASE Greet
  <2>1. agent'.extraction = NoInfo /\ answers' = <<>> /\ node' = "listening"
    BY <1>0, <1>1, GreetingFacts DEF Greet
  <2>2. \A k \in InfoKeys : LastWord(<<>>, k, NoInfo[k])
    <3>1. Len(<<>>) = 0
      OBVIOUS
    <3> QED BY <3>1 DEF LastWord, NoInfo
  <2> QED BY <2>1, <2>2
<1>2. CASE Hear \/ Raise \/ Terminated \/ UNCHANGED vars
  BY <1>2 DEF Hear, Raise, Terminated, vars
<1>3. CASE Classify
  <2>1. PICK c \in Classification(work) :
          /\ work' = Classified(work, c.intent, c.language, c.info)
          /\ answers' = Append(answers, c.info)
    BY <1>3 DEF Classify
  <2>2. c.info \in KeyInfo /\ work'.extraction = Merged(work.extraction, c.info)
    BY <1>0, <2>1, ClassifierFacts
  <2>3. node = "intent_classifier" /\ node' \in {"completion_checker", "wrap_up"}
    BY <1>3 DEF Classify, RouteAfterIntent
  <2>4. \A k \in InfoKeys : LastWord(answers', k, work'.extraction[k])
    BY <1>0, <2>1, <2>2, <2>3, LastWordOfOneMore
  <2> QED BY <2>3, <2>4
<1>4. CASE CheckCompletion
  <2>1. work'.extraction = work.extraction /\ UNCHANGED answers
        /\ node = "completion_checker" /\ node' \in {"responder", "wrap_up"}
    BY <1>0, <1>4, CheckerFacts DEF CheckCompletion, RouteAfterCompletionCheck
  <2> QED BY <2>1
<1>5. CASE Respond \/ SayGoodbye
  <2>1. /\ work'.extraction = work.extraction /\ UNCHANGED answers
        /\ node \in {"responder", "wrap_up"}
        /\ \/ node' = "listening" /\ agent' = work'
           \/ node' = "reporter"
    BY <1>0, <1>5, ResponderFacts, WrapUpFacts DEF Respond, SayGoodbye
  <2> QED BY <2>1
<1>6. CASE GenerateReport
  <2>1. /\ work'.extraction = work.extraction /\ UNCHANGED answers /\ agent' = work'
        /\ node = "reporter" /\ node' = "ended"
    BY <1>0, <1>6, ReporterFacts DEF GenerateReport
  <2> QED BY <2>1
<1> QED BY <1>1, <1>2, <1>3, <1>4, <1>5, <1>6 DEF Next, RunNode

(***************************************************************************)
(* Between turns extraction_data has the last word the classifier told on  *)
(* every key, null included, and nothing else.                             *)
(***************************************************************************)
THEOREM LastWordIsKept == Spec => []ExtractionIsLastWord
<1>1. Init => ToldInv
  BY DEF Init, InitialAgentState, ToldInv, ExtractionIsLastWord, Nodes
<1>2. TypeOK /\ ToldInv /\ [Next]_vars => ToldInv'
  BY ToldInvStep
<1>3. ToldInv => ExtractionIsLastWord
  BY DEF ToldInv
<1> QED BY <1>1, <1>2, <1>3, TypeCorrect, PTL DEF Spec

-------------------------------------------------------------------------------
(* The transcript, and what turn_count says of it.                         *)

\* A history of caller and agent in turn may be continued by either, in turn.
LEMMA AlternatesOn ==
    ASSUME NEW h \in Seq(Speaker), Alternates(h), NEW x \in Speaker,
           x = IF Len(h) % 2 = 0 THEN "agent" ELSE "caller"
    PROVE  Alternates(Append(h, x)) /\ Len(Append(h, x)) = Len(h) + 1
<1>1. Len(h) \in Nat /\ Len(Append(h, x)) = Len(h) + 1
  OBVIOUS
<1>2. \A i \in 1..Len(h) : Append(h, x)[i] = h[i]
  OBVIOUS
<1>3. Append(h, x)[Len(h) + 1] = x
  OBVIOUS
<1>4. (Len(h) + 1) % 2 = 1 <=> Len(h) % 2 = 0
  BY <1>1
<1>5. ASSUME NEW i \in 1..(Len(h) + 1)
      PROVE  Append(h, x)[i] = IF i % 2 = 1 THEN "agent" ELSE "caller"
  <2>1. CASE i \in 1..Len(h)
    BY <2>1, <1>2 DEF Alternates
  <2>2. CASE i = Len(h) + 1
    BY <2>2, <1>3, <1>4
  <2> QED BY <1>1, <2>1, <2>2
<1> QED BY <1>1, <1>5 DEF Alternates

LEMMA AgentSpeaksNext ==
    ASSUME NEW h \in Seq(Speaker), Alternates(h), Len(h) % 2 = 0
    PROVE  Alternates(Append(h, "agent")) /\ Len(Append(h, "agent")) = Len(h) + 1
<1>1. "agent" \in Speaker /\ "agent" = IF Len(h) % 2 = 0 THEN "agent" ELSE "caller"
  BY DEF Speaker
<1> QED BY <1>1, AlternatesOn

LEMMA CallerSpeaksNext ==
    ASSUME NEW h \in Seq(Speaker), Alternates(h), Len(h) % 2 = 1
    PROVE  Alternates(Append(h, "caller")) /\ Len(Append(h, "caller")) = Len(h) + 1
<1>1. "caller" \in Speaker /\ "caller" = IF Len(h) % 2 = 0 THEN "agent" ELSE "caller"
  BY DEF Speaker
<1> QED BY <1>1, AlternatesOn

\* How long the history of a state is that the running graph works on.
WorkLength == CASE node = "intent_classifier" -> 2 * work.turn_count + 1
                [] node = "reporter" -> 2 * work.turn_count + 3
                [] OTHER -> 2 * work.turn_count + 2

HistoryInv ==
    /\ node = "greeting" => agent.history = <<>>
    /\ node \in Nodes => Len(work.history) = WorkLength /\ Alternates(work.history)
    /\ TranscriptMatchesTurns

LEMMA HistoryInvStep ==
    ASSUME TypeOK, HistoryInv, [Next]_vars
    PROVE  HistoryInv'
<1> USE DEF HistoryInv, TranscriptMatchesTurns, Nodes, WorkLength
<1>0. /\ agent \in AgentState /\ work \in AgentState
      /\ work.history \in Seq(Speaker) /\ work.turn_count \in Nat
  BY DEF TypeOK, AgentState
<1>1. CASE Greet
  <2>1. /\ agent'.history = Append(agent.history, "agent") /\ agent'.turn_count = 0
        /\ agent.history = <<>> /\ node' = "listening"
    BY <1>0, <1>1, GreetingFacts DEF Greet
  <2>2. agent.history \in Seq(Speaker) /\ Alternates(agent.history)
        /\ Len(agent.history) = 0 /\ Len(agent.history) % 2 = 0
    <3>1. <<>> \in Seq(Speaker) /\ Len(<<>>) = 0
      OBVIOUS
    <3>2. 0 % 2 = 0
      OBVIOUS
    <3> QED BY <2>1, <3>1, <3>2 DEF Alternates
  <2>3. Alternates(agent'.history) /\ Len(agent'.history) = 1
    <3>1. /\ Alternates(Append(agent.history, "agent"))
          /\ Len(Append(agent.history, "agent")) = 1
      BY <2>2, AgentSpeaksNext
    <3>2. agent'.history = Append(agent.history, "agent")
      BY <2>1
    <3> QED BY <3>1, <3>2
  <2> QED BY <2>1, <2>3
<1>2. CASE Hear \/ Raise \/ Terminated \/ UNCHANGED vars
  BY <1>2 DEF Hear, Raise, Terminated, vars
<1>3. CASE Classify
  <2>1. /\ node = "intent_classifier" /\ UNCHANGED agent
        /\ work'.history = Append(work.history, "caller")
        /\ work'.turn_count = work.turn_count
        /\ node' \in {"completion_checker", "wrap_up"}
    <3>1. PICK c \in Classification(work) : work' = Classified(work, c.intent, c.language, c.info)
      BY <1>3 DEF Classify
    <3> QED BY <1>0, <1>3, <3>1, ClassifierFacts DEF Classify, RouteAfterIntent
  <2>2. Len(work.history) = 2 * work.turn_count + 1 /\ Alternates(work.history)
    BY <2>1
  <2>3. Len(work.history) % 2 = 1
    BY <1>0, <2>2
  <2>4. Alternates(work'.history) /\ Len(work'.history) = 2 * work'.turn_count + 2
    BY <1>0, <2>1, <2>2, <2>3, CallerSpeaksNext
  <2> QED BY <2>1, <2>4
<1>4. CASE CheckCompletion
  <2>1. /\ node = "completion_checker" /\ UNCHANGED agent
        /\ work'.history = work.history /\ work'.turn_count = work.turn_count
        /\ node' \in {"responder", "wrap_up"}
    BY <1>0, <1>4, CheckerFacts DEF CheckCompletion, RouteAfterCompletionCheck
  <2> QED BY <2>1
<1>5. CASE Respond \/ SayGoodbye
  <2>1. /\ node \in {"responder", "wrap_up"}
        /\ work'.history = Append(work.history, "agent")
    BY <1>0, <1>5, ResponderFacts, WrapUpFacts DEF Respond, SayGoodbye
  <2>2. Len(work.history) = 2 * work.turn_count + 2 /\ Alternates(work.history)
    BY <2>1
  <2>3. Len(work.history) % 2 = 0
    BY <1>0, <2>2
  <2>4. Alternates(work'.history) /\ Len(work'.history) = 2 * work.turn_count + 3
    BY <1>0, <2>1, <2>2, <2>3, AgentSpeaksNext
  <2>5. CASE Respond
    <3>1. agent' = work' /\ node' = "listening" /\ work'.turn_count = work.turn_count + 1
      BY <1>0, <2>5, ResponderFacts DEF Respond
    <3>2. Len(agent'.history) = 2 * agent'.turn_count + 1
      BY <1>0, <2>4, <3>1
    <3> QED BY <2>4, <3>1, <3>2
  <2>6. CASE SayGoodbye
    <3>1. UNCHANGED agent /\ node' = "reporter" /\ work'.turn_count = work.turn_count
      BY <1>0, <2>6, WrapUpFacts DEF SayGoodbye
    <3> QED BY <2>4, <3>1
  <2> QED BY <1>5, <2>5, <2>6
<1>6. CASE GenerateReport
  <2>1. /\ node = "reporter" /\ node' = "ended" /\ agent' = work'
        /\ work'.history = work.history /\ work'.turn_count = work.turn_count
    BY <1>0, <1>6, ReporterFacts DEF GenerateReport
  <2> QED BY <2>1
<1> QED BY <1>1, <1>2, <1>3, <1>4, <1>5, <1>6 DEF Next, RunNode

(***************************************************************************)
(* The transcript is the greeting, one exchange per counted turn, and the  *)
(* closing exchange, agent and caller in alternation.                      *)
(***************************************************************************)
THEOREM TurnsAreTranscribed == Spec => []TranscriptMatchesTurns
<1>1. Init => HistoryInv
  BY DEF Init, InitialAgentState, HistoryInv, TranscriptMatchesTurns, Alternates, Nodes
<1>2. TypeOK /\ HistoryInv /\ [Next]_vars => HistoryInv'
  BY HistoryInvStep
<1>3. HistoryInv => TranscriptMatchesTurns
  BY DEF HistoryInv
<1> QED BY <1>1, <1>2, <1>3, TypeCorrect, PTL DEF Spec

-------------------------------------------------------------------------------
(***************************************************************************)
(* The conversation implements the contract: every node of the graph is a  *)
(* step of Dialogue or a stuttering step of it.                            *)
(***************************************************************************)
THEOREM ContractIsKept == Spec => KeepsContract
<1> USE DEF DialoguePhase, Nodes
<1>1. Init => Contract!Init
  BY DEF Init, InitialAgentState, Contract!Init
<1>2. TypeOK /\ ConversationInv /\ [Next]_vars => [Contract!Next]_(Contract!dialogueVars)
  <2> SUFFICES ASSUME TypeOK, ConversationInv, [Next]_vars
               PROVE  Contract!Next \/ UNCHANGED Contract!dialogueVars
    OBVIOUS
  <2> USE DEF ConversationInv, TurnsInv, ReportInv, Contract!dialogueVars
  <2>0. agent \in AgentState /\ work \in AgentState
    BY DEF TypeOK
  <2>1. CASE Greet
    BY <2>0, <2>1, GreetingFacts DEF Greet, Contract!Next, Contract!Open
  <2>2. CASE Hear \/ SayGoodbye \/ Terminated \/ UNCHANGED vars
    BY <2>2 DEF Hear, SayGoodbye, Terminated, vars
  <2>3. CASE Classify
    BY <2>3 DEF Classify, RouteAfterIntent
  <2>4. CASE CheckCompletion
    BY <2>4 DEF CheckCompletion, RouteAfterCompletionCheck
  <2>5. CASE Respond
    BY <2>0, <2>5, ResponderFacts DEF Respond, Contract!Next, Contract!Exchange
  <2>6. CASE GenerateReport
    BY <2>0, <2>6, ReporterFacts DEF GenerateReport, Contract!Next, Contract!Close
  <2>7. CASE Raise
    BY <2>7 DEF Raise, Contract!Next, Contract!BreakOff
  <2> QED BY <2>1, <2>2, <2>3, <2>4, <2>5, <2>6, <2>7 DEF Next, RunNode
<1> QED BY <1>1, <1>2, TypeCorrect, ConversationInvariant, PTL
        DEF Spec, KeepsContract, Contract!Spec

===============================================================================
