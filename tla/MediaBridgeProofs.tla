-------------------------- MODULE MediaBridgeProofs ---------------------------
(***************************************************************************)
(* Proofs about MediaBridge, for any number of replies and chunks and any  *)
(* threshold: types, and the four safety properties of barge-in.           *)
(***************************************************************************)
EXTENDS MediaBridge, SequenceTheorems, TLAPS

\* TypeOK in two halves, so that a step is about what it changes.
ControlOK ==
    /\ line \in {"open", "closed"}
    /\ active \in BOOLEAN
    /\ callActive \in BOOLEAN
    /\ playing \in BOOLEAN
    /\ vadCounter \in 0..(VadThreshold - 1)
    /\ interrupted \in BOOLEAN
    /\ receiver \in {"receiving", "feeding", "done"}
    /\ sender \in {"waiting", "sending", "done"}
    /\ speaker \in {"idle", "streaming", "over"}
    /\ loud \in 0..VadThreshold

AudioOK ==
    /\ queue \in Seq(0..Replies)
    /\ reply \in 0..Replies
    /\ speaker = "streaming" => reply \in Reply
    /\ said \in [Reply -> 0..Chunks]
    /\ sent \in [Reply -> Nat]
    /\ cut \subseteq Reply
    /\ allowed \in [Reply -> 0..Chunks]

LEMMA Bounds ==
    /\ Replies \in Nat
    /\ Chunks \in Nat /\ 0 < Chunks
    /\ VadThreshold \in Nat /\ 0 < VadThreshold
    /\ 0 \in 0..(VadThreshold - 1) /\ 0 \in 0..VadThreshold
  <1>1. VadThreshold \in Nat /\ 0 < VadThreshold /\ Chunks \in Nat /\ 0 < Chunks /\ Replies \in Nat
    BY MediaBridgeAssumption
  <1>2. VadThreshold - 1 \in Int /\ 0 <= VadThreshold - 1
    BY <1>1
  <1> QED BY <1>1, <1>2

LEMMA TypeHalves == TypeOK <=> ControlOK /\ AudioOK
  <1>1. TypeOK => ControlOK
    BY Bounds DEF TypeOK, ControlOK
  <1>2. TypeOK => AudioOK
    BY Bounds DEF TypeOK, AudioOK, Reply
  <1>3. ControlOK /\ AudioOK => TypeOK
    BY Bounds DEF TypeOK, ControlOK, AudioOK, Reply
  <1> QED BY <1>1, <1>2, <1>3

(***************************************************************************)
(* What is queued or sent belongs to replies that have begun, and those to *)
(* come are untouched; a sender whose bridge is no longer active has ended,*)
(* unless the loop has.                                                    *)
(***************************************************************************)
BegunOnly ==
    /\ \A i \in 1..Len(queue) : queue[i] <= reply
    /\ \A r \in Reply : r > reply => said[r] = 0 /\ sent[r] = 0 /\ allowed[r] = Chunks
    /\ ~active /\ speaker # "over" => sender = "done"

(***************************************************************************)
(* While a reply is spoken, the event is set exactly when the caller has   *)
(* spoken over it; until then the counter has seen all his loud frames.    *)
(***************************************************************************)
EventIsOfReply ==
    /\ ~interrupted => loud < VadThreshold
    /\ ~interrupted /\ speaker = "streaming" => loud <= vadCounter
    /\ speaker = "streaming" /\ allowed[reply] < Chunks => interrupted
    /\ speaker = "streaming" /\ interrupted /\ said[reply] < Chunks => allowed[reply] < Chunks

BargeInInv ==
    /\ BegunOnly
    /\ EventIsOfReply
    /\ InterruptibleWhileStreaming
    /\ InterruptedReplyStops
    /\ CutByOwnBargeIn

LEMMA StepSplit ==
    ASSUME [Next]_vars
    PROVE  \/ BeginReply \/ PassChunk \/ StopReply \/ FinishReply \/ SpeechFails \/ CloseBridge
           \/ TakeChunk \/ ChunkSent
           \/ IgnoreFrame \/ QuietFrame \/ LoudFrame \/ BargeIn \/ FrameFed \/ Disconnect
           \/ HangUp \/ UNCHANGED vars
  BY DEF Next, Speaker, Speaking, Sender, Receiver, Terminated

LEMMA ControlStep == ControlOK /\ [Next]_vars => ControlOK'
  <1> SUFFICES ASSUME ControlOK, [Next]_vars PROVE ControlOK'
    OBVIOUS
  <1> USE Bounds DEF ControlOK
  <1>1. CASE BeginReply
    BY <1>1 DEF BeginReply, ResetEvent
  <1>2. CASE PassChunk
    BY <1>2 DEF PassChunk, MayPass, flags, tasks, history
  <1>3. CASE StopReply
    BY <1>3 DEF StopReply, EndReply, MarkTtsDone, MayPass, audio
  <1>4. CASE FinishReply
    BY <1>4 DEF FinishReply, EndReply, MarkTtsDone, audio
  <1>5. CASE SpeechFails
    BY <1>5 DEF SpeechFails, flags, audio, history
  <1>6. CASE CloseBridge
    BY <1>6 DEF CloseBridge, audio, history
  <1>7. CASE TakeChunk
    BY <1>7 DEF TakeChunk, history, End
  <1>8. CASE ChunkSent
    BY <1>8 DEF ChunkSent, PlayingAfterSend, audio, history
  <1>9. CASE IgnoreFrame
    BY <1>9 DEF IgnoreFrame, TakeFrame, audio
  <1>10. CASE QuietFrame
    BY <1>10 DEF QuietFrame, TakeFrame, audio
  <1>11. CASE LoudFrame
    BY <1>11 DEF LoudFrame, TakeFrame, IsSpeech, OneMore, audio
  <1>12. CASE BargeIn
    BY <1>12 DEF BargeIn, TakeFrame, IsSpeech, OneMore, audio
  <1>13. CASE FrameFed
    BY <1>13 DEF FrameFed, flags, audio, history
  <1>14. CASE Disconnect
    BY <1>14 DEF Disconnect, StopSender, audio, history
  <1>15. CASE HangUp
    BY <1>15 DEF HangUp, flags, tasks, audio, history
  <1>16. CASE UNCHANGED vars
    BY <1>16 DEF vars, flags, tasks, audio, history
  <1> QED
    BY StepSplit, <1>1, <1>2, <1>3, <1>4, <1>5, <1>6, <1>7, <1>8,
       <1>9, <1>10, <1>11, <1>12, <1>13, <1>14, <1>15, <1>16

LEMMA AudioStep == ControlOK /\ AudioOK /\ [Next]_vars => AudioOK'
  <1> SUFFICES ASSUME ControlOK, AudioOK, [Next]_vars PROVE AudioOK'
    OBVIOUS
  <1> USE Bounds DEF AudioOK
  <1>1. CASE BeginReply
    BY <1>1 DEF BeginReply, Reply
  <1>2. CASE PassChunk
    <2>1. reply \in 0..Replies /\ queue' = Append(queue, reply)
      BY <1>2 DEF PassChunk
    <2>2. queue' \in Seq(0..Replies)
      BY <2>1
    <2>3. said' \in [Reply -> 0..Chunks]
      BY <1>2 DEF PassChunk
    <2> QED BY <1>2, <2>2, <2>3 DEF PassChunk, tasks, history
  <1>3. CASE StopReply
    BY <1>3 DEF StopReply, EndReply, MarkTtsDone, MayPass, audio
  <1>4. CASE FinishReply
    BY <1>4 DEF FinishReply, EndReply, MarkTtsDone, audio
  <1>5. CASE SpeechFails
    BY <1>5 DEF SpeechFails, flags, audio, history
  <1>6. CASE CloseBridge
    BY <1>6 DEF CloseBridge, audio, history
  <1>7. CASE TakeChunk
    <2>0. queue \in Seq(0..Replies) /\ queue # <<>> /\ queue' = Tail(queue) /\ Head(queue) # 0
      BY <1>7 DEF TakeChunk, End
    <2>1. queue' \in Seq(0..Replies) /\ Head(queue) \in Reply
      BY <2>0, HeadTailProperties DEF Reply
    <2>2. sent' \in [Reply -> Nat]
      BY <1>7, <2>1 DEF TakeChunk
    <2> QED BY <1>7, <2>1, <2>2 DEF TakeChunk, history
  <1>8. CASE ChunkSent
    BY <1>8 DEF ChunkSent, PlayingAfterSend, audio, history
  <1>9. CASE IgnoreFrame
    BY <1>9 DEF IgnoreFrame, TakeFrame, audio
  <1>10. CASE QuietFrame
    BY <1>10 DEF QuietFrame, TakeFrame, audio
  <1>11. CASE LoudFrame
    BY <1>11 DEF LoudFrame, TakeFrame, IsSpeech, OneMore, audio
  <1>12. CASE BargeIn
    <2>1. allowed' \in [Reply -> 0..Chunks]
      BY <1>12 DEF BargeIn
    <2> QED BY <1>12, <2>1 DEF BargeIn, TakeFrame, audio
  <1>13. CASE FrameFed
    BY <1>13 DEF FrameFed, flags, audio, history
  <1>14. CASE Disconnect
    <2>1. queue' = Append(queue, End) /\ End \in 0..Replies
      BY <1>14 DEF Disconnect, StopSender, End
    <2>2. queue' \in Seq(0..Replies)
      BY <2>1
    <2> QED BY <1>14, <2>2 DEF Disconnect, audio, history
  <1>15. CASE HangUp
    BY <1>15 DEF HangUp, flags, tasks, audio, history
  <1>16. CASE UNCHANGED vars
    BY <1>16 DEF vars, flags, tasks, audio, history
  <1> QED
    BY StepSplit, <1>1, <1>2, <1>3, <1>4, <1>5, <1>6, <1>7, <1>8,
       <1>9, <1>10, <1>11, <1>12, <1>13, <1>14, <1>15, <1>16

(***************************************************************************)
(* Type correctness; the counter never rests at the threshold.             *)
(***************************************************************************)
THEOREM TypeCorrect == Spec => []TypeOK
  <1>1. Init => ControlOK /\ AudioOK
    <2>1. Init => ControlOK
      BY Bounds DEF Init, ControlOK
    <2>2. Init => AudioOK
      BY Bounds DEF Init, AudioOK
    <2> QED BY <2>1, <2>2
  <1>2. (ControlOK /\ AudioOK) /\ [Next]_vars => (ControlOK /\ AudioOK)'
    BY ControlStep, AudioStep
  <1>3. ControlOK /\ AudioOK => TypeOK
    BY TypeHalves
  <1> QED
    BY <1>1, <1>2, <1>3, PTL DEF Spec

LEMMA BegunStep == TypeOK /\ BegunOnly /\ [Next]_vars => BegunOnly'
  <1> SUFFICES ASSUME TypeOK, BegunOnly, [Next]_vars PROVE BegunOnly'
    OBVIOUS
  <1>0. ControlOK /\ AudioOK
    BY TypeHalves
  <1> USE <1>0, Bounds DEF ControlOK, AudioOK, BegunOnly
  <1>1. CASE BeginReply
    <2>1. queue \in Seq(0..Replies) /\ reply \in 0..Replies /\ queue' = queue /\ reply' = reply + 1
      BY <1>1 DEF BeginReply
    <2>2. \A i \in 1..Len(queue') : queue'[i] <= reply'
      <3> SUFFICES ASSUME NEW i \in 1..Len(queue) PROVE queue[i] <= reply + 1
        BY <2>1
      <3>1. queue[i] \in 0..Replies /\ queue[i] <= reply
        BY <2>1
      <3> QED BY <3>1, <2>1
    <2> QED BY <1>1, <2>1, <2>2 DEF BeginReply, ResetEvent, Reply
  <1>2. CASE PassChunk
    <2>1. reply \in 0..Replies /\ queue' = Append(queue, reply) /\ queue \in Seq(0..Replies)
      BY <1>2 DEF PassChunk
    <2>2. \A i \in 1..Len(queue') : queue'[i] <= reply'
      BY <1>2, <2>1 DEF PassChunk
    <2> QED BY <1>2, <2>2 DEF PassChunk, flags, tasks, history
  <1>3. CASE StopReply
    BY <1>3 DEF StopReply, EndReply, MarkTtsDone, MayPass, audio
  <1>4. CASE FinishReply
    BY <1>4 DEF FinishReply, EndReply, MarkTtsDone, audio
  <1>5. CASE SpeechFails
    BY <1>5 DEF SpeechFails, flags, audio, history
  <1>6. CASE CloseBridge
    BY <1>6 DEF CloseBridge, audio, history
  <1>7. CASE TakeChunk
    <2>0. queue \in Seq(0..Replies) /\ queue # <<>> /\ queue' = Tail(queue) /\ Head(queue) # 0
      BY <1>7 DEF TakeChunk, End
    <2>1. /\ Len(queue') = Len(queue) - 1
          /\ \A i \in 1..Len(queue') : queue'[i] = queue[i + 1]
          /\ Head(queue) = queue[1] /\ 1 \in 1..Len(queue)
      BY <2>0, HeadTailProperties
    <2>2. \A i \in 1..Len(queue') : queue'[i] <= reply'
      BY <1>7, <2>0, <2>1 DEF TakeChunk
    <2>3. Head(queue) <= reply
      BY <2>1
    <2> QED BY <1>7, <2>2, <2>3 DEF TakeChunk, history
  <1>8. CASE ChunkSent
    BY <1>8 DEF ChunkSent, PlayingAfterSend, audio, history
  <1>9. CASE IgnoreFrame
    BY <1>9 DEF IgnoreFrame, TakeFrame, audio
  <1>10. CASE QuietFrame
    BY <1>10 DEF QuietFrame, TakeFrame, audio
  <1>11. CASE LoudFrame
    BY <1>11 DEF LoudFrame, TakeFrame, IsSpeech, OneMore, audio
  <1>12. CASE BargeIn
    BY <1>12 DEF BargeIn, TakeFrame, IsSpeech, OneMore, audio
  <1>13. CASE FrameFed
    BY <1>13 DEF FrameFed, flags, audio, history
  <1>14. CASE Disconnect
    <2>1. queue' = Append(queue, 0) /\ queue \in Seq(0..Replies)
      BY <1>14 DEF Disconnect, StopSender, End
    <2>2. \A i \in 1..Len(queue') : queue'[i] <= reply'
      BY <1>14, <2>1 DEF Disconnect, audio
    <2> QED BY <1>14, <2>2 DEF Disconnect, StopSender, audio, history
  <1>15. CASE HangUp
    BY <1>15 DEF HangUp, flags, tasks, audio, history
  <1>16. CASE UNCHANGED vars
    BY <1>16 DEF vars, flags, tasks, audio, history
  <1> QED
    BY StepSplit, <1>1, <1>2, <1>3, <1>4, <1>5, <1>6, <1>7, <1>8,
       <1>9, <1>10, <1>11, <1>12, <1>13, <1>14, <1>15, <1>16

LEMMA EventStep == TypeOK /\ BegunOnly /\ EventIsOfReply /\ [Next]_vars => EventIsOfReply'
  <1> SUFFICES ASSUME TypeOK, BegunOnly, EventIsOfReply, [Next]_vars PROVE EventIsOfReply'
    OBVIOUS
  <1>0. ControlOK /\ AudioOK
    BY TypeHalves
  <1> USE <1>0, Bounds DEF ControlOK, AudioOK, EventIsOfReply
  <1>1. CASE BeginReply
    BY <1>1 DEF BeginReply, ResetEvent, BegunOnly, Reply
  <1>2. CASE PassChunk
    BY <1>2 DEF PassChunk, MayPass, flags, tasks, history
  <1>3. CASE StopReply
    BY <1>3 DEF StopReply, EndReply, MarkTtsDone, MayPass, audio
  <1>4. CASE FinishReply
    BY <1>4 DEF FinishReply, EndReply, MarkTtsDone, audio
  <1>5. CASE SpeechFails
    BY <1>5 DEF SpeechFails, flags, audio, history
  <1>6. CASE CloseBridge
    BY <1>6 DEF CloseBridge, audio, history
  <1>7. CASE TakeChunk
    BY <1>7 DEF TakeChunk, history, End
  <1>8. CASE ChunkSent
    BY <1>8 DEF ChunkSent, PlayingAfterSend, audio, history
  <1>9. CASE IgnoreFrame
    BY <1>9 DEF IgnoreFrame, TakeFrame, audio
  <1>10. CASE QuietFrame
    BY <1>10 DEF QuietFrame, TakeFrame, audio
  <1>11. CASE LoudFrame
    BY <1>11 DEF LoudFrame, TakeFrame, IsSpeech, OneMore, audio
  <1>12. CASE BargeIn
    BY <1>12 DEF BargeIn, TakeFrame, IsSpeech, OneMore, audio
  <1>13. CASE FrameFed
    BY <1>13 DEF FrameFed, flags, audio, history
  <1>14. CASE Disconnect
    BY <1>14 DEF Disconnect, StopSender, audio, history
  <1>15. CASE HangUp
    BY <1>15 DEF HangUp, flags, tasks, audio, history
  <1>16. CASE UNCHANGED vars
    BY <1>16 DEF vars, flags, tasks, audio, history
  <1> QED
    BY StepSplit, <1>1, <1>2, <1>3, <1>4, <1>5, <1>6, <1>7, <1>8,
       <1>9, <1>10, <1>11, <1>12, <1>13, <1>14, <1>15, <1>16

LEMMA PlayingStep == TypeOK /\ BegunOnly /\ InterruptibleWhileStreaming /\ [Next]_vars => InterruptibleWhileStreaming'
  <1> SUFFICES ASSUME TypeOK, BegunOnly, InterruptibleWhileStreaming, [Next]_vars PROVE InterruptibleWhileStreaming'
    OBVIOUS
  <1>0. ControlOK /\ AudioOK
    BY TypeHalves
  <1> USE <1>0, Bounds DEF ControlOK, AudioOK, InterruptibleWhileStreaming
  <1>1. CASE BeginReply
    BY <1>1 DEF BeginReply, ResetEvent, BegunOnly, Reply
  <1>2. CASE PassChunk
    BY <1>2 DEF PassChunk, MayPass, flags, tasks, history
  <1>3. CASE StopReply
    BY <1>3 DEF StopReply, EndReply, MarkTtsDone, MayPass, audio
  <1>4. CASE FinishReply
    BY <1>4 DEF FinishReply, EndReply, MarkTtsDone, audio
  <1>5. CASE SpeechFails
    BY <1>5 DEF SpeechFails, flags, audio, history
  <1>6. CASE CloseBridge
    BY <1>6 DEF CloseBridge, audio, history
  <1>7. CASE TakeChunk
    BY <1>7 DEF TakeChunk, history, End
  <1>8. CASE ChunkSent
    BY <1>8 DEF ChunkSent, PlayingAfterSend, audio, history, BegunOnly
  <1>9. CASE IgnoreFrame
    BY <1>9 DEF IgnoreFrame, TakeFrame, audio
  <1>10. CASE QuietFrame
    BY <1>10 DEF QuietFrame, TakeFrame, audio
  <1>11. CASE LoudFrame
    BY <1>11 DEF LoudFrame, TakeFrame, IsSpeech, OneMore, audio
  <1>12. CASE BargeIn
    BY <1>12 DEF BargeIn, TakeFrame, IsSpeech, OneMore, audio
  <1>13. CASE FrameFed
    BY <1>13 DEF FrameFed, flags, audio, history
  <1>14. CASE Disconnect
    BY <1>14 DEF Disconnect, StopSender, audio, history
  <1>15. CASE HangUp
    BY <1>15 DEF HangUp, flags, tasks, audio, history
  <1>16. CASE UNCHANGED vars
    BY <1>16 DEF vars, flags, tasks, audio, history
  <1> QED
    BY StepSplit, <1>1, <1>2, <1>3, <1>4, <1>5, <1>6, <1>7, <1>8,
       <1>9, <1>10, <1>11, <1>12, <1>13, <1>14, <1>15, <1>16

LEMMA StopsStep == TypeOK /\ BegunOnly /\ EventIsOfReply /\ InterruptedReplyStops /\ [Next]_vars => InterruptedReplyStops'
  <1> SUFFICES ASSUME TypeOK, BegunOnly, EventIsOfReply, InterruptedReplyStops, [Next]_vars PROVE InterruptedReplyStops'
    OBVIOUS
  <1>0. ControlOK /\ AudioOK
    BY TypeHalves
  <1> USE <1>0, Bounds DEF ControlOK, AudioOK, InterruptedReplyStops
  <1>1. CASE BeginReply
    BY <1>1 DEF BeginReply, ResetEvent
  <1>2. CASE PassChunk
    BY <1>2 DEF PassChunk, MayPass, flags, tasks, history, EventIsOfReply
  <1>3. CASE StopReply
    BY <1>3 DEF StopReply, EndReply, MarkTtsDone, MayPass, audio
  <1>4. CASE FinishReply
    BY <1>4 DEF FinishReply, EndReply, MarkTtsDone, audio
  <1>5. CASE SpeechFails
    BY <1>5 DEF SpeechFails, flags, audio, history
  <1>6. CASE CloseBridge
    BY <1>6 DEF CloseBridge, audio, history
  <1>7. CASE TakeChunk
    BY <1>7 DEF TakeChunk, history, End
  <1>8. CASE ChunkSent
    BY <1>8 DEF ChunkSent, PlayingAfterSend, audio, history
  <1>9. CASE IgnoreFrame
    BY <1>9 DEF IgnoreFrame, TakeFrame, audio
  <1>10. CASE QuietFrame
    BY <1>10 DEF QuietFrame, TakeFrame, audio
  <1>11. CASE LoudFrame
    BY <1>11 DEF LoudFrame, TakeFrame, IsSpeech, OneMore, audio
  <1>12. CASE BargeIn
    BY <1>12 DEF BargeIn, TakeFrame, IsSpeech, OneMore, audio
  <1>13. CASE FrameFed
    BY <1>13 DEF FrameFed, flags, audio, history
  <1>14. CASE Disconnect
    BY <1>14 DEF Disconnect, StopSender, audio, history
  <1>15. CASE HangUp
    BY <1>15 DEF HangUp, flags, tasks, audio, history
  <1>16. CASE UNCHANGED vars
    BY <1>16 DEF vars, flags, tasks, audio, history
  <1> QED
    BY StepSplit, <1>1, <1>2, <1>3, <1>4, <1>5, <1>6, <1>7, <1>8,
       <1>9, <1>10, <1>11, <1>12, <1>13, <1>14, <1>15, <1>16

LEMMA CutStep == TypeOK /\ EventIsOfReply /\ CutByOwnBargeIn /\ [Next]_vars => CutByOwnBargeIn'
  <1> SUFFICES ASSUME TypeOK, EventIsOfReply, CutByOwnBargeIn, [Next]_vars PROVE CutByOwnBargeIn'
    OBVIOUS
  <1>0. ControlOK /\ AudioOK
    BY TypeHalves
  <1> USE <1>0, Bounds DEF ControlOK, AudioOK, CutByOwnBargeIn
  <1>1. CASE BeginReply
    BY <1>1 DEF BeginReply, ResetEvent
  <1>2. CASE PassChunk
    BY <1>2 DEF PassChunk, MayPass, flags, tasks, history
  <1>3. CASE StopReply
    BY <1>3 DEF StopReply, EndReply, MarkTtsDone, MayPass, audio, EventIsOfReply
  <1>4. CASE FinishReply
    BY <1>4 DEF FinishReply, EndReply, MarkTtsDone, audio
  <1>5. CASE SpeechFails
    BY <1>5 DEF SpeechFails, flags, audio, history
  <1>6. CASE CloseBridge
    BY <1>6 DEF CloseBridge, audio, history
  <1>7. CASE TakeChunk
    BY <1>7 DEF TakeChunk, history, End
  <1>8. CASE ChunkSent
    BY <1>8 DEF ChunkSent, PlayingAfterSend, audio, history
  <1>9. CASE IgnoreFrame
    BY <1>9 DEF IgnoreFrame, TakeFrame, audio
  <1>10. CASE QuietFrame
    BY <1>10 DEF QuietFrame, TakeFrame, audio
  <1>11. CASE LoudFrame
    BY <1>11 DEF LoudFrame, TakeFrame, IsSpeech, OneMore, audio
  <1>12. CASE BargeIn
    BY <1>12 DEF BargeIn, TakeFrame, IsSpeech, OneMore, audio
  <1>13. CASE FrameFed
    BY <1>13 DEF FrameFed, flags, audio, history
  <1>14. CASE Disconnect
    BY <1>14 DEF Disconnect, StopSender, audio, history
  <1>15. CASE HangUp
    BY <1>15 DEF HangUp, flags, tasks, audio, history
  <1>16. CASE UNCHANGED vars
    BY <1>16 DEF vars, flags, tasks, audio, history
  <1> QED
    BY StepSplit, <1>1, <1>2, <1>3, <1>4, <1>5, <1>6, <1>7, <1>8,
       <1>9, <1>10, <1>11, <1>12, <1>13, <1>14, <1>15, <1>16

LEMMA BargeInInvariant == Spec => []BargeInInv
  <1>1. Init => BargeInInv
    <2> SUFFICES ASSUME Init PROVE BargeInInv
      OBVIOUS
    <2>1. BegunOnly
      BY Bounds DEF Init, BegunOnly
    <2>2. EventIsOfReply
      BY Bounds DEF Init, EventIsOfReply
    <2> QED
      BY <2>1, <2>2, Bounds DEF Init, BargeInInv, InterruptibleWhileStreaming,
         InterruptedReplyStops, CutByOwnBargeIn
  <1>2. TypeOK /\ BargeInInv /\ [Next]_vars => BargeInInv'
    BY BegunStep, EventStep, PlayingStep, StopsStep, CutStep DEF BargeInInv
  <1> QED
    BY <1>1, <1>2, TypeCorrect, PTL DEF Spec

(***************************************************************************)
(* A caller who speaks over a reply long enough has set the event.         *)
(***************************************************************************)
THEOREM CallersStopTheAgent == Spec => []CallerStopsAgent
  <1>1. TypeOK /\ BargeInInv => CallerStopsAgent
    BY Bounds, TypeHalves DEF BargeInInv, EventIsOfReply, CallerStopsAgent, ControlOK
  <1> QED BY <1>1, BargeInInvariant, TypeCorrect, PTL

(***************************************************************************)
(* While a reply streams and part of it is on the line, frames count.      *)
(***************************************************************************)
THEOREM StreamingIsInterruptible == Spec => []InterruptibleWhileStreaming
  <1>1. BargeInInv => InterruptibleWhileStreaming
    BY DEF BargeInInv
  <1> QED BY <1>1, BargeInInvariant, PTL

(***************************************************************************)
(* An interrupted reply gets no more audio into the queue.                 *)
(***************************************************************************)
THEOREM InterruptedRepliesStop == Spec => []InterruptedReplyStops
  <1>1. BargeInInv => InterruptedReplyStops
    BY DEF BargeInInv
  <1> QED BY <1>1, BargeInInvariant, PTL

(***************************************************************************)
(* No reply is cut by an interruption of another.                          *)
(***************************************************************************)
THEOREM CutsAreTheCallers == Spec => []CutByOwnBargeIn
  <1>1. BargeInInv => CutByOwnBargeIn
    BY DEF BargeInInv
  <1> QED BY <1>1, BargeInInvariant, PTL
===============================================================================
