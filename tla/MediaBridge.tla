----------------------------- MODULE MediaBridge ------------------------------
(***************************************************************************)
(* The audio of one call: voice/audio_bridge.py with InterruptibleTTS and  *)
(* the _speak of the session.  Three tasks of one event loop share a queue,*)
(* two flags and a counter:                                                *)
(*                                                                         *)
(*   receiver  TwilioMediaBridge.run: frames of the caller, barge-in, and  *)
(*             what follows when the line is gone                          *)
(*   sender    _send_loop: from the queue to the line                      *)
(*   speaker   the conversation loop in _speak: from Cartesia to the queue *)
(*                                                                         *)
(* An action runs from one await to the next.  A write to the line happens *)
(* before its await suspends, so audio and clear messages leave in the     *)
(* order in which they are written.                                        *)
(***************************************************************************)
EXTENDS Naturals, Sequences

CONSTANTS
    Replies,      \* bound: the replies the agent speaks
    Chunks,       \* bound: the chunks of audio of a reply
    VadThreshold, \* _vad_threshold
    SpeechFaults  \* may the connection to Cartesia fail?

ASSUME MediaBridgeAssumption ==
    /\ Replies \in Nat
    /\ Chunks \in Nat \ {0}
    /\ VadThreshold \in Nat \ {0}
    /\ SpeechFaults \in BOOLEAN

VARIABLES
    line,         \* the WebSocket
    active,       \* _active of the bridge
    callActive,   \* _call_active of the session
    queue,        \* _send_queue: the reply a chunk belongs to; End is None
    playing,      \* _is_playing_tts
    vadCounter,   \* _vad_counter
    interrupted,  \* the event of InterruptibleTTS
    receiver,     \* where run stands
    sender,       \* where _send_loop stands
    speaker,      \* where the conversation loop stands
    reply,        \* the number of the reply spoken last
    said,         \* [1..Replies -> the chunks of the reply put in the queue]
    sent,         \* [1..Replies -> the chunks of the reply written to the line]
    cut,          \* the replies that stopped because the event was set
    loud,         \* the loud frames in a row since the reply began, and counted
    allowed       \* [1..Replies -> said when the caller first spoke over it]

flags == <<active, callActive, playing, vadCounter, interrupted>>
tasks == <<receiver, sender, speaker>>
audio == <<reply, said, sent>>
\* Kept for the properties only: what the caller did, and what became of a reply.
history == <<cut, loud, allowed>>
vars == <<line, queue, flags, tasks, audio, history>>

Reply == 1..Replies

\* The sentinel None.
End == 0

Init ==
    /\ line = "open"
    /\ active = TRUE
    /\ callActive = TRUE
    /\ queue = <<>>
    /\ playing = FALSE
    /\ vadCounter = 0
    /\ interrupted = FALSE
    /\ receiver = "receiving"
    /\ sender = "waiting"
    /\ speaker = "idle"
    /\ reply = 0
    /\ said = [r \in Reply |-> 0]
    /\ sent = [r \in Reply |-> 0]
    /\ cut = {}
    /\ loud = 0
    /\ allowed = [r \in Reply |-> Chunks]

-------------------------------------------------------------------------------
(* The speaker: _speak, InterruptibleTTS.stream, CartesiaTTS.              *)

\* Mutant of ResetEvent: stream does not clear the event.
ResetEventNever == interrupted' = interrupted

ResetEvent == interrupted' = FALSE

\* The lock is taken, the event cleared, and Cartesia connected to.
BeginReply ==
    /\ speaker = "idle"
    /\ reply < Replies
    /\ speaker' = "streaming"
    /\ reply' = reply + 1
    /\ ResetEvent
    /\ loud' = 0
    /\ UNCHANGED <<line, queue, active, callActive, playing, vadCounter,
                   receiver, sender, said, sent, cut, allowed>>

\* Mutant of MarkTtsDone: the end of the speech is marked in the queue.
MarkTtsDoneInQueue ==
    /\ playing' = FALSE
    /\ vadCounter' = 0
    /\ queue' = Append(queue, End)

MarkTtsDone ==
    /\ playing' = FALSE
    /\ vadCounter' = 0
    /\ UNCHANGED queue

EndReply ==
    /\ speaker = "streaming"
    /\ speaker' = "idle"
    /\ MarkTtsDone
    /\ UNCHANGED <<line, active, callActive, interrupted, receiver, sender,
                   audio, loud, allowed>>

\* Mutant of MayPass: only the call is looked at.
MayPassInterrupted == callActive

\* stream and _speak look at the event and at the call when a chunk arrives.
MayPass == ~interrupted /\ callActive

PassChunk ==
    /\ speaker = "streaming"
    /\ said[reply] < Chunks
    /\ MayPass
    /\ queue' = Append(queue, reply)
    /\ said' = [said EXCEPT ![reply] = @ + 1]
    /\ UNCHANGED <<line, flags, tasks, reply, sent, history>>

\* A chunk arrives, and the reply stops there.
StopReply ==
    /\ speaker = "streaming"
    /\ said[reply] < Chunks
    /\ ~MayPass
    /\ EndReply
    /\ cut' = IF interrupted THEN cut \cup {reply} ELSE cut

\* Cartesia says that it is done, reports an error, or closes.
FinishReply == EndReply /\ UNCHANGED cut

\* The connection raises out of _speak, and out of the loop.
SpeechFails ==
    /\ SpeechFaults
    /\ speaker = "streaming"
    /\ speaker' = "over"
    /\ UNCHANGED <<line, queue, flags, receiver, sender, audio, history>>

\* close: the conversation is completed, and the loop ends.
CloseBridge ==
    /\ speaker = "idle"
    /\ speaker' = "over"
    /\ active' = FALSE
    /\ line' = "closed"
    /\ UNCHANGED <<queue, callActive, playing, vadCounter, interrupted,
                   receiver, sender, audio, history>>

-------------------------------------------------------------------------------
(* The sender.                                                             *)

\* On a line that is gone send_text raises, and the loop goes on.
TakeChunk ==
    /\ sender = "waiting"
    /\ queue # <<>>
    /\ Head(queue) # End
    /\ queue' = Tail(queue)
    /\ sender' = "sending"
    /\ playing' = TRUE
    /\ sent' = IF line = "open" THEN [sent EXCEPT ![Head(queue)] = @ + 1] ELSE sent
    /\ UNCHANGED <<line, active, callActive, vadCounter, interrupted,
                   receiver, speaker, reply, said, history>>

\* Mutant of PlayingAfterSend: the flag is reset when the chunk is out.
PlayingAfterSendReset == FALSE

\* Only the end of the loop resets the flag.
PlayingAfterSend == playing /\ active

\* The loop looks at _active between two chunks.
ChunkSent ==
    /\ sender = "sending"
    /\ sender' = IF active THEN "waiting" ELSE "done"
    /\ playing' = PlayingAfterSend
    /\ UNCHANGED <<line, queue, active, callActive, vadCounter, interrupted,
                   receiver, speaker, audio, history>>

-------------------------------------------------------------------------------
(* The receiver.                                                           *)

\* _handle_message up to its await: a frame is for the transcriber in any case.
TakeFrame ==
    /\ receiver = "receiving"
    /\ line = "open"
    /\ receiver' = "feeding"
    /\ UNCHANGED <<line, queue, active, callActive, playing, sender, speaker,
                   audio, cut>>

IgnoreFrame ==
    /\ ~playing
    /\ TakeFrame
    /\ loud' = 0
    /\ UNCHANGED <<vadCounter, interrupted, allowed>>

QuietFrame ==
    /\ playing
    /\ TakeFrame
    /\ vadCounter' = IF vadCounter = 0 THEN 0 ELSE vadCounter - 1
    /\ loud' = 0
    /\ UNCHANGED <<interrupted, allowed>>

\* Mutant of IsSpeech: one frame more than the threshold.
IsSpeechLate(n) == n > VadThreshold

IsSpeech(n) == n >= VadThreshold

\* What counts as a frame spoken over the reply.
OneMore == IF speaker = "streaming" /\ loud < VadThreshold THEN loud + 1 ELSE loud

LoudFrame ==
    /\ playing
    /\ ~IsSpeech(vadCounter + 1)
    /\ TakeFrame
    /\ vadCounter' = vadCounter + 1
    /\ loud' = OneMore
    /\ UNCHANGED <<interrupted, allowed>>

\* _fire_interruption: the event is set, and a clear message written.
BargeIn ==
    /\ playing
    /\ IsSpeech(vadCounter + 1)
    /\ TakeFrame
    /\ vadCounter' = 0
    /\ interrupted' = TRUE
    /\ loud' = OneMore
    /\ allowed' = IF speaker = "streaming" /\ allowed[reply] = Chunks
                  THEN [allowed EXCEPT ![reply] = said[reply]]
                  ELSE allowed

FrameFed ==
    /\ receiver = "feeding"
    /\ receiver' = "receiving"
    /\ UNCHANGED <<line, queue, flags, sender, speaker, audio, history>>

\* Mutant of StopSender: the finally of run lets the sender be.
StopSenderNot == UNCHANGED <<queue, sender>>

\* None is queued, and the task cancelled.
StopSender ==
    /\ queue' = Append(queue, End)
    /\ sender' = "done"

\* The finally of run, and _on_call_ended up to its first await.
Disconnect ==
    /\ receiver = "receiving"
    /\ line = "closed"
    /\ receiver' = "done"
    /\ active' = FALSE
    /\ callActive' = FALSE
    /\ StopSender
    /\ UNCHANGED <<line, playing, vadCounter, interrupted, speaker, audio, history>>

-------------------------------------------------------------------------------
HangUp ==
    /\ line = "open"
    /\ line' = "closed"
    /\ UNCHANGED <<queue, flags, tasks, audio, history>>

Terminated ==
    /\ receiver = "done"
    /\ speaker # "streaming"
    /\ UNCHANGED vars

Speaking == PassChunk \/ StopReply \/ FinishReply \/ SpeechFails

Speaker == BeginReply \/ Speaking \/ CloseBridge

Sender == TakeChunk \/ ChunkSent

Receiver ==
    \/ IgnoreFrame \/ QuietFrame \/ LoudFrame \/ BargeIn
    \/ FrameFed \/ Disconnect

Next == Speaker \/ Sender \/ Receiver \/ HangUp \/ Terminated

(***************************************************************************)
(* The event loop serves the tasks, and Cartesia sends, ends or fails.     *)
(* Nobody is obliged to speak, to close the bridge or to hang up.          *)
(***************************************************************************)
Spec ==
    /\ Init /\ [][Next]_vars
    /\ WF_vars(Speaking)
    /\ WF_vars(Sender)
    /\ WF_vars(FrameFed)
    /\ WF_vars(Disconnect)

-------------------------------------------------------------------------------
TypeOK ==
    /\ line \in {"open", "closed"}
    /\ active \in BOOLEAN
    /\ callActive \in BOOLEAN
    /\ queue \in Seq(0..Replies)
    /\ playing \in BOOLEAN
    /\ vadCounter \in 0..(VadThreshold - 1)
    /\ interrupted \in BOOLEAN
    /\ receiver \in {"receiving", "feeding", "done"}
    /\ sender \in {"waiting", "sending", "done"}
    /\ speaker \in {"idle", "streaming", "over"}
    /\ reply \in 0..Replies
    /\ speaker = "streaming" => reply > 0
    /\ said \in [Reply -> 0..Chunks]
    /\ sent \in [Reply -> Nat]
    /\ cut \subseteq Reply
    /\ loud \in 0..VadThreshold
    /\ allowed \in [Reply -> 0..Chunks]

(***************************************************************************)
(* A caller who speaks over a reply stops it: VadThreshold loud frames in  *)
(* a row, counted while the agent plays, set the event before the next     *)
(* frame, whatever the sender and the speaker do to flag and counter.      *)
(***************************************************************************)
CallerStopsAgent == loud >= VadThreshold => interrupted

(***************************************************************************)
(* "Caller can interrupt the agent mid-sentence" (README.md:144) as far as *)
(* the code goes: from the first chunk on the line until Cartesia is done  *)
(* the flag is set, without which no frame counts.                         *)
(***************************************************************************)
InterruptibleWhileStreaming == speaker = "streaming" /\ sent[reply] > 0 => playing

(***************************************************************************)
(* "When interrupted, stops sending audio" (tts.py:139): what the bridge   *)
(* had been given of a reply when the caller first spoke over it is all it *)
(* ever gets of it; the next reply's reset does not revive it.             *)
(***************************************************************************)
InterruptedReplyStops == \A r \in Reply : said[r] <= allowed[r]

(***************************************************************************)
(* A reply is cut short only by a barge-in of its own: one that came late, *)
(* between two replies or at the end of the last, does not cut the next.   *)
(***************************************************************************)
CutByOwnBargeIn == \A r \in cut : allowed[r] < Chunks

(***************************************************************************)
(* While the line is up all audio in the queue gets to it, also what is    *)
(* still queued when the speech has been marked done.                      *)
(***************************************************************************)
AudioArrives ==
    \A r \in Reply : said[r] > sent[r] ~> said[r] = sent[r] \/ line = "closed"

(***************************************************************************)
(* When the line is gone neither loop of the bridge is left waiting, also  *)
(* when it was the program that closed the line.                           *)
(***************************************************************************)
BridgeStops == line = "closed" ~> receiver = "done" /\ sender = "done"

===============================================================================
