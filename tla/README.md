# A verification project for the AI call center

TLA+ models of the parts of this repository that carry its own control logic,
model-checked with TLC and, where it pays, proved with TLAPS. The program is a
FastAPI server that dials the contacts of a campaign through Twilio, holds a
spoken conversation with each of them (Deepgram transcribes, a LangGraph graph of
language-model calls decides, Cartesia speaks) and stores a report of every call.

## 1. The system

| component | source | state it keeps | operations | modelled |
|---|---|---|---|---|
| Agent graph | `agent/graph.py`, `agent/state.py`, `agent/nodes/*` | the agent state: history, `call_status`, `turn_count`, `intent`, `extraction_data`, report | one node per step, two routers | yes: `AgentGraph`, `Conversation` |
| Voice session | `voice/session_manager.py` | `agent_state`, `_call_active`, `_call_started_event`, the registry entry, the `calls` and `call_reports` rows | `run`, `_conversation_loop`, `_on_call_started`, `_on_call_ended`, `_run_reporter`, `_save_report_to_db`, `_speak`, `_on_interruption` | yes: `VoiceSession`, `MediaBridge` |
| Speech to text | `voice/stt.py` | the Deepgram connection, `_transcript_queue` | connect, receive loop, `transcripts`, close | partly: in `VoiceSession` |
| Media bridge | `voice/audio_bridge.py`, `voice/tts.py` | `_send_queue`, `_is_playing_tts`, `_vad_counter`, `_active` | message handler, send loop, barge-in, close | yes: `MediaBridge`, `VoiceSession` |
| Campaign dialer | `telephony/call_manager.py`, `api/routes/campaigns.py` | `campaigns.status`, `calls` rows, background tasks, a semaphore per task | start, pause, `dial_campaign`, `initiate_call` | yes: `CampaignDialer` |
| Webhooks and routing | `api/routes/webhooks.py`, `telephony/twilio_client.py` | `calls.status`, `twilio_call_sid` | voice webhook, status callback | yes, but for durations: `CallRouting` |
| Media stream endpoint | `api/main.py` | none of its own | looks the call up, builds the session | yes: `CallRouting`, `InboundCalls` |
| Inbound configuration | `api/routes/inbound.py` | the rows of `inbound_configs` and which are active | create, update, delete | yes: `InboundCalls` |
| Rate limiter, API key | `api/security.py` | requests per client and window | `is_allowed`, `validate_upload` | yes: `RateLimiter`, `ContactUpload` |
| Contact upload | `api/routes/upload.py` | `contacts`, `total_contacts`, the transaction | check, parse, create campaign and contacts | yes: `ContactUpload` |
| Celery worker | `worker/tasks.py` | none of its own | `dial_campaign_task`, `generate_report_task` | no |
| Report views | `api/routes/reports.py` | none | read-only queries | no: nothing changes |
| Prompts, settings, middleware, page | `agent/prompts`, `config`, `api/middleware.py`, `frontend` | none | texts and configuration | no: no state a property is about |

### How the parts interact

* The start request adds a FastAPI background task running `dial_campaign`. It and
  the requests share the row of the campaign and nothing else.
* For each contact `initiate_call` inserts a `calls` row and asks Twilio to call.
  Twilio then sends the voice webhook, is told the URL of the media stream, and
  opens the WebSocket on which the endpoint builds a `VoiceSession`.
* A `VoiceSession` runs two coroutines under `asyncio.gather`: the bridge, which
  handles the messages of the line and, when it is gone, `_on_call_ended`; and the
  conversation loop, which waits for transcripts and invokes the graph. They share
  `agent_state`, `_call_active` and the start event. Deepgram's receive task feeds
  the loop through a queue that ends with the sentinel `None`.
* The graph gets a copy of `agent_state` and the loop merges all keys of its result
  back (`agent_state.update(result)`).
* The bridge's receiver and sender and the loop, while it speaks, share the send queue,
  the playing flag, the energy counter and the interruption event.
* The voice webhook of an inbound call and the media stream each read an active
  inbound configuration, which API requests create, edit and delete meanwhile.
* Every API request passes the rate limiter, which FastAPI runs in a pool of threads.

### What is hard about it

* **Interleaving at awaits.** A hang-up can fall into the middle of a turn. The
  bridge then reports and saves while the loop is still at work, and the turn's
  result overwrites the agent state, the report included.
* **One chance to save.** Report, transcript, language and status are one
  transaction, tried once. One value the columns reject loses them all.
* **Ending.** `gather` waits for the loop, the loop for a transcript, and Deepgram
  is closed only after `gather`. The session ends because Deepgram closes an idle
  connection and the receive loop then queues the sentinel.
* **Check, then act.** Start requests test a status that the task they add sets
  later; a pause writes a status that no task reads again.
* **Identity.** The dialer, two webhooks, the media stream and the session agree on
  which call they are about only through the `calls` table, which each reads and writes
  in its own transaction; the row is committed after Twilio has the call.
* **Barge-in.** Three tasks set and reset the flags that decide whether a caller can stop
  the agent; an event meant for one reply may meet the next.
* **Threads without a lock.** `is_allowed` replaces the list another thread is appending to.
* **All or nothing.** An upload collects errors row by row and then commits once.
* **Crashes.** Background tasks and sessions are gone after a restart, the rows are not.

### What makes each part correct

* Graph: turn limit kept, no lost line, finished calls leave the loop with a report
  of the whole conversation, of every extracted value the last word the model gave.
* Session: what was said is in the stored report; after a hang-up nothing but the
  turn in flight happens; every call reported when nothing fails; the registry
  leaks nothing; the session ends.
* Dialer: `running` and `completed` mean what they say; every call placed has its
  row; a started campaign is completed.
* Routing: nobody is connected to another person's call; a row ends with the outcome
  of its call; a stored report is not replaced.
* Bridge: a caller who speaks over a reply stops that reply and no other; audio gets to
  the line; both loops end with the call.
* Inbound configuration: task and agent of a call come from the same configuration.
* Limiter: nobody is refused too early; only overlapping checks exceed the limit.
* Upload: the whole list or nothing, truthful answers, the numbers as they were written.

PROJECT.json lists the hazards one by one, each with its line and its properties.

## 2. The modules

### AgentGraph — `agent/`
Operators, no state. A node maps an agent state to the set of states it may return:
one for each answer of the language model that the code tells apart, and one for
its `except` branch. `TurnResults(s)` is one invocation of `conversation_graph`:
`intent_classifier`, `completion_checker`, `responder` or `wrap_up` and `reporter`,
along the edges of `agent/graph.py`. A transcript is the sequence of its speakers;
texts, prompts, timestamps and the choice of the model are left out. `intent` is
`"end_call"` or the representative `"unclear"` of the others, since routing tells
only these apart. The classifier's language is any of `ClassifierLanguages`, a
constant that need not be within `Language`, because `intent_classifier.py:74` does
not check it. `extraction` is a dict from `InfoKeys` to `InfoValues`, and `Merged` is `{**existing, **key_info}`:
what a turn tells, null too, replaces what an earlier one told. `NonObjectAnswers` lets a model answer JSON that is not an object,
which raises outside the nodes' `try` blocks.

### Conversation — the graph node by node
One action per node, driven as the loop drives it, on a line that never fails.
`agent` is `agent_state`, `work` the state inside the running graph; the two are
merged at the end of an invocation (`Respond`, `GenerateReport`). `answers` is a history variable, the
`key_info` of every classification, for `ExtractionIsLastWord`: between turns each extracted value is the last one
any of them gave for its key, so a failing or silent model resets nothing and no copy of the state loses anything.
(That a later null replaces what the caller said is what the code does.) It refines
**Dialogue**, what a conversation promises to the rest of the system: a greeting, at
most `MaxTurns` exchanges, then one closing with the report, or a break-off.

### VoiceSession — one call
An action runs from one `await` of a task to its next.

| code | actions |
|---|---|
| `run` (92-110), `DeepgramSTT.__aenter__` | `SttConnected`, `SttRefused`, `Exit` |
| bridge: start message, `_on_call_started` | `ReceiveStart`, `StartRecorded` |
| bridge: `finally`, `_on_call_ended` (134-140) | `Disconnect`, `ReporterReturns`, `ReporterRaises`, `SaveCommits`, `SaveFails` |
| `_conversation_loop` (151-192) | `StartTimeout`, `Greet`, `Greeted`, `GreetingSpoken`, `Hear`, `TurnReturns`, `TurnRaises`, `ReplySpoken`, `SpeechFails`, `CloseCall` |
| line and Deepgram | `HangUp`, `Transcribe`, `SttCloses` |

`ending` remembers the history at the hang-up: the reporter's input was read before
its await, and properties compare with it. `Storable` is the table's view of a save: `detected_language`, an
Enum of `en` and `fr`, and `outcome` are NOT NULL. What the Enum keeps out depends on the database, and `Strict`
says on which: PostgreSQL ("production", `.env.example:29`) takes `en` and `fr` only; the ORM hands on every string,
and SQLite, the default (`config/settings.py:31`), stores it. A null is refused by both.

Abstractions. A turn is one step from its invocation to its return
(`TurnResults`), for between the nodes only the graph's own copy changes; the audio
of a reply is one await (`SpeechFails` covers both connection and stream); Twilio
sends one start message per stream; errors of the bridge other than a disconnect are
left out (they take the same `finally` branch); only the session writes the row, since the
status callbacks belong to `CallRouting`. A media message may come only after the
start message.

`RoutedStep` and the instance `Routing` at the end of the module say what the rest of the system sees of a
session: of all its steps only the record of the start, the record of the end and the hang-up. `SessionAsRouted`
is the refinement of `CallRouting`'s `RecordStart`, `RecordEnd` and `HangUp`, one leg that has found its row. It holds
when nothing fails (`session_clean`): the sessions of `CallRouting` have a database that answers.

### CampaignDialer — one campaign
`task[s]` is the start request `s` with the background task it may add; `dial[s][c]`
is where `dial_one` of that task stands with contact `c`: waiting for the semaphore,
flushing the row and calling Twilio, committing, holding the semaphore for half a
second. `placed` is Twilio's view, `rows` the database's. A pause reads and writes in two
steps, for its request has its own session. `width[s]` is the concurrency the request asked for, which
`campaigns.py:70` does not check: with 0 no `dial_one` ever gets the semaphore and the task dials for ever, a negative
one raises after `running` is committed (`LoadCampaign`). `initiate_call` takes every exception of the Twilio client for a
refusal; it may also be an answer that was lost (`LoseReply`), and then the phone rings while the row will say
`failed` and hold no sid. `Crash` stops the process. A transaction that raises abandons
its task or loses the call (`Faults`), and so does a crash. Status
callbacks do not change `rows` here (a row stays as `initiate_call` committed it), and
the counters of the campaign are left out. A pause request forgets what it read when it is over (`Paused`).

The tasks' `dial_one` and the dialer of `CallRouting` model the same `initiate_call`, here with the
semaphore, the tasks and their crashes around it, there with the webhooks that read its rows. The instance
`Routing` ties the two: every pair of a start request and a contact is an outbound leg, its dialing state
is `RoutedAs` of `dial`, its row what the committed records say of it (`NoCall` where there is no sid or report).
`DialsAsRouted` is the refinement: each step of a task is a step of `CallRouting`'s `Dialer` for one leg, or
changes nothing that `CallRouting` sees.

### CallRouting — how a call finds its row
A leg is a call as Twilio has it, named by the call id of the row it is meant to have;
`rows[l].sid` is the leg whose sid the row holds, so `rows[l].sid = l` is as it
should be, and `stream[l]` is the call id the voice webhook answered with.

| code | actions |
|---|---|
| `initiate_call` (21-62) | `PlaceCall` (flushed, Twilio has the call), `RefuseCall`, `CommitCall`, `CommitUnheard` (Twilio has the call, its answer was lost), `LoseCall` |
| `twilio_voice_webhook`, outbound | `LookUpBySid`, then `FallBack` when no row was found |
| `twilio_voice_webhook`, inbound | `CreateInbound`, `RepeatInbound` (Twilio asks again after a lost answer) |
| `twilio_status_callback` | `TakeCallback` (the query), `WriteCallback` (the commit) |
| `media_stream`, `VoiceSession` | `OpenMedia`, `RecordStart` (`_update_db_call_started`), `RecordEnd` (`_save_report_to_db`) |
| Twilio | `Answer`, `NotAnswered`, `HangUp` |

`sent` holds the callbacks Twilio has to deliver, in order unless the leg is one of
`Reordered`. `missed` remembers the legs whose voice webhook, or whose last callback, found no
row: `ConnectedWhenFound` says of every other leg that it is connected to its own call and that its sid and report are
in no other row, whatever the legs in `missed` do meanwhile; the fallback run shows what happens to these. A write is refused by the unique columns `calls.twilio_call_sid` and
`call_reports.call_id` as in the code. Of a session there is here only what it writes
(its own interleavings and failing saves are `VoiceSession`'s). Left out: the registry, durations, the inbound
configuration (added by `InboundCalls`), status callbacks of inbound legs (Twilio is asked for none). One callback
stands for `initiated` and `ringing`, and `no-answer` for `busy` too: the code treats them alike
but for the name stored.

### InboundCalls — inbound calls and their configurations
EXTENDS `CallRouting` and adds the table `inbound_configs`, the PATCH requests and, per inbound
leg, what the webhook read (`found`), the configuration `calls.task_type` is from (`taskOf`)
and the one the session was given (`servedBy`). A configuration stands for its contents;
what changes is whether it is active.

| code | actions |
|---|---|
| `create_inbound_config`, `delete_inbound_config` | `CreateConfig` (active beside those that were), `DeleteConfig` |
| `update_inbound_config` | `ReadForEdit`, `WriteEdit` (the ORM writes only what differs from the value read) |
| `twilio_voice_webhook`, inbound | `LookUpConfig` (the query), `InsertCall` (the insert; `CreateInbound` or `RepeatInbound` of `CallRouting`) |
| `media_stream` | `ServeCall` |

`disturbed` is kept for the property only: the legs between whose reads the active
configurations changed, or for which there were several to choose from. The actions are those of `CallRouting` with
conjuncts added, so hiding the new variables every behaviour is one of `CallRouting`; the proofs use this as a
lemma.

### MediaBridge — the audio of one call
An action runs from one await to the next. Writes to the line happen before their
await suspends, so they are ordered as written.

| code | actions |
|---|---|
| `_speak`, `InterruptibleTTS.stream`, `CartesiaTTS` | `BeginReply`, `PassChunk`, `StopReply`, `FinishReply`, `SpeechFails` |
| `_send_loop` | `TakeChunk`, `ChunkSent` |
| `_handle_message`, `_fire_interruption`, `_on_audio_chunk` | `IgnoreFrame`, `QuietFrame`, `LoudFrame`, `BargeIn`, `FrameFed` |
| `run`'s `finally`; `close` | `Disconnect` (`StopSender`); `CloseBridge` |

`cut`, `loud` and `allowed` are kept for the properties only. Frames are loud or quiet;
the sentinel `None` is queued and the sender cancelled in one step, so it is never taken.
What Twilio has buffered, and what its clear message drops, is outside the model: a
property is about what the bridge is given and what it writes. The change of the TTS object
with the language is left out (each object has an event of its own, reset at every reply).

### RateLimiter — `is_allowed`
One client, its requests in as many threads, one action per access of the shared
dictionary: `ReadClock`, `FetchToFilter`, `Filter`, `Store`, `FetchToCount`, `Refuse` or `Pass`,
`FetchToAppend`, `Append`. A list is named by the request that made it, since each assignment makes a
new one and another thread may hold the old. `Delay` bounds how long a check takes in
ticks of the clock, an assumption on the threads' scheduling; the clock does not go
backwards. Clients are independent of each other. Only `_api_limiter` is used by the program;
`_upload_limiter`, `_call_limiter`, `remaining` and `sanitize_phone` are not.

### ContactUpload — `POST /upload`
A file is a sequence of lines, each a phone cell and a name, with a format and at most one fault.
`Rows` are the lines that become rows of pandas' table. `Refuse` is the first check that fails; then `FlushCampaign`,
for each row, in order, `RejectRow` or `AddRow`, `Commit`, `Respond`; `line` is the last line the loop has handled. `RollBack` is `get_db`'s, `Crash` the process's. A phone number is
described by its plus, its digits, how many of these are zeros in front, and its other characters: enough for `_normalize_phone`,
the width of the column, and what pandas does to a column of numbers (external: bare
numbers become integers and lose their plus and the zeros in front, with an empty cell among them floats, whose
text ends in `.0`; `read_csv` skips empty lines). A number has at most fifteen digits, which pandas reads and writes exactly. `Strict` says
whether the database enforces the width of the column: PostgreSQL does and refuses the whole commit, the default
SQLite stores the number whole. A cell that is a number has a digit or another character at least. First and last name are one cell, for the code treats
them alike; reason, language and custom data decide nothing. A client's repetition of an upload is another upload.

The `MC*` modules add only the symmetry set of the limiter, the concurrencies of the dialer and the phone cells of an
upload; the other
constants are in the `.cfg` files. An
operator marked "Mutant of X" is X with a plausible bug, listed in PROJECT.json with
the property that notices it; no specification uses one.

## 3. What the runs check

| run | what it shows |
|---|---|
| `conversation` | `TurnBudget`, `TranscriptMatchesTurns`, `OpenCallIsUnfinished`, `ReportIsComplete`, `ExtractionIsLastWord`, `TalkingEnds` and the refinement `KeepsContract`, for all answers of the models |
| `session` | with every fault enabled, on PostgreSQL: `TranscriptCovers`, `OneTurnAfterHangUp`, `ClosedWithReport`, `RegisteredUntilSaved`, and `SessionEnds` |
| `session_clean` | with models, speech and database that answer, on SQLite, where a third language is stored: `EveryCallReported`, `ReportedCallHangsUp` and the refinement `SessionAsRouted` |
| `campaign` | overlapping tasks of a concurrency of 1, 0 or less, pause, failing transactions, lost replies, crashes: `RunningHasDialer`, `CompletedIsDialed`, `CallsAreRecorded`, `DialedCampaignCompletes` and the refinement `DialsAsRouted` (the longest run, of about two minutes) |
| `routing` | two outbound calls, one with callbacks out of order, lost rows and replies: `ConnectedWhenFound`, `StatusSettles`, `ReportStays` |
| `inbound` | two inbound calls, repeated webhooks, two configurations created, deleted, and edited by two overlapping requests: `TaskFitsConfig` and, of inbound legs, `ConnectedWhenFound` |
| `media` | `CallerStopsAgent`, `InterruptibleWhileStreaming`, `InterruptedReplyStops`, `CutByOwnBargeIn`; `AudioArrives`, `BridgeStops` |
| `limiter` | four racing checks: `RefusalIsEarned`, `OverrunsAreRaces` |
| `uploads` | every file: `AllOrNothing`, `NumbersKept`, `ErrorsFindTheirLine` |
| `routing_fallback` | violation of `ConnectedToOwnCall` |
| `session_unstored` | violation of `EveryCallReported` |
| `campaign_redialed` | violation of `PendingOnly` |

`RunningHasDialer` and `DialedCampaignCompletes` have an exception for tasks a crash, a raising
transaction or a negative concurrency has stopped: a restart while a campaign is dialed leaves it `running`, and every
later start is refused. A task with a concurrency of 0 is dialing, and never gets further: `DialedCampaignCompletes`
excepts it. `OverrunsAreRaces` has one for overlapping checks, which do exceed the limit.
`TaskFitsConfig` has one for calls during which the choice changed or was not unique, and these may get the
task of one business and the agent of another. `NumbersKept` names the ways of writing a list that are misread (below).

### Disagreements between the code and what it says of itself

* `session_unstored`. The classifier's language goes unchecked from the model's answer
  (`agent/nodes/intent_classifier.py:74`) into the NOT NULL column Enum of `en` and `fr`
  (`voice/session_manager.py:265`), in the transaction that stores the report. A null
  language loses the report on any database, the default SQLite included (the run), a third language on PostgreSQL
  (with `Strict = TRUE` and `"es"` the run finds the same), and the session leaves the call active (only Twilio's own
  `completed` callback may still change that), although
  `agent/nodes/reporter.py:2` promises a report "after every call".
* `campaign_redialed`. `dial_campaign` dials all contacts, not "all pending contacts"
  (`telephony/call_manager.py:67`), and two start requests can both be accepted.
* `routing_fallback`. "Fallback: find pending call for this number" (`webhooks.py:66`): the
  query takes any call that is dialing, and looks at no number. A person who answers before
  `initiate_call` has committed, or whose commit failed, talks to the session of
  another contact.

Met on the way, with no run of their own:

* An exception of the TTS connection ends the loop, and `gather` keeps it until the caller
  hangs up: the call stays up, unanswered. A start message after the 30 s timeout makes
  the call active with no loop behind it.
* `pause_campaign` ("Pause a running campaign", `campaigns.py:88`) writes a status nobody reads:
  dialing goes on, and ends with `completed`.
* A commit that fails after Twilio was asked to call loses the row of a call in progress; a reply of Twilio that is lost
  leaves the row of a call in progress `failed`, without a sid.
* The concurrency of a start request is not checked: 0 or a negative one leaves the campaign `running` with no call made.
* A key the classifier names again replaces what the caller said before, also by null.
* An inbound call whose media stream never opens keeps the status active; callbacks that
  arrive out of order leave whatever came last.
* `mark_tts_done` clears the playing flag while queued or buffered audio still plays, so the caller
  cannot interrupt the end of a reply ("Caller can interrupt the agent mid-sentence", `README.md:144`),
  unless a late chunk sets the flag again; a clear message overtakes queued chunks, which are then played; a
  quiet frame takes one from the counter of "consecutive chunks" (`audio_bridge.py:45`)
  rather than resetting it; `interruption_detected` is written and never read.
* An upload with an empty phone cell among bare numbers appends a 0 to every number in
  the file; a column of bare numbers loses its leading zeros (`0612345678` becomes `+612345678`); an empty cell itself becomes the contact `+`, an empty name the contact `nan`; ten digits
  after a plus get a second country code; `+1 416-555-0123` is stored as written although the column is
  "E.164 format" (`db/models.py:66`); one number of more than 20 characters makes the whole upload fail on PostgreSQL.
* `create_inbound_config` leaves every earlier configuration active. The limiter never
  forgets a client.
* `worker/tasks.py:50` passes `dial_campaign` one argument too many, and nothing enqueues `generate_report_task`.

### Bounds, and why they are enough

* `MaxTurns` 3 in `conversation` (limit reached, one before it, and the first turn
  differ), 1 or 2 in the session runs, where the limit only has to be reachable
  together with every interleaving of a turn; the code's value is `max_turns`.
* `InfoKeys`: two keys, so that one turn's answer can lack what an earlier one had, with two values, null and another. The
  session runs have none, since nothing outside the graph reads them.
* `ClassifierLanguages` has one value outside `Language`: a third language or, in `session_unstored`, null.
* `QueueCap = 2`: a transcript in hand and one behind it; the sentinel is always
  accepted, since the code's queue is unbounded.
* Two contacts, two start requests, one pause: the second task overlaps with the first,
  or comes after the pause. The `Widths` -1, 0 and 1 are the three ways a semaphore can go;
  with 2 (`campaign_redialed`) both contacts of a task interleave. The invariants of the dialer and `DialsAsRouted` are
  proved for all of these numbers anyway.
* Two outbound legs in `routing`: the fallback needs one that misses its row and one to be
  mistaken for; one of them is in `Reordered`, the other is what `StatusSettles` is about. Two inbound
  legs in `inbound`, and no outbound ones: inbound rows are never dialing and cannot be taken for another's,
  and `ConnectedWhenFound`, `StatusSettles` and `ReportStays` are proved for any number of both.
* Two configurations and two edits: enough for two to be active, for one to be deleted under an edit, for two edits of
  one to overlap, and for a choice that differs between the two reads. Proved for any number.
* `media`: two replies, so that what is left of one can meet the other, of two chunks, and the code's
  threshold of three frames. The safety properties are proved for all values.
* `limiter`: four requests against a limit of two, a window of two ticks and a `Delay` of one: a
  window fills, moves on and fills again. Proved for all values.
* `uploads`: three lines, of which two may be contacts, and one reported error: every limit is
  exceeded by one. The eight cells are the ways of writing a number that the code tells apart.
* Only `limiter` uses symmetry, of its requests, and it checks invariants only.

Deadlock is checked in `conversation`, `media` and the session runs, where a finished call
stutters explicitly (`Terminated`). `CampaignDialer` and `RateLimiter` run out of their bounded
requests, `CallRouting` and `InboundCalls` of legs, and an upload ends with its answer, so their
runs have `CHECK_DEADLOCK FALSE`.

### Fairness

The event loop serves every ready task, requests to the database and the models
answer or fail (the clients have timeouts), spoken audio comes to an end, the 30 s
timer expires. So: weak fairness of `Run`, of the bridge's steps after a message or
a disconnect, of `Loop`, of `RunNode`, of each campaign task. None for the start message,
`Transcribe`, `HangUp`, `Hear` of `Conversation` or any HTTP request: nobody
is obliged to speak, hang up or click. `SttIdles` is the external
assumption on Deepgram: a connection that carries no audio any more is closed by its
timeout, which is what lets `SessionEnds` hold; without it the loop would wait for
ever. A weakly fair disjunction, such as `ReporterReturns \/ ReporterRaises`, obliges the
request to come back, not to succeed. In `MediaBridge` the sender, a reply being spoken, the feeding of a
frame and the disconnect are fair; beginning a reply, closing the bridge, frames and hang-ups are not.

## 4. What is proved

For all values of the constants, from the named assumptions of the modules
(`AgentGraphAssumption`, `VoiceSessionAssumption`, `CampaignDialerAssumption`, `CallRoutingAssumption`,
`InboundCallsAssumption`, `MediaBridgeAssumption`, `RateLimiterAssumption`, `UploadAssumption`); TLC
evaluates them in every run. Two theorems have a hypothesis of their own, `Faultless`: no failing transaction, models that
answer objects, languages and reports the database takes; `session_clean` is such an instance, `session` and `session_unstored`
show what there is without it.

The proofs tie the modules together as well. `CampaignDialer` and `InboundCalls` implement `CallRouting`, a faultless
`VoiceSession` implements its steps of a session, `Conversation` implements `Dialogue`. What is proved once of
`CallRouting`, for any number of legs and any order of webhooks, callbacks and sessions, therefore rests neither on
how a campaign dials nor on how a session goes about its work.

* **AgentGraphProofs** — a lemma for each node (what it adds, keeps and changes),
  and `TurnFacts`: an invocation adds exactly the caller's line and one
  answer, and either changes no report or completes the call with a report of the
  whole history.
* **ConversationProofs** — all invariants of the `conversation` run and the
  refinement `KeepsContract`. None of the invariants is inductive alone: they say nothing of the
  copy the graph works on. `ConversationInv` adds it: in the graph, `work` has the agent
  state's turn count and no report, at `responder` the count is below the limit and the
  task not completed, past the classifier the intent is not to end the call. `ToldInv` has `work` hold,
  of each key, the last word of the classifications up to there, and `HistoryInv` gives the length of the copy's history at each node.
* **VoiceSessionProofs** — types (`ControlOK` and `DataOK` apart, so that each
  step is about the half it changes), `RegistryIsExact`, and from `RecordInv` the three safety properties of
  the record. Its core: while a turn is in flight the history of `agent` and `work` is the
  same, and if the line went down meanwhile both still have what `ending` recorded; any report
  there is by then was made from a history that begins with it. `FaultlessCallsAreReported` adds `StoredInv`: without faults, what the
  bridge is saving is a report the table takes. `FaultlessSessionsAreRouted` is the refinement of `CallRouting`'s session:
  it needs `LineInv` (a report is on its way only when the line is gone, and there is one start message), for a
  session there ends before its start only when its leg is over; `StoredInv`, since no save may fail; and `SavedInv`,
  since the row has no report before. All other steps leave the row alone, and can only take the line down.
* **CampaignDialerProofs** — types; `RunningIsTrue` (a start request
  writes no status, and the task that wrote `running` is the one to write `completed`, unless it was abandoned);
  `CompletedIsWorkedThrough`, since no task is ever
  restarted; and `PlacedCallsAreRecorded`, from an invariant that also follows
  the calls between Twilio's answer and the commit, answers that were lost included. `TasksDialAsRouted` is the refinement of `CallRouting`'s dialer,
  one action of `dial_one` at a time. Its core is `RowIsPast`: a row is of a contact its task has already
  left behind, so a commit writes the first row of its leg, and the sid is free (`SidsAreFree`); both need that no task
  is ever restarted and that each has legs of its own. `CampaignImplementsRouting` follows: a campaign is a behaviour
  of `CallRouting`, in which the legs do nothing else yet.
* **CallRoutingProofs** — types, and `CallsAreNotMixedUp`: of each leg whose webhooks have found its row
  `OwnEverything` holds: its sid and its report are in its own row only, and it
  is handed only its own call id, before its media stream opens, so it never gets to the
  fallback. That last part is what makes it inductive, leg by leg: what other legs do may put their reports into
  this leg's row, and its own into none.
  `ReportsStay` needs that no step refers to a row that is not there, or writes an inbound row anew
  (`BirthInv`); the rest is the unique column of the reports. `StatusesSettle` follows each outbound leg through its
  callbacks (`SettleInv`): as long as callbacks are left the last of them is the state of the leg; once all are taken,
  the row has the outcome, or the one handler left is about to write it, or the leg is completed and its
  open session is about to.
* **CallRoutingProofs**, second half, of `InboundCalls` — the lemma that it implements `CallRouting`; from it, without
  another induction, `InboundCallsAreNotMixedUp` and `InboundReportsStay`; and `TasksFitConfigs`, from an invariant that follows the
  choice from the webhook's query through the insert, a repeated webhook included, to the media stream.
* **MediaBridgeProofs** — types (in halves, as above) and the four safety properties, from `BegunOnly` (nothing is
  queued, sent or cut of a reply that has not begun), `EventIsOfReply` (while a reply streams, the event is set only
  by a barge-in of this reply, and what it may still say is what it had said then) and the counter's lead over `loud`.
* **RateLimiterProofs** — types; `RefusalsAreEarned`, from what the lists may hold (`ListsInv`: admitted requests of the
  builder's window) and how old a list a check may count (`HeldInv`: `Delay`); and `OnlyRacesOverrun`, from `KeptInv`:
  the entry of a request that ran alone is in the stored list, and in every list that may yet be stored, until its window is over.
* **ContactUploadProofs** — from `LoopIsAccounted`, that the list is stored whole
  or not at all, that the numbers are kept and that every error is of a line that deserves it, for files of any length. The
  three properties look at the end of a request, and the loop that gets there is what has to be followed: `UploadInv` says of every
  moment that there are as many contacts and errors as rows up to `line` (`HandledOnce`), that the contacts are
  those of rows that pass, in their order, the errors of rows that do not; that what is committed is all of it, with every row
  handled (`CommittedWhole`), and what is answered is what is committed (`AnswersAreTrue`).

Only model-checked: the liveness properties (`TalkingEnds`, `SessionEnds`,
`ReportedCallHangsUp`, `DialedCampaignCompletes`, `AudioArrives`, `BridgeStops`), out of the prover's reach, with
`ENABLED`. Every invariant and every action property of a passing run is proved. The type invariants of `VoiceSession`,
`CampaignDialer`, `InboundCalls`, `RateLimiter` and `ContactUpload` are proved and not model-checked: a proof for all values of the constants
leaves a run nothing to find, and the runs are spent on what relates the modules.

## 5. Not modelled, and what is left

* The Celery worker: nothing enqueues either task, and one of them cannot run.
* The report and campaign views, health, static files, prompts, settings, middleware and the page:
  they read, or hold texts and configuration, and keep no state that a property could be about.
* The contents of spoken or generated text, Twilio's audio buffer, durations and costs.
* The registry under two media streams of one call: the first to end removes the entry of both. The entry is only
  counted, and no property depends on it.
* A next step would be the composition of `ContactUpload` and `CampaignDialer` (a list that is committed
  while a start request waits), and of `MediaBridge` with `VoiceSession` (the 1.5 s before the bridge is
  closed against what is left of the closing line).
