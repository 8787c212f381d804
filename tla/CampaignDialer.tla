---------------------------- MODULE CampaignDialer ----------------------------
(***************************************************************************)
(* The dialing of one campaign: the start and pause requests of            *)
(* api/routes/campaigns.py, and the background tasks running dial_campaign *)
(* of telephony/call_manager.py, which share the campaigns row.            *)
(*                                                                         *)
(* A start request that is accepted adds a background task; the task sets  *)
(* the status when it gets to run.  A task dials its contacts under a      *)
(* semaphore: the row is flushed, Twilio is asked to call, the row is      *)
(* committed, and the semaphore is held for half a second more.            *)
(***************************************************************************)
EXTENDS Integers, FiniteSets

CONSTANTS
    Contacts,     \* the contacts of the campaign
    Starts,       \* bound: the start requests, each with the task it may add
    Pauses,       \* bound: the pause requests
    Widths,       \* the concurrencies clients ask for: any integer is accepted
    NoCall,       \* no call: a row without a sid, or without a report
    Faults,       \* may Twilio or the database refuse a request, or an answer get lost?
    Crashes       \* may the server process stop and start again?

ASSUME CampaignDialerAssumption ==
    /\ IsFiniteSet(Contacts)
    /\ Widths \subseteq Int
    /\ NoCall \notin Starts \X Contacts
    /\ Faults \in BOOLEAN
    /\ Crashes \in BOOLEAN

VARIABLES
    status,  \* campaigns.status
    task,    \* [Starts -> the state of the start request and its task]
    width,   \* [Starts -> the concurrency the request asked for]
    dial,    \* [Starts -> [Contacts -> where dial_one stands]]
    placed,  \* the calls Twilio has placed, as pairs <<start, contact>>
    rows,    \* the calls rows committed: [start, contact, status]
    pause    \* [Pauses -> where the request stands, with the status it read]

vars == <<status, task, width, dial, placed, rows, pause>>

CampaignStatus == {"pending", "running", "paused", "completed"}

TaskState == {"idle", "queued", "dialing", "ended", "abandoned"}

\* A call that is "losing", and then "lost", leaves no row: see LoseCall.
DialState == {"waiting", "flushing", "called", "unheard", "refused", "sleeping", "done",
              "losing", "lost"}

PauseState == [at : {"idle", "read", "done"}, seen : CampaignStatus]

\* What a request has read, it forgets when it is over.
Paused == [at |-> "done", seen |-> "pending"]

Init ==
    /\ status = "pending"
    /\ task = [s \in Starts |-> "idle"]
    /\ width = [s \in Starts |-> 0]
    /\ dial = [s \in Starts |-> [c \in Contacts |-> "waiting"]]
    /\ placed = {}
    /\ rows = {}
    /\ pause = [p \in Pauses |-> [at |-> "idle", seen |-> "pending"]]

-------------------------------------------------------------------------------
(* start_campaign and dial_campaign                                        *)

\* The status is the one in the database now; a refused request changes nothing.
StartCampaign(s) ==
    /\ task[s] = "idle"
    /\ status \notin {"running", "completed"}
    /\ task' = [task EXCEPT ![s] = "queued"]
    /\ \E n \in Widths : width' = [width EXCEPT ![s] = n]
    /\ UNCHANGED <<status, dial, placed, rows, pause>>

\* All contacts of the campaign are loaded, whether called before or not, and
\* the status is committed; then no semaphore can be made of a negative number.
LoadCampaign(s) ==
    /\ task[s] = "queued"
    /\ task' = [task EXCEPT ![s] = IF width[s] < 0 THEN "abandoned" ELSE "dialing"]
    /\ status' = "running"
    /\ UNCHANGED <<width, dial, placed, rows, pause>>

InFlight(s) == {c \in Contacts : dial[s][c] \notin {"waiting", "done", "lost"}}

Moves(s, c, from, to) ==
    /\ task[s] = "dialing"
    /\ dial[s][c] = from
    /\ dial' = [dial EXCEPT ![s][c] = to]

\* dial_one gets the semaphore; of width 0, never.
TakeContact(s, c) ==
    /\ Cardinality(InFlight(s)) < width[s]
    /\ Moves(s, c, "waiting", "flushing")
    /\ UNCHANGED <<status, task, width, placed, rows, pause>>

\* make_outbound_call returns a sid.
PlaceCall(s, c) ==
    /\ Moves(s, c, "flushing", "called")
    /\ placed' = placed \cup {<<s, c>>}
    /\ UNCHANGED <<status, task, width, rows, pause>>

\* make_outbound_call raises although Twilio has placed the call: the answer of
\* its API was lost.
LoseReply(s, c) ==
    /\ Faults
    /\ Moves(s, c, "flushing", "unheard")
    /\ placed' = placed \cup {<<s, c>>}
    /\ UNCHANGED <<status, task, width, rows, pause>>

\* make_outbound_call raises, and there is no call.
RefuseCall(s, c) ==
    /\ Faults
    /\ Moves(s, c, "flushing", "refused")
    /\ UNCHANGED <<status, task, width, placed, rows, pause>>

\* Mutant of CallRow: the status of a call that could not be made is not set.
CallRowUnset(s, c, outcome) == [start |-> s, contact |-> c, status |-> "dialing"]

CallRow(s, c, outcome) ==
    [start |-> s, contact |-> c, status |-> IF outcome = "called" THEN "dialing" ELSE "failed"]

\* Mutant of Committed: a contact that has a row gets no other.
CommittedOnce(row) == IF \E r \in rows : r.contact = row.contact THEN rows ELSE rows \cup {row}

Committed(row) == rows \cup {row}

CommitCall(s, c) ==
    /\ \E outcome \in {"called", "unheard", "refused"} :
          /\ Moves(s, c, outcome, "sleeping")
          /\ rows' = Committed(CallRow(s, c, outcome))
    /\ UNCHANGED <<status, task, width, placed, pause>>

\* The flush or the commit raises: dial_one swallows it, and there is no row.
LoseCall(s, c) ==
    /\ Faults
    /\ \E from \in {"flushing", "called", "unheard", "refused"} : Moves(s, c, from, "losing")
    /\ UNCHANGED <<status, task, width, placed, rows, pause>>

\* Half a second later.
ReleaseContact(s, c) ==
    /\ Moves(s, c, "sleeping", "done") \/ Moves(s, c, "losing", "lost")
    /\ UNCHANGED <<status, task, width, placed, rows, pause>>

\* Mutant of Gathered: the calls are begun, not gathered.
GatheredBegun(s) == \A c \in Contacts : dial[s][c] # "waiting"

\* gather returns, whatever became of the calls.
Gathered(s) == \A c \in Contacts : dial[s][c] \in {"done", "lost"}

\* Mutant of FinalStatus: a paused campaign is left paused.
FinalStatusUnlessPaused == IF status = "paused" THEN "paused" ELSE "completed"

\* Mutant of FinalStatus: the last transaction is forgotten.
FinalStatusForgotten == status

FinalStatus == "completed"

FinishCampaign(s) ==
    /\ task[s] = "dialing"
    /\ Gathered(s)
    /\ status' = FinalStatus
    /\ task' = [task EXCEPT ![s] = "ended"]
    /\ UNCHANGED <<width, dial, placed, rows, pause>>

\* The first or the last transaction of dial_campaign raises: the task is over.
AbandonCampaign(s) ==
    /\ Faults
    /\ \/ task[s] = "queued"
       \/ task[s] = "dialing" /\ Gathered(s)
    /\ task' = [task EXCEPT ![s] = "abandoned"]
    /\ UNCHANGED <<status, width, dial, placed, rows, pause>>

-------------------------------------------------------------------------------
(* pause_campaign                                                          *)

ReadForPause(p) ==
    /\ pause[p].at = "idle"
    /\ pause' = [pause EXCEPT ![p] = [at |-> "read", seen |-> status]]
    /\ UNCHANGED <<status, task, width, dial, placed, rows>>

\* The ORM writes the column only when it differs from the value it read.
WritePause(p) ==
    /\ pause[p].at = "read"
    /\ status' = IF pause[p].seen = "paused" THEN status ELSE "paused"
    /\ pause' = [pause EXCEPT ![p] = Paused]
    /\ UNCHANGED <<task, width, dial, placed, rows>>

-------------------------------------------------------------------------------
\* The process stops: its background tasks are gone, the database is not.
Crash ==
    /\ Crashes
    /\ task' = [s \in Starts |->
                   IF task[s] \in {"queued", "dialing"} THEN "abandoned" ELSE task[s]]
    /\ pause' = [p \in Pauses |->
                    IF pause[p].at = "read" THEN Paused ELSE pause[p]]
    /\ UNCHANGED <<status, width, dial, placed, rows>>

DialOne(s, c) ==
    \/ TakeContact(s, c)
    \/ PlaceCall(s, c) \/ LoseReply(s, c) \/ RefuseCall(s, c)
    \/ CommitCall(s, c) \/ LoseCall(s, c) \/ ReleaseContact(s, c)

Task(s) ==
    \/ LoadCampaign(s) \/ FinishCampaign(s) \/ AbandonCampaign(s)
    \/ \E c \in Contacts : DialOne(s, c)

Next ==
    \/ \E s \in Starts : StartCampaign(s) \/ Task(s)
    \/ \E p \in Pauses : ReadForPause(p) \/ WritePause(p)
    \/ Crash

(***************************************************************************)
(* A task that was added is run, and each of its requests is answered.     *)
(* Nobody is obliged to send a request.                                    *)
(***************************************************************************)
Spec == Init /\ [][Next]_vars /\ \A s \in Starts : WF_vars(Task(s))

-------------------------------------------------------------------------------
TypeOK ==
    /\ status \in CampaignStatus
    /\ task \in [Starts -> TaskState]
    /\ width \in [Starts -> Widths \cup {0}]
    /\ dial \in [Starts -> [Contacts -> DialState]]
    /\ placed \subseteq Starts \X Contacts
    /\ rows \subseteq [start : Starts, contact : Contacts, status : {"dialing", "failed"}]
    /\ pause \in [Pauses -> PauseState]

(***************************************************************************)
(* "Campaign already running" (campaigns.py:78) is true when it is said:   *)
(* a status of running, which refuses every start request, means that some *)
(* task is dialing, whatever pauses and other tasks have written in        *)
(* between, unless a task was abandoned.  (A task asked for a concurrency  *)
(* of 0 dials for ever, and starts no call.)                               *)
(***************************************************************************)
RunningHasDialer ==
    status = "running" => \E s \in Starts : task[s] \in {"dialing", "abandoned"}

(***************************************************************************)
(* A campaign that is completed has been worked through: some task has     *)
(* tried every contact, faults and overlapping tasks notwithstanding.      *)
(***************************************************************************)
CompletedIsDialed ==
    status = "completed" => \E s \in Starts :
        task[s] = "ended" /\ \A c \in Contacts : dial[s][c] \in {"done", "lost"}

RowSays(l, says) == [start |-> l[1], contact |-> l[2], status |-> says] \in rows

(***************************************************************************)
(* "Create a Call record and dial the contact" (call_manager.py:27): when  *)
(* dial_one is through with a contact and the transaction did not raise,   *)
(* the call has its row, also when other tasks dial the same contact; and  *)
(* a row of a call that dials is of one that Twilio has placed.  (One that *)
(* failed may be of a call that rings: see LoseReply.)                     *)
(***************************************************************************)
CallsAreRecorded ==
    \A s \in Starts, c \in Contacts :
        /\ dial[s][c] \in {"sleeping", "done"} => \E says \in {"dialing", "failed"} : RowSays(<<s, c>>, says)
        /\ RowSays(<<s, c>>, "dialing") => <<s, c>> \in placed

(***************************************************************************)
(* A campaign whose task is run is completed in the end: neither a pause   *)
(* nor another task nor a call that fails keeps it from that, only a crash *)
(* or an error of the task itself, or a client who asked for a concurrency *)
(* of 0.                                                                   *)
(***************************************************************************)
DialedCampaignCompletes ==
    \A s \in Starts :
        task[s] = "queued" /\ width[s] # 0 ~> status = "completed" \/ task[s] = "abandoned"

(***************************************************************************)
(* Every task's call of every contact is a leg of CallRouting.             *)
(***************************************************************************)
DialedLegs == Starts \X Contacts

RoutedAs(at) ==
    CASE at \in {"waiting", "flushing", "refused"} -> "idle"
      [] at \in {"called", "unheard"} -> "placed"
      [] OTHER -> "done"

RoutingDial == [l \in DialedLegs |-> RoutedAs(dial[l[1]][l[2]])]

RoutingRow(says, sid) == [status |-> says, sid |-> sid, report |-> NoCall]

RoutingRows ==
    [l \in DialedLegs |->
        IF RowSays(l, "dialing") THEN RoutingRow("dialing", l)
        ELSE RoutingRow(IF RowSays(l, "failed") THEN "failed" ELSE "absent", NoCall)]

RoutingLeg == [l \in DialedLegs |-> IF l \in placed THEN "ringing" ELSE "none"]
RoutingSent == [l \in DialedLegs |-> IF l \in placed THEN <<"ringing">> ELSE <<>>]

Routing == INSTANCE CallRouting WITH
    Outbound <- DialedLegs, Inbound <- {}, Reordered <- {}, None <- NoCall,
    dial <- RoutingDial,
    rows <- RoutingRows,
    leg <- RoutingLeg,
    sent <- RoutingSent,
    handlers <- [l \in DialedLegs |-> {}],
    stream <- [l \in DialedLegs |-> "none"],
    media <- [l \in DialedLegs |-> "none"],
    missed <- {}

(***************************************************************************)
(* The tasks dial as CallRouting has it (call_manager.py 21-62, 92-98):    *)
(* however many tasks dial a contact, whatever is paused, lost or crashes, *)
(* each of them places its own call at most once, and commits for it one   *)
(* row, or none: with its sid when Twilio's answer was heard, and as       *)
(* failed when it was a refusal or was lost.                               *)
(***************************************************************************)
DialsAsRouted == Routing!Init /\ [][\E l \in DialedLegs : Routing!Dialer(l)]_(Routing!vars)

(***************************************************************************)
(* "Dial all pending contacts" (call_manager.py:67): a contact that has    *)
(* been called is not pending, and a resumed campaign leaves it alone.     *)
(***************************************************************************)
PendingOnly == \A s, t \in Starts, c \in Contacts :
                    <<s, c>> \in placed /\ <<t, c>> \in placed => s = t

===============================================================================
