------------------------------ MODULE CallRouting ------------------------------
(***************************************************************************)
(* How a telephone call finds its row, its session and its report: the     *)
(* dialer's initiate_call, the Twilio webhooks, the media stream endpoint, *)
(* and what a session writes.  They meet in the calls table only.          *)
(*                                                                         *)
(* A leg is a telephone call as Twilio has it; it is named by the call id  *)
(* its row was, or is to be, inserted with.  The name also stands for the  *)
(* sid, so a row whose sid is its own id is as it should be.  A webhook    *)
(* awaits the database between its queries, and other handlers run.        *)
(***************************************************************************)
EXTENDS Naturals, Sequences, SequencesExt

CONSTANTS
    Outbound,   \* the legs the dialer places
    Inbound,    \* the legs that come in
    Reordered,  \* the outbound legs whose status callbacks may overtake each other
    None        \* no leg, no row

Legs == Outbound \cup Inbound

\* Of the voice webhook, while or instead of handing out a call id.
NoAnswer == {"none", "asked", "hangup", "error"}

ASSUME CallRoutingAssumption ==
    /\ Outbound \cap Inbound = {}
    /\ Reordered \subseteq Outbound
    /\ None \notin Legs
    /\ Legs \cap NoAnswer = {}

VARIABLES
    dial,      \* [Outbound -> where initiate_call stands]
    rows,      \* the calls table, with the report of each call: [Legs -> Row]
    leg,       \* [Legs -> the status of the leg at Twilio]
    sent,      \* [Outbound -> the status callbacks Twilio has yet to deliver]
    handlers,  \* [Outbound -> the status callbacks being handled]
    stream,    \* [Legs -> the answer to the voice webhook: the call id to stream to]
    media,     \* [Legs -> the media stream of the leg, and its session]
    missed     \* the legs whose voice webhook or last callback found no row

database == <<dial, rows>>
twilio == <<leg, sent>>
vars == <<database, twilio, handlers, stream, media, missed>>

RowStatus == {"absent", "dialing", "active", "completed", "no_answer", "failed"}

Row == [status : RowStatus, sid : Legs \cup {None}, report : Legs \cup {None}]

\* The outcomes of a leg, and what the row should say of them.
Outcome == [status \in {"completed", "no-answer", "failed"} |->
                IF status = "no-answer" THEN "no_answer" ELSE status]

\* "ringing" stands for "initiated" too, "no-answer" for "busy".
TwilioStatus == {"ringing", "in-progress"} \cup DOMAIN Outcome

NewRow(status, sid) == [status |-> status, sid |-> sid, report |-> None]

Handler == [to : RowStatus, row : Legs, seen : RowStatus]

Init ==
    /\ dial = [o \in Outbound |-> "idle"]
    /\ rows = [l \in Legs |-> NewRow("absent", None)]
    /\ leg = [l \in Legs |-> IF l \in Inbound THEN "in-progress" ELSE "none"]
    /\ sent = [o \in Outbound |-> <<>>]
    /\ handlers = [o \in Outbound |-> {}]
    /\ stream = [l \in Legs |-> "none"]
    /\ media = [l \in Legs |-> "none"]
    /\ missed = {}

\* The column is unique.
SidIsFree(l) == \A id \in Legs : rows[id].sid # l

BySid(l) == {id \in Legs : rows[id].sid = l}

-------------------------------------------------------------------------------
(* initiate_call                                                           *)

\* The row is flushed, not committed; Twilio has the call.
PlaceCall(o) ==
    /\ dial[o] = "idle"
    /\ dial' = [dial EXCEPT ![o] = "placed"]
    /\ leg' = [leg EXCEPT ![o] = "ringing"]
    /\ sent' = [sent EXCEPT ![o] = <<"ringing">>]
    /\ UNCHANGED <<rows, handlers, stream, media, missed>>

RefuseCall(o) ==
    /\ dial[o] = "idle"
    /\ dial' = [dial EXCEPT ![o] = "done"]
    /\ rows' = [rows EXCEPT ![o] = NewRow("failed", None)]
    /\ UNCHANGED <<twilio, handlers, stream, media, missed>>

\* make_outbound_call raises although Twilio has the call: its answer was lost.
CommitUnheard(o) ==
    /\ dial[o] = "placed"
    /\ dial' = [dial EXCEPT ![o] = "done"]
    /\ rows' = [rows EXCEPT ![o] = NewRow("failed", None)]
    /\ UNCHANGED <<twilio, handlers, stream, media, missed>>

CommitCall(o) ==
    /\ dial[o] = "placed"
    /\ SidIsFree(o)
    /\ dial' = [dial EXCEPT ![o] = "done"]
    /\ rows' = [rows EXCEPT ![o] = NewRow("dialing", o)]
    /\ UNCHANGED <<twilio, handlers, stream, media, missed>>

\* The flush before Twilio is asked raises, or the commit does, for the sid or
\* for reasons of its own.
LoseCall(o) ==
    /\ dial[o] # "done"
    /\ dial' = [dial EXCEPT ![o] = "done"]
    /\ UNCHANGED <<rows, twilio, handlers, stream, media, missed>>

-------------------------------------------------------------------------------
(* Twilio: the legs, and the callbacks it sends about the outbound ones.   *)

Becomes(o, status) ==
    /\ leg' = [leg EXCEPT ![o] = status]
    /\ sent' = [sent EXCEPT ![o] = Append(@, status)]
    /\ UNCHANGED <<database, handlers, stream, media, missed>>

Answer(o) == leg[o] = "ringing" /\ Becomes(o, "in-progress")

NotAnswered(o) == leg[o] = "ringing" /\ \E status \in {"no-answer", "failed"} : Becomes(o, status)

HangUp(l) ==
    /\ leg[l] = "in-progress"
    /\ \/ l \in Outbound /\ Becomes(l, "completed")
       \/ /\ l \in Inbound
          /\ leg' = [leg EXCEPT ![l] = "completed"]
          /\ UNCHANGED <<database, sent, handlers, stream, media, missed>>

-------------------------------------------------------------------------------
(* twilio_voice_webhook                                                    *)

\* Mutant of Route: the call is looked for among those being dialed first.
RouteToDialing(o) == {id \in Legs : rows[id].status = "dialing"}

Route(o) == BySid(o)

\* The first query of an outbound leg.
LookUpBySid(o) ==
    /\ leg[o] = "in-progress"
    /\ stream[o] = "none"
    /\ \/ /\ \E id \in Route(o) : stream' = [stream EXCEPT ![o] = id]
          /\ UNCHANGED missed
       \/ /\ Route(o) = {}
          /\ stream' = [stream EXCEPT ![o] = "asked"]
          /\ missed' = missed \cup {o}
    /\ UNCHANGED <<database, twilio, handlers, media>>

\* The second: any call being dialed, and none hangs up.
FallBack(o) ==
    /\ stream[o] = "asked"
    /\ LET found == {id \in Legs : rows[id].status = "dialing"} IN
       \E answer \in IF found = {} THEN {"hangup"} ELSE found :
          stream' = [stream EXCEPT ![o] = answer]
    /\ UNCHANGED <<database, twilio, handlers, media, missed>>

\* An inbound leg gets a row; Twilio asks again when the answer is lost.
CreateInbound(i) ==
    /\ leg[i] = "in-progress"
    /\ stream[i] = "none"
    /\ SidIsFree(i)
    /\ rows' = [rows EXCEPT ![i] = NewRow("active", i)]
    /\ \E answer \in {i, "none"} : stream' = [stream EXCEPT ![i] = answer]
    /\ UNCHANGED <<dial, twilio, handlers, media, missed>>

\* Mutant of RepeatInbound: the webhook answers with a call that is active.
RepeatInboundToActive(i) ==
    /\ leg[i] = "in-progress"
    /\ stream[i] = "none"
    /\ ~SidIsFree(i)
    /\ \E id \in Legs : rows[id].status = "active" /\ stream' = [stream EXCEPT ![i] = id]
    /\ UNCHANGED <<database, twilio, handlers, media, missed>>

\* The sid is taken: the second insert raises, and the webhook answers 500.
RepeatInbound(i) ==
    /\ leg[i] = "in-progress"
    /\ stream[i] = "none"
    /\ ~SidIsFree(i)
    /\ stream' = [stream EXCEPT ![i] = "error"]
    /\ UNCHANGED <<database, twilio, handlers, media, missed>>

-------------------------------------------------------------------------------
(* twilio_status_callback                                                  *)

\* Mutant of StatusMap: a callback for a call that is over is not known.
StatusMapWithoutEnd(status) ==
    CASE status = "ringing" -> "dialing"
      [] status = "in-progress" -> "active"
      [] OTHER -> "failed"

\* Mutant of StatusMap: Twilio's name of the status is stored.
StatusMapIdentity(status) == status

StatusMap(status) ==
    CASE status = "ringing" -> "dialing"
      [] status = "in-progress" -> "active"
      [] status = "completed" -> "completed"
      [] status = "no-answer" -> "no_answer"
      [] OTHER -> "failed"

\* A callback arrives and looks for its row.  Twilio sends the next when the
\* last was answered, but the network may hold one back.
TakeCallback(o) ==
    /\ \E n \in 1..Len(sent[o]) :
          /\ o \in Reordered \/ (n = 1 /\ handlers[o] = {})
          /\ sent' = [sent EXCEPT ![o] = RemoveAt(@, n)]
          /\ \/ \E id \in BySid(o) :
                   /\ handlers' = [handlers EXCEPT ![o] = @ \cup
                        {[to |-> StatusMap(sent[o][n]), row |-> id, seen |-> rows[id].status]}]
                   /\ UNCHANGED missed
             \/ /\ BySid(o) = {}
                /\ missed' = missed \cup {l \in {o} : sent[l][n] \in DOMAIN Outcome}
                /\ UNCHANGED handlers
    /\ UNCHANGED <<database, leg, stream, media>>

\* The ORM writes the column only when it differs from the value it read.
WriteCallback(o) ==
    /\ \E h \in handlers[o] :
          /\ handlers' = [handlers EXCEPT ![o] = @ \ {h}]
          /\ rows' = IF h.to = h.seen THEN rows ELSE [rows EXCEPT ![h.row] = [@ EXCEPT !.status = h.to]]
    /\ UNCHANGED <<dial, twilio, stream, media, missed>>

-------------------------------------------------------------------------------
(* media_stream, and the session it runs (VoiceSession.tla).               *)

\* The row of a call id that was handed out exists.
OpenMedia(l) ==
    /\ leg[l] = "in-progress"
    /\ stream[l] \in Legs
    /\ media[l] = "none"
    /\ media' = [media EXCEPT ![l] = "open"]
    /\ UNCHANGED <<database, twilio, handlers, stream, missed>>

\* _update_db_call_started; a sid that another row has is refused, and the
\* failure swallowed.
RecordStart(l) ==
    /\ media[l] = "open"
    /\ media' = [media EXCEPT ![l] = "started"]
    /\ \/ /\ BySid(l) \subseteq {stream[l]}
          /\ rows' = [rows EXCEPT ![stream[l]] = [@ EXCEPT !.sid = l, !.status = "active"]]
       \/ /\ ~ (BySid(l) \subseteq {stream[l]})
          /\ UNCHANGED rows
    /\ UNCHANGED <<dial, twilio, handlers, stream, missed>>

SessionEnds(l) ==
    /\ media[l] = "started" \/ (media[l] = "open" /\ leg[l] = "completed")
    /\ media' = [media EXCEPT ![l] = "over"]
    /\ UNCHANGED <<dial, twilio, handlers, stream, missed>>

\* Mutant of RecordEnd: a report replaces the one that is there.
RecordEndReplaces(l) ==
    /\ SessionEnds(l)
    /\ rows' = [rows EXCEPT ![stream[l]] = [@ EXCEPT !.status = "completed", !.report = l]]

\* _save_report_to_db; the reporter may have raised, and a second report of
\* the same call is refused, and with it the whole transaction.
RecordEnd(l) ==
    /\ SessionEnds(l)
    /\ \/ /\ rows[stream[l]].report = None
          /\ rows' = [rows EXCEPT ![stream[l]] = [@ EXCEPT !.status = "completed", !.report = l]]
       \/ rows' = [rows EXCEPT ![stream[l]] = [@ EXCEPT !.status = "completed"]]
       \/ /\ rows[stream[l]].report # None
          /\ UNCHANGED rows

Dialer(o) ==
    \/ PlaceCall(o) \/ RefuseCall(o)
    \/ CommitCall(o) \/ CommitUnheard(o) \/ LoseCall(o)

Webhook ==
    \/ \E o \in Outbound : LookUpBySid(o) \/ FallBack(o) \/ TakeCallback(o) \/ WriteCallback(o)
    \/ \E i \in Inbound : CreateInbound(i) \/ RepeatInbound(i)

Session(l) == OpenMedia(l) \/ RecordStart(l) \/ RecordEnd(l)

Telephony ==
    \/ \E o \in Outbound : Answer(o) \/ NotAnswered(o)
    \/ \E l \in Legs : HangUp(l)

Next ==
    \/ \E o \in Outbound : Dialer(o)
    \/ Webhook
    \/ \E l \in Legs : Session(l)
    \/ Telephony

Spec == Init /\ [][Next]_vars

-------------------------------------------------------------------------------
TypeOK ==
    /\ dial \in [Outbound -> {"idle", "placed", "done"}]
    /\ rows \in [Legs -> Row]
    /\ leg \in [Legs -> TwilioStatus \cup {"none"}]
    /\ sent \in [Outbound -> Seq(TwilioStatus)]
    /\ handlers \in [Outbound -> SUBSET Handler]
    /\ stream \in [Legs -> Legs \cup NoAnswer]
    /\ media \in [Legs -> {"none", "open", "started", "over"}]
    /\ missed \subseteq Legs

(***************************************************************************)
(* A caller whose own webhooks have found his row talks to the session of  *)
(* his own call, and his sid and his report are stored in no other row,    *)
(* whatever happens to other legs: those that found no row, and talk on    *)
(* somebody else's, included.  (His row may yet get the report of one of   *)
(* those: only when there are none is every row its own leg's.)            *)
(***************************************************************************)
OwnCall(l) ==
    /\ stream[l] \in Legs => stream[l] = l
    /\ \A id \in Legs : rows[id].sid = l \/ rows[id].report = l => id = l

ConnectedWhenFound == \A l \in Legs \ missed : OwnCall(l)

(***************************************************************************)
(* When everything about an outbound leg has been handled, and in order,   *)
(* its row has the outcome Twilio reported, although the session and the   *)
(* callbacks write the same column and a callback writes by what it read   *)
(* earlier.  The database answers here: a session whose save fails leaves  *)
(* what the last writer left.                                              *)
(***************************************************************************)
Settled(o) ==
    /\ leg[o] \in DOMAIN Outcome
    /\ sent[o] = <<>> /\ handlers[o] = {}
    /\ media[o] \notin {"open", "started"}

StatusSettles ==
    missed = {} => \A o \in Outbound \ Reordered :
                      Settled(o) => rows[o].status = Outcome[leg[o]]

(***************************************************************************)
(* Two sessions never store reports in one row in turn, and a session that *)
(* is not the first leaves the row as it is: a report, once stored, stays. *)
(***************************************************************************)
ReportStays == [][\A l \in Legs : rows[l].report # None => rows'[l].report = rows[l].report]_vars

(***************************************************************************)
(* "Fallback: find pending call for this number" (webhooks.py:66): a leg   *)
(* whose row is not there, or not yet, is not connected to another call.   *)
(***************************************************************************)
ConnectedToOwnCall == \A l \in Legs : stream[l] \in Legs => stream[l] = l

===============================================================================
