--------------------------- MODULE CallRoutingProofs ---------------------------
(***************************************************************************)
(* Proofs about CallRouting, for any number of legs of either kind, with   *)
(* and without callbacks that overtake each other, and about InboundCalls, *)
(* which composes it with the inbound configurations, for any number of    *)
(* configurations and edits.                                               *)
(***************************************************************************)
EXTENDS InboundCalls, SequenceTheorems, FiniteSetTheorems, TLAPS

(***************************************************************************)
(* What every callback's status becomes is a status of a row               *)
(* (status_map and its default, webhooks.py:96).                           *)
(***************************************************************************)
LEMMA StatusMapType == \A status : StatusMap(status) \in RowStatus
BY DEF StatusMap, RowStatus

(***************************************************************************)
(* Taking one callback out of the queue leaves a queue of callbacks.       *)
(***************************************************************************)
LEMMA RemoveAtType ==
    ASSUME NEW S, NEW s \in Seq(S), NEW n \in 1..Len(s)
    PROVE  RemoveAt(s, n) \in Seq(S)
<1>1. SubSeq(s, 1, n - 1) \in Seq(S)
  <2>1. \A i \in 1..(n - 1) : s[i] \in S
    OBVIOUS
  <2> QED
    BY <2>1, SubSeqProperties
<1>2. SubSeq(s, n + 1, Len(s)) \in Seq(S)
  <2>1. \A i \in (n + 1)..Len(s) : s[i] \in S
    OBVIOUS
  <2> QED
    BY <2>1, SubSeqProperties
<1> QED
  BY <1>1, <1>2 DEF RemoveAt

(***************************************************************************)
(* What the handlers insert is a row, and what they change in one leaves a *)
(* row (Call, models.py:72).                                               *)
(***************************************************************************)
LEMMA RowType ==
    ASSUME NEW row \in Row, NEW status \in RowStatus, NEW l \in Legs \cup {None}
    PROVE  /\ NewRow(status, l) \in Row
           /\ [row EXCEPT !.status = status] \in Row
           /\ [row EXCEPT !.sid = l, !.status = status] \in Row
           /\ [row EXCEPT !.status = status, !.report = l] \in Row
BY DEF NewRow, Row

(***************************************************************************)
(* A leg that changes its status, and the callback about it, keep the types *)
(* (status_callback_event, twilio_client.py:49).                           *)
(***************************************************************************)
LEMMA BecomesType ==
    ASSUME TypeOK, NEW o \in Outbound, NEW status \in TwilioStatus, Becomes(o, status)
    PROVE  TypeOK'
<1>1. Append(sent[o], status) \in Seq(TwilioStatus)
  BY DEF TypeOK
<1>2. sent' \in [Outbound -> Seq(TwilioStatus)]
  BY <1>1 DEF TypeOK, Becomes
<1>3. leg' \in [Legs -> TwilioStatus \cup {"none"}]
  BY DEF TypeOK, Becomes
<1> QED
  BY <1>2, <1>3 DEF TypeOK, Becomes, database

-------------------------------------------------------------------------------
(***************************************************************************)
(* The variables keep their types: no step stores a status the enum of the *)
(* column does not have, and no caller is handed anything but a call id or *)
(* one of the other answers.                                               *)
(***************************************************************************)
THEOREM TypeCorrect == Spec => []TypeOK
<1>1. Init => TypeOK
  <2> SUFFICES ASSUME Init
               PROVE  TypeOK
    OBVIOUS
  <2>1. rows \in [Legs -> Row]
    BY DEF Init, NewRow, Row, RowStatus
  <2>2. sent \in [Outbound -> Seq(TwilioStatus)] /\ handlers \in [Outbound -> SUBSET Handler]
    BY DEF Init
  <2>3. leg \in [Legs -> TwilioStatus \cup {"none"}] /\ stream \in [Legs -> Legs \cup NoAnswer]
    BY DEF Init, TwilioStatus, NoAnswer
  <2> QED
    BY <2>1, <2>2, <2>3 DEF Init, TypeOK
<1>2. TypeOK /\ [Next]_vars => TypeOK'
  <2> SUFFICES ASSUME TypeOK, [Next]_vars
               PROVE  TypeOK'
    OBVIOUS
  <2> USE DEF TypeOK
  <2>1. ASSUME NEW o \in Outbound, PlaceCall(o)
        PROVE  TypeOK'
    BY <2>1 DEF PlaceCall, TwilioStatus, Legs
  <2>2. ASSUME NEW o \in Outbound, RefuseCall(o) \/ CommitUnheard(o)
        PROVE  TypeOK'
    <3>1. NewRow("failed", None) \in Row
      BY RowType DEF RowStatus, NewRow, Row
    <3> QED
      BY <2>2, <3>1 DEF RefuseCall, CommitUnheard, Legs, twilio
  <2>3. ASSUME NEW o \in Outbound, CommitCall(o)
        PROVE  TypeOK'
    <3>1. NewRow("dialing", o) \in Row
      BY RowType DEF RowStatus, Legs, NewRow, Row
    <3> QED
      BY <2>3, <3>1 DEF CommitCall, Legs, twilio
  <2>4. ASSUME NEW o \in Outbound, LoseCall(o)
        PROVE  TypeOK'
    BY <2>4 DEF LoseCall, twilio
  <2>5. ASSUME NEW o \in Outbound, LookUpBySid(o)
        PROVE  TypeOK'
    <3>1. stream' \in [Legs -> Legs \cup NoAnswer]
      <4>1. "asked" \in NoAnswer /\ Route(o) \subseteq Legs
        BY DEF NoAnswer, Route, BySid
      <4> QED
        BY <2>5, <4>1 DEF LookUpBySid
    <3>2. missed' \subseteq Legs
      BY <2>5 DEF LookUpBySid, Legs
    <3> QED
      BY <2>5, <3>1, <3>2 DEF LookUpBySid, twilio, database
  <2>6. ASSUME NEW o \in Outbound, FallBack(o)
        PROVE  TypeOK'
    BY <2>6 DEF FallBack, NoAnswer, Legs, twilio, database
  <2>7. ASSUME NEW o \in Outbound, TakeCallback(o)
        PROVE  TypeOK'
    <3>1. PICK n \in 1..Len(sent[o]) :
             /\ sent' = [sent EXCEPT ![o] = RemoveAt(@, n)]
             /\ \/ \E id \in BySid(o) :
                      /\ handlers' = [handlers EXCEPT ![o] = @ \cup
                            {[to |-> StatusMap(sent[o][n]), row |-> id, seen |-> rows[id].status]}]
                      /\ UNCHANGED missed
                \/ /\ BySid(o) = {}
                   /\ missed' = missed \cup {l \in {o} : sent[l][n] \in DOMAIN Outcome}
                   /\ UNCHANGED handlers
      BY <2>7 DEF TakeCallback
    <3>2. sent' \in [Outbound -> Seq(TwilioStatus)]
      BY <3>1, RemoveAtType
    <3>3. handlers' \in [Outbound -> SUBSET Handler]
      <4>1. ASSUME NEW id \in BySid(o)
            PROVE  [to |-> StatusMap(sent[o][n]), row |-> id, seen |-> rows[id].status] \in Handler
        <5>1. StatusMap(sent[o][n]) \in RowStatus
          BY StatusMapType
        <5>2. id \in Legs /\ rows[id].status \in RowStatus
          BY <4>1 DEF BySid, Row
        <5> QED
          BY <5>1, <5>2 DEF Handler
      <4>2. CASE UNCHANGED handlers
        BY <4>2
      <4>3. ASSUME NEW h \in Handler, handlers' = [handlers EXCEPT ![o] = @ \cup {h}]
            PROVE  handlers' \in [Outbound -> SUBSET Handler]
        BY <4>3
      <4> QED
        BY <3>1, <4>1, <4>2, <4>3
    <3>4. missed' \subseteq Legs
      BY <3>1 DEF Legs
    <3> QED
      BY <2>7, <3>2, <3>3, <3>4 DEF TakeCallback, database
  <2>8. ASSUME NEW o \in Outbound, WriteCallback(o)
        PROVE  TypeOK'
    <3>1. PICK h \in handlers[o] :
             /\ handlers' = [handlers EXCEPT ![o] = @ \ {h}]
             /\ rows' = IF h.to = h.seen THEN rows
                        ELSE [rows EXCEPT ![h.row] = [@ EXCEPT !.status = h.to]]
      BY <2>8 DEF WriteCallback
    <3>2. h.to \in RowStatus /\ h.row \in Legs
      BY <3>1 DEF Handler
    <3>3. rows' \in [Legs -> Row]
      <4>1. [rows[h.row] EXCEPT !.status = h.to] \in Row
        BY <3>2, RowType DEF Row
      <4> QED
        BY <3>1, <4>1
    <3>4. handlers' \in [Outbound -> SUBSET Handler]
      BY <3>1
    <3> QED
      BY <2>8, <3>3, <3>4 DEF WriteCallback, twilio
  <2>9. ASSUME NEW i \in Inbound, CreateInbound(i) \/ RepeatInbound(i)
        PROVE  TypeOK'
    <3>1. NewRow("active", i) \in Row
      BY RowType DEF RowStatus, Legs, NewRow, Row
    <3>2. CASE CreateInbound(i)
      <4>1. rows' \in [Legs -> Row]
        BY <3>1, <3>2 DEF CreateInbound
      <4>2. stream' \in [Legs -> Legs \cup NoAnswer]
        BY <3>2 DEF CreateInbound, NoAnswer, Legs
      <4> QED
        BY <3>2, <4>1, <4>2 DEF CreateInbound, twilio
    <3>3. CASE RepeatInbound(i)
      BY <3>3 DEF RepeatInbound, NoAnswer, twilio, database
    <3> QED
      BY <2>9, <3>2, <3>3
  <2>10. ASSUME NEW l \in Legs, OpenMedia(l)
         PROVE  TypeOK'
    BY <2>10 DEF OpenMedia, twilio, database
  <2>11. ASSUME NEW l \in Legs, RecordStart(l)
         PROVE  TypeOK'
    <3>1. rows' \in [Legs -> Row]
      <4>1. CASE stream[l] \in Legs
        <5>1. [rows[stream[l]] EXCEPT !.sid = l, !.status = "active"] \in Row
          BY <4>1, RowType DEF RowStatus
        <5> QED
          BY <2>11, <4>1, <5>1 DEF RecordStart
      <4>2. CASE stream[l] \notin Legs
        BY <2>11, <4>2 DEF RecordStart
      <4> QED
        BY <4>1, <4>2
    <3> QED
      BY <2>11, <3>1 DEF RecordStart, twilio
  <2>12. ASSUME NEW l \in Legs, RecordEnd(l)
         PROVE  TypeOK'
    <3>1. rows' \in [Legs -> Row]
      <4>1. CASE stream[l] \in Legs
        <5>1. /\ [rows[stream[l]] EXCEPT !.status = "completed"] \in Row
              /\ [rows[stream[l]] EXCEPT !.status = "completed", !.report = l] \in Row
          BY <4>1, RowType DEF RowStatus
        <5> QED
          BY <2>12, <4>1, <5>1 DEF RecordEnd
      <4>2. CASE stream[l] \notin Legs
        BY <2>12, <4>2 DEF RecordEnd
      <4> QED
        BY <4>1, <4>2
    <3> QED
      BY <2>12, <3>1 DEF RecordEnd, SessionEnds, twilio
  <2>13. ASSUME NEW o \in Outbound, Answer(o) \/ NotAnswered(o)
         PROVE  TypeOK'
    <3>1. PICK status \in TwilioStatus : Becomes(o, status)
      BY <2>13 DEF Answer, NotAnswered, TwilioStatus, Outcome
    <3> QED
      BY <3>1, BecomesType
  <2>14. ASSUME NEW l \in Legs, HangUp(l)
         PROVE  TypeOK'
    <3>1. CASE l \in Outbound /\ Becomes(l, "completed")
      BY <3>1, BecomesType DEF TwilioStatus, Outcome
    <3>2. CASE leg' = [leg EXCEPT ![l] = "completed"]
               /\ UNCHANGED <<database, sent, handlers, stream, media, missed>>
      BY <3>2 DEF TwilioStatus, Outcome, database
    <3> QED
      BY <2>14, <3>1, <3>2 DEF HangUp
  <2>15. CASE UNCHANGED vars
    BY <2>15 DEF vars, database, twilio
  <2> QED
    BY <2>1, <2>2, <2>3, <2>4, <2>5, <2>6, <2>7, <2>8, <2>9, <2>10, <2>11, <2>12, <2>13, <2>14, <2>15
       DEF Next, Dialer, Webhook, Session, Telephony
<1> QED
  BY <1>1, <1>2, PTL DEF Spec

-------------------------------------------------------------------------------
(***************************************************************************)
(* While the webhooks of a leg have found its row: its sid and its report  *)
(* are in its own row only, and it has been handed its own call id, before *)
(* its media stream opens.  It never gets to the fallback.                 *)
(***************************************************************************)
OwnRows(l) == \A id \in Legs : rows[id].sid = l \/ rows[id].report = l => id = l

OwnStream(l) ==
    /\ stream[l] \in Legs => stream[l] = l
    /\ stream[l] # "asked"
    /\ media[l] # "none" => stream[l] = l

OwnEverything == \A l \in Legs \ missed : OwnRows(l) /\ OwnStream(l)

(***************************************************************************)
(* When there are no others, each row has the sid and the report of its    *)
(* own leg or none.                                                        *)
(***************************************************************************)
OwnRow(l) == rows[l].sid \in {None, l} /\ rows[l].report \in {None, l}

LEMMA AllOwn ==
    ASSUME TypeOK, OwnEverything, missed = {}
    PROVE  \A l \in Legs : OwnRow(l) /\ OwnStream(l)
  BY DEF TypeOK, Row, OwnEverything, OwnRows, OwnRow

(***************************************************************************)
(* A write of one row that puts a leg's sid or report there only when it   *)
(* is the leg's own.                                                       *)
(***************************************************************************)
LEMMA OwnWrite ==
    ASSUME TypeOK, NEW l \in Legs, OwnRows(l), NEW x, NEW row,
           rows' = [rows EXCEPT ![x] = row],
           row.sid = l \/ row.report = l => x = l
    PROVE  OwnRows(l)'
  BY DEF TypeOK, OwnRows

(***************************************************************************)
(* A leg that missed its row is never forgotten.                           *)
(***************************************************************************)
LEMMA MissedStays == ASSUME [Next]_vars PROVE missed \subseteq missed'
  BY DEF Next, Dialer, Webhook, Session, Telephony, PlaceCall, RefuseCall, CommitCall, CommitUnheard,
         LoseCall, LookUpBySid, FallBack, TakeCallback, WriteCallback, CreateInbound, RepeatInbound,
         OpenMedia, RecordStart, RecordEnd, SessionEnds, Answer, NotAnswered, HangUp, Becomes, vars

(***************************************************************************)
(* No step mixes up a call whose webhooks find its row.                    *)
(***************************************************************************)
LEMMA OwnStep == TypeOK /\ OwnEverything /\ [Next]_vars => OwnEverything'
<1> SUFFICES ASSUME TypeOK, OwnEverything, [Next]_vars, NEW l \in Legs, l \notin missed'
             PROVE  OwnRows(l)' /\ OwnStream(l)'
  BY DEF OwnEverything
<1> USE CallRoutingAssumption
<1>1. l \notin missed
  BY MissedStays
<1>2. OwnRows(l) /\ OwnStream(l)
  BY <1>1 DEF OwnEverything
<1>3. ASSUME UNCHANGED <<rows, stream, media>>
      PROVE  OwnRows(l)' /\ OwnStream(l)'
  BY <1>2, <1>3 DEF OwnRows, OwnStream
<1>4. ASSUME UNCHANGED <<stream, media>>
      PROVE  OwnStream(l)'
  BY <1>2, <1>4 DEF OwnStream
<1>5. ASSUME UNCHANGED rows
      PROVE  OwnRows(l)'
  BY <1>2, <1>5 DEF OwnRows
<1>6. ASSUME NEW o \in Outbound, RefuseCall(o) \/ CommitUnheard(o)
      PROVE  OwnRows(l)' /\ OwnStream(l)'
  <2>1. NewRow("failed", None).sid = None /\ NewRow("failed", None).report = None /\ l # None
    BY DEF NewRow
  <2>2. rows' = [rows EXCEPT ![o] = NewRow("failed", None)] /\ UNCHANGED <<stream, media>>
    BY <1>6 DEF RefuseCall, CommitUnheard
  <2> QED
    BY <1>2, <1>4, <2>1, <2>2, OwnWrite
<1>7. ASSUME NEW o \in Outbound, CommitCall(o)
      PROVE  OwnRows(l)' /\ OwnStream(l)'
  <2>1. NewRow("dialing", o).sid = o /\ NewRow("dialing", o).report = None /\ l # None
    BY DEF NewRow
  <2>2. rows' = [rows EXCEPT ![o] = NewRow("dialing", o)] /\ UNCHANGED <<stream, media>>
    BY <1>7 DEF CommitCall
  <2> QED
    BY <1>2, <1>4, <2>1, <2>2, OwnWrite
<1>8. ASSUME NEW o \in Outbound, LookUpBySid(o)
      PROVE  OwnRows(l)' /\ OwnStream(l)'
  <2>1. OwnRows(l)'
    BY <1>5, <1>8 DEF LookUpBySid, database
  <2>2. CASE l # o
    BY <1>2, <1>8, <2>1, <2>2 DEF LookUpBySid, OwnStream, TypeOK
  <2>3. CASE l = o
    <3>1. PICK id \in BySid(o) : stream' = [stream EXCEPT ![o] = id]
      BY <1>8, <2>3 DEF LookUpBySid, Route
    <3>2. id = o
      BY <1>2, <2>3, <3>1 DEF BySid, OwnRows
    <3>3. media[o] = "none" /\ media' = media
      BY <1>2, <1>8, <2>3 DEF LookUpBySid, OwnStream, Legs, NoAnswer
    <3>4. stream'[o] = o
      BY <2>3, <3>1, <3>2 DEF TypeOK
    <3>5. OwnStream(l)'
      BY <2>3, <3>3, <3>4 DEF OwnStream, Legs, NoAnswer
    <3> QED BY <2>1, <3>5
  <2> QED
    BY <2>2, <2>3
<1>9. ASSUME NEW o \in Outbound, FallBack(o)
      PROVE  OwnRows(l)' /\ OwnStream(l)'
  <2>1. l # o
    BY <1>2, <1>9 DEF FallBack, OwnStream
  <2>2. OwnStream(l)'
    BY <1>2, <1>9, <2>1 DEF FallBack, OwnStream, TypeOK
  <2> QED
    BY <1>5, <1>9, <2>2 DEF FallBack, database
<1>10. ASSUME NEW o \in Outbound, WriteCallback(o)
       PROVE  OwnRows(l)' /\ OwnStream(l)'
  <2>1. PICK h \in handlers[o] :
           rows' = IF h.to = h.seen THEN rows
                   ELSE [rows EXCEPT ![h.row] = [@ EXCEPT !.status = h.to]]
    BY <1>10 DEF WriteCallback
  <2>2. h.to \in RowStatus /\ h.row \in Legs
    BY <2>1 DEF Handler, TypeOK
  <2>3. rows[h.row] \in Row
    BY <2>2 DEF TypeOK
  <2> DEFINE row == [rows[h.row] EXCEPT !.status = h.to]
  <2>4. row.sid = rows[h.row].sid /\ row.report = rows[h.row].report
    BY <2>3 DEF Row
  <2>5. row.sid = l \/ row.report = l => h.row = l
    BY <1>2, <2>2, <2>4 DEF OwnRows
  <2>6. OwnRows(l)'
    <3>1. rows' = rows \/ rows' = [rows EXCEPT ![h.row] = row]
      BY <2>1
    <3> HIDE DEF row
    <3> QED
      BY <1>2, <1>5, <2>5, <3>1, OwnWrite
  <2> QED
    BY <1>4, <1>10, <2>6 DEF WriteCallback
<1>11. ASSUME NEW i \in Inbound, CreateInbound(i)
       PROVE  OwnRows(l)' /\ OwnStream(l)'
  <2>1. NewRow("active", i).sid = i /\ NewRow("active", i).report = None /\ l # None
    BY DEF NewRow
  <2>2. OwnRows(l)'
    BY <1>2, <1>11, <2>1, OwnWrite DEF CreateInbound
  <2>3. OwnStream(l)'
    BY <1>2, <1>11 DEF CreateInbound, OwnStream, NoAnswer, Legs, TypeOK
  <2> QED
    BY <2>2, <2>3
<1>12. ASSUME NEW i \in Inbound, RepeatInbound(i)
       PROVE  OwnRows(l)' /\ OwnStream(l)'
  <2>1. OwnStream(l)'
    BY <1>2, <1>12 DEF RepeatInbound, OwnStream, NoAnswer, Legs, TypeOK
  <2> QED
    BY <1>5, <1>12, <2>1 DEF RepeatInbound, database
<1>13. ASSUME NEW k \in Legs, OpenMedia(k)
       PROVE  OwnRows(l)' /\ OwnStream(l)'
  <2>1. OwnStream(l)'
    BY <1>2, <1>13 DEF OpenMedia, OwnStream, TypeOK
  <2> QED
    BY <1>5, <1>13, <2>1 DEF OpenMedia, database
<1>14. ASSUME NEW k \in Legs, RecordStart(k) \/ RecordEnd(k)
       PROVE  OwnRows(l)' /\ OwnStream(l)'
  <2>1. UNCHANGED stream /\ media[k] # "none" /\ (\A x \in Legs : x # k => media'[x] = media[x])
    BY <1>14 DEF RecordStart, RecordEnd, SessionEnds, TypeOK
  <2>2. OwnStream(l)'
    BY <1>2, <2>1 DEF OwnStream
  <2>3. l = k => stream[k] = l
    BY <1>2, <2>1 DEF OwnStream
  <2> DEFINE started == [rows[stream[k]] EXCEPT !.sid = k, !.status = "active"]
             reported == [rows[stream[k]] EXCEPT !.status = "completed", !.report = k]
             over == [rows[stream[k]] EXCEPT !.status = "completed"]
  <2>4. CASE stream[k] \in Legs
    <3>1. rows[stream[k]] \in Row
      BY <2>4 DEF TypeOK
    <3>2. rows[stream[k]].sid = l \/ rows[stream[k]].report = l => stream[k] = l
      BY <1>2, <2>4 DEF OwnRows
    <3>3. started.sid = l \/ started.report = l => stream[k] = l
      BY <2>3, <3>1, <3>2 DEF Row
    <3>4. reported.sid = l \/ reported.report = l => stream[k] = l
      BY <2>3, <3>1, <3>2 DEF Row
    <3>5. over.sid = l \/ over.report = l => stream[k] = l
      BY <3>1, <3>2 DEF Row
    <3>6. \/ UNCHANGED rows
          \/ rows' = [rows EXCEPT ![stream[k]] = started]
          \/ rows' = [rows EXCEPT ![stream[k]] = reported]
          \/ rows' = [rows EXCEPT ![stream[k]] = over]
      BY <1>14 DEF RecordStart, RecordEnd
    <3> HIDE DEF started, reported, over
    <3> QED
      BY <1>2, <1>5, <2>2, <3>3, <3>4, <3>5, <3>6, OwnWrite
  <2>5. CASE stream[k] \notin Legs
    <3>1. rows' = rows
      BY <1>14, <2>5 DEF RecordStart, RecordEnd, TypeOK
    <3> QED BY <1>5, <2>2, <3>1
  <2> QED
    BY <2>4, <2>5
<1>15. ASSUME NEW o \in Outbound, PlaceCall(o) \/ LoseCall(o) \/ TakeCallback(o)
                                     \/ Answer(o) \/ NotAnswered(o)
       PROVE  UNCHANGED <<rows, stream, media>>
  BY <1>15 DEF PlaceCall, LoseCall, TakeCallback, Answer, NotAnswered, Becomes, database
<1>16. ASSUME NEW k \in Legs, HangUp(k)
       PROVE  UNCHANGED <<rows, stream, media>>
  BY <1>16 DEF HangUp, Becomes, database
<1>17. CASE UNCHANGED vars
  BY <1>3, <1>17 DEF vars, database
<1> QED
  BY <1>3, <1>6, <1>7, <1>8, <1>9, <1>10, <1>11, <1>12, <1>13, <1>14, <1>15, <1>16, <1>17
     DEF Next, Dialer, Webhook, Session, Telephony

LEMMA InitOwn == Init => OwnEverything
  BY CallRoutingAssumption DEF Init, OwnEverything, OwnRows, OwnStream, NewRow, NoAnswer

(***************************************************************************)
(* A caller whose webhooks have found his row talks to the session of his  *)
(* own call, and his sid and report are in no other row, for any number of *)
(* calls, those that found no row included (twilio_voice_webhook,          *)
(* webhooks.py:56).                                                        *)
(***************************************************************************)
THEOREM CallsAreNotMixedUp == Spec => []ConnectedWhenFound
<1>1. OwnEverything => ConnectedWhenFound
  BY DEF OwnEverything, OwnRows, OwnStream, ConnectedWhenFound, OwnCall
<1> QED
  BY <1>1, InitOwn, OwnStep, TypeCorrect, PTL DEF Spec

-------------------------------------------------------------------------------
(***************************************************************************)
(* Before a row is inserted nothing refers to it, and no handler or leg    *)
(* but its own gets at the row of an inbound leg.                          *)
(***************************************************************************)
Unborn(o) ==
    /\ rows[o] = NewRow("absent", None)
    /\ \A l \in Legs : stream[l] # o
    /\ \A p \in Outbound : \A h \in handlers[p] : h.row # o

OwnInbound(i) ==
    /\ rows[i].status # "dialing"
    /\ rows[i] = NewRow("absent", None) \/ rows[i].sid = i
    /\ stream[i] \in Legs => stream[i] = i /\ rows[i].sid = i
    /\ \A o \in Outbound : stream[o] # i
    /\ \A o \in Outbound : \A h \in handlers[o] : h.row # i

BirthInv ==
    /\ \A o \in Outbound : dial[o] # "done" => Unborn(o)
    /\ \A i \in Inbound : OwnInbound(i)
    /\ \A l \in Legs : media[l] # "none" => stream[l] \in Legs

LEMMA NoneIsNoLeg == /\ None \notin Legs
                     /\ \A a \in NoAnswer : a \notin Legs
                     /\ \A o \in Outbound : o \in Legs /\ o \notin Inbound
                     /\ \A i \in Inbound : i \in Legs /\ i \notin Outbound
BY CallRoutingAssumption DEF Legs

(***************************************************************************)
(* No step refers to a row that is not there, or gets at an inbound row.   *)
(***************************************************************************)
LEMMA BirthStep == ASSUME TypeOK, BirthInv, [Next]_vars PROVE BirthInv'
<1> USE NoneIsNoLeg
<1>1. ASSUME UNCHANGED <<rows, stream, handlers, media>>,
             \A o \in Outbound : dial'[o] # "done" => dial[o] # "done"
      PROVE  BirthInv'
  BY <1>1 DEF BirthInv, Unborn, OwnInbound
<1>2. ASSUME NEW o \in Outbound, PlaceCall(o) \/ LoseCall(o)
      PROVE  BirthInv'
  BY <1>1, <1>2 DEF PlaceCall, LoseCall, TypeOK
<1>3. ASSUME NEW o \in Outbound, RefuseCall(o) \/ CommitCall(o) \/ CommitUnheard(o)
      PROVE  BirthInv'
  <2>1. \E row \in {NewRow("failed", None), NewRow("dialing", o)} : rows' = [rows EXCEPT ![o] = row]
    BY <1>3 DEF RefuseCall, CommitCall, CommitUnheard
  <2>2. dial' = [dial EXCEPT ![o] = "done"] /\ UNCHANGED <<handlers, stream, media>>
    BY <1>3 DEF RefuseCall, CommitCall, CommitUnheard
  <2>3. \A l \in Legs : l # o => rows'[l] = rows[l]
    BY <2>1 DEF TypeOK
  <2>4. \A p \in Outbound : dial'[p] # "done" => p # o /\ dial[p] # "done"
    BY <2>2 DEF TypeOK
  <2> QED
    BY <2>2, <2>3, <2>4 DEF BirthInv, Unborn, OwnInbound
<1>4. ASSUME NEW o \in Outbound, LookUpBySid(o)
      PROVE  BirthInv'
  <2>1. ASSUME NEW id \in BySid(o)
        PROVE  id \in Legs /\ id \notin Inbound /\ (id \in Outbound => dial[id] = "done")
    BY <2>1 DEF BySid, BirthInv, Unborn, OwnInbound, NewRow
  <2>2. \/ \E id \in BySid(o) : stream' = [stream EXCEPT ![o] = id]
        \/ stream' = [stream EXCEPT ![o] = "asked"]
    BY <1>4 DEF LookUpBySid, Route
  <2>3. UNCHANGED <<rows, dial, handlers, media>> /\ stream[o] = "none"
    BY <1>4 DEF LookUpBySid, database
  <2>4. media[o] = "none"
    BY <2>3 DEF BirthInv, NoAnswer
  <2>5. \A l \in Legs : l # o => stream'[l] = stream[l]
    BY <2>2 DEF TypeOK
  <2>6. /\ stream'[o] \notin Inbound
        /\ \A p \in Outbound : dial[p] # "done" => stream'[o] # p
    BY <2>1, <2>2 DEF TypeOK, NoAnswer
  <2> QED
    BY <2>3, <2>4, <2>5, <2>6 DEF BirthInv, Unborn, OwnInbound
<1>5. ASSUME NEW o \in Outbound, FallBack(o)
      PROVE  BirthInv'
  <2>1. ASSUME NEW id \in Legs, rows[id].status = "dialing"
        PROVE  id \notin Inbound /\ (id \in Outbound => dial[id] = "done")
    BY <2>1 DEF BirthInv, Unborn, OwnInbound, NewRow
  <2>2. \/ \E id \in Legs : rows[id].status = "dialing" /\ stream' = [stream EXCEPT ![o] = id]
        \/ stream' = [stream EXCEPT ![o] = "hangup"]
    BY <1>5 DEF FallBack
  <2>3. UNCHANGED <<rows, dial, handlers, media>> /\ stream[o] = "asked"
    BY <1>5 DEF FallBack, database
  <2>4. media[o] = "none"
    BY <2>3 DEF BirthInv, NoAnswer
  <2>5. \A l \in Legs : l # o => stream'[l] = stream[l]
    BY <2>2 DEF TypeOK
  <2>6. /\ stream'[o] \notin Inbound
        /\ \A p \in Outbound : dial[p] # "done" => stream'[o] # p
    BY <2>1, <2>2 DEF TypeOK, NoAnswer
  <2> QED
    BY <2>3, <2>4, <2>5, <2>6 DEF BirthInv, Unborn, OwnInbound
<1>6. ASSUME NEW o \in Outbound, TakeCallback(o)
      PROVE  BirthInv'
  <2>1. UNCHANGED <<rows, dial, stream, media>>
    BY <1>6 DEF TakeCallback, database
  <2>2. ASSUME NEW id \in BySid(o)
        PROVE  id \notin Inbound /\ (id \in Outbound => dial[id] = "done")
    BY <2>2 DEF BySid, BirthInv, Unborn, OwnInbound, NewRow
  <2>3. ASSUME NEW p \in Outbound, NEW h \in handlers'[p]
        PROVE  h \in handlers[p] \/ h.row \in BySid(o)
    <3>1. CASE handlers' = handlers
      BY <2>3, <3>1
    <3>2. CASE \E id \in BySid(o), to, seen \in RowStatus :
                  handlers' = [handlers EXCEPT ![o] = @ \cup {[to |-> to, row |-> id, seen |-> seen]}]
      BY <2>3, <3>2 DEF TypeOK
    <3>3. \A id \in BySid(o) : rows[id].status \in RowStatus
      BY DEF BySid, TypeOK, Row
    <3> QED
      BY <1>6, <3>1, <3>2, <3>3, StatusMapType DEF TakeCallback
  <2> QED
    BY <2>1, <2>2, <2>3 DEF BirthInv, Unborn, OwnInbound
<1>7. ASSUME NEW o \in Outbound, WriteCallback(o)
      PROVE  BirthInv'
  <2>1. PICK h \in handlers[o] :
           /\ handlers' = [handlers EXCEPT ![o] = @ \ {h}]
           /\ rows' = IF h.to = h.seen THEN rows
                      ELSE [rows EXCEPT ![h.row] = [@ EXCEPT !.status = h.to]]
    BY <1>7 DEF WriteCallback
  <2>2. h.row \notin Inbound /\ \A p \in Outbound : dial[p] # "done" => h.row # p
    BY <2>1 DEF BirthInv, Unborn, OwnInbound
  <2>3. \A l \in Legs : l # h.row => rows'[l] = rows[l]
    BY <2>1 DEF TypeOK
  <2>4. \A p \in Outbound : handlers'[p] \subseteq handlers[p]
    BY <2>1 DEF TypeOK
  <2>5. UNCHANGED <<dial, stream, media>>
    BY <1>7 DEF WriteCallback
  <2> QED
    BY <2>2, <2>3, <2>4, <2>5 DEF BirthInv, Unborn, OwnInbound
<1>8. ASSUME NEW i \in Inbound, CreateInbound(i)
      PROVE  BirthInv'
  <2>1. media[i] = "none"
    BY <1>8 DEF CreateInbound, BirthInv, NoAnswer
  <2> QED
    BY <1>8, <2>1 DEF CreateInbound, BirthInv, Unborn, OwnInbound, NewRow, TypeOK, NoAnswer
<1>9. ASSUME NEW i \in Inbound, RepeatInbound(i)
      PROVE  BirthInv'
  <2>1. media[i] = "none"
    BY <1>9 DEF RepeatInbound, BirthInv, NoAnswer
  <2> QED
    BY <1>9, <2>1 DEF RepeatInbound, database, BirthInv, Unborn, OwnInbound, TypeOK, NoAnswer
<1>10. ASSUME NEW l \in Legs, OpenMedia(l)
       PROVE  BirthInv'
  BY <1>10 DEF OpenMedia, database, BirthInv, Unborn, OwnInbound, TypeOK
<1>11. ASSUME NEW l \in Legs, RecordStart(l) \/ RecordEnd(l)
       PROVE  BirthInv'
  <2>1. stream[l] \in Legs
    BY <1>11 DEF RecordStart, RecordEnd, SessionEnds, BirthInv
  <2>2. \A k \in Legs : k # stream[l] => rows'[k] = rows[k]
    BY <1>11 DEF RecordStart, RecordEnd, TypeOK
  <2>3. UNCHANGED <<dial, stream, handlers>>
    BY <1>11 DEF RecordStart, RecordEnd, SessionEnds
  <2>4. media[l] # "none" /\ \A k \in Legs : k # l => media'[k] = media[k]
    BY <1>11 DEF RecordStart, RecordEnd, SessionEnds, TypeOK
  <2>5. rows[stream[l]] \in Row
    BY <2>1 DEF TypeOK
  <2>6. ASSUME NEW i \in Inbound, stream[l] = i
        PROVE  l = i
    BY <2>6 DEF BirthInv, OwnInbound, Legs
  <2>7. ASSUME NEW i \in Inbound, stream[l] = i
        PROVE  rows'[i].status # "dialing" /\ rows'[i].sid = i
    <3>1. l = i /\ rows[i].sid = i /\ rows[i].status # "dialing" /\ rows[i] \in Row
      BY <2>5, <2>6, <2>7 DEF BirthInv, OwnInbound
    <3>2. \/ rows'[i] = rows[i]
          \/ rows'[i] = [rows[i] EXCEPT !.sid = i, !.status = "active"]
          \/ rows'[i] = [rows[i] EXCEPT !.status = "completed", !.report = i]
          \/ rows'[i] = [rows[i] EXCEPT !.status = "completed"]
      <4>1. CASE RecordStart(l)
        BY <2>7, <3>1, <4>1 DEF RecordStart, TypeOK
      <4>2. CASE RecordEnd(l)
        BY <2>7, <3>1, <4>2 DEF RecordEnd, TypeOK
      <4> QED BY <1>11, <4>1, <4>2
    <3> QED
      BY <3>1, <3>2 DEF Row
  <2>8. \A o \in Outbound : dial[o] # "done" => stream[l] # o
    BY DEF BirthInv, Unborn
  <2> QED
    BY <2>1, <2>2, <2>3, <2>4, <2>7, <2>8 DEF BirthInv, Unborn, OwnInbound
<1>12. ASSUME NEW o \in Outbound, Answer(o) \/ NotAnswered(o)
       PROVE  BirthInv'
  BY <1>1, <1>12 DEF Answer, NotAnswered, Becomes, database
<1>13. ASSUME NEW l \in Legs, HangUp(l)
       PROVE  BirthInv'
  BY <1>1, <1>13 DEF HangUp, Becomes, database
<1>14. CASE UNCHANGED vars
  BY <1>1, <1>14 DEF vars, database
<1> QED
  BY <1>2, <1>3, <1>4, <1>5, <1>6, <1>7, <1>8, <1>9, <1>10, <1>11, <1>12, <1>13, <1>14
     DEF Next, Dialer, Webhook, Session, Telephony

(***************************************************************************)
(* A write that is not an insert keeps the report that is there.           *)
(***************************************************************************)
LEMMA ReportKept ==
    ASSUME TypeOK, BirthInv, [Next]_vars, NEW l \in Legs, rows[l].report # None
    PROVE  rows'[l].report = rows[l].report
<1> USE NoneIsNoLeg
<1>0. \A k \in Legs : rows[k] \in Row
  BY DEF TypeOK
<1>1. ASSUME NEW o \in Outbound, RefuseCall(o) \/ CommitCall(o) \/ CommitUnheard(o)
      PROVE  rows'[l].report = rows[l].report
  <2>1. rows[o].report = None
    BY <1>1 DEF RefuseCall, CommitCall, CommitUnheard, BirthInv, Unborn, NewRow
  <2>2. \E row : rows' = [rows EXCEPT ![o] = row]
    BY <1>1 DEF RefuseCall, CommitCall, CommitUnheard
  <2> QED BY <2>1, <2>2 DEF TypeOK
<1>2. ASSUME NEW i \in Inbound, CreateInbound(i)
      PROVE  rows'[l].report = rows[l].report
  <2>1. rows[i].report = None
    BY <1>2 DEF CreateInbound, SidIsFree, BirthInv, OwnInbound, NewRow
  <2> QED BY <1>2, <2>1 DEF CreateInbound, TypeOK
<1>3. ASSUME NEW o \in Outbound, WriteCallback(o)
      PROVE  rows'[l].report = rows[l].report
  <2>1. PICK h \in handlers[o] :
           rows' = IF h.to = h.seen THEN rows
                   ELSE [rows EXCEPT ![h.row] = [@ EXCEPT !.status = h.to]]
    BY <1>3 DEF WriteCallback
  <2>2. rows'[l] = rows[l] \/ rows'[l] = [rows[l] EXCEPT !.status = h.to]
    BY <2>1 DEF TypeOK
  <2>3. \A row \in Row, status \in RowStatus : [row EXCEPT !.status = status].report = row.report
    BY DEF Row
  <2>4. h.to \in RowStatus
    BY <2>1 DEF TypeOK, Handler
  <2> QED BY <1>0, <2>2, <2>3, <2>4
<1>4. ASSUME NEW k \in Legs, RecordStart(k)
      PROVE  rows'[l].report = rows[l].report
  <2>1. rows'[l] = rows[l] \/ rows'[l] = [rows[l] EXCEPT !.sid = k, !.status = "active"]
    <3>1. CASE l = stream[k]
      BY <1>4, <3>1 DEF RecordStart, TypeOK
    <3>2. CASE l # stream[k]
      BY <1>4, <3>2 DEF RecordStart, TypeOK
    <3> QED BY <3>1, <3>2
  <2> QED BY <1>0, <2>1 DEF Row
<1>5. ASSUME NEW k \in Legs, RecordEnd(k)
      PROVE  rows'[l].report = rows[l].report
  <2>1. \/ rows'[l] = rows[l]
        \/ rows[l].report = None
        \/ rows'[l] = [rows[l] EXCEPT !.status = "completed"]
    BY <1>5 DEF RecordEnd, TypeOK
  <2> QED BY <1>0, <2>1 DEF Row
<1>6. ASSUME NEW o \in Outbound,
             \/ PlaceCall(o) \/ LoseCall(o) \/ LookUpBySid(o) \/ FallBack(o)
             \/ TakeCallback(o) \/ Answer(o) \/ NotAnswered(o)
      PROVE  rows' = rows
  BY <1>6 DEF PlaceCall, LoseCall, LookUpBySid, FallBack, TakeCallback, Answer, NotAnswered,
              Becomes, database
<1>7. ASSUME NEW k \in Legs, OpenMedia(k) \/ HangUp(k) \/ (k \in Inbound /\ RepeatInbound(k))
      PROVE  rows' = rows
  BY <1>7 DEF OpenMedia, HangUp, RepeatInbound, Becomes, database
<1>8. CASE UNCHANGED vars
  BY <1>8 DEF vars, database
<1> QED
  BY <1>1, <1>2, <1>3, <1>4, <1>5, <1>6, <1>7, <1>8 DEF Next, Dialer, Webhook, Session, Telephony

LEMMA InitBirth == Init => BirthInv
BY NoneIsNoLeg DEF Init, BirthInv, Unborn, OwnInbound, NewRow, NoAnswer

(***************************************************************************)
(* A report once stored in a row stays there, whatever handlers and        *)
(* sessions get at the row (_save_report_to_db, session_manager.py:243).   *)
(***************************************************************************)
THEOREM ReportsStay == Spec => ReportStays
<1>1. TypeOK /\ BirthInv /\ [Next]_vars
        => [\A l \in Legs : rows[l].report # None => rows'[l].report = rows[l].report]_vars
  BY ReportKept
<1> QED
  BY <1>1, InitBirth, BirthStep, TypeCorrect, PTL DEF Spec, ReportStays

-------------------------------------------------------------------------------
(* The status a leg settles with.                                          *)

\* The outcome is in the row, or the session has yet to write it.
Fine(o) == rows[o].status = Outcome[leg[o]] \/ (leg[o] = "completed" /\ media[o] = "started")

(***************************************************************************)
(* Of any outbound leg, while every webhook finds its row.                 *)
(***************************************************************************)
Orderly(o) ==
    /\ \A h \in handlers[o] : h.row = o
    /\ dial[o] = "idle" => leg[o] = "none"
    /\ leg[o] \notin {"in-progress", "completed"} => stream[o] = "none"
    /\ media[o] # "over" => rows[o].report = None

(***************************************************************************)
(* Of a leg whose callbacks come in order: there is one handler at most,   *)
(* the last callback is about where the leg is, and when none is left, the *)
(* row has the outcome, or the one handler is about to write it.           *)
(***************************************************************************)
Reporting(o) ==
    /\ \A h, k \in handlers[o] : h = k
    /\ sent[o] # <<>> => Last(sent[o]) = leg[o]
    /\ leg[o] \in DOMAIN Outcome /\ sent[o] = <<>> =>
          /\ rows[o].sid = o
          /\ handlers[o] = {} => Fine(o)
          /\ \A h \in handlers[o] : h.to = Outcome[leg[o]] /\ (h.seen = h.to => Fine(o))

SettleInv == missed = {} => /\ \A o \in Outbound : Orderly(o)
                            /\ \A o \in Outbound \ Reordered : Reporting(o)

LEMMA Outcomes ==
    /\ DOMAIN Outcome = {"completed", "no-answer", "failed"}
    /\ Outcome["completed"] = "completed"
    /\ \A status \in DOMAIN Outcome : StatusMap(status) = Outcome[status]
BY DEF Outcome, StatusMap

LEMMA FirstRemoved ==
    ASSUME NEW S, NEW s \in Seq(S), 1 <= Len(s)
    PROVE  /\ RemoveAt(s, 1) = <<>> => Last(s) = s[1]
           /\ RemoveAt(s, 1) # <<>> => Last(RemoveAt(s, 1)) = Last(s)
<1> DEFINE rest == SubSeq(s, 2, Len(s))
<1>1. SubSeq(s, 1, 0) = <<>>
  OBVIOUS
<1>2. /\ rest \in Seq(S)
      /\ Len(rest) = IF 2 <= Len(s) THEN Len(s) - 2 + 1 ELSE 0
      /\ \A i \in 1..(Len(s) - 2 + 1) : rest[i] = s[2 + i - 1]
  <2>1. \A i \in 2..Len(s) : s[i] \in S
    OBVIOUS
  <2>2. 2 \in Int /\ Len(s) \in Int
    OBVIOUS
  <2> QED BY <2>1, <2>2, SubSeqProperties
<1>3. rest \in Seq(S)
  BY <1>2
<1>0. Len(s) \in Nat /\ (Len(s) = 1 \/ Len(s) > 1)
  <2>1. \A n \in Nat : 1 <= n => n = 1 \/ n > 1
    OBVIOUS
  <2> QED BY <2>1, LenProperties
<1>4. Len(rest) = Len(s) - 1
  <2> HIDE DEF rest
  <2> QED BY <1>0, <1>2
<1>5. RemoveAt(s, 1) = rest
  BY <1>1, <1>3 DEF RemoveAt
<1> HIDE DEF rest
<1>6. CASE Len(s) = 1
  BY <1>3, <1>4, <1>5, <1>6 DEF Last
<1>7. CASE Len(s) > 1
  <2>1. rest[Len(s) - 1] = s[Len(s)]
    <3>1. rest[Len(s) - 1] = s[2 + (Len(s) - 1) - 1]
      BY <1>2, <1>7
    <3> QED BY <3>1
  <2>2. Last(rest) = Last(s)
    BY <1>4, <2>1 DEF Last
  <2>3. rest # <<>>
    BY <1>4, <1>7
  <2> QED BY <1>5, <2>2, <2>3
<1> QED
  BY <1>0, <1>6, <1>7

LEMMA LastAppended == ASSUME NEW S, NEW s \in Seq(S), NEW e \in S
                      PROVE  Last(Append(s, e)) = e /\ Append(s, e) # <<>>
BY DEF Last

LEMMA InitSettle == Init => SettleInv
BY NoneIsNoLeg DEF Init, SettleInv, Orderly, Reporting, NewRow, Outcome

\* What a step leaves alone of a leg stays as it was.
Untouched(o) ==
    /\ dial'[o] = dial[o] /\ rows'[o] = rows[o] /\ leg'[o] = leg[o]
    /\ sent'[o] = sent[o] /\ handlers'[o] = handlers[o]
    /\ stream'[o] = stream[o] /\ media'[o] = media[o]

LEMMA UntouchedStays ==
    ASSUME NEW o \in Outbound, Untouched(o)
    PROVE  (Orderly(o) => Orderly(o)') /\ (Reporting(o) => Reporting(o)')
BY DEF Untouched, Orderly, Reporting, Fine

(***************************************************************************)
(* A callback taken in order: one that remains is still the last; the last *)
(* one has found the row, and is about to write its outcome.               *)
(***************************************************************************)
LEMMA TakeReports ==
    ASSUME TypeOK, NEW o \in Outbound, o \notin Reordered, TakeCallback(o), missed' = {},
           Reporting(o), \A l \in Legs : OwnRow(l)
    PROVE  Reporting(o)'
<1> USE NoneIsNoLeg
<1>1. /\ handlers[o] = {} /\ 1 \in 1..Len(sent[o])
      /\ sent' = [sent EXCEPT ![o] = RemoveAt(@, 1)]
      /\ UNCHANGED <<database, leg, stream, media>>
  BY DEF TakeCallback
<1>2. \/ \E id \in BySid(o) :
            handlers' = [handlers EXCEPT ![o] = @ \cup
                {[to |-> StatusMap(sent[o][1]), row |-> id, seen |-> rows[id].status]}]
      \/ /\ BySid(o) = {} /\ handlers' = handlers
         /\ missed' = missed \cup {l \in {o} : sent[l][1] \in DOMAIN Outcome}
  BY DEF TakeCallback
<1>3. sent'[o] = RemoveAt(sent[o], 1) /\ sent[o] \in Seq(TwilioStatus) /\ 1 <= Len(sent[o])
  BY <1>1 DEF TypeOK
<1>4. Last(sent[o]) = leg[o]
  <2>1. sent[o] # <<>>
    BY <1>3
  <2> QED BY <2>1 DEF Reporting
<1>5. /\ sent'[o] = <<>> => sent[o][1] = leg[o]
      /\ sent'[o] # <<>> => Last(sent'[o]) = leg[o]
  BY <1>3, <1>4, FirstRemoved
<1>6. \A id \in BySid(o) : id = o /\ rows[id].sid = o
  BY DEF BySid, OwnRow
<1>7. \A h, k \in handlers'[o] : h = k
  <2>1. CASE handlers' = handlers
    BY <1>1, <2>1
  <2>2. CASE \E rec : handlers' = [handlers EXCEPT ![o] = @ \cup {rec}]
    BY <1>1, <2>2 DEF TypeOK
  <2> QED BY <1>2, <2>1, <2>2
<1>8. ASSUME leg[o] \in DOMAIN Outcome, sent'[o] = <<>>
      PROVE  /\ rows[o].sid = o
             /\ handlers'[o] = {[to |-> Outcome[leg[o]], row |-> o, seen |-> rows[o].status]}
  <2>1. sent[o][1] = leg[o]
    BY <1>5, <1>8
  <2>2. PICK id \in BySid(o) :
            handlers' = [handlers EXCEPT ![o] = @ \cup
                {[to |-> StatusMap(sent[o][1]), row |-> id, seen |-> rows[id].status]}]
    BY <1>2, <1>8, <2>1
  <2> QED BY <1>1, <1>6, <1>8, <2>1, <2>2, Outcomes DEF TypeOK
<1>9. leg' = leg /\ rows' = rows
  BY <1>1 DEF database
<1>10. leg'[o] \in DOMAIN Outcome /\ sent'[o] = <<>> =>
          /\ rows'[o].sid = o /\ handlers'[o] # {}
          /\ \A h \in handlers'[o] : h.to = Outcome[leg'[o]] /\ (h.seen = h.to => Fine(o)')
  <2> SUFFICES ASSUME leg[o] \in DOMAIN Outcome, sent'[o] = <<>>
               PROVE  /\ rows[o].sid = o /\ handlers'[o] # {}
                      /\ \A h \in handlers'[o] :
                            h.to = Outcome[leg[o]] /\ (h.seen = h.to => Fine(o)')
    BY <1>9
  <2>1. \A h \in handlers'[o] : h.to = Outcome[leg[o]] /\ h.seen = rows[o].status
    BY <1>8
  <2>2. rows[o].sid = o /\ handlers'[o] # {}
    <3>1. rows[o].sid = o
      BY <1>8
    <3>2. handlers'[o] = {[to |-> Outcome[leg[o]], row |-> o, seen |-> rows[o].status]}
      BY <1>8
    <3>3. [to |-> Outcome[leg[o]], row |-> o, seen |-> rows[o].status] \in handlers'[o]
      BY <3>2
    <3> QED BY <3>1, <3>3
  <2>3. rows[o].status = Outcome[leg[o]] => Fine(o)'
    BY <1>9 DEF Fine
  <2> QED BY <2>1, <2>2, <2>3
<1> QED
  BY <1>5, <1>7, <1>9, <1>10 DEF Reporting

(***************************************************************************)
(* No step lets a leg settle with anything but its outcome.                *)
(***************************************************************************)
LEMMA SettleStep ==
    ASSUME TypeOK, OwnEverything, BirthInv, SettleInv, [Next]_vars
    PROVE  SettleInv'
<1> SUFFICES ASSUME missed' = {}
             PROVE  /\ \A o \in Outbound : Orderly(o)'
                    /\ \A o \in Outbound \ Reordered : Reporting(o)'
  BY DEF SettleInv
<1>1. missed = {}
  BY MissedStays
<1> USE NoneIsNoLeg, Outcomes
<1>2. \A l \in Legs : OwnRow(l) /\ OwnStream(l) /\ rows[l] \in Row
  BY <1>1, AllOwn DEF TypeOK
<1>3. (\A o \in Outbound : Orderly(o)) /\ (\A o \in Outbound \ Reordered : Reporting(o))
  BY <1>1 DEF SettleInv
<1> DEFINE Goal == /\ \A o \in Outbound : Orderly(o)'
                   /\ \A o \in Outbound \ Reordered : Reporting(o)'
<1>4. ASSUME NEW l \in Legs, \A o \in Outbound : o # l => Untouched(o),
             l \in Outbound => Orderly(l)',
             l \in Outbound /\ l \notin Reordered => Reporting(l)'
      PROVE  Goal
  BY <1>3, <1>4, UntouchedStays
<1>5. ASSUME NEW o \in Outbound, PlaceCall(o)
      PROVE  Goal
  <2>1. \A k \in Outbound : k # o => Untouched(k)
    BY <1>5 DEF PlaceCall, Untouched, TypeOK
  <2>2. Orderly(o)'
    BY <1>3, <1>5 DEF PlaceCall, Orderly, TypeOK
  <2>3. ASSUME o \notin Reordered PROVE Reporting(o)'
    <3>1. sent'[o] = <<"ringing">> /\ leg'[o] = "ringing" /\ handlers' = handlers
      BY <1>5 DEF PlaceCall, TypeOK
    <3>2. Last(<<"ringing">>) = "ringing" /\ <<"ringing">> # <<>>
      BY DEF Last
    <3> QED BY <1>3, <2>3, <3>1, <3>2 DEF Reporting
  <2> QED BY <1>4, <2>1, <2>2, <2>3
<1>6. ASSUME NEW o \in Outbound, RefuseCall(o) \/ CommitUnheard(o)
      PROVE  Goal
  <2>0. /\ rows' = [rows EXCEPT ![o] = NewRow("failed", None)] /\ dial[o] # "done"
        /\ dial' = [dial EXCEPT ![o] = "done"]
        /\ UNCHANGED <<leg, sent, handlers, stream, media>>
    BY <1>6 DEF RefuseCall, CommitUnheard, twilio
  <2>1. \A k \in Outbound : k # o => Untouched(k)
    BY <2>0 DEF Untouched, TypeOK
  <2>2. Orderly(o)'
    BY <1>3, <2>0 DEF Orderly, TypeOK, NewRow
  <2>3. rows[o].sid # o
    BY <2>0 DEF BirthInv, Unborn, NewRow
  <2>4. o \notin Reordered => Reporting(o)'
    BY <1>3, <2>0, <2>3 DEF Reporting, TypeOK
  <2> QED BY <1>4, <2>1, <2>2, <2>4
<1>7. ASSUME NEW o \in Outbound, CommitCall(o)
      PROVE  Goal
  <2>1. \A k \in Outbound : k # o => Untouched(k)
    BY <1>7 DEF CommitCall, Untouched, TypeOK, twilio
  <2>2. Orderly(o)'
    BY <1>3, <1>7 DEF CommitCall, Orderly, TypeOK, twilio, NewRow
  <2>3. rows[o].sid # o
    BY <1>7 DEF CommitCall, SidIsFree
  <2>4. o \notin Reordered => Reporting(o)'
    BY <1>3, <1>7, <2>3 DEF CommitCall, Reporting, TypeOK, twilio
  <2> QED BY <1>4, <2>1, <2>2, <2>4
<1>8. ASSUME NEW o \in Outbound, LoseCall(o) \/ LookUpBySid(o)
      PROVE  Goal
  <2>1. \A k \in Outbound : k # o => Untouched(k)
    BY <1>8 DEF LoseCall, LookUpBySid, Untouched, TypeOK, twilio, database
  <2>2. Orderly(o)'
    BY <1>3, <1>8 DEF LoseCall, LookUpBySid, Orderly, TypeOK, twilio, database
  <2>3. o \notin Reordered => Reporting(o)'
    BY <1>3, <1>8 DEF LoseCall, LookUpBySid, Reporting, Fine, twilio, database
  <2> QED BY <1>4, <2>1, <2>2, <2>3
<1>9. ASSUME NEW o \in Outbound, FallBack(o)
      PROVE  FALSE
  BY <1>2, <1>9 DEF FallBack, OwnStream
<1>10. ASSUME NEW o \in Outbound, TakeCallback(o)
       PROVE  Goal
  <2>1. UNCHANGED <<database, leg, stream, media>>
    BY <1>10 DEF TakeCallback
  <2>2. \A k \in Outbound : k # o => Untouched(k)
    BY <1>10, <2>1 DEF TakeCallback, Untouched, TypeOK, database
  <2>3. \A h \in handlers'[o] : h \in handlers[o] \/ h.row \in BySid(o)
    BY <1>10 DEF TakeCallback, TypeOK
  <2>4. \A id \in BySid(o) : id = o
    BY <1>2 DEF BySid, OwnRow
  <2>5. Orderly(o)'
    BY <1>3, <2>1, <2>3, <2>4 DEF Orderly, database
  <2>6. o \notin Reordered => Reporting(o)'
    BY <1>2, <1>3, <1>10, TakeReports
  <2> QED BY <1>4, <2>2, <2>5, <2>6
<1>11. ASSUME NEW o \in Outbound, WriteCallback(o)
       PROVE  Goal
  <2>1. PICK h \in handlers[o] :
           /\ handlers' = [handlers EXCEPT ![o] = @ \ {h}]
           /\ rows' = IF h.to = h.seen THEN rows
                      ELSE [rows EXCEPT ![h.row] = [@ EXCEPT !.status = h.to]]
    BY <1>11 DEF WriteCallback
  <2>2. h.row = o /\ handlers'[o] = handlers[o] \ {h} /\ rows[o] \in Row
    BY <1>2, <1>3, <2>1 DEF Orderly, TypeOK
  <2>3. /\ h.to = h.seen => rows' = rows
        /\ h.to # h.seen => rows'[o] = [rows[o] EXCEPT !.status = h.to]
    BY <2>1, <2>2 DEF TypeOK
  <2>4. h.to # h.seen => rows'[o].status = h.to /\ rows'[o].sid = rows[o].sid
                         /\ rows'[o].report = rows[o].report
    BY <2>2, <2>3 DEF Row
  <2>5. UNCHANGED <<dial, leg, sent, stream, media>>
    BY <1>11 DEF WriteCallback, twilio
  <2>6. \A k \in Outbound : k # o => Untouched(k)
    BY <2>1, <2>2, <2>5 DEF Untouched, TypeOK
  <2>7. Orderly(o)'
    BY <1>3, <2>2, <2>3, <2>4, <2>5 DEF Orderly
  <2>8. o \notin Reordered => Reporting(o)'
    BY <1>3, <2>1, <2>2, <2>3, <2>4, <2>5 DEF Reporting, Fine
  <2> QED BY <1>4, <2>6, <2>7, <2>8
<1>12. ASSUME NEW i \in Inbound, CreateInbound(i) \/ RepeatInbound(i)
       PROVE  Goal
  <2>1. \A k \in Outbound : Untouched(k)
    BY <1>12 DEF CreateInbound, RepeatInbound, Untouched, TypeOK, twilio, database
  <2> QED BY <1>4, <2>1
<1>13. ASSUME NEW l \in Legs, OpenMedia(l)
       PROVE  Goal
  <2>1. \A k \in Outbound : k # l => Untouched(k)
    BY <1>13 DEF OpenMedia, Untouched, TypeOK, twilio, database
  <2>2. l \in Outbound => Orderly(l)'
    BY <1>3, <1>13 DEF OpenMedia, Orderly, TypeOK, twilio, database
  <2>3. l \in Outbound /\ l \notin Reordered => Reporting(l)'
    BY <1>3, <1>13 DEF OpenMedia, Reporting, twilio, database
  <2> QED BY <1>4, <2>1, <2>2, <2>3
<1>14. ASSUME NEW l \in Legs, RecordStart(l)
       PROVE  Goal
  <2>1. stream[l] = l /\ media[l] = "open" /\ media'[l] = "started"
    BY <1>2, <1>14 DEF RecordStart, OwnStream, TypeOK
  <2>2. UNCHANGED <<dial, leg, sent, handlers, stream>>
    BY <1>14 DEF RecordStart, twilio
  <2>3. rows' = rows \/ rows' = [rows EXCEPT ![l] = [rows[l] EXCEPT !.sid = l, !.status = "active"]]
    BY <1>14, <2>1 DEF RecordStart
  <2>4. rows'[l] = rows[l] \/ rows'[l] = [rows[l] EXCEPT !.sid = l, !.status = "active"]
    BY <2>3 DEF TypeOK
  <2>5. rows'[l].report = rows[l].report /\ (rows[l].sid = l => rows'[l].sid = l)
    BY <1>2, <2>4 DEF Row
  <2>6. \A k \in Outbound : k # l => Untouched(k)
    BY <1>14, <2>2, <2>3 DEF RecordStart, Untouched, TypeOK
  <2>7. l \in Outbound => leg[l] \in {"in-progress", "completed"}
    BY <1>3, <2>1 DEF Orderly, NoAnswer
  <2>8. l \in Outbound => Orderly(l)'
    BY <1>3, <2>1, <2>2, <2>5 DEF Orderly
  <2>9. l \in Outbound /\ l \notin Reordered => Reporting(l)'
    BY <1>3, <2>1, <2>2, <2>5, <2>7 DEF Reporting, Fine
  <2> QED BY <1>4, <2>6, <2>8, <2>9
<1>15. ASSUME NEW l \in Legs, RecordEnd(l)
       PROVE  Goal
  <2>1. stream[l] = l /\ media[l] \in {"open", "started"} /\ media'[l] = "over"
    BY <1>2, <1>15 DEF RecordEnd, SessionEnds, OwnStream, TypeOK
  <2>2. UNCHANGED <<dial, leg, sent, handlers, stream>>
    BY <1>15 DEF RecordEnd, SessionEnds, twilio
  <2>3. \/ rows' = [rows EXCEPT ![l] = [rows[l] EXCEPT !.status = "completed", !.report = l]]
        \/ rows' = [rows EXCEPT ![l] = [rows[l] EXCEPT !.status = "completed"]]
        \/ rows' = rows /\ rows[l].report # None
    BY <1>15, <2>1 DEF RecordEnd
  <2>4. \A k \in Outbound : k # l => Untouched(k)
    BY <1>15, <2>2, <2>3 DEF RecordEnd, SessionEnds, Untouched, TypeOK
  <2>5. l \in Outbound => leg[l] \in {"in-progress", "completed"} /\ rows[l].report = None
    BY <1>3, <2>1 DEF Orderly, NoAnswer
  <2>6. ASSUME l \in Outbound PROVE rows'[l].status = "completed" /\ rows'[l].sid = rows[l].sid
    <3>1. \/ rows'[l] = [rows[l] EXCEPT !.status = "completed", !.report = l]
          \/ rows'[l] = [rows[l] EXCEPT !.status = "completed"]
      BY <2>3, <2>5, <2>6 DEF TypeOK
    <3> QED BY <1>2, <3>1 DEF Row
  <2>7. l \in Outbound => Orderly(l)'
    BY <1>3, <2>1, <2>2 DEF Orderly
  <2>8. l \in Outbound /\ l \notin Reordered => Reporting(l)'
    BY <1>3, <2>2, <2>5, <2>6 DEF Reporting, Fine
  <2> QED BY <1>4, <2>4, <2>7, <2>8
<1>16. ASSUME NEW o \in Outbound, NEW status \in TwilioStatus, Becomes(o, status),
              leg[o] = "ringing" \/ (status = "completed" /\ leg[o] = "in-progress")
       PROVE  Goal
  <2>1. \A k \in Outbound : k # o => Untouched(k)
    BY <1>16 DEF Becomes, Untouched, TypeOK, database
  <2>2. leg'[o] = status /\ sent'[o] = Append(sent[o], status) /\ sent[o] \in Seq(TwilioStatus)
    BY <1>16 DEF Becomes, TypeOK
  <2>3. Last(sent'[o]) = status /\ sent'[o] # <<>>
    BY <2>2, LastAppended
  <2>4. UNCHANGED <<dial, rows, handlers, stream, media>>
    BY <1>16 DEF Becomes, database
  <2>5. Orderly(o)'
    BY <1>3, <1>16, <2>2, <2>4 DEF Orderly
  <2>6. o \notin Reordered => Reporting(o)'
    BY <1>3, <2>2, <2>3, <2>4 DEF Reporting
  <2> QED BY <1>4, <2>1, <2>5, <2>6
<1>17. ASSUME NEW o \in Outbound, Answer(o) \/ NotAnswered(o)
       PROVE  Goal
  <2>1. {"in-progress", "no-answer", "failed"} \subseteq TwilioStatus
    BY DEF TwilioStatus
  <2>2. PICK status \in TwilioStatus : leg[o] = "ringing" /\ Becomes(o, status)
    BY <1>17, <2>1 DEF Answer, NotAnswered
  <2> HIDE DEF Goal
  <2> QED BY <1>16, <2>2
<1>18. ASSUME NEW l \in Legs, HangUp(l)
       PROVE  Goal
  <2>1. CASE l \in Outbound
    BY <1>16, <1>18, <2>1 DEF HangUp, TwilioStatus
  <2>2. CASE l \in Inbound
    <3>1. \A k \in Outbound : Untouched(k)
      BY <1>18, <2>2 DEF HangUp, Untouched, TypeOK, database
    <3> QED BY <1>4, <2>2, <3>1
  <2> QED BY <2>1, <2>2 DEF Legs
<1>19. CASE UNCHANGED vars
  <2>1. \A k \in Outbound : Untouched(k)
    BY <1>19 DEF vars, database, twilio, Untouched
  <2> QED BY <1>3, <2>1, UntouchedStays
<1> QED
  BY <1>5, <1>6, <1>7, <1>8, <1>9, <1>10, <1>11, <1>12, <1>13, <1>14, <1>15, <1>17, <1>18, <1>19
     DEF Next, Dialer, Webhook, Session, Telephony

(***************************************************************************)
(* While every webhook finds its row and callbacks come in order, the row  *)
(* of a call that is over says how it ended, although sessions and         *)
(* callbacks write it on what they have read earlier                       *)
(* (twilio_status_callback, webhooks.py:84).                               *)
(***************************************************************************)
THEOREM StatusesSettle == Spec => []StatusSettles
<1>1. TypeOK /\ OwnEverything /\ BirthInv /\ SettleInv /\ [Next]_vars => SettleInv'
  BY SettleStep
<1>2. TypeOK /\ BirthInv /\ [Next]_vars => BirthInv'
  BY BirthStep
<1>3. SettleInv => StatusSettles
  BY DEF SettleInv, Reporting, Fine, StatusSettles, Settled
<1> QED
  BY <1>1, <1>2, <1>3, InitOwn, InitBirth, InitSettle, OwnStep, TypeCorrect, PTL DEF Spec

-------------------------------------------------------------------------------
(***************************************************************************)
(* InboundCalls: the calls are routed as CallRouting says and keep its     *)
(* invariants, and the two reads of the configuration agree.               *)
(***************************************************************************)
LEMMA InboundSteps ==
    ASSUME [InboundNext]_inboundVars
    PROVE  \/ \E c \in Configs : CreateConfig(c) \/ DeleteConfig(c)
           \/ \E e \in Edits, c \in Configs : ReadForEdit(e, c)
           \/ \E e \in Edits : WriteEdit(e)
           \/ \E i \in Inbound : LookUpConfig(i) \/ InsertCall(i) \/ ServeCall(i) \/ CallGoesOn(i)
           \/ UNCHANGED inboundVars
  BY DEF InboundNext, Requests

LEMMA StepIsRouted == [InboundNext]_inboundVars => [Next]_vars
  <1> SUFFICES ASSUME [InboundNext]_inboundVars PROVE Next \/ UNCHANGED vars
    OBVIOUS
  <1> USE DEF Legs
  <1>1. ASSUME NEW c \in Configs, CreateConfig(c) \/ DeleteConfig(c) PROVE UNCHANGED vars
    BY <1>1 DEF CreateConfig, DeleteConfig, Becoming
  <1>2. ASSUME NEW e \in Edits, WriteEdit(e) \/ \E c \in Configs : ReadForEdit(e, c) PROVE UNCHANGED vars
    BY <1>2 DEF WriteEdit, ReadForEdit, Becoming
  <1>3. ASSUME NEW i \in Inbound, LookUpConfig(i) PROVE UNCHANGED vars
    BY <1>3 DEF LookUpConfig
  <1>4. ASSUME NEW i \in Inbound, InsertCall(i) PROVE Next
    BY <1>4 DEF InsertCall, Next, Webhook
  <1>5. ASSUME NEW i \in Inbound, ServeCall(i) PROVE Next
    BY <1>5 DEF ServeCall, Next, Session
  <1>6. ASSUME NEW i \in Inbound, CallGoesOn(i) PROVE Next
    BY <1>6 DEF CallGoesOn, Next, Session, Telephony
  <1>7. CASE UNCHANGED inboundVars
    BY <1>7 DEF inboundVars
  <1> QED BY <1>1, <1>2, <1>3, <1>4, <1>5, <1>6, <1>7, InboundSteps

LEMMA RoutedAsBefore == InboundSpec => Spec
  <1>1. InboundInit => Init
    BY DEF InboundInit
  <1> QED BY <1>1, StepIsRouted, PTL DEF InboundSpec, Spec

(***************************************************************************)
(* So what is proved of the routing is true of calls that come in while    *)
(* their configurations are edited: nobody talks to another call's session.*)
(***************************************************************************)
THEOREM InboundCallsAreNotMixedUp == InboundSpec => []ConnectedWhenFound
  BY RoutedAsBefore, CallsAreNotMixedUp

(***************************************************************************)
(* And a report that is stored stays, whatever is asked of the table of    *)
(* configurations and however often Twilio asks the webhook.               *)
(***************************************************************************)
THEOREM InboundReportsStay == InboundSpec => ReportStays
  BY RoutedAsBefore, ReportsStay

-------------------------------------------------------------------------------
LEMMA ChoiceOfType == \A S : S \subseteq Configs => ChoiceOf(S) \subseteq Choice
  BY DEF ChoiceOf, Choice

LEMMA InitInboundTypes == InboundInit => InboundTypeOK
  BY DEF InboundInit, InboundTypeOK, ConfigState, Edit, Choice

LEMMA BecomingTypes ==
    ASSUME InboundTypeOK, NEW new \in [Configs -> ConfigState], Becoming(new), edit' \in [Edits -> Edit]
    PROVE  InboundTypeOK'
  BY DEF InboundTypeOK, Becoming

LEMMA NextInboundTypes == InboundTypeOK /\ [InboundNext]_inboundVars => InboundTypeOK'
  <1> SUFFICES ASSUME InboundTypeOK, [InboundNext]_inboundVars PROVE InboundTypeOK'
    OBVIOUS
  <1>1. ASSUME NEW c \in Configs, CreateConfig(c) \/ DeleteConfig(c) PROVE InboundTypeOK'
    BY <1>1, BecomingTypes DEF InboundTypeOK, CreateConfig, DeleteConfig, ConfigState
  <1>2. ASSUME NEW e \in Edits, NEW c \in Configs, ReadForEdit(e, c) PROVE InboundTypeOK'
    <2>1. PICK wanted \in {"active", "inactive"} :
             edit' = [edit EXCEPT ![e] =
                         [at |-> "read", config |-> c, seen |-> configs[c], wanted |-> wanted]]
      BY <1>2 DEF ReadForEdit
    <2>2. [at |-> "read", config |-> c, seen |-> configs[c], wanted |-> wanted] \in Edit
      BY <1>2 DEF ReadForEdit, Edit
    <2>3. edit' \in [Edits -> Edit]
      BY <2>1, <2>2 DEF InboundTypeOK
    <2> QED BY <1>2, <2>3 DEF ReadForEdit, InboundTypeOK, choices
  <1>3. ASSUME NEW e \in Edits, WriteEdit(e) PROVE InboundTypeOK'
    <2>1. edit' \in [Edits -> Edit]
      BY <1>3 DEF WriteEdit, InboundTypeOK, Edit
    <2>2. edit[e].config \in Configs /\ edit[e].wanted \in {"active", "inactive"}
      BY <1>3 DEF WriteEdit, InboundTypeOK, Edit
    <2> DEFINE new == IF edit[e].wanted = edit[e].seen \/ configs[edit[e].config] = "deleted"
                      THEN configs
                      ELSE [configs EXCEPT ![edit[e].config] = edit[e].wanted]
    <2>3. new \in [Configs -> ConfigState]
      BY <2>2 DEF InboundTypeOK, ConfigState
    <2>4. Becoming(new)
      BY <1>3 DEF WriteEdit
    <2> QED BY <2>1, <2>3, <2>4, BecomingTypes
  <1>4. ASSUME NEW i \in Inbound, LookUpConfig(i) PROVE InboundTypeOK'
    <2>1. ChoiceOf(Eligible) \subseteq Choice
      BY ChoiceOfType DEF Eligible, Active
    <2>2. found' \in [Inbound -> Choice \cup {"unread"}]
      BY <1>4, <2>1 DEF LookUpConfig, InboundTypeOK
    <2>3. disturbed' \subseteq Inbound
      BY <1>4 DEF LookUpConfig, InboundTypeOK
    <2> QED BY <1>4, <2>2, <2>3 DEF LookUpConfig, InboundTypeOK, settings
  <1>5. ASSUME NEW i \in Inbound, InsertCall(i) PROVE InboundTypeOK'
    <2>1. found[i] \in Choice
      BY <1>5 DEF InsertCall, InboundTypeOK
    <2>2. taskOf' \in [Inbound -> Choice] /\ found' \in [Inbound -> Choice \cup {"unread"}]
      BY <1>5, <2>1 DEF InsertCall, InboundTypeOK
    <2> QED BY <1>5, <2>2 DEF InsertCall, InboundTypeOK, settings
  <1>6. ASSUME NEW i \in Inbound, ServeCall(i) PROVE InboundTypeOK'
    <2>1. ChoiceOf(Active(configs)) \subseteq Choice
      BY ChoiceOfType DEF Active
    <2>2. servedBy' \in [Inbound -> Choice \cup {"nobody"}]
      BY <1>6, <2>1 DEF ServeCall, InboundTypeOK
    <2> QED BY <1>6, <2>2 DEF ServeCall, InboundTypeOK, settings
  <1>7. ASSUME NEW i \in Inbound, CallGoesOn(i) PROVE InboundTypeOK'
    BY <1>7 DEF CallGoesOn, InboundTypeOK, settings, choices
  <1>8. CASE UNCHANGED inboundVars
    BY <1>8 DEF inboundVars, InboundTypeOK, settings, choices
  <1> QED BY <1>1, <1>2, <1>3, <1>4, <1>5, <1>6, <1>7, <1>8, InboundSteps

(***************************************************************************)
(* Type correctness of the configurations and of what calls take from them.*)
(***************************************************************************)
THEOREM InboundTypeCorrect == InboundSpec => []InboundTypeOK
  BY InitInboundTypes, NextInboundTypes, PTL DEF InboundSpec

-------------------------------------------------------------------------------
\* c is what any read of the configurations returns now.
Certain(c) == ChoiceOf(Active(configs)) = {c}

(***************************************************************************)
(* A leg that nothing disturbed: what its webhook has read, and then the   *)
(* task of its row, is what a read returns; and it has a session only after*)
(* the webhook was answered.                                               *)
(***************************************************************************)
TaskInv ==
    \A i \in Inbound :
        /\ found[i] # "unread" => stream[i] = "none"
        /\ stream[i] = "none" => media[i] = "none"
        /\ media[i] = "none" => servedBy[i] = "nobody"
        /\ i \notin disturbed =>
              /\ found[i] # "unread" => Certain(found[i])
              /\ stream[i] \in Legs => Certain(taskOf[i])

LEMMA InitTask == InboundInit => TaskInv /\ TaskFitsConfig
  BY CallRoutingAssumption, InboundCallsAssumption
  DEF InboundInit, Init, TaskInv, TaskFitsConfig, Legs, NoAnswer, Choice

LEMMA CertainReads ==
    ASSUME Cardinality(Active(configs)) \in Nat, ~(Cardinality(Active(configs)) > 1),
           NEW c \in ChoiceOf(Active(configs))
    PROVE  Certain(c)
  <1>1. IsFiniteSet(Active(configs))
    BY InboundCallsAssumption, FS_Subset DEF Active
  <1>2. CASE Cardinality(Active(configs)) = 0
    BY <1>1, <1>2, FS_EmptySet DEF ChoiceOf, Certain
  <1>3. CASE Cardinality(Active(configs)) = 1
    <2>1. PICK d : Active(configs) = {d}
      BY <1>1, <1>3, FS_Singleton
    <2> QED BY <2>1 DEF ChoiceOf, Certain
  <1> QED BY <1>2, <1>3

\* Nothing else happens to the call when the choice is the same, or is disturbed.
LEMMA TaskBecoming ==
    ASSUME TaskInv, TaskFitsConfig, NEW new, Becoming(new)
    PROVE  TaskInv' /\ TaskFitsConfig'
  <1>1. UNCHANGED <<found, taskOf, servedBy, stream, media>> /\ configs' = new
    BY DEF Becoming, vars
  <1>2. CASE Active(new) = Active(configs)
    BY <1>1, <1>2 DEF Becoming, TaskInv, TaskFitsConfig, Certain
  <1>3. CASE Active(new) # Active(configs)
    <2>1. disturbed' = Inbound
      BY <1>3 DEF Becoming
    <2> QED BY <1>1, <2>1 DEF TaskInv, TaskFitsConfig
  <1> QED BY <1>2, <1>3

LEMMA NextTask ==
    ASSUME TypeOK, InboundTypeOK, TaskInv, TaskFitsConfig, [InboundNext]_inboundVars
    PROVE  TaskInv' /\ TaskFitsConfig'
  <1>0. "none" \notin Legs /\ {"unread", "nobody"} \cap Choice = {} /\ Inbound \subseteq Legs
    BY CallRoutingAssumption, InboundCallsAssumption DEF NoAnswer, Choice, Legs
  <1>1. ASSUME NEW c \in Configs, CreateConfig(c) \/ DeleteConfig(c)
        PROVE  TaskInv' /\ TaskFitsConfig'
    BY <1>1, TaskBecoming DEF CreateConfig, DeleteConfig
  <1>2. ASSUME NEW e \in Edits, NEW c \in Configs, ReadForEdit(e, c)
        PROVE  TaskInv' /\ TaskFitsConfig'
    BY <1>2 DEF ReadForEdit, TaskInv, TaskFitsConfig, Certain, vars, choices
  <1>3. ASSUME NEW e \in Edits, WriteEdit(e) PROVE TaskInv' /\ TaskFitsConfig'
    BY <1>3, TaskBecoming DEF WriteEdit
  <1>4. ASSUME NEW i \in Inbound, LookUpConfig(i) PROVE TaskInv' /\ TaskFitsConfig'
    <2>1. PICK c \in ChoiceOf(Active(configs)) : found' = [found EXCEPT ![i] = c]
      BY <1>4 DEF LookUpConfig, Eligible
    <2>2. stream' = stream /\ media' = media /\ configs' = configs /\ taskOf' = taskOf
          /\ servedBy' = servedBy
      BY <1>4 DEF LookUpConfig, vars, settings
    <2>3. servedBy[i] = "nobody" /\ stream[i] = "none"
      BY <1>4 DEF LookUpConfig, TaskInv
    <2>4. i \notin disturbed' => Certain(c)
      <3>1. Cardinality(Active(configs)) \in Nat
        BY InboundCallsAssumption, FS_Subset, FS_CardinalityType DEF Active
      <3> QED BY <1>4, <3>1, CertainReads DEF LookUpConfig, InboundTypeOK
    <2>5. \A x \in Inbound \ {i} : found'[x] = found[x] /\ (x \in disturbed' <=> x \in disturbed)
      BY <1>4, <2>1 DEF LookUpConfig, InboundTypeOK
    <2>6. found'[i] = c
      BY <2>1 DEF InboundTypeOK
    <2>7. Active(configs)' = Active(configs)
      BY <2>2 DEF Active
    <2>8. TaskInv'
      BY <1>0, <2>2, <2>3, <2>4, <2>5, <2>6, <2>7 DEF TaskInv, Certain
    <2>9. TaskFitsConfig'
      BY <1>0, <2>2, <2>3, <2>5 DEF TaskFitsConfig
    <2> QED BY <2>8, <2>9
  <1>5. ASSUME NEW i \in Inbound, InsertCall(i) PROVE TaskInv' /\ TaskFitsConfig'
    <2>1. media' = media /\ configs' = configs /\ servedBy' = servedBy /\ disturbed' = disturbed
      BY <1>5 DEF InsertCall, CreateInbound, RepeatInbound, settings
    <2>2. found' = [found EXCEPT ![i] = "unread"] /\ found[i] # "unread" /\ stream[i] = "none"
      BY <1>5 DEF InsertCall, CreateInbound, RepeatInbound
    <2>3. \A x \in Inbound \ {i} : found'[x] = found[x] /\ taskOf'[x] = taskOf[x] /\ stream'[x] = stream[x]
      BY <1>0, <1>5 DEF InsertCall, CreateInbound, RepeatInbound, InboundTypeOK, TypeOK
    <2>4. stream'[i] \in Legs => taskOf'[i] = found[i]
      BY <1>0, <1>5, CallRoutingAssumption
      DEF InsertCall, CreateInbound, RepeatInbound, InboundTypeOK, TypeOK, NoAnswer
    <2>5. servedBy[i] = "nobody" /\ media[i] = "none" /\ found'[i] = "unread"
      BY <2>2 DEF TaskInv, InboundTypeOK
    <2>6. Active(configs)' = Active(configs)
      BY <2>1 DEF Active
    <2>7. TaskInv'
      BY <2>1, <2>2, <2>3, <2>4, <2>5, <2>6 DEF TaskInv, Certain
    <2>8. TaskFitsConfig'
      BY <1>0, <2>1, <2>3, <2>5 DEF TaskFitsConfig
    <2> QED BY <2>7, <2>8
  <1>6. ASSUME NEW i \in Inbound, ServeCall(i) PROVE TaskInv' /\ TaskFitsConfig'
    <2>1. PICK c \in ChoiceOf(Active(configs)) : servedBy' = [servedBy EXCEPT ![i] = c]
      BY <1>6 DEF ServeCall
    <2>2. stream' = stream /\ configs' = configs /\ taskOf' = taskOf /\ found' = found
          /\ disturbed' = disturbed
      BY <1>6 DEF ServeCall, OpenMedia, settings
    <2>3. media' = [media EXCEPT ![i] = "open"] /\ stream[i] \in Legs
      BY <1>6 DEF ServeCall, OpenMedia
    <2>4. i \notin disturbed => c = taskOf[i]
      BY <2>1, <2>3 DEF TaskInv, Certain
    <2>5. \A x \in Inbound : media'[x] = IF x = i THEN "open" ELSE media[x]
      BY <1>0, <2>3 DEF TypeOK
    <2>6. \A x \in Inbound : servedBy'[x] = IF x = i THEN c ELSE servedBy[x]
      BY <2>1 DEF InboundTypeOK
    <2>7. Active(configs)' = Active(configs)
      BY <2>2 DEF Active
    <2>8. TaskInv'
      BY <1>0, <2>2, <2>3, <2>5, <2>6, <2>7 DEF TaskInv, Certain
    <2>9. TaskFitsConfig'
      BY <2>2, <2>4, <2>6 DEF TaskFitsConfig
    <2> QED BY <2>8, <2>9
  <1>7. ASSUME NEW i \in Inbound, CallGoesOn(i) PROVE TaskInv' /\ TaskFitsConfig'
    <2>1. UNCHANGED <<stream, configs, taskOf, found, servedBy, disturbed>>
      BY <1>7 DEF CallGoesOn, RecordStart, RecordEnd, SessionEnds, HangUp, Becomes, settings,
                  choices, database
    <2>2. \A x \in Inbound : media'[x] = "none" <=> media[x] = "none"
      BY <1>0, <1>7 DEF CallGoesOn, RecordStart, RecordEnd, SessionEnds, HangUp, Becomes, TypeOK
    <2>3. Active(configs)' = Active(configs)
      BY <2>1 DEF Active
    <2> QED BY <2>1, <2>2, <2>3 DEF TaskInv, TaskFitsConfig, Certain
  <1>8. CASE UNCHANGED inboundVars
    BY <1>8 DEF inboundVars, vars, settings, choices, TaskInv, TaskFitsConfig, Certain, Active
  <1> QED BY <1>1, <1>2, <1>3, <1>4, <1>5, <1>6, <1>7, <1>8, InboundSteps

(***************************************************************************)
(* Unless the choice changed between the two reads, or there was one, the  *)
(* agent of a call has the configuration that its task is from.            *)
(***************************************************************************)
THEOREM TasksFitConfigs == InboundSpec => []TaskFitsConfig
  <1>1. InboundSpec => []TypeOK
    BY RoutedAsBefore, TypeCorrect
  <1>2. TypeOK /\ InboundTypeOK /\ TaskInv /\ TaskFitsConfig /\ [InboundNext]_inboundVars
            => (TaskInv /\ TaskFitsConfig)'
    BY NextTask
  <1> QED BY <1>1, <1>2, InboundTypeCorrect, InitTask, PTL DEF InboundSpec
================================================================================
