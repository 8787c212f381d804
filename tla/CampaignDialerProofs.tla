------------------------- MODULE CampaignDialerProofs -------------------------
(***************************************************************************)
(* What holds of CampaignDialer for all contacts and requests, and         *)
(* whatever concurrency, negative or none, a request asks for.             *)
(***************************************************************************)
EXTENDS CampaignDialer, TLAPS

\* The steps of dial_one change dial, placed and rows, and nothing else.
LEMMA DialOneFrame ==
    ASSUME NEW s \in Starts, NEW c \in Contacts, DialOne(s, c)
    PROVE  /\ UNCHANGED <<status, task, width, pause>>
           /\ task[s] = "dialing"
           /\ dial[s][c] \notin {"done", "lost"}
           /\ \E to \in DialState : dial' = [dial EXCEPT ![s][c] = to]
BY DEF DialOne, TakeContact, PlaceCall, LoseReply, RefuseCall, CommitCall, Committed, CallRow,
       LoseCall, ReleaseContact, Moves, DialState

(***************************************************************************)
(* Every variable keeps its type; with it, a task never leaves the states  *)
(* of TaskState, and no status is written but those of CampaignStatus.     *)
(***************************************************************************)
THEOREM TypeCorrect == Spec => []TypeOK
<1>1. Init => TypeOK
  BY DEF Init, TypeOK, CampaignStatus, TaskState, DialState, PauseState
<1>2. TypeOK /\ [Next]_vars => TypeOK'
  <2> SUFFICES ASSUME TypeOK, [Next]_vars PROVE TypeOK'
    OBVIOUS
  <2> USE DEF TypeOK, CampaignStatus, TaskState, PauseState, Paused
  <2>1. ASSUME NEW s \in Starts, StartCampaign(s) PROVE TypeOK'
    BY <2>1 DEF StartCampaign
  <2>2. ASSUME NEW s \in Starts, LoadCampaign(s) \/ FinishCampaign(s) \/ AbandonCampaign(s)
        PROVE  TypeOK'
    BY <2>2 DEF LoadCampaign, FinishCampaign, FinalStatus, AbandonCampaign
  <2>3. ASSUME NEW s \in Starts, NEW c \in Contacts, DialOne(s, c) PROVE TypeOK'
    <3>1. status' \in CampaignStatus /\ task' \in [Starts -> TaskState]
            /\ width' \in [Starts -> Widths \cup {0}]
            /\ pause' \in [Pauses -> PauseState]
      BY <2>3, DialOneFrame
    <3>2. dial' \in [Starts -> [Contacts -> DialState]]
      <4>1. PICK to \in DialState : dial' = [dial EXCEPT ![s][c] = to]
        BY <2>3, DialOneFrame
      <4>2. [dial[s] EXCEPT ![c] = to] \in [Contacts -> DialState]
        OBVIOUS
      <4>3. dial' = [dial EXCEPT ![s] = [dial[s] EXCEPT ![c] = to]]
        BY <4>1
      <4> QED BY <4>2, <4>3
    <3>3. placed' \subseteq Starts \X Contacts
      BY <2>3 DEF DialOne, TakeContact, PlaceCall, LoseReply, RefuseCall, CommitCall,
                  Committed, CallRow, LoseCall, ReleaseContact
    <3>4. rows' \subseteq [start : Starts, contact : Contacts, status : {"dialing", "failed"}]
      BY <2>3 DEF DialOne, TakeContact, PlaceCall, LoseReply, RefuseCall, CommitCall,
                  Committed, CallRow, LoseCall, ReleaseContact
    <3> QED BY <3>1, <3>2, <3>3, <3>4
  <2>4. ASSUME NEW p \in Pauses, ReadForPause(p) \/ WritePause(p) PROVE TypeOK'
    <3>1. UNCHANGED <<task, width, dial, placed, rows>>
      BY <2>4 DEF ReadForPause, WritePause
    <3>2. status' \in CampaignStatus /\ pause' \in [Pauses -> PauseState]
      BY <2>4 DEF ReadForPause, WritePause
    <3> QED BY <3>1, <3>2
  <2>5. CASE Crash
    BY <2>5 DEF Crash
  <2>6. CASE UNCHANGED vars
    BY <2>6 DEF vars
  <2> QED BY <2>1, <2>2, <2>3, <2>4, <2>5, <2>6 DEF Next, Task
<1> QED BY <1>1, <1>2, PTL DEF Spec

(***************************************************************************)
(* A status that refuses every start request has a task behind it that     *)
(* will complete the campaign, or one that was abandoned.  Inductive       *)
(* because running is only ever written by the task it stands for, and     *)
(* every task that is not abandoned writes completed when it ends.         *)
(***************************************************************************)
THEOREM RunningIsTrue == Spec => []RunningHasDialer
<1>1. Init => RunningHasDialer
  BY DEF Init, RunningHasDialer
<1>2. TypeOK /\ RunningHasDialer /\ [Next]_vars => RunningHasDialer'
  <2> SUFFICES ASSUME TypeOK, RunningHasDialer, [Next]_vars PROVE RunningHasDialer'
    OBVIOUS
  <2> USE DEF RunningHasDialer, TypeOK
  <2>1. ASSUME NEW s \in Starts, StartCampaign(s) PROVE RunningHasDialer'
    BY <2>1 DEF StartCampaign
  <2>2. ASSUME NEW s \in Starts, LoadCampaign(s) PROVE RunningHasDialer'
    BY <2>2 DEF LoadCampaign
  <2>3. ASSUME NEW s \in Starts, FinishCampaign(s) PROVE RunningHasDialer'
    BY <2>3 DEF FinishCampaign, FinalStatus
  <2>4. ASSUME NEW s \in Starts, AbandonCampaign(s) PROVE RunningHasDialer'
    BY <2>4 DEF AbandonCampaign
  <2>5. ASSUME NEW s \in Starts, NEW c \in Contacts, DialOne(s, c) PROVE RunningHasDialer'
    BY <2>5, DialOneFrame
  <2>6. ASSUME NEW p \in Pauses, ReadForPause(p) \/ WritePause(p) PROVE RunningHasDialer'
    BY <2>6 DEF ReadForPause, WritePause
  <2>7. CASE Crash
    BY <2>7 DEF Crash
  <2>8. CASE UNCHANGED vars
    BY <2>8 DEF vars
  <2> QED BY <2>1, <2>2, <2>3, <2>4, <2>5, <2>6, <2>7, <2>8 DEF Next, Task
<1> QED BY <1>1, <1>2, TypeCorrect, PTL DEF Spec

(***************************************************************************)
(* Whatever fails, crashes, overlaps or is paused, completed means that    *)
(* one task has tried every contact: its dial states are frozen once it    *)
(* has ended, for only a dialing task moves them.                          *)
(***************************************************************************)
THEOREM CompletedIsWorkedThrough == Spec => []CompletedIsDialed
<1>1. Init => CompletedIsDialed
  BY DEF Init, CompletedIsDialed
<1>2. TypeOK /\ CompletedIsDialed /\ [Next]_vars => CompletedIsDialed'
  <2> SUFFICES ASSUME TypeOK, CompletedIsDialed, [Next]_vars PROVE CompletedIsDialed'
    OBVIOUS
  <2> USE DEF CompletedIsDialed, TypeOK, Gathered
  <2>1. ASSUME NEW s \in Starts, StartCampaign(s) PROVE CompletedIsDialed'
    BY <2>1 DEF StartCampaign
  <2>2. ASSUME NEW s \in Starts, LoadCampaign(s) PROVE CompletedIsDialed'
    BY <2>2 DEF LoadCampaign
  <2>3. ASSUME NEW s \in Starts, FinishCampaign(s) PROVE CompletedIsDialed'
    BY <2>3 DEF FinishCampaign, FinalStatus
  <2>4. ASSUME NEW s \in Starts, AbandonCampaign(s) PROVE CompletedIsDialed'
    BY <2>4 DEF AbandonCampaign
  <2>5. ASSUME NEW s \in Starts, NEW c \in Contacts, DialOne(s, c) PROVE CompletedIsDialed'
    BY <2>5, DialOneFrame
  <2>6. ASSUME NEW p \in Pauses, ReadForPause(p) \/ WritePause(p) PROVE CompletedIsDialed'
    BY <2>6 DEF ReadForPause, WritePause
  <2>7. CASE Crash
    BY <2>7 DEF Crash
  <2>8. CASE UNCHANGED vars
    BY <2>8 DEF vars
  <2> QED BY <2>1, <2>2, <2>3, <2>4, <2>5, <2>6, <2>7, <2>8 DEF Next, Task
<1> QED BY <1>1, <1>2, TypeCorrect, PTL DEF Spec

-------------------------------------------------------------------------------
(* The record of every call, also across crashes.  Inductive with where    *)
(* dial_one stands when Twilio has been asked: between its answer and the  *)
(* commit there is a call and no row.                                      *)

CalledIsPlaced == \A s \in Starts, c \in Contacts : dial[s][c] = "called" => <<s, c>> \in placed

RecordInv == CalledIsPlaced /\ CallsAreRecorded

LEMMA RecordsStay == Spec => []RecordInv
<1>1. Init => RecordInv
  BY DEF Init, RecordInv, CalledIsPlaced, CallsAreRecorded, RowSays
<1>2. TypeOK /\ RecordInv /\ [Next]_vars => RecordInv'
  <2> SUFFICES ASSUME TypeOK, RecordInv, [Next]_vars PROVE RecordInv'
    OBVIOUS
  <2>1. CASE UNCHANGED <<dial, placed, rows>>
    BY <2>1 DEF RecordInv, CalledIsPlaced, CallsAreRecorded, RowSays
  <2>2. ASSUME NEW s \in Starts, NEW c \in Contacts, DialOne(s, c) PROVE RecordInv'
    <3> DEFINE says(t, d) == \E what \in {"dialing", "failed"} : RowSays(<<t, d>>, what)
    <3> SUFFICES ASSUME NEW t \in Starts, NEW d \in Contacts
                 PROVE  /\ dial'[t][d] = "called" => <<t, d>> \in placed'
                        /\ dial'[t][d] \in {"sleeping", "done"} => says(t, d)'
                        /\ RowSays(<<t, d>>, "dialing")' => <<t, d>> \in placed'
      BY DEF RecordInv, CalledIsPlaced, CallsAreRecorded
    <3>1. rows \subseteq rows' /\ placed \subseteq placed'
      BY <2>2 DEF DialOne, TakeContact, PlaceCall, LoseReply, RefuseCall, CommitCall,
                  Committed, LoseCall, ReleaseContact
    <3>2. says(t, d) => says(t, d)'
      BY <3>1 DEF RowSays
    <3>3. /\ dial[t][d] = "called" => <<t, d>> \in placed
          /\ dial[t][d] \in {"sleeping", "done"} => says(t, d)
          /\ RowSays(<<t, d>>, "dialing") => <<t, d>> \in placed
      BY DEF RecordInv, CalledIsPlaced, CallsAreRecorded
    <3> HIDE DEF says
    <3>4. CASE CommitCall(s, c)
      <4>1. PICK outcome \in {"called", "unheard", "refused"} :
                /\ dial[s][c] = outcome /\ dial' = [dial EXCEPT ![s][c] = "sleeping"]
                /\ rows' = rows \cup {CallRow(s, c, outcome)} /\ placed' = placed
        BY <3>4 DEF CommitCall, Moves, Committed
      <4>2. CallRow(s, c, outcome).start = s /\ CallRow(s, c, outcome).contact = c
        BY DEF CallRow
      <4>3. CASE t = s /\ d = c
        <5>1. dial'[t][d] = "sleeping"
          BY <4>1, <4>3 DEF TypeOK
        <5>2. CallRow(s, c, outcome) \in rows'
          BY <4>1
        <5>3. says(t, d)'
          BY <4>3, <5>2 DEF says, RowSays, CallRow
        <5>4. RowSays(<<t, d>>, "dialing")' => RowSays(<<t, d>>, "dialing") \/ outcome = "called"
          BY <4>1, <4>3 DEF RowSays, CallRow
        <5>5. outcome = "called" => <<t, d>> \in placed
          BY <3>3, <4>1, <4>3
        <5> QED BY <3>3, <4>1, <5>1, <5>3, <5>4, <5>5
      <4>4. CASE t # s \/ d # c
        <5>1. dial'[t][d] = dial[t][d]
          BY <4>1, <4>4 DEF TypeOK
        <5>2. [start |-> t, contact |-> d, status |-> "dialing"] # CallRow(s, c, outcome)
          BY <4>4 DEF CallRow
        <5>3. RowSays(<<t, d>>, "dialing")' => RowSays(<<t, d>>, "dialing")
          BY <4>1, <5>2 DEF RowSays
        <5> QED BY <3>2, <3>3, <4>1, <5>1, <5>3
      <4> QED BY <4>3, <4>4
    <3>5. CASE ~CommitCall(s, c)
      <4>1. PICK to \in DialState :
                /\ dial' = [dial EXCEPT ![s][c] = to] /\ rows' = rows
                /\ to = "called" => <<s, c>> \in placed'
                /\ to \in {"sleeping", "done"} => dial[s][c] \in {"sleeping", "done"}
        BY <2>2, <3>5 DEF DialOne, TakeContact, PlaceCall, LoseReply, RefuseCall, LoseCall,
                          ReleaseContact, Moves, DialState
      <4>2. RowSays(<<t, d>>, "dialing")' => RowSays(<<t, d>>, "dialing")
        BY <4>1 DEF RowSays
      <4>3. CASE t = s /\ d = c
        <5>1. dial'[t][d] = to
          BY <4>1, <4>3 DEF TypeOK
        <5> QED BY <3>1, <3>2, <3>3, <4>1, <4>2, <4>3, <5>1
      <4>4. CASE t # s \/ d # c
        <5>1. dial'[t][d] = dial[t][d]
          BY <4>1, <4>4 DEF TypeOK
        <5> QED BY <3>1, <3>2, <3>3, <4>2, <5>1
      <4> QED BY <4>3, <4>4
    <3> QED BY <3>4, <3>5
  <2> QED
    BY <2>1, <2>2 DEF Next, Task, StartCampaign, LoadCampaign, FinishCampaign,
                      AbandonCampaign, ReadForPause, WritePause, Crash, vars
<1> QED BY <1>1, <1>2, TypeCorrect, PTL DEF Spec

(***************************************************************************)
(* A call that dial_one is through with, and whose transaction did not     *)
(* raise, has its row, and a row that says dialing is of a call placed,    *)
(* whatever overlaps, is paused, is lost on the way back or crashes.       *)
(***************************************************************************)
THEOREM PlacedCallsAreRecorded == Spec => []CallsAreRecorded
<1>1. RecordInv => CallsAreRecorded
  BY DEF RecordInv
<1> QED BY <1>1, RecordsStay, PTL

-------------------------------------------------------------------------------
(* The dialer implements the one CallRouting composes with the webhooks.   *)

\* A call has its row from the commit on, and not before.
RowIsPast == \A row \in rows : dial[row.start][row.contact] \in {"sleeping", "done"}

LEMMA DialOneMoves ==
    ASSUME TypeOK, NEW s \in Starts, NEW c \in Contacts, NEW to \in DialState,
           dial' = [dial EXCEPT ![s][c] = to]
    PROVE  /\ dial'[s][c] = to
           /\ \A t \in Starts, d \in Contacts : t # s \/ d # c => dial'[t][d] = dial[t][d]
BY DEF TypeOK

LEMMA RowsStayPast == TypeOK /\ RowIsPast /\ [Next]_vars => RowIsPast'
<1> SUFFICES ASSUME TypeOK, RowIsPast, [Next]_vars PROVE RowIsPast'
  OBVIOUS
<1>1. CASE UNCHANGED <<dial, rows>>
  BY <1>1 DEF RowIsPast
<1>2. ASSUME NEW s \in Starts, NEW c \in Contacts, DialOne(s, c) PROVE RowIsPast'
  <2> SUFFICES ASSUME NEW row \in rows' PROVE dial'[row.start][row.contact] \in {"sleeping", "done"}
    BY DEF RowIsPast
  <2>1. CASE CommitCall(s, c)
    <3>1. PICK outcome \in {"called", "unheard", "refused"} :
              /\ dial' = [dial EXCEPT ![s][c] = "sleeping"]
              /\ rows' = rows \cup {CallRow(s, c, outcome)}
      BY <2>1 DEF CommitCall, Moves, Committed
    <3>2. dial'[s][c] = "sleeping"
              /\ \A t \in Starts, d \in Contacts : t # s \/ d # c => dial'[t][d] = dial[t][d]
      BY <3>1, DialOneMoves DEF DialState
    <3>3. CASE row \in rows
      <4>1. row.start \in Starts /\ row.contact \in Contacts
        BY <3>3 DEF TypeOK
      <4> QED BY <3>2, <3>3, <4>1 DEF RowIsPast
    <3>4. CASE row = CallRow(s, c, outcome)
      BY <3>2, <3>4 DEF CallRow
    <3> QED BY <3>1, <3>3, <3>4
  <2>2. CASE ~CommitCall(s, c)
    <3>1. PICK to \in DialState :
              /\ dial' = [dial EXCEPT ![s][c] = to] /\ rows' = rows
              /\ dial[s][c] \in {"sleeping", "done"} => to \in {"sleeping", "done"}
      BY <1>2, <2>2 DEF DialOne, TakeContact, PlaceCall, LoseReply, RefuseCall, LoseCall, ReleaseContact,
                        Moves, DialState
    <3>2. row.start \in Starts /\ row.contact \in Contacts
      BY <3>1 DEF TypeOK
    <3> QED BY <3>1, <3>2, DialOneMoves DEF RowIsPast
  <2> QED BY <2>1, <2>2
<1> QED
  BY <1>1, <1>2 DEF Next, Task, StartCampaign, LoadCampaign, FinishCampaign,
                    AbandonCampaign, ReadForPause, WritePause, Crash, vars

(***************************************************************************)
(* What a step of dial_one is to the mapped variables.                     *)
(***************************************************************************)
LEMMA LegsArePairs ==
    ASSUME NEW l \in DialedLegs
    PROVE  l = <<l[1], l[2]>> /\ l[1] \in Starts /\ l[2] \in Contacts
BY DEF DialedLegs

LEMMA DialIsMapped ==
    ASSUME TypeOK, NEW s \in Starts, NEW c \in Contacts, NEW to \in DialState,
           dial' = [dial EXCEPT ![s][c] = to]
    PROVE  RoutingDial' = [RoutingDial EXCEPT ![<<s, c>>] = RoutedAs(to)]
<1>1. ASSUME NEW l \in DialedLegs
      PROVE  RoutingDial'[l] = IF l = <<s, c>> THEN RoutedAs(to) ELSE RoutingDial[l]
  <2>1. RoutingDial'[l] = RoutedAs(dial'[l[1]][l[2]]) /\ RoutingDial[l] = RoutedAs(dial[l[1]][l[2]])
    BY DEF RoutingDial
  <2>2. CASE l = <<s, c>>
    <3>1. dial'[s][c] = to
      BY DEF TypeOK
    <3>2. l[1] = s /\ l[2] = c
      BY <2>2
    <3> QED BY <2>1, <2>2, <3>1, <3>2
  <2>3. CASE l # <<s, c>>
    BY <2>1, <2>3, DialOneMoves, LegsArePairs
  <2> QED BY <2>2, <2>3
<1> QED BY <1>1 DEF RoutingDial

LEMMA RowsAreMapped ==
    ASSUME TypeOK, RowIsPast, NEW s \in Starts, NEW c \in Contacts,
           NEW outcome \in {"called", "unheard", "refused"}, dial[s][c] = outcome,
           rows' = rows \cup {CallRow(s, c, outcome)}
    PROVE  /\ RoutingRows[<<s, c>>] = RoutingRow("absent", NoCall)
           /\ outcome = "called" =>
                RoutingRows' = [RoutingRows EXCEPT ![<<s, c>>] = RoutingRow("dialing", <<s, c>>)]
           /\ outcome # "called" =>
                RoutingRows' = [RoutingRows EXCEPT ![<<s, c>>] = RoutingRow("failed", NoCall)]
<1> DEFINE o == <<s, c>>
<1>1. o \in DialedLegs /\ o[1] = s /\ o[2] = c
  BY DEF DialedLegs
<1>2. ~RowSays(o, "dialing") /\ ~RowSays(o, "failed")
  <2> SUFFICES ASSUME NEW says, [start |-> s, contact |-> c, status |-> says] \in rows PROVE FALSE
    BY <1>1 DEF RowSays
  <2> DEFINE row == [start |-> s, contact |-> c, status |-> says]
  <2>1. row \in rows /\ row.start = s /\ row.contact = c
    OBVIOUS
  <2> HIDE DEF row
  <2>2. dial[s][c] \in {"sleeping", "done"}
    BY <2>1 DEF RowIsPast
  <2> QED BY <2>2
<1>3. ASSUME NEW l \in DialedLegs, l # o, NEW says PROVE RowSays(l, says)' <=> RowSays(l, says)
  <2>1. l[1] # s \/ l[2] # c
    BY <1>3, LegsArePairs
  <2>2. [start |-> l[1], contact |-> l[2], status |-> says] # CallRow(s, c, outcome)
    BY <2>1 DEF CallRow
  <2> QED BY <2>2 DEF RowSays
<1>4. outcome = "called" => RowSays(o, "dialing")'
  BY <1>1 DEF RowSays, CallRow
<1>5. outcome # "called" => RowSays(o, "failed")' /\ ~RowSays(o, "dialing")'
  BY <1>1, <1>2 DEF RowSays, CallRow
<1>6. RoutingRows[o] = RoutingRow("absent", NoCall)
  BY <1>1, <1>2 DEF RoutingRows
<1>7. \A l \in DialedLegs : l # o => RoutingRows'[l] = RoutingRows[l]
  BY <1>3 DEF RoutingRows
<1>8. outcome = "called" => RoutingRows'[o] = RoutingRow("dialing", o)
  BY <1>1, <1>4 DEF RoutingRows
<1>9. outcome # "called" => RoutingRows'[o] = RoutingRow("failed", NoCall)
  BY <1>1, <1>5 DEF RoutingRows
<1> HIDE DEF o
<1>10. /\ outcome = "called" => RoutingRows' = [RoutingRows EXCEPT ![o] = RoutingRow("dialing", o)]
       /\ outcome # "called" => RoutingRows' = [RoutingRows EXCEPT ![o] = RoutingRow("failed", NoCall)]
  BY <1>7, <1>8, <1>9 DEF RoutingRows
<1> QED BY <1>6, <1>10 DEF o

LEMMA SidsAreFree == \A o \in DialedLegs : ~RowSays(o, "dialing") => Routing!SidIsFree(o)
<1> SUFFICES ASSUME NEW o \in DialedLegs, ~RowSays(o, "dialing"), NEW id \in DialedLegs
             PROVE  RoutingRows[id].sid # o
  BY DEF Routing!SidIsFree, Routing!Legs
<1>1. RoutingRows[id].sid \in {id, NoCall}
  BY DEF RoutingRows, RoutingRow
<1>2. RoutingRows[id].sid = id /\ id # NoCall => RowSays(id, "dialing")
  BY DEF RoutingRows, RoutingRow
<1>3. o # NoCall
  BY CampaignDialerAssumption DEF DialedLegs
<1> QED BY <1>1, <1>2, <1>3

(***************************************************************************)
(* Each action of dial_one is an action of the dialer of CallRouting, or   *)
(* changes nothing there.                                                  *)
(***************************************************************************)
LEMMA DialOneIsRouted ==
    ASSUME TypeOK, RowIsPast, NEW s \in Starts, NEW c \in Contacts, DialOne(s, c)
    PROVE  (\E l \in DialedLegs : Routing!Dialer(l)) \/ UNCHANGED Routing!vars
<1> DEFINE o == <<s, c>>
<1>1. o \in DialedLegs /\ RoutingDial[o] = RoutedAs(dial[s][c])
  BY DEF DialedLegs, RoutingDial
<1>2. \A l \in DialedLegs : RoutingLeg[l] = IF l \in placed THEN "ringing" ELSE "none"
  BY DEF RoutingLeg
<1>3. placed' = placed => RoutingLeg' = RoutingLeg /\ RoutingSent' = RoutingSent
  BY DEF RoutingLeg, RoutingSent
<1>4. rows' = rows => RoutingRows' = RoutingRows
  BY DEF RoutingRows, RowSays
<1>5. ASSUME NEW to \in DialState, dial' = [dial EXCEPT ![s][c] = to], RoutedAs(to) = RoutedAs(dial[s][c])
      PROVE  RoutingDial' = RoutingDial
  <2>1. RoutingDial' = [RoutingDial EXCEPT ![o] = RoutedAs(to)]
    BY <1>5, DialIsMapped
  <2> QED BY <1>1, <1>5, <2>1 DEF RoutingDial
<1>6. CASE TakeContact(s, c)
  <2>1. /\ dial[s][c] = "waiting" /\ dial' = [dial EXCEPT ![s][c] = "flushing"]
        /\ placed' = placed /\ rows' = rows
    BY <1>6 DEF TakeContact, Moves
  <2>2. RoutingDial' = RoutingDial
    BY <1>5, <2>1 DEF RoutedAs, DialState
  <2> QED BY <1>3, <1>4, <2>1, <2>2 DEF Routing!vars, Routing!database, Routing!twilio
<1>7. CASE RefuseCall(s, c)
  <2>1. /\ dial[s][c] = "flushing" /\ dial' = [dial EXCEPT ![s][c] = "refused"]
        /\ placed' = placed /\ rows' = rows
    BY <1>7 DEF RefuseCall, Moves
  <2>2. RoutingDial' = RoutingDial
    BY <1>5, <2>1 DEF RoutedAs, DialState
  <2> QED BY <1>3, <1>4, <2>1, <2>2 DEF Routing!vars, Routing!database, Routing!twilio
<1>8. CASE ReleaseContact(s, c)
  <2>1. PICK to \in {"done", "lost"} :
            /\ dial[s][c] \in {"sleeping", "losing"} /\ dial' = [dial EXCEPT ![s][c] = to]
            /\ placed' = placed /\ rows' = rows
    BY <1>8 DEF ReleaseContact, Moves
  <2>2. to \in DialState /\ RoutedAs(to) = RoutedAs(dial[s][c])
    BY <2>1 DEF RoutedAs, DialState
  <2>3. RoutingDial' = RoutingDial
    BY <1>5, <2>1, <2>2
  <2> QED BY <1>3, <1>4, <2>1, <2>3 DEF Routing!vars, Routing!database, Routing!twilio
<1>9. CASE PlaceCall(s, c) \/ LoseReply(s, c)
  <2>1. PICK to \in {"called", "unheard"} :
            /\ dial[s][c] = "flushing" /\ dial' = [dial EXCEPT ![s][c] = to]
            /\ placed' = placed \cup {o} /\ rows' = rows
    BY <1>9 DEF PlaceCall, LoseReply, Moves
  <2>2. RoutingDial[o] = "idle" /\ RoutingDial' = [RoutingDial EXCEPT ![o] = "placed"]
    BY <1>1, <2>1, DialIsMapped DEF RoutedAs, DialState
  <2>3. /\ RoutingLeg' = [RoutingLeg EXCEPT ![o] = "ringing"]
        /\ RoutingSent' = [RoutingSent EXCEPT ![o] = <<"ringing">>]
    BY <1>1, <2>1 DEF RoutingLeg, RoutingSent
  <2>4. Routing!PlaceCall(o)
    BY <1>4, <2>1, <2>2, <2>3 DEF Routing!PlaceCall
  <2> QED BY <1>1, <2>4 DEF Routing!Dialer
<1>10. CASE LoseCall(s, c)
  <2>1. /\ dial[s][c] \in {"flushing", "called", "unheard", "refused"}
        /\ dial' = [dial EXCEPT ![s][c] = "losing"]
        /\ placed' = placed /\ rows' = rows
    BY <1>10 DEF LoseCall, Moves
  <2>2. RoutingDial[o] # "done" /\ RoutingDial' = [RoutingDial EXCEPT ![o] = "done"]
    BY <1>1, <2>1, DialIsMapped DEF RoutedAs, DialState
  <2>3. Routing!LoseCall(o)
    BY <1>3, <1>4, <2>1, <2>2 DEF Routing!LoseCall, Routing!twilio
  <2> QED BY <1>1, <2>3 DEF Routing!Dialer
<1>11. CASE CommitCall(s, c)
  <2>1. PICK outcome \in {"called", "unheard", "refused"} :
            /\ dial[s][c] = outcome /\ dial' = [dial EXCEPT ![s][c] = "sleeping"]
            /\ rows' = rows \cup {CallRow(s, c, outcome)} /\ placed' = placed
    BY <1>11 DEF CommitCall, Moves, Committed
  <2>2. RoutingDial' = [RoutingDial EXCEPT ![o] = "done"]
    BY <2>1, DialIsMapped DEF RoutedAs, DialState
  <2>3. CASE outcome = "called"
    <3>1. RoutingDial[o] = "placed"
      BY <1>1, <2>1, <2>3 DEF RoutedAs
    <3>2. RoutingRows' = [RoutingRows EXCEPT ![o] = RoutingRow("dialing", o)]
      BY <2>1, <2>3, RowsAreMapped
    <3>3. ~RowSays(o, "dialing")
      BY <1>1, <2>1, <2>3 DEF RowSays, RowIsPast
    <3>4. Routing!SidIsFree(o)
      BY <1>1, <3>3, SidsAreFree
    <3>5. Routing!CommitCall(o)
      BY <1>3, <2>1, <2>2, <3>1, <3>2, <3>4 DEF Routing!CommitCall, Routing!twilio, Routing!NewRow, RoutingRow
    <3> QED BY <1>1, <3>5 DEF Routing!Dialer
  <2>4. CASE outcome = "refused"
    <3>1. RoutingDial[o] = "idle"
      BY <1>1, <2>1, <2>4 DEF RoutedAs
    <3>2. RoutingRows' = [RoutingRows EXCEPT ![o] = RoutingRow("failed", NoCall)]
      BY <2>1, <2>4, RowsAreMapped
    <3>3. Routing!RefuseCall(o)
      BY <1>3, <2>1, <2>2, <3>1, <3>2 DEF Routing!RefuseCall, Routing!twilio, Routing!NewRow, RoutingRow
    <3> QED BY <1>1, <3>3 DEF Routing!Dialer
  <2>5. CASE outcome = "unheard"
    <3>1. RoutingDial[o] = "placed"
      BY <1>1, <2>1, <2>5 DEF RoutedAs
    <3>2. RoutingRows' = [RoutingRows EXCEPT ![o] = RoutingRow("failed", NoCall)]
      BY <2>1, <2>5, RowsAreMapped
    <3>3. Routing!CommitUnheard(o)
      BY <1>3, <2>1, <2>2, <3>1, <3>2
         DEF Routing!CommitUnheard, Routing!twilio, Routing!NewRow, RoutingRow
    <3> QED BY <1>1, <3>3 DEF Routing!Dialer
  <2> QED BY <2>1, <2>3, <2>4, <2>5
<1> QED BY <1>6, <1>7, <1>8, <1>9, <1>10, <1>11 DEF DialOne

(***************************************************************************)
(* The tasks of a campaign dial as CallRouting has it, for any contacts,   *)
(* requests and concurrency: each places its own call of a contact at most *)
(* once, and commits for it one row at most, of what Twilio was heard to   *)
(* answer.                                                                 *)
(***************************************************************************)
THEOREM TasksDialAsRouted == Spec => DialsAsRouted
<1>1. Init => Routing!Init
  <2> SUFFICES ASSUME Init PROVE Routing!Init
    OBVIOUS
  <2>1. Routing!Legs = DialedLegs
    BY DEF Routing!Legs
  <2>2. RoutingDial = [l \in DialedLegs |-> "idle"]
    BY LegsArePairs DEF RoutingDial, RoutedAs, Init
  <2>3. RoutingRows = [l \in DialedLegs |-> Routing!NewRow("absent", NoCall)]
    BY DEF RoutingRows, RowSays, RoutingRow, Routing!NewRow, Init
  <2>4. RoutingLeg = [l \in DialedLegs |-> "none"] /\ RoutingSent = [l \in DialedLegs |-> <<>>]
    BY DEF RoutingLeg, RoutingSent, Init
  <2> QED BY <2>1, <2>2, <2>3, <2>4 DEF Routing!Init
<1>2. Init => RowIsPast
  BY DEF Init, RowIsPast
<1>3. TypeOK /\ RowIsPast /\ [Next]_vars
        => [\E l \in DialedLegs : Routing!Dialer(l)]_(Routing!vars)
  <2> SUFFICES ASSUME TypeOK, RowIsPast, [Next]_vars
               PROVE  (\E l \in DialedLegs : Routing!Dialer(l)) \/ UNCHANGED Routing!vars
    OBVIOUS
  <2>1. CASE UNCHANGED <<dial, placed, rows>>
    BY <2>1 DEF Routing!vars, Routing!database, Routing!twilio, RoutingDial, RoutingRows, RowSays,
                RoutingLeg, RoutingSent
  <2> QED
    BY <2>1, DialOneIsRouted
       DEF Next, Task, StartCampaign, LoadCampaign, FinishCampaign, AbandonCampaign,
           ReadForPause, WritePause, Crash, vars
<1> QED
  BY <1>1, <1>2, <1>3, RowsStayPast, TypeCorrect, PTL DEF Spec, DialsAsRouted

(***************************************************************************)
(* So the legs of a campaign are legs of CallRouting, and the dialer in it *)
(* is this one.                                                            *)
(***************************************************************************)
THEOREM CampaignImplementsRouting == Spec => Routing!Spec
<1>1. [\E l \in DialedLegs : Routing!Dialer(l)]_(Routing!vars) => [Routing!Next]_(Routing!vars)
  BY DEF Routing!Next
<1> QED BY <1>1, TasksDialAsRouted, PTL DEF DialsAsRouted, Routing!Spec

===============================================================================
