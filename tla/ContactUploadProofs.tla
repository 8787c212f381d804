-------------------------- MODULE ContactUploadProofs --------------------------
(***************************************************************************)
(* Proofs about ContactUpload, for any set of phone cells, files of any    *)
(* length within the bound, and any limits.                                *)
(***************************************************************************)
EXTENDS ContactUpload, FiniteSetTheorems, SequenceTheorems, TLAPS

(***************************************************************************)
(* The rows are lines of the file, and no step changes the file.           *)
(***************************************************************************)
FileOK == file \in [lines : Seq(Line), format : {"csv", "excel"}, fault : {"none"} \cup Fault]

LEMMA RowsAreLines ==
    ASSUME FileOK
    PROVE  /\ Len(file.lines) \in Nat
           /\ Rows \subseteq 1 .. Len(file.lines)
           /\ \A i \in Rows : i \in Nat \ {0} /\ i <= Len(file.lines)
           /\ IsFiniteSet(Rows)
           /\ Cardinality(Rows) \in Nat
  <1>1. Len(file.lines) \in Nat /\ DOMAIN file.lines = 1 .. Len(file.lines)
    BY DEF FileOK
  <1>2. Rows \subseteq 1 .. Len(file.lines)
    BY <1>1 DEF Rows
  <1>3. IsFiniteSet(Rows)
    <2>1. IsFiniteSet(1 .. Len(file.lines))
      BY <1>1, FS_Interval
    <2> QED BY <1>2, <2>1, FS_Subset
  <1> QED BY <1>1, <1>2, <1>3, FS_CardinalityType

LEMMA FileStays == [Next]_vars => file' = file
  BY DEF Next, vars, session, Refuse, FlushCampaign, RejectRow, AddRow, Commit, Respond, RollBack, Crash

LEMMA SameFile ==
    ASSUME file' = file
    PROVE  /\ Rows' = Rows
           /\ \A i : Contact(i)' = Contact(i)
           /\ \A i : Rejected(i)' = Rejected(i)
           /\ \A i : ErrorHere(i)' = ErrorHere(i)
           /\ FileOK' = FileOK
  <1>1. Rows' = Rows
    BY DEF Rows
  <1>2. Column' = Column
    BY <1>1 DEF Column
  <1>3. \A cell : RawPhone(cell)' = RawPhone(cell)
    BY <1>2 DEF RawPhone, Numeric, HasGap
  <1>4. \A i : Contact(i)' = Contact(i)
    BY <1>3 DEF Contact
  <1>5. \A i : Rejected(i)' = Rejected(i)
    BY <1>3 DEF Rejected
  <1>6. \A i : ErrorHere(i)' = ErrorHere(i)
    BY <1>1 DEF ErrorHere, RowsAbove
  <1> QED BY <1>1, <1>4, <1>5, <1>6 DEF FileOK

-------------------------------------------------------------------------------
(***************************************************************************)
(* What the operators on numbers return (_normalize_phone and the text     *)
(* pandas hands it).                                                       *)
(***************************************************************************)
LEMMA TextType ==
    ASSUME NEW plus \in BOOLEAN, NEW digits \in Nat, NEW marks \in Nat, NEW zero \in BOOLEAN
    PROVE  Text(plus, digits, marks, zero) \in Phone
  BY DEF Text, Phone

\* The zeros in front of a number are among its digits.
SizedCell == {cell \in Cell : cell.zeros <= cell.digits}

LEMMA SignificantType ==
    \A cell \in SizedCell : /\ cell \in Cell /\ Significant(cell) \in Nat
                            /\ cell.digits > 0 => Significant(cell) > 0
                            /\ cell.zeros = 0 /\ cell.digits > 0 => Significant(cell) = cell.digits
  <1> TAKE cell \in SizedCell
  <1>1. cell \in Cell /\ cell.zeros \in Nat /\ cell.digits \in Nat /\ cell.zeros <= cell.digits
    BY DEF SizedCell, Cell
  <1> QED BY <1>1 DEF Significant

LEMMA RawPhoneType == \A cell \in SizedCell : RawPhone(cell) \in Phone
  <1> TAKE cell \in SizedCell
  <1>1. cell.filled \in {"number", "empty", "spaces"} /\ cell.plus \in BOOLEAN
            /\ cell.digits \in Nat /\ cell.marks \in Nat /\ cell.zeros \in Nat
            /\ Significant(cell) \in Nat
    BY SignificantType DEF Cell
  <1>2. CASE cell.filled = "spaces"
    BY <1>2, TextType DEF RawPhone
  <1>3. CASE cell.filled = "empty"
    BY <1>3, TextType DEF RawPhone
  <1>4. CASE cell.filled = "number" /\ ~Numeric
    BY <1>1, <1>4, TextType DEF RawPhone
  <1>5. CASE cell.filled = "number" /\ Numeric /\ ~HasGap
    BY <1>1, <1>5, TextType DEF RawPhone
  <1>6. CASE cell.filled = "number" /\ Numeric /\ HasGap
    BY <1>1, <1>6, TextType DEF RawPhone
  <1> QED BY <1>1, <1>2, <1>3, <1>4, <1>5, <1>6

LEMMA NormalizeType == \A text \in Phone : Normalize(text) \in Phone /\ Width(text) \in Nat
  <1> SUFFICES ASSUME NEW text \in Phone PROVE Normalize(text) \in Phone /\ Width(text) \in Nat
    OBVIOUS
  <1>1. /\ text.plus \in BOOLEAN /\ text.digits \in Nat /\ text.marks \in Nat
        /\ text.zero \in BOOLEAN /\ text.country \in BOOLEAN
    BY DEF Phone
  <1>2. Width(text) \in Nat
    <2>1. Digits(text) \in Nat
      BY <1>1 DEF Digits
    <2> QED BY <1>1, <2>1 DEF Width
  <1>3. \A country \in BOOLEAN : Number(text.digits, text.zero, country) \in Phone
    BY <1>1 DEF Phone, Number
  <1> QED BY <1>2, <1>3 DEF Normalize

LEMMA LinesAreFilled ==
    ASSUME FileOK, NEW i \in Rows
    PROVE  /\ file.lines[i].phone \in Phones \cup {EmptyCell}
           /\ file.lines[i].phone \in SizedCell /\ file.lines[i].phone \in Cell
           /\ file.lines[i].name \in Name
  <1>1. file.lines[i] \in Line
    BY RowsAreLines DEF FileOK, Rows
  <1>2. EmptyCell \in Cell /\ EmptyCell \in SizedCell
    BY DEF EmptyCell, Cell, SizedCell
  <1>3. CASE file.lines[i] \in [phone : Phones, name : Name, blank : {FALSE}]
    BY <1>3, UploadAssumption DEF SizedCell
  <1>4. CASE file.lines[i] = EmptyLine
    BY <1>2, <1>4 DEF EmptyLine, Name
  <1> QED BY <1>1, <1>3, <1>4 DEF Line

Stored == [line : Nat, phone : Phone, name : Name]

LEMMA ContactType ==
    ASSUME FileOK, NEW i \in Rows
    PROVE  Contact(i) \in Stored /\ Contact(i).line = i + 1
  BY RowsAreLines, LinesAreFilled, RawPhoneType, NormalizeType DEF Contact, Stored

LEMMA ErrorHereType ==
    ASSUME FileOK, NEW i \in Rows
    PROVE  RowsAbove(i) \subseteq Rows /\ IsFiniteSet(RowsAbove(i)) /\ ErrorHere(i) \in Nat
  <1>1. RowsAbove(i) \subseteq Rows /\ IsFiniteSet(RowsAbove(i))
    BY RowsAreLines, FS_Subset DEF RowsAbove
  <1>2. Cardinality(RowsAbove(i)) \in Nat
    BY <1>1, FS_CardinalityType
  <1> QED BY <1>1, <1>2 DEF ErrorHere

LEMMA ReportType ==
    ASSUME errors \in Seq(Nat)
    PROVE  /\ Report \in Seq(Nat)
           /\ Len(Report) <= Len(errors)
           /\ Len(Report) = Len(errors) \/ Len(Report) = ErrorCap
           /\ \A k \in DOMAIN Report : k \in DOMAIN errors /\ Report[k] = errors[k]
  <1> DEFINE n == IF Len(errors) < ErrorCap THEN Len(errors) ELSE ErrorCap
  <1>1. Len(errors) \in Nat /\ ErrorCap \in Nat /\ n \in Nat /\ n <= Len(errors)
            /\ (n = Len(errors) \/ n = ErrorCap)
    BY UploadAssumption
  <1>2. \A k \in 1 .. n : errors[k] \in Nat
    BY <1>1
  <1> HIDE DEF n
  <1>3. /\ SubSeq(errors, 1, n) \in Seq(Nat)
        /\ Len(SubSeq(errors, 1, n)) = n
        /\ \A k \in 1 .. n : SubSeq(errors, 1, n)[k] = errors[k]
    BY <1>1, <1>2, SubSeqProperties
  <1>4. Report = SubSeq(errors, 1, n)
    BY DEF Report, n
  <1> QED BY <1>1, <1>3, <1>4

-------------------------------------------------------------------------------
Statuses == {0, 200, 400, 413, 422, 500}

LEMMA FailedType == \A code \in Statuses : Failed(code) \in [status : Statuses, created : Nat, errors : Seq(Nat)]
  <1>1. <<>> \in Seq(Nat)
    OBVIOUS
  <1> QED BY <1>1 DEF Failed

LEMMA RefusalStatus == \A i \in DOMAIN Refusals : Refusals[i].status \in {400, 413, 422, 500}
  <1> TAKE i \in DOMAIN Refusals
  <1>1. i \in 1 .. 9
    BY DEF Refusals
  <1>2. i \in {1, 2, 3, 4, 5, 6, 7, 8, 9}
    BY <1>1
  <1> QED BY <1>2 DEF Refusals

(***************************************************************************)
(* Type correctness.                                                       *)
(***************************************************************************)
LEMMA TypesStart == Init => TypeOK
  <1> SUFFICES ASSUME Init PROVE TypeOK
    OBVIOUS
  <1>1. file \in [lines : Seq(Line), format : {"csv", "excel"}, fault : {"none"} \cup Fault]
    <2>1. ASSUME NEW lines \in BoundedSeq(Line, MaxLines) PROVE lines \in Seq(Line)
      <3>1. PICK m \in 0 .. MaxLines : lines \in [1 .. m -> Line]
        BY DEF BoundedSeq, SeqOf
      <3>2. m \in Nat
        BY <3>1, UploadAssumption
      <3> QED BY <3>1, <3>2
    <2>2. file \in [lines : BoundedSeq(Line, MaxLines), format : {"csv", "excel"},
                    fault : {"none"} \cup (Fault \ {"too_many"})]
      BY DEF Init
    <2>3. {"none"} \cup (Fault \ {"too_many"}) \subseteq {"none"} \cup Fault
      OBVIOUS
    <2> QED BY <2>1, <2>2, <2>3, Zenon
  <1>2. line \in 0 .. Len(file.lines)
    BY <1>1 DEF Init
  <1>3. answer \in [status : {0, 200, 400, 413, 422, 500}, created : Nat, errors : Seq(Nat)]
    BY FailedType DEF Init, None, Statuses
  <1>4. database \in [total : Nat, contacts : Contacts, there : BOOLEAN]
    BY DEF Init, NoCampaign, Contacts
  <1>5. contacts \in Contacts /\ errors \in Seq(Nat)
    BY DEF Init, Contacts
  <1> QED BY <1>1, <1>2, <1>3, <1>4, <1>5 DEF Init, TypeOK

LEMMA TypesStay == TypeOK /\ [Next]_vars => TypeOK'
  <1> SUFFICES ASSUME TypeOK, [Next]_vars PROVE TypeOK'
    OBVIOUS
  <1>1. FileOK /\ file' = file /\ FileOK'
    BY FileStays DEF TypeOK, FileOK
  <1>2. Cardinality(Rows) \in Nat
    BY <1>1, RowsAreLines
  <1>3. CASE Refuse
    <2>2. PICK i \in DOMAIN Refusals : answer' = Failed(Refusals[i].status)
      BY <1>3 DEF Refuse
    <2>3. Refusals[i].status \in Statuses
      BY RefusalStatus DEF Statuses
    <2>1. answer' \in [status : Statuses, created : Nat, errors : Seq(Nat)]
      BY <2>2, <2>3, FailedType
    <2> QED BY <1>1, <1>3, <2>1 DEF Refuse, TypeOK, session, Statuses
  <1>4. CASE FlushCampaign
    BY <1>1, <1>4 DEF FlushCampaign, TypeOK, session
  <1>5. ASSUME NEW i \in Rows, RejectRow(i) PROVE TypeOK'
    BY <1>1, <1>5, RowsAreLines, ErrorHereType DEF RejectRow, TypeOK
  <1>6. ASSUME NEW i \in Rows, AddRow(i) PROVE TypeOK'
    BY <1>1, <1>6, RowsAreLines, ContactType DEF AddRow, TypeOK, Contacts, Stored
  <1>7. CASE Commit
    BY <1>1, <1>2, <1>7 DEF Commit, TypeOK, session
  <1>8. CASE Respond
    <2>1. Len(contacts) \in Nat /\ Report \in Seq(Nat)
      BY ReportType DEF TypeOK, Contacts
    <2> QED BY <1>1, <1>8, <2>1 DEF Respond, TypeOK, session
  <1>9. CASE RollBack
    <2>1. answer' \in [status : Statuses, created : Nat, errors : Seq(Nat)]
      BY <1>9, FailedType DEF RollBack, Statuses
    <2> QED BY <1>1, <1>9, <2>1 DEF RollBack, TypeOK, session, Statuses
  <1>10. CASE Crash
    BY <1>1, <1>10 DEF Crash, TypeOK, session
  <1>11. CASE UNCHANGED vars
    BY <1>11 DEF vars, session, TypeOK
  <1> QED BY <1>3, <1>4, <1>5, <1>6, <1>7, <1>8, <1>9, <1>10, <1>11 DEF Next

-------------------------------------------------------------------------------
(***************************************************************************)
(* What the loop has done is known from the file and the last line it has  *)
(* handled: as many contacts and errors as there are rows up to there, the *)
(* contacts in their order, each from a row that is not rejected, and each *)
(* error the place of a row that is.                                       *)
(***************************************************************************)
RowsHandled == {i \in Rows : i <= line}

HandledOnce == Len(contacts) + Len(errors) = Cardinality(RowsHandled)

ContactsFromRows ==
    \A c \in DOMAIN contacts :
        \E i \in RowsHandled : ~Rejected(i) /\ contacts[c] = Contact(i)

ContactsInOrder ==
    \A b, c \in DOMAIN contacts : b < c => contacts[b].line < contacts[c].line

ErrorsFromRows ==
    \A e \in DOMAIN errors :
        \E i \in RowsHandled : Rejected(i) /\ errors[e] = ErrorHere(i)

(***************************************************************************)
(* What is committed is all the loop has made of a file it has worked      *)
(* through; until then there is nothing, and an error leaves it so.        *)
(***************************************************************************)
CommittedWhole ==
    database.there =>
        /\ AllHandled
        /\ database = [total |-> Cardinality(Rows), contacts |-> contacts, there |-> TRUE]
        /\ \A c \in DOMAIN contacts : Storable(contacts[c])

AnswersAreTrue ==
    /\ phase \in {"validating", "reading"} => ~database.there
    /\ phase = "committed" => database.there
    /\ phase # "answered" => answer = None
    /\ ~database.there => database = NoCampaign
    /\ phase = "answered" =>
          \/ /\ answer.status \in {400, 413, 422, 500} /\ answer.errors = <<>>
             /\ ~database.there
          \/ database.there /\ answer = [status |-> 200, created |-> Len(contacts), errors |-> Report]

LoopInv == HandledOnce /\ ContactsFromRows /\ ContactsInOrder /\ ErrorsFromRows
UploadInv == LoopInv /\ CommittedWhole /\ AnswersAreTrue

LEMMA InvStarts == Init => UploadInv
  <1> SUFFICES ASSUME Init PROVE UploadInv
    OBVIOUS
  <1>1. FileOK
    BY TypesStart DEF TypeOK, FileOK
  <1>2. RowsHandled = {}
    BY <1>1, RowsAreLines DEF RowsHandled, Init
  <1>3. HandledOnce
    BY <1>2, FS_EmptySet DEF HandledOnce, Init
  <1>4. ContactsFromRows /\ ContactsInOrder /\ ErrorsFromRows
    BY DEF ContactsFromRows, ContactsInOrder, ErrorsFromRows, Init
  <1>5. CommittedWhole /\ AnswersAreTrue
    BY DEF CommittedWhole, AnswersAreTrue, Init, NoCampaign
  <1> QED BY <1>3, <1>4, <1>5 DEF UploadInv, LoopInv

(***************************************************************************)
(* The next row is one more, and it is below all that were handled.        *)
(***************************************************************************)
LEMMA OneMoreRow ==
    ASSUME TypeOK, file' = file, NEW i \in Rows, IsNext(i), line' = i
    PROVE  /\ RowsHandled' = RowsHandled \cup {i}
           /\ \A j \in RowsHandled : j < i
           /\ Cardinality(RowsHandled) \in Nat
           /\ Cardinality(RowsHandled') = Cardinality(RowsHandled) + 1
  <1>1. FileOK /\ Rows' = Rows /\ line \in Nat
    BY SameFile, RowsAreLines DEF TypeOK, FileOK
  <1>2. \A j \in Rows : j \in Nat
    BY <1>1, RowsAreLines
  <1>3. RowsHandled' = RowsHandled \cup {i}
    BY <1>1, <1>2 DEF RowsHandled, IsNext
  <1>4. \A j \in RowsHandled : j < i
    BY <1>1, <1>2 DEF RowsHandled, IsNext
  <1>5. IsFiniteSet(RowsHandled)
    BY <1>1, RowsAreLines, FS_Subset DEF RowsHandled
  <1>6. i \notin RowsHandled
    BY <1>2, <1>4
  <1>7. Cardinality(RowsHandled) \in Nat
    BY <1>5, FS_CardinalityType
  <1>8. Cardinality(RowsHandled \cup {i}) = Cardinality(RowsHandled) + 1
    BY <1>5, <1>6, FS_AddElement
  <1> QED BY <1>3, <1>4, <1>7, <1>8

LEMMA RejectKeepsLoop ==
    ASSUME TypeOK, LoopInv, NEW i \in Rows, RejectRow(i)
    PROVE  LoopInv'
  <1>1. /\ file' = file /\ contacts' = contacts /\ line' = i /\ IsNext(i)
        /\ Rejected(i) /\ errors' = Append(errors, ErrorHere(i))
    BY DEF RejectRow
  <1>2. RowsHandled' = RowsHandled \cup {i} /\ Cardinality(RowsHandled') = Cardinality(RowsHandled) + 1
    BY <1>1, OneMoreRow
  <1>3. /\ errors \in Seq(Nat) /\ ErrorHere(i) \in Nat
        /\ Len(contacts) \in Nat
    BY ErrorHereType DEF TypeOK, FileOK, Contacts
  <1>4. HandledOnce'
    BY <1>1, <1>2, <1>3 DEF HandledOnce, LoopInv
  <1>5. ContactsFromRows'
    BY <1>1, <1>2, SameFile DEF ContactsFromRows, LoopInv
  <1>6. ContactsInOrder'
    BY <1>1 DEF ContactsInOrder, LoopInv
  <1>7. ErrorsFromRows'
    <2> SUFFICES ASSUME NEW e \in DOMAIN errors'
                 PROVE  \E j \in RowsHandled' : Rejected(j) /\ errors'[e] = ErrorHere(j)
      BY <1>1, SameFile DEF ErrorsFromRows
    <2>1. CASE e = Len(errors) + 1
      BY <1>1, <1>2, <1>3, <2>1
    <2>2. CASE e \in DOMAIN errors
      BY <1>1, <1>2, <1>3, <2>2 DEF LoopInv, ErrorsFromRows
    <2> QED BY <1>1, <1>3, <2>1, <2>2
  <1> QED BY <1>4, <1>5, <1>6, <1>7 DEF LoopInv

LEMMA AddKeepsLoop ==
    ASSUME TypeOK, LoopInv, NEW i \in Rows, AddRow(i)
    PROVE  LoopInv'
  <1>1. /\ file' = file /\ errors' = errors /\ line' = i /\ IsNext(i)
        /\ ~Rejected(i) /\ contacts' = Append(contacts, Contact(i))
    BY DEF AddRow
  <1>2. /\ RowsHandled' = RowsHandled \cup {i}
        /\ Cardinality(RowsHandled) \in Nat
        /\ Cardinality(RowsHandled') = Cardinality(RowsHandled) + 1
        /\ \A j \in RowsHandled : j < i
    BY <1>1, OneMoreRow
  <1>3. FileOK /\ \A j \in Rows : j \in Nat /\ Contact(j).line = j + 1
    BY ContactType, RowsAreLines DEF TypeOK, FileOK
  <1>4. contacts \in Seq(Stored) /\ Contact(i) \in Stored /\ Len(errors) \in Nat
    BY <1>3, ContactType DEF TypeOK, Contacts, Stored
  <1>5. HandledOnce'
    BY <1>1, <1>2, <1>4 DEF HandledOnce, LoopInv
  <1>6. ContactsFromRows'
    <2> SUFFICES ASSUME NEW c \in DOMAIN contacts'
                 PROVE  \E j \in RowsHandled' : ~Rejected(j) /\ contacts'[c] = Contact(j)
      BY <1>1, SameFile DEF ContactsFromRows
    <2>1. CASE c = Len(contacts) + 1
      BY <1>1, <1>2, <1>4, <2>1
    <2>2. CASE c \in DOMAIN contacts
      BY <1>1, <1>2, <1>4, <2>2 DEF LoopInv, ContactsFromRows
    <2> QED BY <1>1, <1>4, <2>1, <2>2
  <1>7. ContactsInOrder'
    <2> SUFFICES ASSUME NEW b \in DOMAIN contacts', NEW c \in DOMAIN contacts', b < c
                 PROVE  contacts'[b].line < contacts'[c].line
      BY DEF ContactsInOrder
    <2>1. b \in DOMAIN contacts /\ contacts'[b] = contacts[b]
      BY <1>1, <1>4
    <2>2. CASE c \in DOMAIN contacts
      BY <1>1, <1>4, <2>1, <2>2 DEF LoopInv, ContactsInOrder
    <2>3. CASE c = Len(contacts) + 1
      <3>1. PICK j \in RowsHandled : contacts[b] = Contact(j)
        BY <2>1 DEF LoopInv, ContactsFromRows
      <3>2. contacts'[b].line = j + 1 /\ contacts'[c].line = i + 1
        BY <1>1, <1>3, <1>4, <2>1, <2>3, <3>1 DEF RowsHandled
      <3> QED BY <1>2, <1>3, <3>1, <3>2 DEF RowsHandled
    <2> QED BY <1>1, <1>4, <2>2, <2>3
  <1>8. ErrorsFromRows'
    BY <1>1, <1>2, SameFile DEF ErrorsFromRows, LoopInv
  <1> QED BY <1>5, <1>6, <1>7, <1>8 DEF LoopInv

LEMMA LoopStandsStill ==
    ASSUME LoopInv, file' = file, UNCHANGED session
    PROVE  LoopInv'
  <1>1. line' = line /\ contacts' = contacts /\ errors' = errors
    BY DEF session
  <1>2. RowsHandled' = RowsHandled
    BY <1>1, SameFile DEF RowsHandled
  <1>3. HandledOnce' /\ ContactsInOrder'
    BY <1>1, <1>2 DEF LoopInv, HandledOnce, ContactsInOrder
  <1>4. ContactsFromRows' /\ ErrorsFromRows'
    BY <1>1, <1>2, SameFile DEF LoopInv, ContactsFromRows, ErrorsFromRows
  <1> QED BY <1>3, <1>4 DEF LoopInv

LEMMA LoopStays == TypeOK /\ LoopInv /\ [Next]_vars => LoopInv'
  <1> SUFFICES ASSUME TypeOK, LoopInv, [Next]_vars PROVE LoopInv'
    OBVIOUS
  <1>1. CASE Refuse \/ FlushCampaign \/ Commit \/ Respond \/ RollBack \/ Crash \/ UNCHANGED vars
    <2>1. UNCHANGED session
      BY <1>1 DEF Refuse, FlushCampaign, Commit, Respond, RollBack, Crash, vars
    <2> QED BY <2>1, FileStays, LoopStandsStill
  <1> QED BY <1>1, RejectKeepsLoop, AddKeepsLoop DEF Next

(***************************************************************************)
(* The transaction and the answer, action by action.                       *)
(***************************************************************************)
LEMMA CommitStays == TypeOK /\ UploadInv /\ [Next]_vars => CommittedWhole' /\ AnswersAreTrue'
  <1> SUFFICES ASSUME TypeOK, UploadInv, [Next]_vars PROVE CommittedWhole' /\ AnswersAreTrue'
    OBVIOUS
  <1>1. file' = file /\ Rows' = Rows
    BY FileStays, SameFile
  <1> DEFINE Kept == UNCHANGED <<database, contacts, errors, line>>
  <1>2. ASSUME Kept PROVE CommittedWhole' /\ Report' = Report
    <2>1. AllHandled' = AllHandled
      BY <1>1, <1>2 DEF AllHandled
    <2>2. \A contact : Storable(contact)' = Storable(contact)
      BY DEF Storable
    <2> QED BY <1>1, <1>2, <2>1, <2>2 DEF UploadInv, CommittedWhole, Report
  <1>3. CASE Refuse
    <2>1. PICK i \in DOMAIN Refusals : answer' = Failed(Refusals[i].status)
      BY <1>3 DEF Refuse
    <2>2. answer'.status \in {400, 413, 422, 500} /\ answer'.errors = <<>>
      BY <2>1, RefusalStatus DEF Failed
    <2>3. Kept /\ phase = "validating" /\ phase' = "answered"
      BY <1>3 DEF Refuse, session
    <2> QED BY <1>2, <2>2, <2>3 DEF UploadInv, AnswersAreTrue
  <1>4. CASE FlushCampaign
    <2>1. Kept /\ answer' = answer /\ phase = "validating" /\ phase' = "reading"
      BY <1>4 DEF FlushCampaign, session
    <2> QED BY <1>2, <2>1 DEF UploadInv, AnswersAreTrue, None, Failed
  <1>5. ASSUME NEW i \in Rows, RejectRow(i) \/ AddRow(i) PROVE CommittedWhole' /\ AnswersAreTrue'
    <2>1. UNCHANGED <<phase, database, answer>> /\ phase = "reading"
      BY <1>5 DEF RejectRow, AddRow
    <2> QED BY <2>1 DEF UploadInv, AnswersAreTrue, CommittedWhole, None, Failed
  <1>6. CASE Commit
    <2>1. UNCHANGED <<session, answer>> /\ AllHandled /\ phase = "reading" /\ phase' = "committed"
          /\ (\A c \in DOMAIN contacts : Storable(contacts[c]))
          /\ database' = [total |-> Cardinality(Rows), contacts |-> contacts, there |-> TRUE]
      BY <1>6 DEF Commit
    <2>2. AllHandled' /\ contacts' = contacts
      BY <1>1, <2>1 DEF AllHandled, session
    <2>3. \A contact : Storable(contact)' = Storable(contact)
      BY DEF Storable
    <2>4. CommittedWhole'
      BY <1>1, <2>1, <2>2, <2>3 DEF CommittedWhole
    <2> QED BY <2>1, <2>4 DEF UploadInv, AnswersAreTrue, None, Failed
  <1>7. CASE Respond
    <2>1. Kept /\ phase = "committed" /\ phase' = "answered"
          /\ answer' = [status |-> 200, created |-> Len(contacts), errors |-> Report]
      BY <1>7 DEF Respond, session
    <2>2. contacts' = contacts /\ Report' = Report /\ CommittedWhole'
      BY <1>2, <2>1
    <2> QED BY <2>1, <2>2 DEF UploadInv, AnswersAreTrue
  <1>8. CASE RollBack
    <2>1. Kept /\ phase \in {"validating", "reading"} /\ phase' = "answered" /\ answer' = Failed(500)
      BY <1>8 DEF RollBack, session
    <2>2. answer'.status = 500 /\ answer'.errors = <<>>
      BY <2>1 DEF Failed
    <2> QED BY <1>2, <2>1, <2>2 DEF UploadInv, AnswersAreTrue
  <1>9. CASE Crash
    <2>1. Kept /\ answer' = answer /\ phase # "answered" /\ phase' = "dead"
      BY <1>9 DEF Crash, session
    <2> QED BY <1>2, <2>1 DEF UploadInv, AnswersAreTrue, None, Failed
  <1>10. CASE UNCHANGED vars
    <2>1. Kept /\ answer' = answer /\ phase' = phase
      BY <1>10 DEF vars, session
    <2>2. contacts' = contacts /\ Report' = Report /\ CommittedWhole'
      BY <1>2, <2>1
    <2> QED BY <2>1, <2>2 DEF UploadInv, AnswersAreTrue, None, Failed
  <1> QED BY <1>3, <1>4, <1>5, <1>6, <1>7, <1>8, <1>9, <1>10 DEF Next

(***************************************************************************)
(* The loop and its transaction, in every state: the strengthening the     *)
(* three properties rest on.                                               *)
(***************************************************************************)
THEOREM LoopIsAccounted == Spec => [](TypeOK /\ UploadInv)
  <1>1. TypeOK /\ UploadInv /\ [Next]_vars => (TypeOK /\ UploadInv)'
    BY TypesStay, LoopStays, CommitStays DEF UploadInv
  <1> QED BY <1>1, TypesStart, InvStarts, PTL DEF Spec

-------------------------------------------------------------------------------
LEMMA AllRowsHandled == AllHandled => RowsHandled = Rows
  BY DEF AllHandled, RowsHandled

LEMMA WholeListFromInv == TypeOK /\ UploadInv => AllOrNothing
  <1> SUFFICES ASSUME TypeOK, UploadInv PROVE AllOrNothing
    OBVIOUS
  <1>1. /\ Len(contacts) \in Nat /\ errors \in Seq(Nat) /\ Len(errors) \in Nat
        /\ FileOK /\ Cardinality(Rows) \in Nat
    BY RowsAreLines DEF TypeOK, FileOK, Contacts
  <1>2. CASE database.there
    <2>1. /\ database.contacts = contacts /\ database.total = Cardinality(Rows)
          /\ Len(contacts) + Len(errors) = Cardinality(Rows)
      BY <1>2, AllRowsHandled DEF UploadInv, LoopInv, HandledOnce, CommittedWhole
    <2>2. answer.status \notin {400, 413, 422, 500}
              /\ (answer.status = 200 => answer.created = Len(contacts) /\ answer.errors = Report)
      BY <1>2 DEF UploadInv, AnswersAreTrue, None, Failed
    <2>3. Len(Report) = Len(errors) \/ Len(Report) = ErrorCap
      BY <1>1, ReportType
    <2> QED BY <1>1, <1>2, <2>1, <2>2, <2>3 DEF AllOrNothing, UploadInv, LoopInv, ContactsInOrder
  <1>3. CASE ~database.there
    <2>1. database = NoCampaign /\ answer.status # 200
      BY <1>3 DEF UploadInv, AnswersAreTrue, None, Failed
    <2> QED BY <1>3, <2>1 DEF AllOrNothing, NoCampaign
  <1> QED BY <1>2, <1>3

(***************************************************************************)
(* All of the list or nothing (upload.py 108-163, get_db), for files of    *)
(* any length: an error leaves nothing behind, a success has stored what   *)
(* it counts, in the order of the file, and the rest are its errors.       *)
(***************************************************************************)
THEOREM WholeListOrNothing == Spec => []AllOrNothing
  BY LoopIsAccounted, WholeListFromInv, PTL

LEMMA BlankIsEmpty == Width(Text(FALSE, 0, 0, FALSE)) = 0
  BY DEF Text, Width, Digits

LEMMA FilledIsWide == \A text \in Phone : text.digits > 0 \/ text.marks > 0 => Width(text) # 0
  <1> SUFFICES ASSUME NEW text \in Phone, text.digits > 0 \/ text.marks > 0 PROVE Width(text) # 0
    OBVIOUS
  <1>1. text.digits \in Nat /\ text.marks \in Nat
    BY DEF Phone
  <1>2. Digits(text) = text.digits \/ Digits(text) = text.digits + 1
    BY <1>1 DEF Digits
  <1>3. Width(text) >= Digits(text) + text.marks
    BY <1>1, <1>2 DEF Width
  <1> QED BY <1>1, <1>2, <1>3

(***************************************************************************)
(* A row that is not rejected has a cell that is empty or holds a number,  *)
(* and a rejected one has spaces for a phone or a name.                    *)
(***************************************************************************)
LEMMA SpacesAreRejected ==
    ASSUME FileOK, NEW i \in Rows
    PROVE  Rejected(i) <=> file.lines[i].phone.filled = "spaces" \/ file.lines[i].name = "spaces"
  <1> DEFINE cell == file.lines[i].phone
  <1>1. cell \in Phones \cup {EmptyCell} /\ cell \in Cell /\ cell \in SizedCell
    BY LinesAreFilled
  <1>2. /\ cell.filled \in {"number", "empty", "spaces"} /\ cell.plus \in BOOLEAN
        /\ cell.digits \in Nat /\ cell.marks \in Nat
    BY <1>1 DEF Cell
  <1>3. cell.filled = "number" => cell.digits + cell.marks > 0
    BY <1>1, UploadAssumption DEF EmptyCell
  <1>4. cell \in Column
    BY DEF Column
  <1> HIDE DEF cell
  <1>5. ASSUME cell.filled = "spaces" PROVE Width(RawPhone(cell)) = 0
    BY <1>5, BlankIsEmpty DEF RawPhone
  <1>6. ASSUME cell.filled = "empty" PROVE Width(RawPhone(cell)) # 0
    <2>1. RawPhone(cell).marks = 3
      BY <1>6 DEF RawPhone, Text
    <2> QED BY <1>1, <2>1, RawPhoneType, FilledIsWide
  <1>7. ASSUME cell.filled = "number" /\ ~Numeric PROVE Width(RawPhone(cell)) # 0
    <2>1. RawPhone(cell).digits = cell.digits /\ RawPhone(cell).marks = cell.marks
      BY <1>7 DEF RawPhone, Text
    <2> QED BY <1>1, <1>2, <1>3, <1>7, <2>1, RawPhoneType, FilledIsWide
  <1>8. ASSUME cell.filled = "number" /\ Numeric PROVE Width(RawPhone(cell)) # 0
    <2>1. cell.marks = 0 /\ cell.digits > 0
      BY <1>2, <1>3, <1>4, <1>8 DEF Numeric
    <2>2. RawPhone(cell).digits = Significant(cell) /\ Significant(cell) > 0
      BY <1>1, <1>8, <2>1, SignificantType DEF RawPhone, Text
    <2> QED BY <1>1, <2>1, <2>2, RawPhoneType, FilledIsWide
  <1>9. Width(RawPhone(cell)) = 0 <=> cell.filled = "spaces"
    BY <1>2, <1>5, <1>6, <1>7, <1>8
  <1> QED BY <1>9 DEF Rejected, cell

(***************************************************************************)
(* A contact that is stored was made from a row, and the file still says   *)
(* which: its number is that row's as _normalize_phone writes it.          *)
(***************************************************************************)
LEMMA StoredFromRows ==
    ASSUME TypeOK, UploadInv, NEW c \in DOMAIN database.contacts
    PROVE  \E i \in Rows : /\ ~Rejected(i) /\ i = database.contacts[c].line - 1
                           /\ database.contacts[c].phone = Normalize(RawPhone(file.lines[i].phone))
  <1>1. FileOK
    BY DEF TypeOK, FileOK
  <1>2. database.contacts = contacts
    <2>1. CASE database.there
      BY <2>1 DEF UploadInv, CommittedWhole
    <2>2. CASE ~database.there
      BY <2>2 DEF UploadInv, AnswersAreTrue, NoCampaign
    <2> QED BY <2>1, <2>2
  <1>3. PICK i \in Rows : ~Rejected(i) /\ contacts[c] = Contact(i)
    BY <1>2 DEF UploadInv, LoopInv, ContactsFromRows, RowsHandled
  <1>4. i \in Nat /\ contacts[c].line = i + 1
    BY <1>1, <1>3, RowsAreLines, ContactType
  <1>5. contacts[c].phone = Normalize(RawPhone(file.lines[i].phone))
    BY <1>3 DEF Contact
  <1> QED BY <1>2, <1>3, <1>4, <1>5

LEMMA PlainText ==
    ASSUME NEW text, NEW digits \in Nat, text.digits = digits, ~text.zero
    PROVE  Digits(text) = digits
  <1>1. Digits(text) = digits + 0
    BY Zenon DEF Digits
  <1> QED BY <1>1

LEMMA NormalizedText ==
    ASSUME NEW digits \in Nat, NEW marks \in Nat
    PROVE  /\ digits = 10 => Normalize(Text(FALSE, digits, marks, FALSE)) = Number(digits, FALSE, TRUE)
           /\ digits # 10 => Normalize(Text(FALSE, digits, marks, FALSE)) = Number(digits, FALSE, FALSE)
           /\ digits # 10 => Normalize(Text(TRUE, digits, 0, FALSE)) = Number(digits, FALSE, FALSE)
  <1> DEFINE bare == Text(FALSE, digits, marks, FALSE)
             plus == Text(TRUE, digits, 0, FALSE)
  <1>1. /\ bare.digits = digits /\ bare.zero = FALSE /\ bare.plus = FALSE
        /\ plus.digits = digits /\ plus.zero = FALSE /\ plus.plus = TRUE
    BY DEF Text
  <1>2. plus = Number(digits, FALSE, FALSE)
    BY DEF Text, Number
  <1> HIDE DEF bare, plus
  <1>3. Digits(bare) = digits /\ Digits(plus) = digits
    BY <1>1, PlainText
  <1>4. digits = 10 => Normalize(bare) = Number(digits, FALSE, TRUE)
    BY <1>1, <1>3, Zenon DEF Normalize
  <1>5. digits # 10 => Normalize(bare) = Number(digits, FALSE, FALSE)
    BY <1>1, <1>3, Zenon DEF Normalize
  <1>6. digits # 10 => Normalize(plus) = Number(digits, FALSE, FALSE)
    BY <1>1, <1>2, <1>3, Zenon DEF Normalize
  <1> QED BY <1>4, <1>5, <1>6, Zenon DEF bare, plus

LEMMA NumberMeant ==
    ASSUME NEW cell \in Column, cell \in SizedCell, cell.filled # "spaces",
           cell.filled # "empty", ~Misread(cell), ~(Numeric /\ (HasGap \/ cell.zeros > 0)),
           cell.digits + cell.marks > 0
    PROVE  Normalize(RawPhone(cell)) = Meant(cell)
  <1>1. /\ cell.filled = "number" /\ cell.plus \in BOOLEAN
        /\ cell.digits \in Nat /\ cell.marks \in Nat
        /\ cell.zeros \in Nat
        /\ (cell.plus => cell.digits # 10 /\ cell.marks = 0)
    BY DEF Cell, SizedCell, Misread
  <1>2. CASE ~Numeric /\ cell.plus
    <2>1. RawPhone(cell) = Text(TRUE, cell.digits, 0, FALSE)
      BY <1>1, <1>2 DEF RawPhone
    <2>2. (~cell.plus /\ cell.digits = 10) = FALSE
      BY <1>1, <1>2
    <2> QED BY <1>1, <1>2, <2>1, <2>2, NormalizedText, Zenon DEF Meant
  <1>3. CASE Numeric \/ ~cell.plus
    <2>1. RawPhone(cell) = Text(FALSE, cell.digits, cell.marks, FALSE)
      <3>1. CASE ~Numeric
        BY <1>1, <1>3, <3>1 DEF RawPhone
      <3>2. CASE Numeric
        <4>1. cell.marks = 0
          BY <1>1, <3>2 DEF Numeric
        <4>2. Significant(cell) = cell.digits
          BY <1>1, <3>2, <4>1, SignificantType
        <4> QED BY <1>1, <3>2, <4>1, <4>2 DEF RawPhone
      <3> QED BY <3>1, <3>2
    <2>2. CASE cell.digits = 10
      <3>1. (~cell.plus /\ cell.digits = 10) = TRUE
        BY <1>1, <2>2
      <3> QED BY <1>1, <2>1, <2>2, <3>1, NormalizedText, Zenon DEF Meant
    <2>3. CASE cell.digits # 10
      <3>1. (~cell.plus /\ cell.digits = 10) = FALSE
        BY <2>3
      <3> QED BY <1>1, <2>1, <2>3, <3>1, NormalizedText, Zenon DEF Meant
    <2> QED BY <2>2, <2>3
  <1> QED BY <1>2, <1>3

(***************************************************************************)
(* Numbers are kept (_normalize_phone), whatever cells a file may hold:    *)
(* every number that is stored is the one its line was written with, save  *)
(* for the four ways of writing a list that are named as misread.          *)
(***************************************************************************)
LEMMA NumbersFromInv == TypeOK /\ UploadInv => NumbersKept
  <1> SUFFICES ASSUME TypeOK, UploadInv, NEW c \in DOMAIN database.contacts
               PROVE  LET contact == database.contacts[c]
                          cell == file.lines[contact.line - 1].phone
                      IN  \/ contact.phone = Meant(cell)
                          \/ cell.filled = "empty"
                          \/ Misread(cell)
                          \/ Numeric /\ (HasGap \/ cell.zeros > 0)
    BY DEF NumbersKept
  <1>1. FileOK
    BY DEF TypeOK, FileOK
  <1>2. PICK i \in Rows : /\ ~Rejected(i) /\ i = database.contacts[c].line - 1
                          /\ database.contacts[c].phone = Normalize(RawPhone(file.lines[i].phone))
    BY StoredFromRows
  <1>3. /\ file.lines[i].phone \in Column /\ file.lines[i].phone \in SizedCell
        /\ file.lines[i].phone.filled # "spaces"
    BY <1>1, <1>2, LinesAreFilled, SpacesAreRejected DEF Column
  <1>4. \/ file.lines[i].phone.filled \notin {"number", "spaces"}
        \/ file.lines[i].phone.digits + file.lines[i].phone.marks > 0
    BY <1>1, <1>2, <1>3, LinesAreFilled, UploadAssumption DEF EmptyCell
  <1>5. file.lines[i].phone.filled \in {"number", "spaces", "empty"}
    BY <1>1, <1>2, LinesAreFilled DEF Cell
  <1> QED BY <1>2, <1>3, <1>4, <1>5, NumberMeant

THEOREM NumbersAreKept == Spec => []NumbersKept
  BY LoopIsAccounted, NumbersFromInv, PTL

-------------------------------------------------------------------------------
LEMMA NoRowIsSkipped ==
    ASSUME FileOK, ~Skipping
    PROVE  Rows = 1 .. Len(file.lines)
  <1>1. DOMAIN file.lines = 1 .. Len(file.lines) /\ \A i \in DOMAIN file.lines : file.lines[i] \in Line
    BY DEF FileOK
  <1>2. ASSUME file.format = "csv", NEW i \in DOMAIN file.lines PROVE ~file.lines[i].blank
    <2>1. file.lines[i] \in ToSet(file.lines)
      BY <1>2 DEF ToSet
    <2>2. file.lines[i] # EmptyLine
      BY <1>2, <2>1 DEF Skipping
    <2> QED BY <1>1, <1>2, <2>2 DEF Line
  <1> QED BY <1>1, <1>2 DEF Rows

LEMMA PlaceOfRow ==
    ASSUME FileOK, NEW i \in Rows
    PROVE  /\ ErrorHere(i) - 1 \in DOMAIN file.lines
           /\ ~Skipping => ErrorHere(i) = i + 1
  <1>1. /\ i \in 1 .. Len(file.lines) /\ Rows \subseteq 1 .. Len(file.lines)
        /\ Len(file.lines) \in Nat /\ DOMAIN file.lines = 1 .. Len(file.lines)
    BY RowsAreLines DEF FileOK
  <1>2. IsFiniteSet(1 .. (i - 1)) /\ Cardinality(1 .. (i - 1)) = i - 1
    <2>1. i - 1 \in Int /\ 1 \in Int /\ i - 1 >= 0
      BY <1>1
    <2>2. IsFiniteSet(1 .. (i - 1)) /\ Cardinality(1 .. (i - 1)) = IF 1 > i - 1 THEN 0 ELSE (i - 1) - 1 + 1
      BY <2>1, FS_Interval, Zenon
    <2> QED BY <2>1, <2>2
  <1>3. RowsAbove(i) \subseteq 1 .. (i - 1)
    <2>1. ASSUME NEW j \in Rows, j < i PROVE j \in 1 .. (i - 1)
      <3>1. j \in 1 .. Len(file.lines)
        BY <1>1
      <3> QED BY <1>1, <2>1, <3>1
    <2> QED BY <2>1 DEF RowsAbove
  <1>4. Cardinality(RowsAbove(i)) \in Nat /\ Cardinality(RowsAbove(i)) <= i - 1
    BY <1>2, <1>3, FS_Subset, FS_CardinalityType
  <1>5. ErrorHere(i) - 1 \in 1 .. Len(file.lines)
    BY <1>1, <1>4 DEF ErrorHere
  <1>6. ASSUME ~Skipping PROVE ErrorHere(i) = i + 1
    <2>1. Rows = 1 .. Len(file.lines)
      BY <1>6, NoRowIsSkipped
    <2>2. RowsAbove(i) = 1 .. (i - 1)
      BY <1>1, <2>1 DEF RowsAbove
    <2> QED BY <1>1, <1>2, <2>2 DEF ErrorHere
  <1> QED BY <1>1, <1>5, <1>6

LEMMA ErrorsFromInv == TypeOK /\ UploadInv => ErrorsFindTheirLine
  <1> SUFFICES ASSUME TypeOK, UploadInv, NEW e \in DOMAIN answer.errors
               PROVE  /\ answer.errors[e] - 1 \in DOMAIN file.lines
                      /\ ~Skipping =>
                            /\ \A c \in DOMAIN database.contacts : database.contacts[c].line # answer.errors[e]
                            /\ \/ file.lines[answer.errors[e] - 1].phone.filled = "spaces"
                               \/ file.lines[answer.errors[e] - 1].name = "spaces"
    BY DEF ErrorsFindTheirLine
  <1>1. FileOK /\ errors \in Seq(Nat)
    BY DEF TypeOK, FileOK
  <1>2. answer.errors = Report
    <2>1. answer.errors # <<>>
      OBVIOUS
    <2> QED BY <2>1 DEF UploadInv, AnswersAreTrue, None, Failed
  <1>3. e \in DOMAIN errors /\ answer.errors[e] = errors[e]
    BY <1>1, <1>2, ReportType
  <1>4. PICK i \in Rows : Rejected(i) /\ errors[e] = ErrorHere(i)
    BY <1>3 DEF UploadInv, LoopInv, ErrorsFromRows, RowsHandled
  <1>5. answer.errors[e] - 1 \in DOMAIN file.lines
    BY <1>1, <1>3, <1>4, PlaceOfRow
  <1>6. ASSUME ~Skipping
        PROVE  /\ \A c \in DOMAIN database.contacts : database.contacts[c].line # answer.errors[e]
               /\ \/ file.lines[answer.errors[e] - 1].phone.filled = "spaces"
                  \/ file.lines[answer.errors[e] - 1].name = "spaces"
    <2>1. i \in Nat /\ answer.errors[e] = i + 1 /\ answer.errors[e] - 1 = i
      BY <1>1, <1>3, <1>4, <1>6, PlaceOfRow, RowsAreLines
    <2>2. ASSUME NEW c \in DOMAIN database.contacts PROVE database.contacts[c].line # answer.errors[e]
      <3>1. PICK j \in Rows : ~Rejected(j) /\ j = database.contacts[c].line - 1
        BY <2>2, StoredFromRows
      <3> QED BY <1>4, <2>1, <3>1
    <2> QED BY <1>1, <1>4, <2>1, <2>2, SpacesAreRejected
  <1> QED BY <1>5, <1>6

(***************************************************************************)
(* Errors point at their line (upload.py 119, 127, 152), for any list: the *)
(* row an error names is the line to correct, one that was not stored,     *)
(* unless read_csv has skipped an empty line.                              *)
(***************************************************************************)
THEOREM ErrorsAreFound == Spec => []ErrorsFindTheirLine
  BY LoopIsAccounted, ErrorsFromInv, PTL
================================================================================
