--------------------------- MODULE ContactUpload ---------------------------
(***************************************************************************)
(* One upload of a contact list: POST /upload of api/routes/upload.py with *)
(* validate_upload of api/security.py, from the file a client sends to the *)
(* rows that are committed and the answer the client gets.                 *)
(*                                                                         *)
(* A phone number is described by what decides how it is read: whether it  *)
(* is written with a plus, how many digits it has, how many of them are    *)
(* zeros in front, how many other characters.  pandas types a column as a  *)
(* whole, so the text a row yields depends on the other rows of the file.  *)
(***************************************************************************)
EXTENDS Integers, SequencesExt, FiniteSets

CONSTANTS
    Phones,       \* the phone cells a file may hold
    MaxLines,     \* bound on the lines of a file below its header
    MaxContacts,  \* MAX_CONTACTS_PER_UPLOAD
    ErrorCap,     \* errors[:20]
    MaxPhone,     \* Contact.phone is a String(20)
    Strict        \* does the database enforce that?  See Storable.

Cell == [filled : {"number", "empty", "spaces"}, plus : BOOLEAN,
         zeros : Nat, digits : Nat, marks : Nat]

\* A number has at most the fifteen digits of E.164: pandas reads as many
\* exactly, and writes them without an exponent.
ASSUME UploadAssumption ==
    /\ Phones \subseteq Cell
    /\ \A cell \in Phones : cell.filled = "number" => cell.digits + cell.marks > 0
    /\ \A cell \in Phones : cell.zeros <= cell.digits /\ cell.digits <= 15
    /\ Strict \in BOOLEAN
    /\ {MaxLines, MaxContacts, ErrorCap, MaxPhone} \subseteq Nat

VARIABLES
    file,      \* what the client sends
    phase,     \* how far the request is
    line,      \* the last line of the file the loop has handled
    contacts,  \* the contacts added to the session
    errors,    \* the errors collected
    database,  \* the campaign and the contacts that are committed
    answer     \* what the client is told

session == <<line, contacts, errors>>
vars == <<file, phase, session, database, answer>>

Failed(code) == [status |-> code, created |-> 0, errors |-> <<>>]
None == Failed(0)   \* no answer yet
NoCampaign == [total |-> 0, contacts |-> <<>>, there |-> FALSE]

(***************************************************************************)
(* The checks, in the order in which they refuse a file.                   *)
(***************************************************************************)
Refusals == <<[fault |-> "extension",  status |-> 400],
              [fault |-> "too_large",  status |-> 413],
              [fault |-> "no_content", status |-> 400],
              [fault |-> "no_name",    status |-> 422],
              [fault |-> "task_type",  status |-> 422],
              [fault |-> "unreadable", status |-> 400],
              [fault |-> "too_many",   status |-> 413],
              [fault |-> "header",     status |-> 500],
              [fault |-> "columns",    status |-> 422]>>

Fault == {Refusals[i].fault : i \in DOMAIN Refusals}

Name == {"given", "empty", "spaces"}
EmptyCell == [filled |-> "empty", plus |-> FALSE, zeros |-> 0, digits |-> 0, marks |-> 0]
EmptyLine == [phone |-> EmptyCell, name |-> "empty", blank |-> TRUE]
Line == [phone : Phones, name : Name, blank : {FALSE}] \cup {EmptyLine}

(***************************************************************************)
(* The lines that are rows of the table pandas makes of the file: read_csv *)
(* skips the empty ones, read_excel does not.                              *)
(***************************************************************************)
Rows == {i \in DOMAIN file.lines : ~(file.format = "csv" /\ file.lines[i].blank)}

Column == {file.lines[i].phone : i \in Rows}

(***************************************************************************)
(* A column that holds nothing but digits, with or without a plus, becomes *)
(* a column of integers, and one of floats when a cell of it is empty.     *)
(***************************************************************************)
Numeric == \A cell \in Column : cell.filled = "empty" \/ (cell.filled = "number" /\ cell.marks = 0)
HasGap == \E cell \in Column : cell.filled = "empty"

(***************************************************************************)
(* str(row.get("phone", "")).strip(): an empty cell is the float nan, its  *)
(* text the three letters nan; a number of a float column ends in .0, one  *)
(* more digit; a number has lost its plus and the zeros in front, save the *)
(* zero that is nothing else.  No country is added yet.                    *)
(***************************************************************************)
Text(plus, digits, marks, zero) ==
    [plus |-> plus, digits |-> digits, marks |-> marks, zero |-> zero, country |-> FALSE]

Significant(cell) == IF cell.zeros = cell.digits THEN 1 ELSE cell.digits - cell.zeros

RawPhone(cell) ==
    CASE cell.filled = "spaces" -> Text(FALSE, 0, 0, FALSE)
      [] cell.filled = "empty"  -> Text(FALSE, 0, 3, FALSE)
      [] cell.filled = "number" /\ ~Numeric -> Text(cell.plus, cell.digits, cell.marks, FALSE)
      [] cell.filled = "number" /\ Numeric /\ ~HasGap -> Text(FALSE, Significant(cell), 0, FALSE)
      [] cell.filled = "number" /\ Numeric /\ HasGap -> Text(FALSE, Significant(cell), 1, TRUE)

Digits(text) == text.digits + (IF text.zero THEN 1 ELSE 0)

Width(text) == Digits(text) + text.marks + (IF text.plus THEN 1 ELSE 0)
                            + (IF text.country THEN 1 ELSE 0)

\* A plus, the country if it is added, and the digits alone.
Number(digits, zero, country) ==
    [plus |-> TRUE, digits |-> digits, marks |-> 0, zero |-> zero, country |-> country]

\* Mutant of Normalize: a national number is stored without its country.
NormalizeWithoutCountry(text) ==
    IF ~text.plus THEN Number(text.digits, text.zero, FALSE) ELSE text

(***************************************************************************)
(* _normalize_phone: ten digits get +1, a text without a plus gets one, and *)
(* a text with a plus stays as it is, other characters included.           *)
(***************************************************************************)
Normalize(text) ==
    IF Digits(text) = 10
    THEN Number(text.digits, text.zero, TRUE)
    ELSE IF ~text.plus
         THEN Number(text.digits, text.zero, FALSE)
         ELSE text

(***************************************************************************)
(* A file the client may send, with at most one fault; the number of its   *)
(* rows is a fault of its own.  Empty lines at its end are no lines.       *)
(***************************************************************************)
Init ==
    /\ file \in [lines : BoundedSeq(Line, MaxLines), format : {"csv", "excel"},
                 fault : {"none"} \cup (Fault \ {"too_many"})]
    /\ file.fault # "none" => Len(file.lines) <= 1
    /\ file.lines # <<>> => ~Last(file.lines).blank
    /\ phase = "validating"
    /\ line = 0 /\ contacts = <<>> /\ errors = <<>>
    /\ database = NoCampaign
    /\ answer = None

TooMany == Cardinality(Rows) > MaxContacts

Fails(check) == check.fault = file.fault \/ (check.fault = "too_many" /\ TooMany)

Accepted == \A i \in DOMAIN Refusals : ~Fails(Refusals[i])

(***************************************************************************)
(* A file that fails a check is refused by the first one it fails.         *)
(***************************************************************************)
Refuse ==
    /\ phase = "validating"
    /\ \E i \in DOMAIN Refusals :
          /\ Fails(Refusals[i])
          /\ \A j \in DOMAIN Refusals : j < i => ~Fails(Refusals[j])
          /\ answer' = Failed(Refusals[i].status)
    /\ phase' = "answered"
    /\ UNCHANGED <<file, session, database>>

(***************************************************************************)
(* The campaign is added and flushed: nobody else sees it before commit.   *)
(***************************************************************************)
FlushCampaign ==
    /\ phase = "validating"
    /\ Accepted
    /\ phase' = "reading"
    /\ UNCHANGED <<file, session, database, answer>>

(***************************************************************************)
(* The loop takes the rows in their order.                                 *)
(***************************************************************************)
IsNext(i) == line < i /\ \A j \in Rows : line < j => i <= j

AllHandled == \A i \in Rows : i <= line

RowsAbove(i) == {j \in Rows : j < i}

\* Mutant of ErrorHere: the line is counted from the first row of the table.
ErrorHereFromFirst(i) == Cardinality(RowsAbove(i)) + 1

ErrorHere(i) == Cardinality(RowsAbove(i)) + 2   \* idx counts the rows of the table from 0

Rejected(i) == \/ Width(RawPhone(file.lines[i].phone)) = 0
               \/ file.lines[i].name = "spaces"

Contact(i) == [line |-> i + 1, phone |-> Normalize(RawPhone(file.lines[i].phone)),
               name |-> file.lines[i].name]

\* Mutant of RejectRow: a missing "continue".
RejectRowAndAdd(i) ==
    /\ phase = "reading" /\ IsNext(i)
    /\ Rejected(i)
    /\ errors' = Append(errors, ErrorHere(i))
    /\ contacts' = Append(contacts, Contact(i))
    /\ line' = i
    /\ UNCHANGED <<file, phase, database, answer>>

RejectRow(i) ==
    /\ phase = "reading" /\ IsNext(i)
    /\ Rejected(i)
    /\ errors' = Append(errors, ErrorHere(i))
    /\ line' = i
    /\ UNCHANGED <<file, phase, contacts, database, answer>>

AddRow(i) ==
    /\ phase = "reading" /\ IsNext(i)
    /\ ~Rejected(i)
    /\ contacts' = Append(contacts, Contact(i))
    /\ line' = i
    /\ UNCHANGED <<file, phase, errors, database, answer>>

(***************************************************************************)
(* PostgreSQL, which .env.example names for production, refuses a number   *)
(* wider than its column; SQLite, the default of config/settings.py, does  *)
(* not and stores it whole.                                                *)
(***************************************************************************)
Storable(contact) == Strict => Width(contact.phone) <= MaxPhone

(***************************************************************************)
(* One commit for the campaign and all its contacts.                       *)
(***************************************************************************)
Commit ==
    /\ phase = "reading" /\ AllHandled
    /\ \A i \in DOMAIN contacts : Storable(contacts[i])
    /\ database' = [total |-> Cardinality(Rows), contacts |-> contacts, there |-> TRUE]
    /\ phase' = "committed"
    /\ UNCHANGED <<file, session, answer>>

Report == SubSeq(errors, 1, IF Len(errors) < ErrorCap THEN Len(errors) ELSE ErrorCap)

Respond ==
    /\ phase = "committed"
    /\ answer' = [status |-> 200, created |-> Len(contacts), errors |-> Report]
    /\ phase' = "answered"
    /\ UNCHANGED <<file, session, database>>

(***************************************************************************)
(* get_db: the database refuses the flush or the commit, the session is    *)
(* rolled back and the client is told of a server error.  A number that is *)
(* not Storable makes the commit fail for every row.                       *)
(***************************************************************************)
RollBack ==
    /\ \/ phase = "validating" /\ Accepted
       \/ phase = "reading" /\ AllHandled
    /\ answer' = Failed(500)
    /\ phase' = "answered"
    /\ UNCHANGED <<file, session, database>>

(***************************************************************************)
(* The process dies: an open transaction is gone, a committed one is not.  *)
(***************************************************************************)
Crash ==
    /\ phase \in {"validating", "reading", "committed"}
    /\ phase' = "dead"
    /\ UNCHANGED <<file, session, database, answer>>

Next ==
    \/ Refuse \/ FlushCampaign \/ Commit \/ Respond \/ RollBack \/ Crash
    \/ \E i \in Rows : RejectRow(i) \/ AddRow(i)

Spec == Init /\ [][Next]_vars

-----------------------------------------------------------------------------

Phone == [plus : BOOLEAN, digits : Nat, marks : Nat, zero : BOOLEAN, country : BOOLEAN]
Contacts == Seq([line : Nat, phone : Phone, name : Name])

(***************************************************************************)
(* Every variable has its type.  That a stored number fits its column is   *)
(* no part of it: the default database stores wider ones, see Storable.    *)
(***************************************************************************)
TypeOK ==
    /\ file \in [lines : Seq(Line), format : {"csv", "excel"}, fault : {"none"} \cup Fault]
    /\ phase \in {"validating", "reading", "committed", "answered", "dead"}
    /\ line \in 0 .. Len(file.lines)
    /\ contacts \in Contacts /\ errors \in Seq(Nat)
    /\ database \in [total : Nat, contacts : Contacts, there : BOOLEAN]
    /\ answer \in [status : {0, 200, 400, 413, 422, 500}, created : Nat, errors : Seq(Nat)]

(***************************************************************************)
(* All of the list or nothing (upload.py 108-163, get_db): an upload that  *)
(* is answered with an error has left nothing behind, whichever check, row *)
(* or write failed; one that is answered with success has stored the       *)
(* contacts it counts, in the order of the file, and every row it has not  *)
(* stored is an error, reported as far as the cap allows.  A crash leaves   *)
(* the whole list or none of it.                                           *)
(***************************************************************************)
AllOrNothing ==
    /\ database.there => Len(database.contacts) + Len(errors) = database.total
    /\ ~database.there => database = NoCampaign
    /\ answer.status \in {400, 413, 422, 500} => database = NoCampaign
    /\ answer.status = 200 =>
          /\ database.there /\ Len(database.contacts) = answer.created
          /\ answer.created <= database.total
          /\ \/ answer.created + Len(answer.errors) = database.total
             \/ Len(answer.errors) = ErrorCap
    /\ \A i, j \in DOMAIN database.contacts :
          i < j => database.contacts[i].line < database.contacts[j].line

(***************************************************************************)
(* The number a cell stands for: ten digits without a plus are a North     *)
(* American number, everything else names its country.                     *)
(***************************************************************************)
Meant(cell) == Number(cell.digits, FALSE, ~cell.plus /\ cell.digits = 10)

(***************************************************************************)
(* Numbers are kept (_normalize_phone and the text pandas hands it): the   *)
(* number a contact is called at is the one its line was written with,     *)
(* save for the four ways of writing a list that the code misreads: a      *)
(* column of bare numbers with an empty cell, zeros in front of a number   *)
(* of such a column, a plus in front of ten digits, a plus in front of a   *)
(* number with other characters in it.                                     *)
(***************************************************************************)
Misread(cell) == cell.plus /\ (cell.digits = 10 \/ cell.marks > 0)

NumbersKept ==
    \A i \in DOMAIN database.contacts :
        LET contact == database.contacts[i]
            cell == file.lines[contact.line - 1].phone
        IN  \/ contact.phone = Meant(cell)
            \/ cell.filled = "empty"
            \/ Misread(cell)
            \/ Numeric /\ (HasGap \/ cell.zeros > 0)

(***************************************************************************)
(* Errors point at their line (upload.py 119, 127, 152): the row an error  *)
(* names is the line of the file to correct, one that was not stored,      *)
(* unless read_csv has skipped an empty line above it.                     *)
(***************************************************************************)
Skipping == file.format = "csv" /\ EmptyLine \in ToSet(file.lines)

ErrorsFindTheirLine ==
    \A i \in DOMAIN answer.errors :
        LET told == answer.errors[i]
        IN  /\ told - 1 \in DOMAIN file.lines
            /\ ~Skipping =>
                  /\ \A c \in DOMAIN database.contacts : database.contacts[c].line # told
                  /\ \/ file.lines[told - 1].phone.filled = "spaces"
                     \/ file.lines[told - 1].name = "spaces"
=============================================================================
