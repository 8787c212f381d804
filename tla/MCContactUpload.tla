-------------------------- MODULE MCContactUpload --------------------------
EXTENDS ContactUpload

Digit(plus, zeros, digits, marks) ==
    [filled |-> "number", plus |-> plus, zeros |-> zeros, digits |-> digits, marks |-> marks]

\* 4165550123, 0612345678, +14165550123, +6512345678, +1 416-555-0123, a number
\* with an extension that does not fit, an empty cell and a cell of spaces.
SomePhones == {Digit(FALSE, 0, 10, 0), Digit(FALSE, 1, 10, 0), Digit(TRUE, 0, 11, 0),
               Digit(TRUE, 0, 10, 0), Digit(TRUE, 0, 11, 3), Digit(TRUE, 0, 15, 6),
               EmptyCell, [EmptyCell EXCEPT !.filled = "spaces"]}
=============================================================================
