\* Lines around the limits of the numbers and answers that begin where a
\* choice ends; the user may be one line ahead.
SPECIFICATION FairSpec
CONSTANTS
    MaxUint = 15
    MaxInt = 12
    Others <- MCOthers
    TypedLines <- MCTypedLines
    Stores <- MCStores
    MaxAhead = 1
INVARIANTS
    TypeOK
    RequestsAreTyped
    NumbersAreExact
    AnswersAreShown
    CommandLineInv
PROPERTIES
    TypedLinesAreRead
