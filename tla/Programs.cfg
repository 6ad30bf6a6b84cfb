\* btest with four values around each corner, or on arguments given for one puzzle;
\* the searches on the ranges they have in the code.
SPECIFICATION Spec
CONSTANTS
    W = 32
    TestRange <- TestRanges
    Randoms <- RandomWords
    UserArgs <- UserWords
    NoArg = NoArg
    MaxAlarms = 1
    Plain <- PlainWords
    Quoted <- QuotedWords
    MaxArgs = 3
    HalfWord = 8
    TickCycles = 7
    Durations = {3, 5}
    Overheads = {1}
    MaxTicks = 2
    MaxWait = 24
    MaxTime = 1
    NEVENT = 2
    THRESHOLD = 5
    RECORDTHRESH = 6
    K = 2
    MAXSAMPLES = 3
INVARIANTS
    WrongExactlyOnFloats
    VerdictsAreOwn
    AnswersPrinted
    ArgumentsComeBack
    ReportsTheFastest
CHECK_DEADLOCK FALSE
