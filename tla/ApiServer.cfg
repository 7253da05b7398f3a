SPECIFICATION Spec
CONSTANTS
    None = None
    NewLine = NewLine
    Clients = {c1, c2}
    Queries = {getPos}
    Quiet = {setPos}
    Unparsed = {garbage}
    Backlog = 1
    SendCapacity = 1
    MaxLines <- MCMaxLines
    MaxStarts = 2
    Patient = {c2}
    CloseWakesAccept = TRUE
CHECK_DEADLOCK FALSE
INVARIANTS
    StoppedLeavesNothing
PROPERTIES
    SilentAfterStop
    ImplementsCommandService
    StopReturns
    QueriesAnswered
