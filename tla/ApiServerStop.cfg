SPECIFICATION Spec
CONSTANTS
    None = None
    NewLine = NewLine
    Clients = {c1}
    Queries = {getPos}
    Quiet = {}
    Unparsed = {}
    Backlog = 1
    SendCapacity = 1
    MaxLines <- MCMaxLines
    MaxStarts = 1
    Patient = {}
    CloseWakesAccept = FALSE
CHECK_DEADLOCK FALSE
PROPERTY
    StopReturns
