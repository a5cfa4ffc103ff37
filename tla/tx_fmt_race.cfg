SPECIFICATION Spec
CONSTANTS
    t1 = t1
    t2 = t2
    f1 = f1
    Proc <- Procs
    Formatter <- Formatters
    NumPaths = 2
    Content <- SoundContents
    Empty = "empty"
    Printed <- MCPrinted
    Loads <- MCLoads
    Crashes = FALSE
    Hands = FALSE
    Absent = Absent
    Unread = Unread
    Unreadable = Unreadable
    Untouched = Untouched
    NoOne = NoOne
INVARIANT
    FormattersBreakNothing
