SPECIFICATION Spec
CONSTANTS
    t1 = t1
    t2 = t2
    f1 = f1
    Proc <- OneProc
    Formatter <- NoFormatters
    NumPaths = 2
    Content <- SoundContents
    Empty = "empty"
    Printed <- MCPrinted
    Loads <- MCLoads
    Crashes = TRUE
    Hands = FALSE
    Absent = Absent
    Unread = Unread
    Unreadable = Unreadable
    Untouched = Untouched
    NoOne = NoOne
INVARIANT
    BrokenOnlyByHand
