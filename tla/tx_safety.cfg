SPECIFICATION Spec
CONSTANTS
    t1 = t1
    t2 = t2
    f1 = f1
    Proc <- Procs
    Formatter <- NoFormatters
    NumPaths = 3
    Content <- Contents
    Empty = "empty"
    Printed <- MCPrinted
    Loads <- MCLoads
    Crashes = TRUE
    Hands = TRUE
    Absent = Absent
    Unread = Unread
    Unreadable = Unreadable
    Untouched = Untouched
    NoOne = NoOne
    NoIntent = NoIntent
SYMMETRY Symmetry
INVARIANTS
    TypeOK
    OneWriter
    OutcomeIsTrue
    TreeLoads
PROPERTIES
    NoLostUpdate
    BrokenTreeLeftAlone
    WritesAreAtomic
