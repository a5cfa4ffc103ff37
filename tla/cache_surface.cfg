SPECIFICATION FairSpec
CONSTANTS
    r1 = r1
    r2 = r2
    Run <- OneRun
    NumParts = 1
    Bytes <- OneLetter
    NumFiles = 2
    Shots <- Surveys
    LinkSets <- LinkedBoth
    Cited <- CitedOne
    Against <- OneAgainst
    MaxMisplaced = 0
    Kinds <- BothKinds
    Derives <- MCDerives
    Sound <- MCSound
    Enough <- MCEnough
    Unread = Unread
    Unreadable = Unreadable
    Unknown = Unknown
    Missing = Missing
    Nil = Nil
    NoEntry = NoEntry
    Damaged = Damaged
    None = None
INVARIANTS
    TypeOK
    OneReadPerFile
PROPERTIES
    QuestionsAreAnswered
