SPECIFICATION Spec
CONSTANTS
    r1 = r1
    r2 = r2
    Run <- OneRun
    NumParts = 1
    Bytes <- Letters
    NumFiles = 2
    Shots <- Surveys
    LinkSets <- SharedLinks
    Cited <- NoLinks
    Against <- NoAgainst
    MaxMisplaced = 1
    Kinds <- OnlyFootprints
    Derives <- MCDerives
    Sound <- MCSound
    Enough <- MCEnough
    Unread = Unread
    Unreadable = Unreadable
    Unknown = Unknown
    Missing = Missing
    Nil = Nil
    NoEntry = NoEntry
    Damaged = Damaged
    None = None
INVARIANTS
    UnreadFilesAreReported
