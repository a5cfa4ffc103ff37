SPECIFICATION Spec
CONSTANTS
    r1 = r1
    r2 = r2
    Run <- OneRun
    NumParts = 1
    Bytes <- Letters
    NumFiles = 1
    Shots <- Surveys
    LinkSets <- NoLinks
    Cited <- NoLinks
    Against <- OneAgainst
    MaxMisplaced = 1
    Kinds <- BothKinds
    Derives <- MCDerives
    Sound <- MCSound
    Enough <- MCEnough
    Unread = Unread
    Unreadable = Unreadable
    Unknown = Unknown
    Missing = Missing
    Nil = Nil
    NoEntry = NoEntry
    Damaged = Damaged
    None = None
PROPERTIES
    SurfacesAreFresh
