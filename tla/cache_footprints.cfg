SPECIFICATION Spec
CONSTANTS
    r1 = r1
    r2 = r2
    Run <- TwoRuns
    NumParts = 2
    Bytes <- Letters
    NumFiles = 0
    Shots <- Surveys
    LinkSets <- NoLinks
    Cited <- NoLinks
    Against <- OneAgainst
    MaxMisplaced = 1
    Kinds <- OnlyFootprints
    Derives <- MCDerives
    Sound <- MCSound
    Enough <- MCEnough
    Unread = Unread
    Unreadable = Unreadable
    Unknown = Unknown
    Missing = Missing
    Nil = Nil
    NoEntry = NoEntry
    Damaged = Damaged
    None = None
SYMMETRY Symmetry
INVARIANTS
    EntriesAreSound
    AnswersAreDerived
