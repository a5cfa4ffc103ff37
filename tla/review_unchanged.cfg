SPECIFICATION ReviewSpec
CONSTANTS
    Nodes <- MCNodes
    Vertices <- MCVertices
    Predicates <- MCPredicates
    Prints = {1, 2}
    Values = {1, 2}
    ReviewIds <- MCNames
    NoReviewId <- NoneWritten
    Policies <- MCPolicies
    Surveyable <- MCVertices
    Revisions <- MCRevisions
    MaxStated = 3
    MaxEdits = 2
INVARIANTS
    UnchangedIsSilent
CHECK_DEADLOCK FALSE
