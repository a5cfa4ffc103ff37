SPECIFICATION Spec
CONSTANTS
    Names <- ClaimNames
    NoId <- None
    Models <- Chains
    Questions <- MCQuestions
    Strict <- MCStrict
    Figures = {1, 2}
    Units = {"mm", "ft"}
    Dates = {1, 2}
    Unrankable <- None
    MaxClaims = 3
    Run <- MCRun
    NumFiles = 1
    Bytes = {1, 2}
    Drawings <- MCDrawings
    Out = Out
    Nothing = Nothing
    Point = {0, 1, 2, 10, 20}
    NoPoint = 99
    Gap <- MCGap
    Tolerance = 1
    Rooms <- MCRooms
    Plans <- MCPlans
    ChosenIds = {2}
    MaxBatches = 2
    MaxOperations = 3
    Files = 2
    Comment = Comment
    Records <- MCRecords
    NoRecord <- None
    MaxLines = 2
    Nodes = {"n"}
    Vertices = {"v", "w", "x"}
    Predicates = {"position"}
    Prints = {1, 2}
    Values = {1, 2}
    ReviewIds = {"a", "b"}
    NoReviewId <- None
    Policies <- MCPolicies
    Surveyable = {"v", "x"}
    Revisions <- MCRevisions
    MaxStated = 3
    MaxEdits = 3
    Claim <- FitClaims
    Terms <- FitTerms
    Sources = {"base"}
    NoSource <- None
    Unit = {"mm", "ft"}
    Magnitudes = {0, 1, 2, 3}
    Frame <- FrameIds
    Undeclared = "undeclared"
    NoFrame <- None
    NoClaim <- None
    Transforms = {"p", "q", "r", "u"}
    Registries <- MCRegistries
    Fits <- MCFits
    VertexIds <- MCVertexIds
    NoVertexId = 0
    EdgeIds <- MCEdgeIds
    Loops <- SmallLoops
    Line = {"x", "y"}
    MaxTextLines = 5
    MaxDiffDepth = 4
    DiffContext = 1
    p1 = p1
    p2 = p2
INVARIANTS
    TypeOK
    EveryCycleIsReported
    CurrentIsWhereItLeads
    LoadedClaimsHaveACurrent
    HistoryIsWhatLedHere
    TheBestAnswers
    EveryDisputeIsRegistered
    RoutesPassWhatDiffers
    ErrorsCountOnce
    AssembledIsARing
    WallsAreShared
    ScriptsAreShortest
    PatchesApply
    OrdinaryWorkOnlySilences
    AppendsAreLegal
    ArtefactsAreOfTheirTree
PROPERTIES
    WalksEnd
    AnswersChangeForCause
    MergesLoseNothing
    EvidenceStands
CHECK_DEADLOCK FALSE
