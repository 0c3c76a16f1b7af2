SPECIFICATION Spec

CONSTANTS
    Files = {"main", "util"}
    Commands <- mcCommands
    NoCommand = 0
    Facts = {"stated", "foreign"}
    TaskFacts = {"stated"}
    FactCommand <- mcFactCommand
    CandidateIds = {"a", "b"}
    NoCandidate = "none"
    Tools = {"read"}
    AllowedTools = {"read"}
    Proposals <- mcProposals
    MaxCandidates = 2
    DistinctIds = TRUE
    ResultLines = {0, 1}
    MaxEdits = 1
    TransportRetries = 0
    MaxAgentTurns = 3
    MaxToolCalls = 3
    MaxDistinctTools = 1
    MaxFilesRead = 2
    MaxSourceLines = 4
    MaxSchemaRetries = 1

INVARIANTS
    TakenCommandsVerified
    AmbiguityNeverResolved

PROPERTIES
    ImplementsResolver

\* A run of the agent ends.
CHECK_DEADLOCK FALSE
