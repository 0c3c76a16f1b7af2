SPECIFICATION FairSpec

CONSTANTS
    Files = {"main", "util"}
    Commands <- mcCommands
    NoCommand = 0
    Facts = {"stated", "foreign"}
    TaskFacts = {"stated"}
    FactCommand <- mcFactCommand
    CandidateIds = {"a", "b"}
    NoCandidate = "none"
    Tools = {"search", "read", "shell"}
    AllowedTools = {"search", "read"}
    Proposals <- mcRepeatedIds
    MaxCandidates = 2
    DistinctIds = FALSE
    ResultLines = {0, 1, 2}
    MaxEdits = 0
    TransportRetries = 1
    MaxAgentTurns = 6
    MaxToolCalls = 3
    MaxDistinctTools = 1
    MaxFilesRead = 1
    MaxSourceLines = 2
    MaxSchemaRetries = 1

INVARIANTS
    TypeOK
    AskedWithinBudget
    RaisesOnlyOnRepeatedIds

PROPERTIES
    RunEnds

\* A run of the agent ends.
CHECK_DEADLOCK FALSE
