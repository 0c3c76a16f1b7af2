SPECIFICATION Spec
CHECK_DEADLOCK FALSE
CONSTANTS
    None = None
    Services <- MCServices
    Ids <- MCIds
    SecretNames <- MCSecretNames
    ScriptPaths <- MCScriptPaths
    VariableTokens <- MCVariableTokens
    AgentCommands <- MCAgentCommands
    Trees <- MCTrees
    Profiles <- MCProfiles
INVARIANTS
    TypeOK
    ResolvedIsStated
    CyclesAreReal
    DockerfileCommandsAreKept
    ImageOnlyOwnsNothing
    MergedPortsSurvive
    RaisesOnlyOnRepeatedService
    TopologyAgrees
    DeterministicWins
    GapsAreRestatements
    IngressBacked
    ReadyIsRendered
