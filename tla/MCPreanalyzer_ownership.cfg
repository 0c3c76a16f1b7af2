SPECIFICATION Spec
CHECK_DEADLOCK FALSE
CONSTANTS
    None = None
    Services <- MCServices
    Ids <- MCIds
    SecretNames <- MCSecretNames
    ScriptPaths <- MCScriptPaths
    VariableTokens <- MCVariableTokens
    AgentCommands <- MCAgentCommands
    Trees <- MCTrees
    Profiles <- MCProfiles
INVARIANT ImageOnlyResolvesNothing
