SPECIFICATION Spec

CONSTANTS
    Names <- mcNames
    Components <- mcComponents
    Commands = {"serve", "start"}
    Secrets = {"token"}
    Layouts <- mcLayouts
    Target = "production"
    Topologies <- mcTrees
    MaxCommands = 3
    MaxFiles = 1
    MaxEdits = 1
    MaxCrashes = 1

INVARIANTS
    TypeOK
    RenderedOnlyAnswered
    
    BlockedNeverRendered
    AnswersResolveHolds
    WaitingRunAsks

\* The user stops typing commands.
CHECK_DEADLOCK FALSE
