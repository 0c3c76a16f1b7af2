SPECIFICATION FairSpec
CONSTANTS
    creator = creator
    resumeA = resumeA
    resumeB = resumeB
    nobody = nobody
    Procs <- MCTwoProcs
    Creator <- creator
    Nobody <- nobody
    Commands <- MCCommands
    Versions <- MCOneVersion
    NoVersion <- MCNoVersion
    Concurrent = TRUE
    EditsWhileRunning = FALSE
    MaxEdits = 0
    MaxUpgrades = 0
    MaxCrashes = 1
    MaxInterrupts = 1
INVARIANTS
    TypeOK
    LockProtectsTransition
    LogMatchesRecord
    ReportedStateStands
PROPERTIES
    ImplementsStateMachine
    AnalyzingEnds
CHECK_DEADLOCK FALSE
