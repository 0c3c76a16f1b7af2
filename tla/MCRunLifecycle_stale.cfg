SPECIFICATION Spec
CONSTANTS
    creator = creator
    resumeA = resumeA
    resumeB = resumeB
    nobody = nobody
    Procs <- MCThreeProcs
    Creator <- creator
    Nobody <- nobody
    Commands <- MCReplanCommands
    Versions <- MCTwoVersions
    NoVersion <- MCNoVersion
    Concurrent = FALSE
    EditsWhileRunning = FALSE
    MaxEdits = 1
    MaxUpgrades = 0
    MaxCrashes = 1
    MaxInterrupts = 0
INVARIANTS
    ResumedAnalysisMatchesSource
CHECK_DEADLOCK FALSE
