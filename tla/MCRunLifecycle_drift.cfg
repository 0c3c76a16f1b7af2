SPECIFICATION Spec
CONSTANTS
    creator = creator
    resumeA = resumeA
    resumeB = resumeB
    nobody = nobody
    Procs <- MCThreeProcs
    Creator <- creator
    Nobody <- nobody
    Commands <- MCAllCommands
    Versions <- MCTwoVersions
    NoVersion <- MCNoVersion
    Concurrent = FALSE
    EditsWhileRunning = FALSE
    MaxEdits = 2
    MaxUpgrades = 1
    MaxCrashes = 0
    MaxInterrupts = 0
INVARIANTS
    ReadyManifestsMatchSource
CHECK_DEADLOCK FALSE
