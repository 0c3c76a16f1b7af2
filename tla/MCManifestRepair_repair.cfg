SPECIFICATION Spec

CONSTANTS
    Components <- mcComponents
    Ports <- mcPorts
    Profiles <- mcProfiles
    max_attempts = 3
    MaxCommands = 3
    MaxEdits = 1
    MaxRetouches = 1
    MaxCrashes = 1

INVARIANTS
    TypeOK
    RepairBounded
    RenderedFilesStand

PROPERTIES
    ReadyIsVerified
    CommandEnds

\* The user stops typing commands.
CHECK_DEADLOCK FALSE
