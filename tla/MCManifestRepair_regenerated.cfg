SPECIFICATION Spec

CONSTANTS
    Components <- mcComponents
    Ports <- mcPorts
    Profiles <- mcProfiles
    max_attempts = 3
    MaxCommands = 3
    MaxEdits = 0
    MaxRetouches = 0
    MaxCrashes = 0

INVARIANTS
    SameProfileSameBundle

\* The user stops typing commands.
CHECK_DEADLOCK FALSE
