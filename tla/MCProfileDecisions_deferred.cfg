SPECIFICATION Spec

CONSTANTS
    Names <- mcNames
    Components <- mcComponents
    Commands = {"serve", "start"}
    Secrets = {"token"}
    Layouts <- mcLayouts
    Target = "production"
    Topologies <- mcTorn
    MaxCommands = 2
    MaxFiles = 1
    MaxEdits = 0
    MaxCrashes = 0

INVARIANT
    DeferredNotRendered

\* The user stops typing commands.
CHECK_DEADLOCK FALSE
