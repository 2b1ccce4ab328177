SPECIFICATION Spec
CHECK_DEADLOCK FALSE
CONSTANTS
    MaxName = 2
    Backends = {"sqlite", "postgres", "mysql"}
    Models <- AllModels
    DecisionsFor <- AllChoices
INVARIANTS
    ScriptsExecute
    MigratedAsDeclared
    NothingLostSilently
    RoundTrip
