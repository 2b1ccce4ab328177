SPECIFICATION Spec
CHECK_DEADLOCK FALSE
CONSTANTS
    MaxName = 2
    Backends = {"sqlite", "postgres", "mysql"}
    Models <- SwapModels
    DecisionsFor <- SwapChoices
INVARIANT PermutationsExecute
