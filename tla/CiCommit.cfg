SPECIFICATION Spec
CONSTANTS
    wa = wa
    wb = wb
    None = None
    Workflow = {wa, wb}
    Attempt <- Attempts
    Foreign <- PullRequest
    Conclusion = {"success", "failure", "neutral"}
INVARIANTS
    TypeOK
    OrderIndependent
    LastWordIsRight
