SPECIFICATION FairSpec
CONSTANTS
    epochLoop = epochLoop
    operator = operator
    Runner = Runner
    NotTripped = NotTripped
    Callers <- MCCallers
    Deployments <- ManualDeployments
    Outcomes <- MCOutcomes
    Cooldown = 2
PROPERTIES
    AutoResets
