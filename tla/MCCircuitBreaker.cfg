SPECIFICATION FairSpec
CONSTANTS
    epochLoop = epochLoop
    operator = operator
    Runner = Runner
    NotTripped = NotTripped
    Callers <- MCCallers
    Deployments <- MCDeployments
    Outcomes <- MCOutcomes
    Cooldown = 2
INVARIANTS
    CoherentUnlessOverlapped
    SingleEvaluatorNeverOverlaps
PROPERTIES
    CooldownRespected
    AutoResetsSingle
