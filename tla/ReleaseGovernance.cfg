SPECIFICATION Spec
CONSTANTS
    x = x
    y = y
    a1 = a1
    a2 = a2
    a3 = a3
    c1 = c1
    c2 = c2
    p1 = p1
    Builds <- MCBuilds
    Approvals <- MCApprovals
    Deployments <- MCDeployments
    Specs <- MCSpecs
    Controllers = {k1, k2}
    TTL = 2
    LockWait = 1
    MaxRenewals = 2
    MaxTime = 3
    Policy <- MCPolicy
    TestnetObservations <- MCTestnetObservations
    CanaryObservations <- MCCanaryObservations
INVARIANTS TypeOK ChainIsLinear ProductionContinuesCanary AdmittedWasRehearsed
PROPERTIES AuthorityNeverReturns
CHECK_DEADLOCK FALSE
SYMMETRY ControllersAlike
