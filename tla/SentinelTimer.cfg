SPECIFICATION Spec
CONSTANTS
    Orders = {}
    Lease = 1
    StaleAfter = 2
    Timeout = 6
    MaxRenewals = 1
    MaxFaults = 1
    Poll = 1
    Renew = 2
    Latency = 1
    CancelRetries = 1
    SafetyMargin = 1
INVARIANTS TypeOK DeadManBound TimerAhead SentinelInv
