SPECIFICATION FairSpec
CONSTANTS
    Orders = {o1}
    Lease = 0
    StaleAfter = 2
    Timeout = 3
    MaxRenewals = 0
    MaxFaults = 1
    Poll = 1
    Renew = 2
    Latency = 0
    CancelRetries = 2
    SafetyMargin = 0
PROPERTIES EmergencyClears
