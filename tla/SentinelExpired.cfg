SPECIFICATION FairSpec
CONSTANTS
    Orders = {o1}
    Lease = 0
    StaleAfter = 2
    Timeout = 3
    MaxRenewals = 0
    MaxFaults = 1
    Poll = 1
    Renew = 1
    Latency = 1
    CancelRetries = 2
    SafetyMargin = 1
PROPERTIES ExpiryCannotBlockCancel
