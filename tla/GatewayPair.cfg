SPECIFICATION Spec
CONSTANTS
    Intents = {i1, i2}
    NoIntent = NoIntent
    Size = 1
    StaleAge = 1
    ApprovalTTL = 0
    MaxInflight = 2
    MaxCrashes = 0
    MaxModifies = 0
SYMMETRY Interchangeable
INVARIANTS SubmissionsBelowLimit
