SPECIFICATION FairSpec
CONSTANTS
    None = None
    Txns = {t1}
    Clients = {b1, b2}
    Keys = {k1}
    Payloads = {p1, p2}
    MaxTime = 3
    MaxAttempts = 2
    MaxCrashes = 1
    RestoreWindow = 2
    MaxDelay = 1
    Dues = {1, 2}
    Exps = {2}
INVARIANTS  OneExecutionPerMandate CancelledMeansNothingSent
    OutcomesAreBookedOnce SettledForAReason ReplayOnlyToItsOwner
PROPERTIES  ArmedHoldResolves
CHECK_DEADLOCK FALSE
