SPECIFICATION FairSpec
CONSTANTS
    MaxSessions = 1
    MaxTalks = 4
    MaxCalls = 2
    Tries = 2
    MaxSends = 2
INVARIANTS
    WheelIsReturnable
    OnlyWhatWasCleared
    PasswordOncePerForm
    ParkIsHonest
PROPERTY
    TurnEnds
CHECK_DEADLOCK FALSE
