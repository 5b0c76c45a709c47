SPECIFICATION Spec
CONSTANTS
    Carts = {c1}
    List = 3
    Prices = {1, 2, 3}
    FloorCommands <- MCFloors
    Day = 4
    Offset = 1
    Hours <- MCHours
    Holds = {0, 2, 5}
    Expiries = {3, 9}
    Caps = {2, 3}
    Threshold = 3
    QuoteTtl = 2
    Drips = {0, 1}
    Reviews = {FALSE, TRUE}
    Tiers = {0, 2}
    MaxTime = 6
    MaxFloors = 2
    None = None
INVARIANTS SoldWithinTheBand HeldForTheCovenant RefusedForAReason
CHECK_DEADLOCK FALSE
