SPECIFICATION GatewaySpec
CONSTANTS
    r1 = r1  r2 = r2  c1 = c1  c2 = c2  u1 = u1  u2 = u2  food = food
    None = None
    Txns = {r1, r2}
    Carts = {c1, c2}
    Units = {u1, u2}
    Tenants = {t1, t2}
    Keys = {k1}
    Payloads = {p1}
    Cats = {food}
    Declared = {food}
    HumanPresent = {}
    UnitOf <- MCUnitOf
    Draw <- MCDraw
    Cap <- MCCap
    CartExp <- MCCartExp
    IntentExp <- MCIntentExp
    Over <- MCOver
    Grace = 0
    Standings <- MCStandings
    Clients = {b1}
    MaxTime = 1
    MaxAttempts = 2
    MaxCrashes = 0
    RestoreWindow = 1
    MaxDelay = 1
    MandateTtl = 4
    HoldTime = 1
SYMMETRY Symmetry
VIEW Seen
INVARIANTS ChargedWithinCap OrderedOnceAndVerified HoldServedBeforeOrder
CHECK_DEADLOCK FALSE
