SPECIFICATION Spec
CONSTANTS
    r1 = r1  r2 = r2  r3 = r3  c1 = c1  c2 = c2  c3 = c3  u1 = u1  u2 = u2
    food = food  None = None
    Reqs = {r1, r2}
    Carts = {c1, c2, c3}
    Units = {u1, u2}
    Tenants = {t1}
    Keys = {k1, k2}
    Payloads = {p1, p2}
    Cats = {food}
    Declared = {food}
    HumanPresent = {}
    UnitOf <- MCUnitOf
    Draw <- MCDraw
    Cap <- MCCap
    CartExp <- MCCartExp
    Grace = 1
    Standings <- MCStandings
    MaxTime = 3
SYMMETRY Symmetry
INVARIANTS CapNeverOverdrawn
    CommitsWhatWasSigned ReplayIsVerbatim
PROPERTY RegisterSpec
CHECK_DEADLOCK FALSE
