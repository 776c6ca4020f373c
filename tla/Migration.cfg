\* Four users of whom any may be there, four codes, three stops.
SPECIFICATION FairSpec
CONSTANTS
    Users = {u1, u2, u3, u4}
    Codes = {k1, k2, k3, k4}
    Uses = 2
    NoCode = NoCode
    MaxStops = 3
INVARIANT ServesMigrated
PROPERTIES DataSurvives ComesUp
\* with every user registered, the server goes on serving
CHECK_DEADLOCK FALSE
