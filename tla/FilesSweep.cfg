\* A commit beside a sweep.
SPECIFICATION Spec
CONSTANTS
    Files = {f1}
    Messages = {m1}
    Message <- OneMessage
    Size <- UnitSize
    Quota = 1
    StorageMayFail = FALSE
    MaxFaults = 0
INVARIANT LinkedHasObject
\* every file and message of the instance comes to its end
CHECK_DEADLOCK FALSE
