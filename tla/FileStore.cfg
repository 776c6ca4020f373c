\* Two files of one message, room for one, one fault, a failing store.
SPECIFICATION FairSpec
CONSTANTS
    Files = {f1, f2}
    Messages = {m1}
    Message <- OneMessage
    Size <- UnitSize
    Quota = 1
    StorageMayFail = TRUE
    MaxFaults = 1
INVARIANTS NoObjectForgotten RowDeletedLast QuotaHolds LostToSweepOnly
PROPERTY OrphansAreReclaimed
\* every file and message of the instance comes to its end
CHECK_DEADLOCK FALSE
