\* Three notices, two app sockets that may drain together, and queries that fail.
SPECIFICATION Spec
CONSTANTS
    Users = {bob}
    AppSockets = {b1, b2}
    ServiceSockets = {v1}
    Owner <- OneOwner
    Messages = {}
    Avatars = {p1}
    MissedCalls = {c1, c2}
    To <- OneRecipient
    DbMayFail = TRUE
INVARIANTS PurgeIsCovered LossOnlyInWindows
SYMMETRY Symmetry
