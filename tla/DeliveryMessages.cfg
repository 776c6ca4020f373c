\* One message to a user with an app socket and a service socket.
SPECIFICATION FairSpec
CONSTANTS
    Users = {bob}
    AppSockets = {b1}
    ServiceSockets = {v1}
    Owner <- OneOwner
    Messages = {m1}
    Avatars = {}
    MissedCalls = {}
    To <- OneRecipient
    DbMayFail = FALSE
INVARIANTS TypeOK NoMissedMessage
PROPERTY StoredReachesSocket
