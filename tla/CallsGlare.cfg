\* Two users, a phone and a background service, call each other.
SPECIFICATION FairSpec
CONSTANTS
    alice = alice
    bob = bob
    aliceApp = aliceApp
    aliceTablet = aliceTablet
    bobApp = bobApp
    bobService = bobService
    c1 = c1
    c2 = c2
    Users <- BothUsers
    AppSockets = {aliceApp, aliceTablet}
    ServiceSockets = {bobService}
    Owner <- OwnerOf
    Calls = {c1, c2}
    Via <- Glare
    Callee <- GlareTo
    NoCall = NoCall
INVARIANTS MissedOnce OneHolder OnlyCallIsMissed
PROPERTIES LedgerSpec OfferSettles
