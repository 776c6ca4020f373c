\* Two app sockets and a service socket race with three timers.
SPECIFICATION FairSpec
CONSTANTS
    Users = {u1}
    AppSockets = {a1, a2}
    ServiceSockets = {v1}
    Owner <- OneOwner
    Timers = {t1, t2, t3}
    NoTimer = NoTimer
INVARIANTS EntriesMatchAdd CellsHoldTheirTimers ShownOnlineIsWatched
           OfflineIsScheduled AppGoneIsWatched
PROPERTIES RegistrySpec AwayIsShown
