--------------------------- MODULE PresenceProofs ---------------------------
(***************************************************************************)
(* What TLC checks of Presence on one user and three timers, proved for    *)
(* any users, sockets and timers.                                          *)
(***************************************************************************)
EXTENDS Presence, TLAPS

USE DEF Sockets, AddStates, TimerPhases, Shown, registry, timing, verdicts

(* Stopping a timer leaves every phase a phase.                            *)
LEMMA StopType ==
    ASSUME TypeOK, NEW u \in Users
    PROVE  PhaseAfterStop(u) \in [Timers -> TimerPhases]
BY DEF TypeOK, PhaseAfterStop

LEMMA TypeStep == TypeOK /\ [Next]_vars => TypeOK'
<1> SUFFICES ASSUME TypeOK, [Next]_vars PROVE TypeOK'
    OBVIOUS
<1> USE OwnerType
<1>1. ASSUME NEW s \in Sockets, AddRaw(s) PROVE TypeOK'
    <2>1. Owner[s] \in Users
        OBVIOUS
    <2>2. PhaseAfterStop(Owner[s]) \in [Timers -> TimerPhases]
        BY <2>1, StopType
    <2> QED BY <1>1, <2>1, <2>2 DEF TypeOK, AddRaw, HasApp
<1>2. ASSUME NEW s \in Sockets, AnnounceOnline(s) PROVE TypeOK'
    BY <1>2 DEF TypeOK, AnnounceOnline, Broadcast
<1>3. ASSUME NEW s \in Sockets, Attach(s) PROVE TypeOK'
    BY <1>3 DEF TypeOK, Attach
<1>4. ASSUME NEW s \in Sockets, RemoveRaw(s) PROVE TypeOK'
    <2> DEFINE u == Owner[s]
    <2>1. u \in Users
        OBVIOUS
    <2>2. /\ users' \in [Users -> SUBSET Sockets]
          /\ attached' \subseteq Sockets
          /\ add' \in [Sockets -> AddStates]
          /\ decided' = decided /\ shown' = shown
        BY <1>4 DEF TypeOK, RemoveRaw
    <2>3. CASE ScheduleOffline(u)
        BY <2>1, <2>2, <2>3, StopType DEF TypeOK, ScheduleOffline
    <2>4. CASE UNCHANGED <<timing, hushed>>
        BY <2>2, <2>4 DEF TypeOK
    <2> QED BY <1>4, <2>3, <2>4 DEF RemoveRaw
<1>5. ASSUME NEW t \in Timers, Fire(t) PROVE TypeOK'
    BY <1>5 DEF TypeOK, Fire
<1>6. ASSUME NEW t \in Timers, Callback(t) PROVE TypeOK'
    BY <1>6 DEF TypeOK, Callback, HasApp
<1>7. ASSUME NEW t \in Timers, AnnounceOffline(t) PROVE TypeOK'
    BY <1>7 DEF TypeOK, AnnounceOffline, Broadcast
<1>8. CASE UNCHANGED vars
    BY <1>8 DEF TypeOK, vars
<1> QED BY <1>1, <1>2, <1>3, <1>4, <1>5, <1>6, <1>7, <1>8
        DEF Next, SocketStep, TimerStep

(* Every reachable state of Presence is a state of its declared types.     *)
THEOREM TypeCorrect == Spec => []TypeOK
<1>1. Init => TypeOK
    BY DEF Init, TypeOK
<1> QED BY <1>1, TypeStep, PTL DEF Spec

-----------------------------------------------------------------------------
(* A socket enters the maps with AddRaw and leaves them with RemoveRaw,    *)
(* and RemoveRaw waits for Add.                                            *)
LEMMA EntriesStep ==
    TypeOK /\ EntriesMatchAdd /\ [Next]_vars => EntriesMatchAdd'
<1> SUFFICES ASSUME TypeOK, EntriesMatchAdd, [Next]_vars
             PROVE  EntriesMatchAdd'
    OBVIOUS
<1> USE OwnerType DEF EntriesMatchAdd, TypeOK
<1>1. ASSUME NEW s \in Sockets, AddRaw(s) PROVE EntriesMatchAdd'
    BY <1>1 DEF AddRaw
<1>2. ASSUME NEW s \in Sockets, AnnounceOnline(s) PROVE EntriesMatchAdd'
    BY <1>2 DEF AnnounceOnline
<1>3. ASSUME NEW s \in Sockets, Attach(s) PROVE EntriesMatchAdd'
    BY <1>3 DEF Attach
<1>4. ASSUME NEW s \in Sockets, RemoveRaw(s) PROVE EntriesMatchAdd'
    BY <1>4 DEF RemoveRaw
<1>5. ASSUME NEW t \in Timers, TimerStep(t) PROVE EntriesMatchAdd'
    BY <1>5 DEF TimerStep, Fire, Callback, AnnounceOffline
<1>6. CASE UNCHANGED vars
    BY <1>6 DEF vars
<1> QED BY <1>1, <1>2, <1>3, <1>4, <1>5, <1>6 DEF Next, SocketStep

(* The registry and the goroutines agree in every reachable state.         *)
THEOREM EntriesCorrect == Spec => []EntriesMatchAdd
<1>1. Init => EntriesMatchAdd
    BY OwnerType DEF Init, EntriesMatchAdd
<1> QED BY <1>1, TypeCorrect, EntriesStep, PTL DEF Spec

-----------------------------------------------------------------------------
LEMMA CellsStep ==
    TypeOK /\ CellsHoldTheirTimers /\ [Next]_vars => CellsHoldTheirTimers'
<1> SUFFICES ASSUME TypeOK, CellsHoldTheirTimers, [Next]_vars
             PROVE  CellsHoldTheirTimers'
    OBVIOUS
<1> USE OwnerType, NoTimerFresh DEF CellsHoldTheirTimers, TypeOK
<1>1. ASSUME NEW s \in Sockets, AddRaw(s) PROVE CellsHoldTheirTimers'
    BY <1>1 DEF AddRaw, PhaseAfterStop
<1>2. ASSUME NEW s \in Sockets, AnnounceOnline(s) \/ Attach(s)
      PROVE  CellsHoldTheirTimers'
    BY <1>2 DEF AnnounceOnline, Attach
<1>3. ASSUME NEW s \in Sockets, RemoveRaw(s) PROVE CellsHoldTheirTimers'
    <2>1. CASE ScheduleOffline(Owner[s])
        BY <2>1 DEF ScheduleOffline, PhaseAfterStop
    <2>2. CASE UNCHANGED timing
        BY <2>2
    <2> QED BY <1>3, <2>1, <2>2 DEF RemoveRaw
<1>4. ASSUME NEW t \in Timers, Fire(t) PROVE CellsHoldTheirTimers'
    BY <1>4 DEF Fire
<1>5. ASSUME NEW t \in Timers, Callback(t) PROVE CellsHoldTheirTimers'
    BY <1>5 DEF Callback
<1>6. ASSUME NEW t \in Timers, AnnounceOffline(t)
      PROVE  CellsHoldTheirTimers'
    BY <1>6 DEF AnnounceOffline
<1>7. CASE UNCHANGED vars
    BY <1>7 DEF vars
<1> QED BY <1>1, <1>2, <1>3, <1>4, <1>5, <1>6, <1>7
        DEF Next, SocketStep, TimerStep

(* A timer in the map is always one that has yet to decide, for the user   *)
(* it is filed under.                                                      *)
THEOREM CellsCorrect == Spec => []CellsHoldTheirTimers
<1>1. Init => CellsHoldTheirTimers
    BY NoTimerFresh DEF Init, CellsHoldTheirTimers
<1> QED BY <1>1, TypeCorrect, CellsStep, PTL DEF Spec

-----------------------------------------------------------------------------
Shape == TypeOK /\ EntriesMatchAdd /\ CellsHoldTheirTimers

(* A registration or a disconnect of another user disturbs none of u's     *)
(* closures: the timer it stops is that user's, the one it arms was free.  *)
LEMMA OthersKeepTimers ==
    ASSUME Shape, NEW s \in Sockets, AddRaw(s) \/ RemoveRaw(s),
           NEW u \in Users, Owner[s] # u,
           NEW t \in Timers, target[t] = u, phase[t] # "free"
    PROVE  target'[t] = u /\ phase'[t] = phase[t]
<1> USE OwnerType, NoTimerFresh DEF Shape, TypeOK, CellsHoldTheirTimers
<1>1. timers[Owner[s]] # t
    OBVIOUS
<1>2. CASE AddRaw(s)
    BY <1>1, <1>2 DEF AddRaw, PhaseAfterStop
<1>3. CASE RemoveRaw(s)
    <2>1. CASE ScheduleOffline(Owner[s])
        BY <1>1, <2>1 DEF ScheduleOffline, PhaseAfterStop
    <2>2. CASE UNCHANGED timing
        BY <2>2
    <2> QED BY <1>3, <2>1, <2>2 DEF RemoveRaw
<1> QED BY <1>2, <1>3

(* Losing the last socket arms a timer in the same critical section.       *)
LEMMA LastRemoveSchedules ==
    ASSUME Shape, NEW s \in Sockets, RemoveRaw(s), users'[Owner[s]] = {}
    PROVE  \E t \in Timers : target'[t] = Owner[s] /\ phase'[t] = "armed"
<1> USE OwnerType DEF Shape, TypeOK, EntriesMatchAdd
<1>1. ScheduleOffline(Owner[s])
    BY DEF RemoveRaw
<1> QED BY <1>1, StopType DEF ScheduleOffline

LEMMA ScheduledStep ==
    Shape /\ OfflineIsScheduled /\ [Next]_vars => OfflineIsScheduled'
<1> SUFFICES ASSUME Shape, OfflineIsScheduled, [Next]_vars,
                    NEW u \in Users, decided'[u], users'[u] = {}
             PROVE  Undecided(u)'
    BY DEF OfflineIsScheduled
<1> USE OwnerType DEF Shape, TypeOK, Undecided
<1>0. ASSUME decided[u], users[u] = {}
      PROVE  \E t \in Timers : target[t] = u /\ phase[t] \in {"armed", "fired"}
    BY <1>0 DEF OfflineIsScheduled
<1>1. ASSUME NEW s \in Sockets, AddRaw(s) PROVE Undecided(u)'
    <2>1. Owner[s] # u
        BY <1>1 DEF AddRaw
    <2>2. decided[u] /\ users[u] = {}
        BY <1>1, <2>1 DEF AddRaw
    <2> QED BY <1>0, <1>1, <2>1, <2>2, OthersKeepTimers
<1>2. ASSUME NEW s \in Sockets, AnnounceOnline(s) \/ Attach(s)
      PROVE  Undecided(u)'
    <2>1. decided[u] /\ phase' = phase /\ target' = target
        BY <1>2 DEF AnnounceOnline, Attach
    <2>2. users[u] = {}
        <3>1. CASE AnnounceOnline(s)
            BY <3>1 DEF AnnounceOnline
        <3>2. CASE Attach(s)
            BY <3>2 DEF Attach
        <3> QED BY <1>2, <3>1, <3>2
    <2>3. PICK t \in Timers : target[t] = u /\ phase[t] \in {"armed", "fired"}
        BY <1>0, <2>1, <2>2
    <2> QED BY <2>1, <2>3
<1>3. ASSUME NEW s \in Sockets, RemoveRaw(s) PROVE Undecided(u)'
    <2>1. CASE Owner[s] = u
        BY <1>3, <2>1, LastRemoveSchedules
    <2>2. CASE Owner[s] # u
        <3>1. decided[u] /\ users[u] = {}
            BY <1>3, <2>2 DEF RemoveRaw
        <3> QED BY <1>0, <1>3, <2>2, <3>1, OthersKeepTimers
    <2> QED BY <2>1, <2>2
<1>4. ASSUME NEW t \in Timers, Fire(t) PROVE Undecided(u)'
    BY <1>0, <1>4 DEF Fire
<1>5. ASSUME NEW t \in Timers, Callback(t) PROVE Undecided(u)'
    BY <1>0, <1>5 DEF Callback, HasApp
<1>6. ASSUME NEW t \in Timers, AnnounceOffline(t) PROVE Undecided(u)'
    BY <1>0, <1>6 DEF AnnounceOffline
<1>7. CASE UNCHANGED vars
    BY <1>0, <1>7 DEF vars
<1> QED BY <1>1, <1>2, <1>3, <1>4, <1>5, <1>6, <1>7
        DEF Next, SocketStep, TimerStep

(* Whatever the order of connects, disconnects and late closures, a user   *)
(* declared online who has lost every socket has a closure left that will  *)
(* decide, even if contact lookups fail.                                   *)
THEOREM ScheduledCorrect == Spec => []OfflineIsScheduled
<1>1. Init => OfflineIsScheduled
    BY DEF Init, OfflineIsScheduled
<1>2. TypeOK /\ EntriesMatchAdd /\ CellsHoldTheirTimers => Shape
    BY DEF Shape
<1> QED BY <1>1, <1>2, TypeCorrect, EntriesCorrect, CellsCorrect,
           ScheduledStep, PTL DEF Spec

-----------------------------------------------------------------------------
LEMMA WatchedStep ==
    Shape /\ ShownOnlineIsWatched /\ [Next]_vars => ShownOnlineIsWatched'
<1> SUFFICES ASSUME Shape, ShownOnlineIsWatched, [Next]_vars,
                    NEW u \in Users, shown'[u] = "online", users'[u] = {}
             PROVE  Pending(u)'
    BY DEF ShownOnlineIsWatched
<1> USE OwnerType DEF Shape, TypeOK, Pending
<1>0. ASSUME shown[u] = "online", users[u] = {}
      PROVE  \E t \in Timers : target[t] = u /\ phase[t] # "free"
    BY <1>0 DEF ShownOnlineIsWatched
<1>1. ASSUME NEW s \in Sockets, AddRaw(s) PROVE Pending(u)'
    <2>1. Owner[s] # u
        BY <1>1 DEF AddRaw
    <2>2. shown[u] = "online" /\ users[u] = {}
        BY <1>1, <2>1 DEF AddRaw
    <2> QED BY <1>0, <1>1, <2>1, <2>2, OthersKeepTimers
<1>2. ASSUME NEW s \in Sockets, AnnounceOnline(s) PROVE Pending(u)'
    \* s itself is registered while its announcement is under way
    <2>1. Owner[s] # u
        BY <1>2 DEF AnnounceOnline, EntriesMatchAdd
    <2> QED BY <1>0, <1>2, <2>1 DEF AnnounceOnline, Broadcast
<1>3. ASSUME NEW s \in Sockets, Attach(s) PROVE Pending(u)'
    BY <1>0, <1>3 DEF Attach
<1>4. ASSUME NEW s \in Sockets, RemoveRaw(s) PROVE Pending(u)'
    <2>1. CASE Owner[s] = u
        BY <1>4, <2>1, LastRemoveSchedules
    <2>2. CASE Owner[s] # u
        <3>1. shown[u] = "online" /\ users[u] = {}
            BY <1>4, <2>2 DEF RemoveRaw
        <3> QED BY <1>0, <1>4, <2>2, <3>1, OthersKeepTimers
    <2> QED BY <2>1, <2>2
<1>5. ASSUME NEW t \in Timers, Fire(t) PROVE Pending(u)'
    BY <1>0, <1>5 DEF Fire
<1>6. ASSUME NEW t \in Timers, Callback(t) PROVE Pending(u)'
    BY <1>0, <1>6 DEF Callback, HasApp
<1>7. ASSUME NEW t \in Timers, AnnounceOffline(t) PROVE Pending(u)'
    BY <1>0, <1>7 DEF AnnounceOffline, Broadcast
<1>8. CASE UNCHANGED vars
    BY <1>0, <1>8 DEF vars
<1> QED BY <1>1, <1>2, <1>3, <1>4, <1>5, <1>6, <1>7, <1>8
        DEF Next, SocketStep, TimerStep

(* A contact sees a user without any socket as online only while a timer   *)
(* or a broadcast is on its way to correct it, or a lookup failed.         *)
THEOREM WatchedCorrect == Spec => []ShownOnlineIsWatched
<1>1. Init => ShownOnlineIsWatched
    BY DEF Init, ShownOnlineIsWatched
<1>2. TypeOK /\ EntriesMatchAdd /\ CellsHoldTheirTimers => Shape
    BY DEF Shape
<1> QED BY <1>1, <1>2, TypeCorrect, EntriesCorrect, CellsCorrect,
           WatchedStep, PTL DEF Spec

-----------------------------------------------------------------------------
(* Only the Add of an app socket has an announcement to make.              *)
AppsAnnounce == \A s \in Sockets : add[s] = "announce" => s \in AppSockets

LEMMA AppsAnnounceStep ==
    TypeOK /\ AppsAnnounce /\ [Next]_vars => AppsAnnounce'
<1> SUFFICES ASSUME TypeOK, AppsAnnounce, [Next]_vars PROVE AppsAnnounce'
    OBVIOUS
<1> USE DEF AppsAnnounce, TypeOK
<1>1. ASSUME NEW s \in Sockets, SocketStep(s) PROVE AppsAnnounce'
    BY <1>1 DEF SocketStep, AddRaw, AnnounceOnline, Attach, RemoveRaw
<1>2. ASSUME NEW t \in Timers, TimerStep(t) PROVE AppsAnnounce'
    BY <1>2 DEF TimerStep, Fire, Callback, AnnounceOffline
<1>3. CASE UNCHANGED vars
    BY <1>3 DEF vars
<1> QED BY <1>1, <1>2, <1>3 DEF Next

LEMMA AppGoneStep ==
    /\ Shape /\ AppsAnnounce /\ AppGoneIsWatched /\ [Next]_vars
    => AppGoneIsWatched'
<1> SUFFICES ASSUME Shape, AppsAnnounce, AppGoneIsWatched, [Next]_vars,
                    NEW u \in Users, shown'[u] = "online",
                    ~HasApp(u)', u \notin hushed'
             PROVE  Pending(u)'
    BY DEF AppGoneIsWatched
<1> USE OwnerType DEF Shape, TypeOK, Pending
<1>0. ASSUME shown[u] = "online", ~HasApp(u), u \notin hushed
      PROVE  \E t \in Timers : target[t] = u /\ phase[t] # "free"
    BY <1>0 DEF AppGoneIsWatched
<1>1. ASSUME NEW s \in Sockets, AddRaw(s) PROVE Pending(u)'
    <2>1. CASE Owner[s] # u
        <3>1. shown[u] = "online" /\ ~HasApp(u) /\ u \notin hushed
            BY <1>1, <2>1 DEF AddRaw, HasApp
        <3> QED BY <1>0, <1>1, <2>1, <3>1, OthersKeepTimers
    <2>2. CASE Owner[s] = u
        \* a service socket that finds no timer to cancel
        <3>1. s \notin AppSockets /\ ~HasApp(u)
            BY <1>1, <2>2 DEF AddRaw, HasApp
        <3>2. timers[u] = NoTimer /\ u \notin hushed
            BY <1>1, <2>2, <3>1 DEF AddRaw
        <3>3. phase' = phase /\ target' = target /\ shown[u] = "online"
            BY <1>1, <2>2, <3>2, NoTimerFresh DEF AddRaw, PhaseAfterStop
        <3> QED BY <1>0, <3>1, <3>2, <3>3
    <2> QED BY <2>1, <2>2
<1>2. ASSUME NEW s \in Sockets, AnnounceOnline(s) PROVE Pending(u)'
    \* s itself is registered while its announcement is under way
    <2>1. Owner[s] # u
        BY <1>2 DEF AnnounceOnline, EntriesMatchAdd, AppsAnnounce, HasApp
    <2>2. shown[u] = "online" /\ ~HasApp(u) /\ u \notin hushed
        BY <1>2, <2>1 DEF AnnounceOnline, Broadcast, HasApp
    <2> QED BY <1>0, <1>2, <2>2 DEF AnnounceOnline
<1>3. ASSUME NEW s \in Sockets, Attach(s) PROVE Pending(u)'
    <2>1. shown[u] = "online" /\ ~HasApp(u) /\ u \notin hushed
        BY <1>3 DEF Attach, HasApp
    <2> QED BY <1>0, <1>3, <2>1 DEF Attach
<1>4. ASSUME NEW s \in Sockets, RemoveRaw(s) PROVE Pending(u)'
    <2>1. shown[u] = "online"
        BY <1>4 DEF RemoveRaw
    <2>2. CASE Owner[s] # u
        <3>1. u \notin hushed
            BY <1>4, <2>2 DEF RemoveRaw, ScheduleOffline
        <3>2. ~HasApp(u)
            BY <1>4, <2>2 DEF RemoveRaw, HasApp
        <3> QED BY <1>0, <1>4, <2>1, <2>2, <3>1, <3>2, OthersKeepTimers
    <2>3. CASE Owner[s] = u /\ ScheduleOffline(u)
        BY <2>3, StopType DEF ScheduleOffline
    <2>4. CASE Owner[s] = u /\ ~ScheduleOffline(u)
        <3>1. UNCHANGED <<timing, hushed>>
            BY <1>4, <2>4 DEF RemoveRaw
        <3>2. CASE s \notin users[u]
            <4>1. users' = users
                BY <1>4, <2>4, <3>2 DEF RemoveRaw
            <4> QED BY <1>0, <2>1, <3>1, <4>1 DEF HasApp
        <3>3. CASE s \in users[u]
            <4>1. /\ users'[u] = users[u] \ {s}
                  /\ s \notin AppSockets \/ users'[u] \cap AppSockets # {}
                BY <1>4, <2>4, <3>3 DEF RemoveRaw
            <4>2. ~HasApp(u)
                BY <4>1 DEF HasApp
            <4> QED BY <1>0, <2>1, <3>1, <4>2
        <3> QED BY <3>2, <3>3
    <2> QED BY <2>2, <2>3, <2>4
<1>5. ASSUME NEW t \in Timers, Fire(t) PROVE Pending(u)'
    BY <1>0, <1>5 DEF Fire, HasApp
<1>6. ASSUME NEW t \in Timers, Callback(t) PROVE Pending(u)'
    BY <1>0, <1>6 DEF Callback, HasApp
<1>7. ASSUME NEW t \in Timers, AnnounceOffline(t) PROVE Pending(u)'
    BY <1>0, <1>7 DEF AnnounceOffline, Broadcast, HasApp
<1>8. CASE UNCHANGED vars
    BY <1>0, <1>8 DEF vars, HasApp
<1> QED BY <1>1, <1>2, <1>3, <1>4, <1>5, <1>6, <1>7, <1>8
        DEF Next, SocketStep, TimerStep

(* A contact sees a user without app sockets as online only while a timer  *)
(* or a broadcast is on its way to correct it, or since a service socket   *)
(* cancelled the timer within the debounce: nothing else the handlers do,  *)
(* in any order, leaves a service socket standing for the user.            *)
THEOREM AppGoneCorrect == Spec => []AppGoneIsWatched
<1>1. Init => AppsAnnounce /\ AppGoneIsWatched
    BY DEF Init, AppsAnnounce, AppGoneIsWatched
<1>2. TypeOK /\ EntriesMatchAdd /\ CellsHoldTheirTimers => Shape
    BY DEF Shape
<1> QED BY <1>1, <1>2, TypeCorrect, EntriesCorrect, CellsCorrect,
           AppsAnnounceStep, AppGoneStep, PTL DEF Spec

-----------------------------------------------------------------------------
LEMMA RegistryStep ==
    EntriesMatchAdd /\ TypeOK /\ [Next]_vars
        => [Registry!RegistryNext]_entryOf
<1> SUFFICES ASSUME EntriesMatchAdd, TypeOK, [Next]_vars
             PROVE  [Registry!RegistryNext]_entryOf
    OBVIOUS
<1> USE OwnerType DEF EntriesMatchAdd, TypeOK, entryOf
<1>1. ASSUME NEW s \in Sockets, AddRaw(s) PROVE Registry!AddRaw(s)
    BY <1>1 DEF AddRaw, Registry!AddRaw
<1>2. ASSUME NEW s \in Sockets, AnnounceOnline(s) PROVE UNCHANGED entryOf
    BY <1>2 DEF AnnounceOnline
<1>3. ASSUME NEW s \in Sockets, Attach(s) PROVE Registry!Attach(s)
    BY <1>3 DEF Attach, Registry!Attach
<1>4. ASSUME NEW s \in Sockets, RemoveRaw(s) PROVE Registry!RemoveRaw(s)
    <2>1. s \in users[Owner[s]] /\ s \in attached
        BY <1>4 DEF RemoveRaw
    <2>2. /\ users' = [users EXCEPT ![Owner[s]] = @ \ {s}]
          /\ attached' = attached \ {s}
        BY <1>4, <2>1 DEF RemoveRaw
    <2>3. \A r \in Sockets : /\ r \in users'[Owner[r]] <=>
                                     r # s /\ r \in users[Owner[r]]
                             /\ r \in attached' <=> r # s /\ r \in attached
        BY <2>2
    <2>4. entryOf[s] = "live"
        BY <2>1
    <2>5. entryOf' = [entryOf EXCEPT ![s] = "absent"]
        BY <2>3
    <2> QED BY <2>4, <2>5 DEF Registry!RemoveRaw
<1>5. ASSUME NEW t \in Timers, TimerStep(t) PROVE UNCHANGED entryOf
    BY <1>5 DEF TimerStep, Fire, Callback, AnnounceOffline
<1>6. CASE UNCHANGED vars
    BY <1>6 DEF vars
<1> QED BY <1>1, <1>2, <1>3, <1>4, <1>5, <1>6
        DEF Next, SocketStep, Registry!RegistryNext, Registry!Sockets

(* Presence implements SocketRegistry: seen through its maps, an Add is a  *)
(* registration followed by an attachment, and timers are invisible.       *)
THEOREM Implements == Spec => RegistrySpec
<1>1. Init => Registry!RegistryInit
    BY OwnerType DEF Init, entryOf, Registry!RegistryInit, Registry!Sockets
<1> QED BY <1>1, TypeCorrect, EntriesCorrect, RegistryStep, PTL
        DEF Spec, RegistrySpec, Registry!RegistrySpec
=============================================================================
