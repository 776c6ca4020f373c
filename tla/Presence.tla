------------------------------ MODULE Presence ------------------------------
(***************************************************************************)
(* internal/socketio/presence.go at the grain of its critical sections.    *)
(* Each connection runs Add in a goroutine of its own (AddRaw, the online  *)
(* broadcast outside the lock, then the socket pointer), each offline      *)
(* timer is a time.AfterFunc object that fires, waits for the lock,        *)
(* decides, and broadcasts outside the lock.                               *)
(***************************************************************************)
EXTENDS FiniteSets

CONSTANTS
    Users, AppSockets, ServiceSockets, Owner,   \* as in SocketRegistry
    Timers,         \* the time.Timer objects that can exist at one moment
    NoTimer         \* a missing key of Presence.timers

Sockets == AppSockets \cup ServiceSockets

ASSUME SocketKinds   == AppSockets \cap ServiceSockets = {}
ASSUME OwnerType     == Owner \in [Sockets -> Users]
ASSUME NoTimerFresh  == NoTimer \notin Timers

VARIABLES
    users,      \* [Users -> SUBSET Sockets], the map Presence.users
    attached,   \* sockets whose entry holds the socket pointer
    add,        \* progress of each connection's Add goroutine
    timers,     \* [Users -> Timers \cup {NoTimer}], the map Presence.timers
    phase,      \* life of each time.Timer object
    target,     \* the userID each timer's closure captured
    decided,    \* the last verdict taken under the lock: history
    hushed,     \* users without an app socket whose offline timer a service
                \* socket cancelled, and nothing was decided since: history
    shown       \* what a connected contact was last told about each user

registry == <<users, attached, add>>
timing   == <<timers, phase, target>>
verdicts == <<decided, hushed>>
vars     == <<registry, timing, verdicts, shown>>

AddStates   == {"out", "announce", "attach", "in"}
TimerPhases == {"free", "armed", "fired", "announce"}

(* "unknown": the last broadcast about the user reached nobody.            *)
Shown       == {"online", "offline", "unknown"}

TypeOK ==
    /\ users \in [Users -> SUBSET Sockets]
    /\ attached \subseteq Sockets
    /\ add \in [Sockets -> AddStates]
    /\ timers \in [Users -> Timers \cup {NoTimer}]
    /\ phase \in [Timers -> TimerPhases]
    /\ target \in [Timers -> Users]
    /\ decided \in [Users -> BOOLEAN]
    /\ hushed \subseteq Users
    /\ shown \in [Users -> Shown]

Init ==
    /\ users = [u \in Users |-> {}]
    /\ attached = {}
    /\ add = [s \in Sockets |-> "out"]
    /\ timers = [u \in Users |-> NoTimer]
    /\ phase = [t \in Timers |-> "free"]
    /\ target \in [Timers -> Users]
    /\ decided = [u \in Users |-> FALSE]
    /\ hushed = {}
    /\ shown = [u \in Users |-> "offline"]

-----------------------------------------------------------------------------
HasApp(u) == users[u] \cap AppSockets # {}

(* t.Stop(): a timer that has not fired never will; one that has fired     *)
(* runs its callback all the same.                                         *)
PhaseAfterStop(u) ==
    [t \in Timers |-> IF t = timers[u] /\ phase[t] = "armed" THEN "free"
                      ELSE phase[t]]

(* AddRaw up to its Unlock.  The entry is written without the pointer.     *)
AddRaw(s) ==
    LET u == Owner[s]
        cancelled == timers[u] # NoTimer
        broadcastOnline == s \in AppSockets /\ ~HasApp(u) /\ ~cancelled
    IN  /\ add[s] = "out"
        /\ phase' = PhaseAfterStop(u)
        /\ timers' = [timers EXCEPT ![u] = NoTimer]
        /\ users' = [users EXCEPT ![u] = @ \cup {s}]
        /\ attached' = attached \ {s}
        /\ add' = [add EXCEPT ![s] = IF broadcastOnline THEN "announce"
                                     ELSE "attach"]
        /\ decided' = [decided EXCEPT ![u] = @ \/ broadcastOnline]
        /\ hushed' = CASE s \in AppSockets          -> hushed \ {u}
                       [] cancelled /\ ~HasApp(u)   -> hushed \cup {u}
                       [] OTHER                     -> hushed
        /\ UNCHANGED <<target, shown>>

(* defaultBroadcast: the contacts are looked up and told, or the lookup    *)
(* fails and nobody is.                                                    *)
Broadcast(u, news) ==
    \/ shown' = [shown EXCEPT ![u] = news]
    \/ shown' = [shown EXCEPT ![u] = "unknown"]

(* AddRaw after its Unlock.                                                *)
AnnounceOnline(s) ==
    /\ add[s] = "announce"
    /\ Broadcast(Owner[s], "online")
    /\ add' = [add EXCEPT ![s] = "attach"]
    /\ UNCHANGED <<users, attached, timing, verdicts>>

(* Faults.  A fault is a definition with a plausible bug in it: the README *)
(* says which property each of them breaks.                                *)

(* The second critical section of Add.                                     *)
Attach(s) ==
    LET u == Owner[s]
        known == users[u] # {}
    IN  /\ add[s] = "attach"
        /\ users' = IF known THEN [users EXCEPT ![u] = @ \cup {s}] ELSE users
        /\ attached' = IF known THEN attached \cup {s} ELSE attached
        /\ add' = [add EXCEPT ![s] = "in"]
        /\ UNCHANGED <<timing, verdicts, shown>>

(* scheduleOfflineLocked: the timer in the map, if any, is stopped and     *)
(* replaced by a new one, which will decide.                               *)
ScheduleOffline(u) ==
    \E t \in Timers :
        /\ phase[t] = "free"
        /\ phase' = [PhaseAfterStop(u) EXCEPT ![t] = "armed"]
        /\ target' = [target EXCEPT ![t] = u]
        /\ timers' = [timers EXCEPT ![u] = t]
        /\ hushed' = hushed \ {u}

(* Fault: the map entry of a user goes with the user's last app socket.    *)
RemoveRawDropsUser(s) ==
    LET u == Owner[s]
        left == (users[u] \ {s}) \cap AppSockets
    IN  /\ add[s] = "in" /\ s \in users[u]
        /\ add' = [add EXCEPT ![s] = "out"]
        /\ users' = [users EXCEPT ![u] = IF left = {} THEN {} ELSE @ \ {s}]
        /\ attached' = attached \ (IF left = {} THEN users[u] ELSE {s})
        /\ IF left = {} THEN ScheduleOffline(u)
           ELSE UNCHANGED <<timing, hushed>>
        /\ UNCHANGED <<decided, shown>>

(* Fault: a service socket that leaves never schedules anything.           *)
RemoveRawAppOnly(s) ==
    LET u == Owner[s]
        left == users[u] \ {s}
    IN  /\ add[s] = "in"
        /\ add' = [add EXCEPT ![s] = "out"]
        /\ users' = [users EXCEPT ![u] = left]
        /\ attached' = attached \ {s}
        /\ IF s \in AppSockets /\ left \cap AppSockets = {}
           THEN ScheduleOffline(u) ELSE UNCHANGED <<timing, hushed>>
        /\ UNCHANGED <<decided, shown>>

(* Fault: a timer is armed for the last socket of a user only.             *)
RemoveRawLastOnly(s) ==
    LET u == Owner[s]
        left == users[u] \ {s}
    IN  /\ add[s] = "in"
        /\ add' = [add EXCEPT ![s] = "out"]
        /\ users' = [users EXCEPT ![u] = left]
        /\ attached' = attached \ {s}
        /\ IF left = {} THEN ScheduleOffline(u)
           ELSE UNCHANGED <<timing, hushed>>
        /\ UNCHANGED <<decided, shown>>

(* RemoveRaw, called by the disconnect handler once Add has returned.      *)
RemoveRaw(s) ==
    LET u == Owner[s]
        left == users[u] \ {s}
        schedule == \/ left = {}
                    \/ s \in AppSockets /\ left \cap AppSockets = {}
    IN  /\ add[s] = "in"
        /\ add' = [add EXCEPT ![s] = "out"]
        /\ IF s \in users[u]
           THEN /\ users' = [users EXCEPT ![u] = left]
                /\ attached' = attached \ {s}
                /\ \/ schedule /\ ScheduleOffline(u)
                   \/ ~schedule /\ UNCHANGED <<timing, hushed>>
           ELSE UNCHANGED <<users, attached, timing, hushed>>
        /\ UNCHANGED <<decided, shown>>

-----------------------------------------------------------------------------
(* The debounce elapses: the closure starts and has yet to get the lock.   *)
Fire(t) ==
    /\ phase[t] = "armed"
    /\ phase' = [phase EXCEPT ![t] = "fired"]
    /\ UNCHANGED <<registry, timers, target, verdicts, shown>>

(* Fault: the closure leaves its cell to whoever comes next.               *)
CallbackKeepsCell(t) ==
    LET u == target[t]
    IN  /\ phase[t] = "fired"
        /\ phase' = [phase EXCEPT ![t] = IF HasApp(u) THEN "free"
                                         ELSE "announce"]
        /\ decided' = [decided EXCEPT ![u] = @ /\ HasApp(u)]
        /\ hushed' = hushed \ {u}
        /\ UNCHANGED <<registry, timers, target, shown>>

(* The closure's critical section.  It deletes whatever timer the map      *)
(* holds for the user, its own or a newer one.                             *)
Callback(t) ==
    LET u == target[t]
    IN  /\ phase[t] = "fired"
        /\ timers' = [timers EXCEPT ![u] = NoTimer]
        /\ phase' = [phase EXCEPT ![t] = IF HasApp(u) THEN "free"
                                         ELSE "announce"]
        /\ decided' = [decided EXCEPT ![u] = @ /\ HasApp(u)]
        /\ hushed' = hushed \ {u}
        /\ UNCHANGED <<registry, target, shown>>

(* The closure after its Unlock.                                           *)
AnnounceOffline(t) ==
    /\ phase[t] = "announce"
    /\ Broadcast(target[t], "offline")
    /\ phase' = [phase EXCEPT ![t] = "free"]
    /\ UNCHANGED <<registry, timers, target, verdicts>>

-----------------------------------------------------------------------------
SocketStep(s) == AddRaw(s) \/ AnnounceOnline(s) \/ Attach(s) \/ RemoveRaw(s)
TimerStep(t)  == Fire(t) \/ Callback(t) \/ AnnounceOffline(t)

Next == \/ \E s \in Sockets : SocketStep(s)
        \/ \E t \in Timers : TimerStep(t)

Spec == Init /\ [][Next]_vars

(* The runtime fires timers and schedules goroutines: every started Add    *)
(* and every armed timer runs to its end.  Nobody has to connect or leave. *)
Fairness ==
    /\ \A s \in Sockets : WF_vars(AnnounceOnline(s)) /\ WF_vars(Attach(s))
    /\ \A t \in Timers : WF_vars(TimerStep(t))

FairSpec == Spec /\ Fairness

-----------------------------------------------------------------------------
(* What the contacts see.                                                  *)

(* The closures that may still tell u's contacts that u is offline.        *)
Pending(u) == \E t \in Timers : target[t] = u /\ phase[t] # "free"
Undecided(u) == \E t \in Timers :
                    target[t] = u /\ phase[t] \in {"armed", "fired"}

(* The maps agree with the goroutines: a socket is registered for its      *)
(* owner, and only for its owner, from AddRaw to RemoveRaw, and can be     *)
(* emitted to exactly when Add has returned.  An emission in between finds *)
(* a registered user and skips the socket.                                 *)
EntriesMatchAdd ==
    /\ \A s \in Sockets : /\ s \in users[Owner[s]] <=> add[s] # "out"
                          /\ s \in attached <=> add[s] = "in"
    /\ \A u \in Users : \A s \in users[u] : Owner[s] = u

(* No contact keeps seeing a user online who has no socket at all: while   *)
(* one does, a timer or a broadcast is on its way to correct it.  Holds    *)
(* for every order of Add, RemoveRaw and late timer closures, unless the   *)
(* lookup of the last broadcast failed (205-207), which nothing repairs.   *)
ShownOnlineIsWatched ==
    \A u \in Users : shown[u] = "online" => users[u] # {} \/ Pending(u)

(* A cell of the map never keeps a timer whose closure has run, nor the    *)
(* timer of another user: Stop always reaches the timer it is meant for.   *)
CellsHoldTheirTimers ==
    \A u \in Users : timers[u] # NoTimer =>
        /\ target[timers[u]] = u
        /\ phase[timers[u]] \in {"armed", "fired"}

(* A user whose last verdict was "online" and who has lost every socket    *)
(* has a closure that has not decided yet, whatever becomes of broadcasts: *)
(* stopping or overtaking a timer never loses the offline verdict.         *)
OfflineIsScheduled ==
    \A u \in Users : decided[u] /\ users[u] = {} => Undecided(u)

(* The same for app sockets, which presence is about: a user shown online  *)
(* who lost every app socket has a timer or a broadcast on the way, unless *)
(* a service socket that connected within the debounce cancelled the timer *)
(* (AddRaw, 72-76, asks no socket for its type) and nothing was decided    *)
(* since.  No other order of connects, disconnects and late closures       *)
(* leaves a user shown online with a service socket only.                  *)
AppGoneIsWatched ==
    \A u \in Users :
        shown[u] = "online" => HasApp(u) \/ Pending(u) \/ u \in hushed

(* Without that exception it is false: AddRaw breaks it when a service     *)
(* socket connects within the debounce.                                    *)
ShownOnlineHasApp ==
    \A u \in Users : shown[u] = "online" => HasApp(u) \/ Pending(u)

(* What the comment at 69-70 takes for granted of every timer AddRaw       *)
(* cancels: its user was last declared online.  It is false: the leaving   *)
(* of a lone service socket (106-108) arms a timer for a user who never    *)
(* was.                                                                    *)
CancelledWasOnline ==
    \A u \in Users : timers[u] # NoTimer => decided[u]

(* A user with an app socket was announced, or an announcement is under    *)
(* way: nobody with an app socket stays shown offline.                     *)
ConnectedIsShown ==
    \A u \in Users :
        HasApp(u) => \/ shown[u] # "offline"
                     \/ \E s \in Sockets : Owner[s] = u /\ add[s] = "announce"

(* If a user eventually stays away for good, the contacts eventually stop  *)
(* seeing the user online for good, unless their lookup failed.            *)
AwayIsShown ==
    \A u \in Users : <>[](users[u] = {}) => <>[](shown[u] # "online")

-----------------------------------------------------------------------------
(* Presence implements the registry that the other handlers rely on: an    *)
(* entry is raw between the two critical sections of Add, and only then.   *)
entryOf == [s \in Sockets |->
              IF s \notin users[Owner[s]] THEN "absent"
              ELSE IF s \in attached THEN "live" ELSE "raw"]

Registry == INSTANCE SocketRegistry WITH entry <- entryOf

RegistrySpec == Registry!RegistrySpec
=============================================================================
