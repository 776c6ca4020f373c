--------------------------- MODULE MessageDelivery ---------------------------
(***************************************************************************)
(* Store-and-forward of messages and notices: the chat handlers of         *)
(* internal/socketio/chat.go, the two drains of delivery.go that run when  *)
(* a socket connects, and the tables messages and pending_events between   *)
(* them.  Every query and every emission is a step of its own.             *)
(*                                                                         *)
(* A notice is an event that is relayed at once or left in pending_events: *)
(* message:deleted (named by the message it is about), profile:avatar, and *)
(* the missed call that signaling.go leaves in the table.  Only messages   *)
(* and avatars that pass the contact check are considered: the handlers    *)
(* refuse the others before they change anything, as they do a message     *)
(* whose id is taken.  A handler runs on when its socket goes, so the      *)
(* connections of the sender play no part in what the recipient gets, and  *)
(* a message may be sent at any moment.                                    *)
(***************************************************************************)
EXTENDS SocketRegistry

CONSTANTS
    Messages, Avatars, MissedCalls, \* what is sent
    To,                             \* the user each of them is meant for
    DbMayFail                       \* whether a query may return an error

Notices == Messages \cup Avatars \cup MissedCalls

ASSUME DistinctKinds == /\ Messages \cap Avatars = {}
                        /\ Messages \cap MissedCalls = {}
                        /\ Avatars \cap MissedCalls = {}
ASSUME Addressed == To \in [Notices -> Users]
ASSUME DbBoolean == DbMayFail \in BOOLEAN

VARIABLES
    stored,  \* rows of table messages, all with delivered = 0
    queued,  \* rows of table pending_events
    send,    \* progress of the message:send handler of each message
    got,     \* messages emitted to each socket since it connected
    acking,  \* <<socket, message>> of message:ack handlers about to DELETE
    notice,  \* progress of the handler that issues each notice
    seen,    \* notices emitted to a connected app socket of their user
    drain,   \* progress of the goroutine that drains into each socket
    rows,    \* the messages that goroutine has fetched
    events,  \* the notices it has fetched
    window   \* notices issued or drained in an unprotected window: history

tables == <<stored, queued>>
clients == <<got, seen, window>>
drains == <<drain, rows, events>>
vars == <<entry, stored, queued, send, got, acking, notice, seen, drain,
          rows, events, window>>

SendStates   == {"idle", "stored", "sent"}
NoticeStates == {"none", "check", "relay", "queue", "done"}
DrainStates  == {"idle", "select", "emit", "events", "emitEvents", "purge",
                 "done"}

TypeOK ==
    /\ RegistryTypeOK
    /\ stored \subseteq Messages
    /\ queued \subseteq Notices
    /\ send \in [Messages -> SendStates]
    /\ got \in [Sockets -> SUBSET Messages]
    /\ acking \subseteq AppSockets \X Messages
    /\ notice \in [Notices -> NoticeStates]
    /\ seen \subseteq Notices
    /\ drain \in [Sockets -> DrainStates]
    /\ rows \in [Sockets -> SUBSET Messages]
    /\ events \in [Sockets -> SUBSET Notices]
    /\ window \subseteq Notices

Init ==
    /\ RegistryInit
    /\ stored = {} /\ queued = {} /\ acking = {}
    /\ seen = {} /\ window = {}
    /\ send = [m \in Messages |-> "idle"]
    /\ notice = [n \in Notices |-> "none"]
    /\ drain = [s \in Sockets |-> "idle"]
    /\ got = [s \in Sockets |-> {}]
    /\ rows = [s \in Sockets |-> {}]
    /\ events = [s \in Sockets |-> {}]

-----------------------------------------------------------------------------
(* Connections.  onConnect starts the drain when Add has returned.  A      *)
(* socket of the model is connected again only when nothing of its former  *)
(* life is left, so that it stands for a fresh socket id.                  *)
Connect(s) ==
    /\ drain[s] \in {"idle", "done"}
    /\ \A m \in Messages : <<s, m>> \notin acking
    /\ AddRaw(s)
    /\ got' = [got EXCEPT ![s] = {}]
    /\ drain' = [drain EXCEPT ![s] = "idle"]
    /\ UNCHANGED <<tables, send, acking, notice, seen, rows, events, window>>

StartDrain(s) ==
    /\ Attach(s)
    /\ drain' = [drain EXCEPT ![s] = "select"]
    /\ UNCHANGED <<tables, send, acking, notice, clients, rows, events>>

Disconnect(s) ==
    /\ RemoveRaw(s)
    /\ UNCHANGED <<tables, send, acking, notice, clients, drains>>

-----------------------------------------------------------------------------
(* message:send.  The id is the primary key: a retry inserts the row anew  *)
(* if the first copy was acked or deleted, and is an error otherwise.      *)
StoreMessage(m) ==
    /\ send[m] # "stored"
    /\ m \notin stored
    /\ stored' = stored \cup {m}
    /\ send' = [send EXCEPT ![m] = "stored"]
    /\ UNCHANGED <<entry, queued, acking, notice, clients, drains>>

(* Fault: the message goes to app sockets only.                            *)
FanOutToApps(m) ==
    /\ send[m] = "stored"
    /\ got' = [s \in Sockets |-> IF s \in ReachableApp(To[m])
                                 THEN got[s] \cup {m} ELSE got[s]]
    /\ send' = [send EXCEPT ![m] = "sent"]
    /\ UNCHANGED <<entry, tables, acking, notice, seen, window, drains>>

(* EmitToUser.  Sockets that leave while it emits miss nothing they could  *)
(* have kept, so its snapshot and its emissions are one step.              *)
FanOut(m) ==
    /\ send[m] = "stored"
    /\ got' = [s \in Sockets |-> IF s \in Reachable(To[m])
                                 THEN got[s] \cup {m} ELSE got[s]]
    /\ send' = [send EXCEPT ![m] = "sent"]
    /\ UNCHANGED <<entry, tables, acking, notice, seen, window, drains>>

(* Fault: service sockets have the chat handlers, too.                     *)
AckLookupAnySocket(s, m) ==
    /\ entry[s] = "live"
    /\ m \in got[s] /\ m \in stored
    /\ acking' = acking \cup {<<s, m>>}
    /\ UNCHANGED <<entry, tables, send, notice, clients, drains>>

(* message:ack up to its DELETE: a message without a row is ignored.       *)
AckLookup(s, m) ==
    /\ s \in AppSockets /\ entry[s] = "live"
    /\ m \in got[s] /\ m \in stored
    /\ acking' = acking \cup {<<s, m>>}
    /\ UNCHANGED <<entry, tables, send, notice, clients, drains>>

AckDelete(s, m) ==
    /\ <<s, m>> \in acking
    /\ acking' = acking \ {<<s, m>>}
    /\ \/ stored' = stored \ {m}
       \/ DbMayFail /\ UNCHANGED stored
    /\ UNCHANGED <<entry, queued, send, notice, clients, drains>>

(* The daily job drops what nobody acked for 30 days.                      *)
CleanupStaleMessages(m) ==
    /\ m \in stored
    /\ stored' = stored \ {m}
    /\ UNCHANGED <<entry, queued, send, acking, notice, clients, drains>>

-----------------------------------------------------------------------------
(* Notices.  Each is issued once: a second one would be another notice.    *)

(* message:delete up to its look at the recipient's presence.              *)
DeleteMessage(m) ==
    /\ notice[m] = "none" /\ send[m] # "idle"
    /\ \/ stored' = stored \ {m}
       \/ DbMayFail /\ UNCHANGED stored
    /\ notice' = [notice EXCEPT ![m] = "check"]
    /\ UNCHANGED <<entry, queued, send, acking, clients, drains>>

(* profile:avatar up to the same point; the pointer it retains is read     *)
(* only by the contact list.                                               *)
SendAvatar(a) ==
    /\ notice[a] = "none"
    /\ notice' = [notice EXCEPT ![a] = "check"]
    /\ UNCHANGED <<entry, tables, send, acking, clients, drains>>

(* enqueueMissedCall never looks at the recipient.                         *)
MissCall(c) ==
    /\ notice[c] = "none"
    /\ notice' = [notice EXCEPT ![c] = "queue"]
    /\ UNCHANGED <<entry, tables, send, acking, clients, drains>>

(* IsUserOnline counts service sockets.                                    *)
CheckOnline(n) ==
    /\ notice[n] = "check"
    /\ notice' = [notice EXCEPT ![n] = IF IsUserOnline(To[n]) THEN "relay"
                                       ELSE "queue"]
    /\ UNCHANGED <<entry, tables, send, acking, clients, drains>>

(* EmitToUserAppOnly, which emits to nobody if no app socket is attached.  *)
Relay(n) ==
    /\ notice[n] = "relay"
    /\ notice' = [notice EXCEPT ![n] = "done"]
    /\ IF ReachableApp(To[n]) # {}
       THEN seen' = seen \cup {n} /\ UNCHANGED window
       ELSE window' = window \cup {n} /\ UNCHANGED seen
    /\ UNCHANGED <<entry, tables, send, acking, got, drains>>

(* A drain that has fetched notices of u and has yet to delete all rows.   *)
WillPurge(u) ==
    \E s \in AppSockets : /\ Owner[s] = u
                          /\ \/ drain[s] = "purge"
                             \/ drain[s] = "emitEvents" /\ events[s] # {}

(* The INSERT into pending_events, whose error is ignored.                 *)
Queue(n) ==
    /\ notice[n] = "queue"
    /\ notice' = [notice EXCEPT ![n] = "done"]
    /\ \/ /\ queued' = queued \cup {n}
          /\ window' = IF WillPurge(To[n]) THEN window \cup {n} ELSE window
       \/ /\ DbMayFail
          /\ window' = window \cup {n}
          /\ UNCHANGED queued
    /\ UNCHANGED <<entry, stored, send, acking, got, seen, drains>>

-----------------------------------------------------------------------------
(* deliverPending for app sockets and deliverMessagesToService for service *)
(* sockets.  Both outlive their socket, and then emit to nobody.  A failed *)
(* SELECT ends them; the next connection starts over.                      *)
GiveUp(s) ==
    /\ DbMayFail
    /\ drain[s] \in {"select", "events"}
    /\ drain' = [drain EXCEPT ![s] = "done"]
    /\ UNCHANGED <<entry, tables, send, acking, notice, clients, rows, events>>

(* Fault: a drain of notices only.                                         *)
SelectNothing(s) ==
    /\ drain[s] = "select"
    /\ drain' = [drain EXCEPT ![s] = IF s \in AppSockets THEN "events"
                                     ELSE "done"]
    /\ UNCHANGED <<entry, tables, send, acking, notice, clients, rows, events>>

SelectMessages(s) ==
    /\ drain[s] = "select"
    /\ rows' = [rows EXCEPT ![s] = {m \in stored : To[m] = Owner[s]}]
    /\ drain' = [drain EXCEPT ![s] = "emit"]
    /\ UNCHANGED <<entry, tables, send, acking, notice, clients, events>>

EmitMessages(s) ==
    /\ drain[s] = "emit"
    /\ got' = [got EXCEPT ![s] = IF entry[s] = "live" THEN @ \cup rows[s]
                                 ELSE @]
    /\ rows' = [rows EXCEPT ![s] = {}]
    /\ drain' = [drain EXCEPT ![s] = IF s \in AppSockets THEN "events"
                                     ELSE "done"]
    /\ UNCHANGED <<entry, tables, send, acking, notice, seen, window, events>>

SelectEvents(s) ==
    /\ drain[s] = "events"
    /\ events' = [events EXCEPT ![s] = {n \in queued : To[n] = Owner[s]}]
    /\ drain' = [drain EXCEPT ![s] = "emitEvents"]
    /\ UNCHANGED <<entry, tables, send, acking, notice, clients, rows>>

(* Fault: the rows are deleted whether any were fetched or not.            *)
EmitEventsAlwaysPurge(s) ==
    /\ drain[s] = "emitEvents"
    /\ IF entry[s] = "live"
       THEN seen' = seen \cup events[s] /\ UNCHANGED window
       ELSE window' = window \cup events[s] /\ UNCHANGED seen
    /\ events' = [events EXCEPT ![s] = {}]
    /\ drain' = [drain EXCEPT ![s] = "purge"]
    /\ UNCHANGED <<entry, tables, send, acking, notice, got, rows>>

EmitEvents(s) ==
    /\ drain[s] = "emitEvents"
    /\ IF entry[s] = "live"
       THEN seen' = seen \cup events[s] /\ UNCHANGED window
       ELSE window' = window \cup events[s] /\ UNCHANGED seen
    /\ events' = [events EXCEPT ![s] = {}]
    /\ drain' = [drain EXCEPT ![s] = IF events[s] = {} THEN "done"
                                     ELSE "purge"]
    /\ UNCHANGED <<entry, tables, send, acking, notice, got, rows>>

(* DELETE FROM pending_events WHERE user_id = ?: all rows of the user,     *)
(* whether this drain fetched them or not.                                 *)
Purge(s) ==
    /\ drain[s] = "purge"
    /\ \/ queued' = {n \in queued : To[n] # Owner[s]}
       \/ DbMayFail /\ UNCHANGED queued
    /\ drain' = [drain EXCEPT ![s] = "done"]
    /\ UNCHANGED <<entry, stored, send, acking, notice, clients, rows, events>>

-----------------------------------------------------------------------------
SocketStep(s) == Connect(s) \/ StartDrain(s) \/ Disconnect(s)

DrainStep(s) == \/ GiveUp(s) \/ SelectMessages(s) \/ EmitMessages(s)
                \/ SelectEvents(s) \/ EmitEvents(s) \/ Purge(s)

AckStep(s, m) == AckLookup(s, m) \/ AckDelete(s, m)

MessageStep(m) == StoreMessage(m) \/ FanOut(m) \/ CleanupStaleMessages(m)

HandNotice(n) == CheckOnline(n) \/ Relay(n) \/ Queue(n)

Next == \/ \E s \in Sockets : SocketStep(s) \/ DrainStep(s)
        \/ \E m \in Messages : MessageStep(m) \/ DeleteMessage(m)
        \/ \E s \in Sockets, m \in Messages : AckStep(s, m)
        \/ \E a \in Avatars : SendAvatar(a)
        \/ \E c \in MissedCalls : MissCall(c)
        \/ \E n \in Notices : HandNotice(n)

Spec == Init /\ [][Next]_vars

(* A handler or drain that has started runs on; users do what they like.   *)
Fairness ==
    /\ \A s \in Sockets : WF_vars(StartDrain(s)) /\ WF_vars(DrainStep(s))
    /\ \A m \in Messages : WF_vars(FanOut(m))

FairSpec == Spec /\ Fairness

-----------------------------------------------------------------------------
(* Nothing falls between the drain and the live path.  An attached socket  *)
(* whose drain is past its SELECT is owed no message: every stored message *)
(* for its user was emitted to it, is among the rows it is about to emit,  *)
(* or has its fan-out still to come.  Needs the order of onConnect (Add    *)
(* before the drain) and of message:send (INSERT before EmitToUser).       *)
NoMissedMessage ==
    \A s \in Sockets, m \in stored :
        /\ To[m] = Owner[s]
        /\ entry[s] = "live"
        /\ drain[s] # "select"
        => \/ m \in got[s]
           \/ send[m] = "stored"
           \/ drain[s] = "emit" /\ m \in rows[s]

(* A notice that was issued and is neither in the table, nor fetched by a  *)
(* drain, nor emitted to an app socket.                                    *)
Lost(n) == /\ notice[n] = "done"
           /\ n \notin queued \cup seen
           /\ \A s \in Sockets : n \notin events[s]

(* Only an app socket's drain holds notices, and what the table holds for  *)
(* its user when it is about to delete has been dealt with: emitted by it, *)
(* or inserted in the window.  Two sockets of one user may drain together. *)
PurgeIsCovered ==
    \A s \in Sockets :
        /\ entry[s] = "raw" => drain[s] = "idle"
        /\ events[s] # {} => drain[s] = "emitEvents"
        /\ drain[s] \in {"events", "emitEvents", "purge"} => s \in AppSockets
        /\ \A n \in queued : To[n] = Owner[s] =>
            /\ drain[s] = "emitEvents" /\ events[s] # {}
                   => n \in events[s] \cup window
            /\ drain[s] = "purge" => n \in seen \cup window

(* Notices are lost in three windows only: relayed while no app socket of  *)
(* a user who counts as online is attached, inserted while a drain is      *)
(* between its SELECT and its DELETE, or drained into a socket that left.  *)
(* (A failed INSERT loses one too.)  Any other order keeps them.           *)
LossOnlyInWindows == \A n \in Notices : Lost(n) => n \in window

(* A missed call stays in the table until it has been emitted to an app    *)
(* socket of the callee: what enqueueMissedCall is for.                    *)
MissedCallKept == \A c \in MissedCalls : ~Lost(c)

(* A message for a user with an attached socket is emitted to that socket, *)
(* unless the socket leaves or the row goes first.                         *)
StoredReachesSocket ==
    \A s \in Sockets, m \in Messages :
        (m \in stored /\ To[m] = Owner[s] /\ entry[s] = "live")
            ~> (m \in got[s] \/ m \notin stored \/ entry[s] # "live")
=============================================================================
