--------------------------- MODULE SocketRegistry ---------------------------
(***************************************************************************)
(* What internal/socketio/presence.go promises the other handlers: a       *)
(* registry that knows, for every socket, whether it is registered for its *)
(* user and whether events can already be emitted to it.  Timers,          *)
(* goroutines and broadcasts are left to module Presence, which implements *)
(* this one; the message and call handlers are built on top of this one.   *)
(***************************************************************************)
CONSTANTS
    Users,          \* the registered users
    AppSockets,     \* connections whose socketType is not "service"
    ServiceSockets, \* connections of the background service
    Owner           \* the user each connection authenticated as

Sockets == AppSockets \cup ServiceSockets

ASSUME SocketKinds == AppSockets \cap ServiceSockets = {}
ASSUME OwnerType   == Owner \in [Sockets -> Users]

VARIABLE entry      \* the map Presence.users, one cell per socket

(* "raw" is an entry without its *socketio.Socket: AddRaw has run and the  *)
(* second critical section of Add has not.                                 *)
EntryStates == {"absent", "raw", "live"}

RegistryTypeOK == entry \in [Sockets -> EntryStates]

RegistryInit == entry = [s \in Sockets |-> "absent"]

-----------------------------------------------------------------------------
(* Queries: each is one read-locked section of the code.                   *)

Registered(u) == {s \in Sockets : Owner[s] = u /\ entry[s] # "absent"}

IsUserOnline(u) == Registered(u) # {}

HasAppSocket(u) == Registered(u) \cap AppSockets # {}

(* The sockets EmitToUser and EmitToUserAppOnly write to.                  *)
Reachable(u)    == {s \in Registered(u) : entry[s] = "live"}
ReachableApp(u) == Reachable(u) \cap AppSockets

-----------------------------------------------------------------------------
AddRaw(s) ==
    /\ entry[s] = "absent"
    /\ entry' = [entry EXCEPT ![s] = "raw"]

Attach(s) ==
    /\ entry[s] = "raw"
    /\ entry' = [entry EXCEPT ![s] = "live"]

(* The disconnect handler is registered when Add has returned.             *)
RemoveRaw(s) ==
    /\ entry[s] = "live"
    /\ entry' = [entry EXCEPT ![s] = "absent"]

RegistryNext == \E s \in Sockets : AddRaw(s) \/ Attach(s) \/ RemoveRaw(s)

RegistrySpec == RegistryInit /\ [][RegistryNext]_entry
=============================================================================
