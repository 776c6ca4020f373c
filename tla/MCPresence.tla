----------------------------- MODULE MCPresence -----------------------------
(***************************************************************************)
(* Instances of Presence for TLC: one user, whose phone opens app sockets  *)
(* and a background service socket.  The maps of presence.go are keyed by  *)
(* user and nothing it does for one user reads another one's cells.        *)
(***************************************************************************)
EXTENDS Presence, TLC

OneOwner == [s \in Sockets |-> CHOOSE u \in Users : TRUE]
=============================================================================
