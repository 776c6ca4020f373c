-------------------------- MODULE MCMessageDelivery --------------------------
(***************************************************************************)
(* Instances of MessageDelivery: everything is meant for one user, who     *)
(* comes and goes on app sockets and perhaps a background service socket.  *)
(***************************************************************************)
EXTENDS MessageDelivery, TLC

OneOwner == [s \in Sockets |-> CHOOSE u \in Users : TRUE]
OneRecipient == [n \in Notices |-> CHOOSE u \in Users : TRUE]

Symmetry == Permutations(Messages) \cup Permutations(AppSockets)
=============================================================================
