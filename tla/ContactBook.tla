----------------------------- MODULE ContactBook -----------------------------
(***************************************************************************)
(* What routes/contacts.go promises of two users: a contact begins with a  *)
(* request, the user who is asked accepts or rejects it, and a contact     *)
(* lasts.  A handler that another one overtook, or whose lookup failed, may *)
(* leave a pair with rows that do not fit together; nothing is promised    *)
(* about that pair any more, and a contact is never such a pair.           *)
(***************************************************************************)
CONSTANT Users

VARIABLES
    asked,   \* <<u, v>>: u has asked v, who has yet to answer
    friends, \* <<u, v>>: u may send to v
    odd      \* pairs whose rows do not fit

vars == <<asked, friends, odd>>

TypeOK == /\ asked \subseteq Users \X Users
          /\ friends \subseteq Users \X Users
          /\ odd \subseteq SUBSET Users

Init == asked = {} /\ friends = {} /\ odd = {}

BothWays(u, v) == {<<u, v>>, <<v, u>>}

Ask(u, v) ==
    /\ u # v /\ {u, v} \notin odd
    /\ BothWays(u, v) \cap (asked \cup friends) = {}
    /\ asked' = asked \cup {<<u, v>>}
    /\ UNCHANGED <<friends, odd>>

(* u answers v.                                                            *)
Accept(u, v) ==
    /\ <<v, u>> \in asked
    /\ asked' = asked \ {<<v, u>>}
    /\ friends' = friends \cup BothWays(u, v)
    /\ UNCHANGED odd

Reject(u, v) ==
    /\ <<v, u>> \in asked
    /\ asked' = asked \ {<<v, u>>}
    /\ UNCHANGED <<friends, odd>>

(* A handler has written against a row that it had not seen.               *)
Collide(u, v) ==
    /\ u # v /\ {u, v} \notin odd
    /\ BothWays(u, v) \cap friends = {}
    /\ asked' = asked \ BothWays(u, v)
    /\ odd' = odd \cup {{u, v}}
    /\ UNCHANGED friends

Next == \E u, v \in Users : Ask(u, v) \/ Accept(u, v) \/ Reject(u, v)
                            \/ Collide(u, v)

Spec == Init /\ [][Next]_vars
=============================================================================
