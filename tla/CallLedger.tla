----------------------------- MODULE CallLedger -----------------------------
(***************************************************************************)
(* What becomes of call attempts, as a user of signaling.go sees it: one   *)
(* attempt of a pair at a time is under way, an attempt that is over stays *)
(* over, and each leaves one missed-call row or none.  CallSignaling, with *)
(* its tables and its handlers between two critical sections, implements   *)
(* this.                                                                   *)
(***************************************************************************)
EXTENDS Naturals

CONSTANTS
    Calls, \* call attempts
    Pair   \* the two users of each

VARIABLES
    state, \* where each attempt stands
    rows   \* call:missed rows written for it

vars == <<state, rows>>

States == {"open", "tracked", "taken", "missed", "closed"}

TypeOK == state \in [Calls -> States] /\ rows \in [Calls -> Nat]

Init == /\ state = [c \in Calls |-> "open"]
        /\ rows = [c \in Calls |-> 0]

Move(c, from, to) ==
    /\ state[c] = from
    /\ state' = [state EXCEPT ![c] = to]

WriteRow(c) == rows' = [rows EXCEPT ![c] = @ + 1]

(* Nobody could be reached in time.                                        *)
Refuse(c) == Move(c, "open", "missed") /\ WriteRow(c)

(* The callee rings; an attempt the pair still had under way is dropped.   *)
Track(c) ==
    /\ state[c] = "open"
    /\ state' = [d \in Calls |->
                    IF d = c THEN "tracked"
                    ELSE IF Pair[d] = Pair[c] /\ state[d] = "tracked"
                         THEN "closed" ELSE state[d]]
    /\ UNCHANGED rows

(* The attempt ends: at once, or to be looked at by whoever ended it.      *)
End(c) ==
    /\ Move(c, "tracked", "closed") \/ Move(c, "tracked", "taken")
    /\ UNCHANGED rows

Settle(c) ==
    \/ Move(c, "taken", "closed") /\ UNCHANGED rows
    \/ Move(c, "taken", "missed") /\ WriteRow(c)

Next == \E c \in Calls : Refuse(c) \/ Track(c) \/ End(c) \/ Settle(c)

Spec == Init /\ [][Next]_vars
=============================================================================
