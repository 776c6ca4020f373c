---------------------------- MODULE DeviceTokens ----------------------------
(***************************************************************************)
(* Table device_tokens: its queries in internal/db/tokens.go, the handler  *)
(* of internal/routes/devicetoken.go that registers and removes tokens,    *)
(* and the fan-out of internal/push/push.go that wakes a user's devices    *)
(* and prunes the tokens FCM no longer knows.  Requests arrive in any      *)
(* order; any number of fan-outs runs beside them.                         *)
(***************************************************************************)
EXTENDS FiniteSets

CONSTANTS
    Users,
    Tokens, \* FCM tokens; one that FCM has given up is never used again
    Wakes,  \* goroutines that fan out; one stands for many in turn
    NoUser, NoToken

ASSUME NoneIsFresh == NoUser \notin Users /\ NoToken \notin Tokens

VARIABLES
    owner,    \* device_tokens.user_id of each token that has a row
    dead,     \* tokens FCM answers UNREGISTERED to
    joining,  \* POST requests on their way: the user and the token
    leaving,  \* DELETE requests on their way
    list,     \* the tokens each fan-out has not come to yet
    pruning   \* the token it is about to delete

requests == <<joining, leaving>>
fanouts == <<list, pruning>>
vars == <<owner, dead, requests, fanouts>>

TypeOK ==
    /\ owner \in [Tokens -> Users \cup {NoUser}]
    /\ dead \subseteq Tokens
    /\ joining \subseteq Users \X Tokens
    /\ leaving \subseteq Users \X Tokens
    /\ list \in [Wakes -> SUBSET Tokens]
    /\ pruning \in [Wakes -> Tokens \cup {NoToken}]

Init ==
    /\ owner = [t \in Tokens |-> NoUser]
    /\ dead = {}
    /\ joining = {} /\ leaving = {}
    /\ list = [w \in Wakes |-> {}]
    /\ pruning = [w \in Wakes |-> NoToken]

-----------------------------------------------------------------------------
(* The clients, and FCM: a device whose app is opened by another user      *)
(* sends the same token for that user.                                     *)
Request(u, t) ==
    /\ \/ joining' = joining \cup {<<u, t>>} /\ UNCHANGED leaving
       \/ leaving' = leaving \cup {<<u, t>>} /\ UNCHANGED joining
    /\ UNCHANGED <<owner, dead, fanouts>>

Die(t) ==
    /\ t \notin dead
    /\ dead' = dead \cup {t}
    /\ UNCHANGED <<owner, requests, fanouts>>

-----------------------------------------------------------------------------
(* UpsertDeviceToken: the token is re-pointed if another user had it.      *)
UpsertDeviceToken(u, t) ==
    /\ <<u, t>> \in joining
    /\ joining' = joining \ {<<u, t>>}
    /\ owner' = [owner EXCEPT ![t] = u]
    /\ UNCHANGED <<dead, leaving, fanouts>>

(* A row that another user has meanwhile is left alone.                    *)
DeleteDeviceToken(u, t) ==
    /\ <<u, t>> \in leaving
    /\ leaving' = leaving \ {<<u, t>>}
    /\ owner' = [owner EXCEPT ![t] = IF @ = u THEN NoUser ELSE @]
    /\ UNCHANGED <<dead, joining, fanouts>>

(* The query of a handler fails, or its request is lost.                   *)
Drop(u, t) ==
    /\ \/ <<u, t>> \in joining /\ joining' = joining \ {<<u, t>>}
          /\ UNCHANGED leaving
       \/ <<u, t>> \in leaving /\ leaving' = leaving \ {<<u, t>>}
          /\ UNCHANGED joining
    /\ UNCHANGED <<owner, dead, fanouts>>

-----------------------------------------------------------------------------
(* fanout: GetUserTokens, then a Send after the other.  The rows are read  *)
(* once, and may be re-pointed or deleted before their turn comes.         *)
GetUserTokens(w, u) ==
    /\ list[w] = {} /\ pruning[w] = NoToken
    /\ list' = [list EXCEPT ![w] = {t \in Tokens : owner[t] = u}]
    /\ UNCHANGED <<owner, dead, requests, pruning>>

(* Fault: a token is pruned whatever the error is.                         *)
SendAndPrune(w, t) ==
    /\ pruning[w] = NoToken /\ t \in list[w]
    /\ list' = [list EXCEPT ![w] = @ \ {t}]
    /\ pruning' \in {pruning, [pruning EXCEPT ![w] = t]}
    /\ UNCHANGED <<owner, dead, requests>>

(* FCM takes the wake or fails, for a reason that says nothing of the      *)
(* token; or it does not know the token any more, ErrInvalidToken.         *)
Send(w, t) ==
    /\ pruning[w] = NoToken /\ t \in list[w]
    /\ list' = [list EXCEPT ![w] = @ \ {t}]
    /\ \/ UNCHANGED pruning
       \/ t \in dead /\ pruning' = [pruning EXCEPT ![w] = t]
    /\ UNCHANGED <<owner, dead, requests>>

(* DeleteToken, by value; its error is ignored.                            *)
Prune(w) ==
    /\ pruning[w] # NoToken
    /\ \/ owner' = [owner EXCEPT ![pruning[w]] = NoUser]
       \/ UNCHANGED owner
    /\ pruning' = [pruning EXCEPT ![w] = NoToken]
    /\ UNCHANGED <<dead, requests, list>>

(* The server stops: goroutines and handlers end where they are.           *)
Crash ==
    /\ list' = [w \in Wakes |-> {}]
    /\ pruning' = [w \in Wakes |-> NoToken]
    /\ UNCHANGED <<owner, dead, requests>>

-----------------------------------------------------------------------------
External == \E u \in Users, t \in Tokens : Request(u, t) \/ Die(t)

Handle(u, t) == \/ UpsertDeviceToken(u, t) \/ DeleteDeviceToken(u, t)
                \/ Drop(u, t)

Fanout(w) == \/ \E u \in Users : GetUserTokens(w, u)
             \/ \E t \in Tokens : Send(w, t)
             \/ Prune(w)

Next ==
    \/ External
    \/ \E u \in Users, t \in Tokens : Handle(u, t)
    \/ \E w \in Wakes : Fanout(w)
    \/ Crash

Spec == Init /\ [][Next]_vars

-----------------------------------------------------------------------------
(* A device that can be woken stays so until its own user asks otherwise:  *)
(* neither a late request of the user who had it before (tokens.go:21) nor *)
(* a fan-out that read the row long ago, whatever errors FCM has answered  *)
(* it with (push.go:41), deletes the row of a token that is alive.         *)
LiveTokenStays ==
    [][\A t \in Tokens \ dead :
          owner[t] # NoUser /\ <<owner[t], t>> \notin leaving =>
              owner'[t] # NoUser]_vars
=============================================================================
