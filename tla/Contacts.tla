------------------------------ MODULE Contacts ------------------------------
(***************************************************************************)
(* internal/routes/contacts.go: requests between users and the codes that  *)
(* users find each other by, with internal/contactcode, the part of        *)
(* routes/auth.go that gives a new user a code, and CleanupRetiredCodes of *)
(* internal/db/cleanup.go.  Every query and every transaction is a step;   *)
(* any number of handlers runs at a time, for any users, and any query or  *)
(* transaction may fail.  A failure that ends a handler before it has      *)
(* looked at anything, or a job's, changes nothing and is no step.         *)
(***************************************************************************)
EXTENDS Naturals, FiniteSets

CONSTANTS
    Users,
    Codes,    \* contact codes a random draw may give
    Requests, \* handlers of POST requests; one stands for many in turn
    NoUser,   \* the user of a handler that is idle
    NoCode    \* the code of a user who is not registered

ASSUME NoUserIsFresh == NoUser \notin Users
ASSUME NoCodeIsFresh == NoCode \notin Codes

VARIABLES
    contact, \* the status of each row of table contacts
    code,    \* users.contact_code, once the user is registered
    retired, \* the codes in table retired_codes
    expired, \* those of them that were retired more than 24 hours ago
    at,      \* progress of each request
    by,      \* the user who makes it
    other,   \* the user it is about
    held,    \* the code the user had when regenerateCode looked
    drawn,   \* the code Generate has drawn
    givenUp, \* codes somebody gave up less than 24 hours ago: history
    stale,   \* requests that rely on a row that has changed, or that they
             \* failed to see: history
    oddPairs, \* pairs of users that such requests left misfits: history
    oddCodes  \* codes that such requests changed: history

request == <<at, by, other, held, drawn>>
codes == <<code, retired, expired, givenUp, oddCodes>>
vars == <<contact, codes, request, stale, oddPairs>>

TypeOK ==
    /\ contact \in [Users -> [Users -> {"none", "pending", "accepted"}]]
    /\ code \in [Users -> Codes \cup {NoCode}]
    /\ retired \subseteq Codes /\ expired \subseteq retired
    /\ at \in [Requests ->
                 {"idle", "find", "insert", "accept", "draw", "check", "swap"}]
    /\ by \in [Requests -> Users \cup {NoUser}]
    /\ other \in [Requests -> Users \cup {NoUser}]
    /\ held \in [Requests -> Codes \cup {NoCode}]
    /\ drawn \in [Requests -> Codes \cup {NoCode}]
    /\ \A r \in Requests :
           /\ at[r] # "idle" => by[r] \in Users
           /\ at[r] \in {"find", "insert", "accept"} => other[r] \in Users
           /\ at[r] \in {"check", "swap"} => drawn[r] \in Codes
    /\ givenUp \subseteq Codes /\ oddCodes \subseteq Codes
    /\ stale \subseteq Requests /\ oddPairs \subseteq SUBSET Users

Init ==
    /\ contact = [u \in Users |-> [v \in Users |-> "none"]]
    /\ code = [u \in Users |-> NoCode]
    /\ retired = {} /\ expired = {}
    /\ at = [r \in Requests |-> "idle"]
    /\ by = [r \in Requests |-> NoUser]
    /\ other = [r \in Requests |-> NoUser]
    /\ held = [r \in Requests |-> NoCode]
    /\ drawn = [r \in Requests |-> NoCode]
    /\ givenUp = {} /\ stale = {} /\ oddPairs = {} /\ oddCodes = {}

Registered(u) == code[u] # NoCode

(* The queries of listContacts and recover_, of listRequests, and of the   *)
(* chat and file handlers that ask whether u may send to v.                *)
Listed(u) == {v \in Users : \/ contact[u][v] = "accepted"
                            \/ contact[v][u] = "accepted"}
Incoming(u) == {v \in Users : contact[v][u] = "pending"}
MaySend(u, v) == contact[u][v] = "accepted"

Start(r, phase, u, v, c) ==
    /\ at[r] = "idle"
    /\ at' = [at EXCEPT ![r] = phase]
    /\ by' = [by EXCEPT ![r] = u]
    /\ other' = [other EXCEPT ![r] = v]
    /\ held' = [held EXCEPT ![r] = c]
    /\ drawn' = [drawn EXCEPT ![r] = NoCode]

Return(r) ==
    /\ at' = [at EXCEPT ![r] = "idle"]
    /\ by' = [by EXCEPT ![r] = NoUser]
    /\ other' = [other EXCEPT ![r] = NoUser]
    /\ held' = [held EXCEPT ![r] = NoCode]
    /\ drawn' = [drawn EXCEPT ![r] = NoCode]

(* The requests, but r, that have looked at the rows of users u and v.     *)
LookedAt(r, u, v) == {q \in Requests \ {r} : /\ at[q] \in {"insert", "accept"}
                                             /\ {by[q], other[q]} = {u, v}}

-----------------------------------------------------------------------------
(* addContact: who has that code, is there a row in either direction, then *)
(* the INSERT, which the primary key refuses if the same row is there.     *)
ResolveCode(r, u, v) ==
    /\ Registered(u) /\ Registered(v) /\ u # v
    /\ Start(r, "find", u, v, NoCode)
    /\ UNCHANGED <<contact, codes, stale, oddPairs>>

(* The request goes on to its INSERT.                                      *)
Proceed(r) == /\ at' = [at EXCEPT ![r] = "insert"]
              /\ UNCHANGED <<by, other, held, drawn>>

(* Fault: only the caller's own row is looked for.                         *)
FindOwnRow(r) ==
    /\ at[r] = "find"
    /\ IF contact[by[r]][other[r]] = "none" THEN Proceed(r) ELSE Return(r)
    /\ UNCHANGED <<contact, codes, stale, oddPairs>>

(* The error of the query is ignored: one that fails finds nothing.        *)
FindRow(r) ==
    LET nothing == /\ contact[by[r]][other[r]] = "none"
                   /\ contact[other[r]][by[r]] = "none"
    IN  /\ at[r] = "find"
        /\ \/ nothing /\ Proceed(r) /\ UNCHANGED stale
           \/ ~nothing /\ Return(r) /\ UNCHANGED stale
           \/ ~nothing /\ Proceed(r) /\ stale' = stale \cup {r}
        /\ UNCHANGED <<contact, codes, oddPairs>>

(* Request r has written the rows of u and v, on a stale view if it is     *)
(* marked so; the rows are misfits then.                                   *)
Written(r, u, v, misfit) ==
    /\ stale' = (stale \ {r}) \cup LookedAt(r, u, v)
    /\ oddPairs' = IF r \in stale /\ misfit THEN oddPairs \cup {{u, v}}
                   ELSE oddPairs

(* A statement or a transaction that is refused, or fails.                 *)
Refused(r) == stale' = stale \ {r} /\ UNCHANGED <<contact, oddPairs>>

Insert(r) ==
    LET u == by[r] v == other[r]
    IN  /\ at[r] = "insert"
        /\ \/ /\ contact[u][v] = "none"
              /\ contact' = [contact EXCEPT ![u][v] = "pending"]
              /\ Written(r, u, v, contact[v][u] # "none")
           \/ Refused(r)
        /\ Return(r)
        /\ UNCHANGED codes

(* acceptContact: u accepts the request of v.                              *)
FindRequest(r, u, v) ==
    /\ v \in Incoming(u)
    /\ Start(r, "accept", u, v, NoCode)
    /\ UNCHANGED <<contact, codes, stale, oddPairs>>

(* Fault: the INSERT of the reverse row is left out.                       *)
AcceptOneRow(r) ==
    LET u == by[r] v == other[r]
    IN  /\ at[r] = "accept"
        /\ contact' = [contact EXCEPT ![v][u] = "accepted"]
        /\ Written(r, u, v, contact[v][u] = "none")
        /\ Return(r)
        /\ UNCHANGED codes

(* The transaction: the UPDATE takes the row as it is, or none; the INSERT *)
(* undoes it if the reverse row is there.                                  *)
Accept(r) ==
    LET u == by[r] v == other[r]
        update == [contact EXCEPT
                      ![v][u] = IF @ = "none" THEN "none" ELSE "accepted"]
    IN  /\ at[r] = "accept"
        /\ \/ /\ contact[u][v] = "none"
              /\ contact' = [update EXCEPT ![u][v] = "accepted"]
              /\ Written(r, u, v, contact[v][u] = "none")
           \/ Refused(r)
        /\ Return(r)
        /\ UNCHANGED codes

(* Fault: whatever the status.                                             *)
RejectAny(u, v) ==
    /\ contact[v][u] # "none"
    /\ contact' = [contact EXCEPT ![v][u] = "none"]
    /\ UNCHANGED <<codes, request, stale, oddPairs>>

(* rejectContact, a single statement; u rejects v.                         *)
Reject(u, v) ==
    /\ v \in Incoming(u)
    /\ contact' = [contact EXCEPT ![v][u] = "none"]
    /\ stale' = stale \cup {q \in Requests : /\ at[q] \in {"insert", "accept"}
                                             /\ {by[q], other[q]} = {u, v}}
    /\ UNCHANGED <<codes, request, oddPairs>>

-----------------------------------------------------------------------------
(* regenerateCode reads the old code; a registration has none.             *)
ReadCode(r, u) ==
    /\ Start(r, "draw", u, NoUser, code[u])
    /\ UNCHANGED <<contact, codes, stale, oddPairs>>

(* Generate: a draw that no user has, then one that is not retired; at the *)
(* tenth such draw, or a query that fails, it gives up.                    *)
Draw(r) ==
    /\ at[r] = "draw"
    /\ \/ /\ \E c \in Codes \ {code[u] : u \in Users} :
                 drawn' = [drawn EXCEPT ![r] = c]
          /\ at' = [at EXCEPT ![r] = "check"]
          /\ UNCHANGED <<by, other, held, stale>>
       \/ Return(r) /\ stale' = stale \ {r}
    /\ UNCHANGED <<contact, codes, oddPairs>>

(* Fault: the second query is left out.                                    *)
CheckNothing(r) ==
    /\ at[r] = "check"
    /\ at' = [at EXCEPT ![r] = "swap"]
    /\ UNCHANGED <<contact, codes, by, other, held, drawn, stale, oddPairs>>

CheckRetired(r) ==
    /\ at[r] = "check"
    /\ \/ /\ drawn[r] \in retired
          /\ at' = [at EXCEPT ![r] = "draw"]
          /\ drawn' = [drawn EXCEPT ![r] = NoCode]
          /\ UNCHANGED <<by, other, held, stale>>
       \/ /\ drawn[r] \notin retired
          /\ at' = [at EXCEPT ![r] = "swap"]
          /\ UNCHANGED <<by, other, held, drawn, stale>>
       \/ Return(r) /\ stale' = stale \ {r}
    /\ UNCHANGED <<contact, codes, oddPairs>>

(* Requests of u that know its code, and requests that found c unretired.  *)
KnowCode(r, u, c) ==
    {q \in Requests \ {r} : \/ at[q] \in {"draw", "check", "swap"} /\ by[q] = u
                            \/ at[q] = "swap" /\ drawn[q] = c}

(* The unique code is taken and the old one goes.                          *)
TakeCode(r, c) ==
    LET u == by[r]
    IN  /\ code' = [code EXCEPT ![u] = c]
        /\ givenUp' = (givenUp \cup ({code[u]} \ {NoCode})) \ {c}
        /\ stale' = (stale \ {r}) \cup KnowCode(r, u, held[r])
        /\ oddCodes' = IF r \in stale
                       THEN oddCodes \cup ({code[u], c, held[r]} \ {NoCode})
                       ELSE oddCodes \ {c}

(* Fault: the old code is not retired.                                     *)
SwapWithoutRetiring(r) ==
    /\ at[r] = "swap"
    /\ TakeCode(r, drawn[r])
    /\ Return(r)
    /\ UNCHANGED <<contact, retired, expired, oddPairs>>

(* The transaction of regenerateCode: INSERT OR IGNORE the old code, then  *)
(* the UPDATE, which the unique column may refuse; or the INSERT of a new  *)
(* user, who is not registered yet.                                        *)
SwapCode(r) ==
    LET u == by[r] c == drawn[r]
    IN  /\ at[r] = "swap"
        /\ \/ /\ \A v \in Users : code[v] # c
              /\ held[r] # NoCode \/ ~Registered(u)
              /\ TakeCode(r, c)
              /\ retired' = retired \cup ({held[r]} \ {NoCode})
           \/ /\ stale' = stale \ {r}
              /\ UNCHANGED <<code, retired, givenUp, oddCodes>>
        /\ Return(r)
        /\ UNCHANGED <<contact, expired, oddPairs>>

(* A handler takes less than the 24 hours a code is retired for.           *)
Expire(c) ==
    /\ c \in retired \ expired
    /\ \A r \in Requests : c # held[r] /\ c # drawn[r]
    /\ expired' = expired \cup {c}
    /\ givenUp' = givenUp \ {c}
    /\ UNCHANGED <<contact, code, retired, oddCodes, request, stale, oddPairs>>

CleanupRetiredCodes ==
    /\ expired # {}
    /\ retired' = retired \ expired
    /\ expired' = {}
    /\ UNCHANGED <<contact, code, givenUp, oddCodes, request, stale, oddPairs>>

-----------------------------------------------------------------------------
ContactStep(r) == \/ \E u, v \in Users : ResolveCode(r, u, v)
                                         \/ FindRequest(r, u, v)
                  \/ FindRow(r) \/ Insert(r) \/ Accept(r)
CodeStep(r) == \/ \E u \in Users : ReadCode(r, u)
               \/ Draw(r) \/ CheckRetired(r) \/ SwapCode(r)

Next == \/ \E r \in Requests : ContactStep(r) \/ CodeStep(r)
        \/ \E u, v \in Users : Reject(u, v)
        \/ \E c \in Codes : Expire(c)
        \/ CleanupRetiredCodes

Spec == Init /\ [][Next]_vars

-----------------------------------------------------------------------------
(* Whoever a user sees in the list of contacts the user may send to, call  *)
(* and hand files to: an acceptance is written in both directions, unless  *)
(* a handler that wrote one of the rows relied on a row that was withdrawn *)
(* meanwhile, or failed to see one.                                        *)
ListedMaySend ==
    \A u, v \in Users : v \in Listed(u) => MaySend(u, v) \/ {u, v} \in oddPairs

(* A request that a user sees can be accepted: the reverse row, which      *)
(* would make the transaction of acceptContact fail for ever, is missing,  *)
(* unless a handler wrote after another's write that it had not seen: it   *)
(* had looked before it, or its lookup had failed.                         *)
RequestsAcceptable ==
    \A u, v \in Users :
        v \in Incoming(u) => contact[u][v] = "none" \/ {u, v} \in oddPairs

(* No delayed rejection, repeated request or failed transaction takes back *)
(* what has been accepted.                                                 *)
AcceptedStays ==
    [][\A u, v \in Users :
           contact[u][v] = "accepted" => contact'[u][v] = "accepted"]_vars

(* Both of these at work: what the two rows of a pair say about it follows *)
(* ContactBook, in which only the user who was asked answers, in which two *)
(* requests never cross, and from which a contact does not go away.        *)
RowsThatFit(status) ==
    {p \in Users \X Users : /\ contact[p[1]][p[2]] = status
                            /\ {p[1], p[2]} \notin oddPairs}

Book == INSTANCE ContactBook WITH asked   <- RowsThatFit("pending"),
                                  friends <- RowsThatFit("accepted"),
                                  odd     <- oddPairs

BookSpec == Book!Spec

(* A code that was given up is retired for 24 hours, unless its user had   *)
(* two new codes made at once.                                             *)
GivenUpIsRetired == givenUp \subseteq retired \cup oddCodes

(* Nobody has a retired code, so that a friend who still knows it finds    *)
(* nobody rather than a stranger, unless the code was drawn before it was  *)
(* taken and given up by another handler.                                  *)
RetiredIsNobodys ==
    \A u \in Users : code[u] \notin retired \ oddCodes

(* Two users who add each other end up with one request, or a contact.     *)
RequestsDoNotCross ==
    \A u, v \in Users : ~(v \in Incoming(u) /\ u \in Incoming(v))
=============================================================================
