---------------------------- MODULE ContactProofs ----------------------------
(***************************************************************************)
(* The rows of table contacts, which implement ContactBook, and the        *)
(* contact codes, for any users, codes and requests.                       *)
(***************************************************************************)
EXTENDS Contacts, TLAPS

USE DEF request, codes

(* A request that starts is in its type; so is one that returns.           *)
LEMMA StartType ==
    ASSUME TypeOK, NEW r \in Requests, NEW u \in Users, NEW v, NEW phase,
           NEW c \in Codes \cup {NoCode}, Start(r, phase, u, v, c),
           \/ phase \in {"find", "accept"} /\ v \in Users
           \/ phase = "draw" /\ v = NoUser,
           UNCHANGED <<contact, codes, stale, oddPairs>>
    PROVE  TypeOK'
BY DEF TypeOK, Start

LEMMA ReturnType ==
    ASSUME TypeOK, NEW r \in Requests, Return(r)
    PROVE  /\ at' \in [Requests -> {"idle", "find", "insert", "accept",
                                    "draw", "check", "swap"}]
           /\ by' \in [Requests -> Users \cup {NoUser}]
           /\ other' \in [Requests -> Users \cup {NoUser}]
           /\ held' \in [Requests -> Codes \cup {NoCode}]
           /\ drawn' \in [Requests -> Codes \cup {NoCode}]
           /\ \A q \in Requests :
                  /\ at'[q] # "idle" => by'[q] \in Users
                  /\ at'[q] \in {"find", "insert", "accept"} =>
                         other'[q] \in Users
                  /\ at'[q] \in {"check", "swap"} => drawn'[q] \in Codes
BY DEF TypeOK, Return

Statuses == {"none", "pending", "accepted"}

(* A statement that writes one row of the table.                           *)
LEMMA WriteRow ==
    ASSUME NEW table \in [Users -> [Users -> Statuses]],
           NEW u \in Users, NEW v \in Users, NEW s \in Statuses
    PROVE  /\ [table EXCEPT ![u][v] = s] \in [Users -> [Users -> Statuses]]
           /\ \A x, y \in Users :
                  [table EXCEPT ![u][v] = s][x][y] =
                      IF x = u /\ y = v THEN s ELSE table[x][y]
OBVIOUS

(* The two statements of Accept.                                           *)
LEMMA AcceptWrites ==
    ASSUME NEW table \in [Users -> [Users -> Statuses]],
           NEW u \in Users, NEW v \in Users, NEW update,
           update = [table EXCEPT
               ![v][u] = IF @ = "none" THEN "none" ELSE "accepted"]
    PROVE  /\ [update EXCEPT ![u][v] = "accepted"]
                  \in [Users -> [Users -> Statuses]]
           /\ \A x, y \in Users :
                  [update EXCEPT ![u][v] = "accepted"][x][y] =
                      IF x = u /\ y = v THEN "accepted"
                      ELSE IF x = v /\ y = u /\ table[v][u] # "none"
                      THEN "accepted" ELSE table[x][y]
<1>1. /\ update \in [Users -> [Users -> Statuses]]
      /\ \A x, y \in Users :
             update[x][y] = IF x = v /\ y = u /\ table[v][u] # "none"
                            THEN "accepted" ELSE table[x][y]
    BY DEF Statuses
<1>2. /\ [update EXCEPT ![u][v] = "accepted"]
             \in [Users -> [Users -> Statuses]]
      /\ \A x, y \in Users :
             [update EXCEPT ![u][v] = "accepted"][x][y] =
                 IF x = u /\ y = v THEN "accepted" ELSE update[x][y]
    BY <1>1 DEF Statuses
<1> DEFINE after == [update EXCEPT ![u][v] = "accepted"]
<1> HIDE DEF after
<1>3. \A x, y \in Users :
          after[x][y] = IF x = u /\ y = v THEN "accepted"
                        ELSE IF x = v /\ y = u /\ table[v][u] # "none"
                        THEN "accepted" ELSE table[x][y]
    <2> TAKE x, y \in Users
    <2>1. update[x][y] = IF x = v /\ y = u /\ table[v][u] # "none"
                         THEN "accepted" ELSE table[x][y]
        BY <1>1
    <2>2. after[x][y] = IF x = u /\ y = v THEN "accepted" ELSE update[x][y]
        BY <1>2 DEF after
    <2> HIDE DEF after
    <2> QED BY ONLY <2>1, <2>2
<1> QED BY <1>2, <1>3 DEF after

LEMMA TypeStep == TypeOK /\ [Next]_vars => TypeOK'
<1> SUFFICES ASSUME TypeOK, [Next]_vars PROVE TypeOK'
    OBVIOUS
<1>1. ASSUME NEW r \in Requests, ContactStep(r) PROVE TypeOK'
    <2>1. ASSUME NEW u \in Users, NEW v \in Users,
                 ResolveCode(r, u, v) \/ FindRequest(r, u, v)
          PROVE  TypeOK'
        BY <2>1, StartType DEF ResolveCode, FindRequest
    <2>2. CASE FindRow(r)
        <3>1. CASE Return(r)
            BY <2>2, <3>1, ReturnType DEF FindRow, TypeOK
        <3>2. CASE ~Return(r)
            BY <2>2, <3>2 DEF FindRow, Proceed, TypeOK
        <3> QED BY <3>1, <3>2
    <2>3. CASE Insert(r) \/ Accept(r)
        <3>1. PICK u \in Users, v \in Users : u = by[r] /\ v = other[r]
            BY <2>3 DEF Insert, Accept, TypeOK
        <3>2. contact \in [Users -> [Users -> Statuses]]
            BY DEF TypeOK, Statuses
        <3>3. ASSUME Insert(r)
              PROVE  contact' \in [Users -> [Users -> Statuses]]
            <4>1. contact' \in {contact, [contact EXCEPT ![u][v] = "pending"]}
                BY <3>1, <3>3 DEF Insert, Refused
            <4> QED BY <3>2, <4>1 DEF Statuses
        <3>4. ASSUME Accept(r)
              PROVE  contact' \in [Users -> [Users -> Statuses]]
            <4>1. PICK update : update = [contact EXCEPT
                      ![v][u] = IF @ = "none" THEN "none" ELSE "accepted"]
                OBVIOUS
            <4>2. contact' \in {contact, [update EXCEPT ![u][v] = "accepted"]}
                BY <3>1, <3>4, <4>1 DEF Accept, Refused
            <4>3. update \in [Users -> [Users -> Statuses]]
                BY <3>2, <4>1 DEF Statuses
            <4>4. [update EXCEPT ![u][v] = "accepted"]
                      \in [Users -> [Users -> Statuses]]
                BY <4>3 DEF Statuses
            <4> QED BY <3>2, <4>2, <4>4
        <3>5. contact' \in [Users -> [Users -> Statuses]]
            BY <2>3, <3>3, <3>4
        <3>6. stale' \subseteq Requests
            BY <2>3 DEF Insert, Accept, Written, Refused, LookedAt, TypeOK
        <3>7. oddPairs' \in {oddPairs, oddPairs \cup {{u, v}}}
            BY <2>3, <3>1 DEF Insert, Accept, Written, Refused
        <3>8. oddPairs' \subseteq SUBSET Users
            <4>1. oddPairs \subseteq SUBSET Users
                BY DEF TypeOK
            <4>2. {u, v} \in SUBSET Users
                BY <3>1
            <4> QED BY <3>7, <4>1, <4>2
        <3> QED BY <2>3, <3>5, <3>6, <3>8, ReturnType
                DEF Insert, Accept, TypeOK, Statuses
    <2> QED BY <1>1, <2>1, <2>2, <2>3 DEF ContactStep
<1>2. ASSUME NEW r \in Requests, CodeStep(r) PROVE TypeOK'
    <2>1. ASSUME NEW u \in Users, ReadCode(r, u) PROVE TypeOK'
        <3>1. code[u] \in Codes \cup {NoCode}
            BY DEF TypeOK
        <3> QED BY <2>1, <3>1, StartType DEF ReadCode
    <2>2. CASE Draw(r)
        <3>1. CASE Return(r)
            BY <2>2, <3>1, ReturnType DEF Draw, TypeOK
        <3>2. CASE ~Return(r)
            <4>1. PICK c \in Codes : drawn' = [drawn EXCEPT ![r] = c]
                BY <2>2, <3>2 DEF Draw
            <4>2. /\ at' = [at EXCEPT ![r] = "check"] /\ at[r] = "draw"
                  /\ UNCHANGED <<by, other, held, stale, contact, codes,
                                 oddPairs>>
                BY <2>2, <3>2 DEF Draw
            <4> QED BY <4>1, <4>2 DEF TypeOK
        <3> QED BY <3>1, <3>2
    <2>3. CASE CheckRetired(r)
        <3>1. CASE Return(r)
            BY <2>3, <3>1, ReturnType DEF CheckRetired, TypeOK
        <3>2. CASE /\ at' = [at EXCEPT ![r] = "draw"]
                   /\ drawn' = [drawn EXCEPT ![r] = NoCode]
                   /\ UNCHANGED <<by, other, held, stale>>
            BY <2>3, <3>2 DEF CheckRetired, TypeOK
        <3>3. CASE /\ at' = [at EXCEPT ![r] = "swap"]
                   /\ UNCHANGED <<by, other, held, drawn, stale>>
            BY <2>3, <3>3 DEF CheckRetired, TypeOK
        <3> QED BY <2>3, <3>1, <3>2, <3>3 DEF CheckRetired
    <2>4. CASE SwapCode(r)
        <3>1. /\ by[r] \in Users /\ drawn[r] \in Codes
              /\ held[r] \in Codes \cup {NoCode}
            BY <2>4 DEF SwapCode, TypeOK
        <3>2. code[by[r]] \in Codes \cup {NoCode}
            BY <3>1 DEF TypeOK
        <3>3. code' \in [Users -> Codes \cup {NoCode}]
            BY <2>4, <3>1 DEF SwapCode, TakeCode, TypeOK
        <3>4. retired' \subseteq Codes /\ retired \subseteq retired'
            BY <2>4, <3>1 DEF SwapCode, TypeOK
        <3>5. givenUp' \subseteq Codes /\ oddCodes' \subseteq Codes
            BY <2>4, <3>1, <3>2 DEF SwapCode, TakeCode, TypeOK
        <3>6. stale' \subseteq Requests
            BY <2>4 DEF SwapCode, TakeCode, KnowCode, TypeOK
        <3> QED BY <2>4, <3>3, <3>4, <3>5, <3>6, ReturnType
                DEF SwapCode, TypeOK
    <2> QED BY <1>2, <2>1, <2>2, <2>3, <2>4 DEF CodeStep
<1>3. ASSUME NEW u \in Users, NEW v \in Users, Reject(u, v) PROVE TypeOK'
    BY <1>3 DEF Reject, TypeOK
<1>4. ASSUME NEW c \in Codes, Expire(c) PROVE TypeOK'
    BY <1>4 DEF Expire, TypeOK
<1>5. CASE CleanupRetiredCodes
    BY <1>5 DEF CleanupRetiredCodes, TypeOK
<1>6. CASE UNCHANGED vars
    BY <1>6 DEF vars, TypeOK
<1> QED BY <1>1, <1>2, <1>3, <1>4, <1>5, <1>6 DEF Next

(* Every reachable state is a state of the declared types.                 *)
THEOREM TypeCorrect == Spec => []TypeOK
<1>1. Init => TypeOK
    BY DEF Init, TypeOK
<1> QED BY <1>1, TypeStep, PTL DEF Spec

-----------------------------------------------------------------------------
(* No statement takes an accepted row back.                                *)
THEOREM AcceptedCorrect == Spec => AcceptedStays
<1>1. ASSUME TypeOK, [Next]_vars
      PROVE  [\A u, v \in Users : contact[u][v] = "accepted" =>
                                  contact'[u][v] = "accepted"]_vars
    <2>1. ASSUME NEW r \in Requests, ContactStep(r),
                 NEW x \in Users, NEW y \in Users, contact[x][y] = "accepted"
          PROVE  contact'[x][y] = "accepted"
        <3> \/ by[r] \in Users /\ other[r] \in Users
            \/ contact' = contact
            BY <1>1, <2>1
               DEF ContactStep, ResolveCode, FindRequest, FindRow, Insert,
                   Accept, TypeOK
        <3> contact \in [Users -> [Users -> Statuses]]
            BY <1>1 DEF TypeOK, Statuses
        <3>1. CASE Insert(r) /\ contact' # contact
            <4>1. /\ contact[by[r]][other[r]] = "none"
                  /\ contact' = [contact EXCEPT
                                    ![by[r]][other[r]] = "pending"]
                BY <3>1 DEF Insert, Refused
            <4> QED BY <2>1, <3>1, <4>1, WriteRow DEF Statuses
        <3>2. CASE Accept(r) /\ contact' # contact
            <4>1. PICK u \in Users, v \in Users : u = by[r] /\ v = other[r]
                BY <3>2
            <4>2. PICK update : update = [contact EXCEPT
                      ![v][u] = IF @ = "none" THEN "none" ELSE "accepted"]
                OBVIOUS
            <4>3. contact' = [update EXCEPT ![u][v] = "accepted"]
                BY <3>2, <4>1, <4>2 DEF Accept, Refused
            <4>4. contact'[x][y] = IF x = u /\ y = v THEN "accepted"
                      ELSE IF x = v /\ y = u /\ contact[v][u] # "none"
                      THEN "accepted" ELSE contact[x][y]
                BY <4>2, <4>3, AcceptWrites
            <4> QED BY <2>1, <4>4
        <3> QED BY <2>1, <3>1, <3>2
                DEF ContactStep, ResolveCode, FindRequest, FindRow
    <2>2. ASSUME NEW r \in Requests, CodeStep(r) PROVE contact' = contact
        BY <2>2 DEF CodeStep, ReadCode, Draw, CheckRetired, SwapCode
    <2>3. ASSUME NEW u \in Users, NEW v \in Users, Reject(u, v),
                 NEW x \in Users, NEW y \in Users, contact[x][y] = "accepted"
          PROVE  contact'[x][y] = "accepted"
        BY <1>1, <2>3 DEF Reject, Incoming, TypeOK
    <2>4. ASSUME NEW c \in Codes, Expire(c) \/ CleanupRetiredCodes
          PROVE contact' = contact
        BY <2>4 DEF Expire, CleanupRetiredCodes
    <2> QED BY <1>1, <2>1, <2>2, <2>3, <2>4
            DEF Next, Expire, CleanupRetiredCodes
<1> QED BY <1>1, TypeCorrect, PTL DEF Spec, AcceptedStays

-----------------------------------------------------------------------------
Unacquainted(u, v) == contact[u][v] = "none" /\ contact[v][u] = "none"

(* What a handler that has looked knows, until it is overtaken.            *)
Knows(r) ==
    /\ at[r] \in {"find", "insert", "accept"} => by[r] # other[r]
    /\ at[r] = "insert" /\ r \notin stale => Unacquainted(by[r], other[r])
    /\ at[r] = "accept" /\ r \notin stale =>
           contact[other[r]][by[r]] = "pending"

Paired ==
    /\ ListedMaySend /\ RequestsAcceptable
    /\ \A u \in Users : contact[u][u] = "none"
    /\ \A r \in Requests : Knows(r)

USE DEF Listed, Incoming, MaySend

(* A step of a handler that writes no row, and looks before it goes on.    *)
LEMMA PairedStutter ==
    ASSUME TypeOK, Paired, UNCHANGED <<contact, oddPairs>>,
           \A r \in Requests : Knows(r)'
    PROVE  Paired'
BY DEF Paired, ListedMaySend, RequestsAcceptable

LEMMA PairedStep == TypeOK /\ Paired /\ [Next]_vars => Paired'
<1> SUFFICES ASSUME TypeOK, Paired, [Next]_vars PROVE Paired'
    OBVIOUS
<1>1. ASSUME NEW r \in Requests, ContactStep(r) PROVE Paired'
    <2>1. ASSUME NEW u \in Users, NEW v \in Users,
                 ResolveCode(r, u, v) \/ FindRequest(r, u, v)
          PROVE  Paired'
        <3>1. u # v
            BY <2>1 DEF ResolveCode, FindRequest, Paired
        <3>2. \A q \in Requests : Knows(q)'
            BY <2>1, <3>1
               DEF ResolveCode, FindRequest, Start, TypeOK, Paired, Knows,
                   Unacquainted
        <3> QED BY <2>1, <3>2, PairedStutter DEF ResolveCode, FindRequest
    <2>2. CASE FindRow(r)
        <3>1. \A q \in Requests : Knows(q)'
            BY <2>2
               DEF FindRow, Proceed, Return, TypeOK, Paired, Knows,
                   Unacquainted
        <3> QED BY <2>2, <3>1, PairedStutter DEF FindRow
    <2>3. CASE Insert(r)
        <3>1. PICK u \in Users, v \in Users :
                  u = by[r] /\ v = other[r] /\ u # v
            BY <2>3 DEF Insert, TypeOK, Paired, Knows
        <3>2. CASE ~Refused(r)
            <4>1. /\ contact[u][v] = "none"
                  /\ contact' = [contact EXCEPT ![u][v] = "pending"]
                  /\ stale' = (stale \ {r}) \cup LookedAt(r, u, v)
                  /\ oddPairs' = IF r \in stale /\ contact[v][u] # "none"
                                 THEN oddPairs \cup {{u, v}} ELSE oddPairs
                  /\ Return(r)
                BY <2>3, <3>1, <3>2 DEF Insert, Written
            <4>2. \A q \in Requests : Knows(q)'
                BY <3>1, <4>1
                   DEF Return, LookedAt, TypeOK, Paired, Knows, Unacquainted
            <4>3. r \notin stale => Unacquainted(u, v)
                BY <2>3, <3>1 DEF Insert, Paired, Knows
            <4>4. ListedMaySend' /\ RequestsAcceptable'
                BY <3>1, <3>2, <4>1, <4>3
                   DEF TypeOK, Paired, ListedMaySend, RequestsAcceptable,
                       Unacquainted
            <4> QED BY <3>1, <4>1, <4>2, <4>4 DEF Paired, TypeOK
        <3>3. CASE Refused(r)
            <4>1. stale' = stale \ {r} /\ UNCHANGED <<contact, oddPairs>>
                  /\ Return(r)
                BY <2>3, <3>3 DEF Insert, Refused
            <4>2. \A q \in Requests : Knows(q)'
                BY <4>1 DEF Return, TypeOK, Paired, Knows, Unacquainted
            <4> QED BY <4>1, <4>2, PairedStutter
        <3> QED BY <3>2, <3>3
    <2>4. CASE Accept(r)
        <3>1. PICK u \in Users, v \in Users :
                  u = by[r] /\ v = other[r] /\ u # v
            BY <2>4 DEF Accept, TypeOK, Paired, Knows
        <3>2. CASE ~Refused(r)
            <4>1. /\ contact[u][v] = "none"
                  /\ \A x, y \in Users : contact'[x][y] =
                         IF x = u /\ y = v THEN "accepted"
                         ELSE IF x = v /\ y = u /\ contact[v][u] # "none"
                         THEN "accepted" ELSE contact[x][y]
                  /\ stale' = (stale \ {r}) \cup LookedAt(r, u, v)
                  /\ oddPairs' = IF r \in stale /\ contact[v][u] = "none"
                                 THEN oddPairs \cup {{u, v}} ELSE oddPairs
                  /\ Return(r)
                BY <2>4, <3>1, <3>2, AcceptWrites
                   DEF Accept, Written, TypeOK, Statuses
            <4>2. \A q \in Requests : Knows(q)'
                BY <3>1, <4>1
                   DEF Return, LookedAt, TypeOK, Paired, Knows, Unacquainted
            <4>3. r \notin stale => contact[v][u] = "pending"
                BY <2>4, <3>1 DEF Accept, Paired, Knows
            <4>4. ListedMaySend' /\ RequestsAcceptable'
                BY <3>1, <3>2, <4>1, <4>3
                   DEF Paired, ListedMaySend, RequestsAcceptable
            <4> QED BY <3>1, <4>1, <4>2, <4>4 DEF Paired, TypeOK
        <3>3. CASE Refused(r)
            <4>1. stale' = stale \ {r} /\ UNCHANGED <<contact, oddPairs>>
                  /\ Return(r)
                BY <2>4, <3>3 DEF Accept, Refused
            <4>2. \A q \in Requests : Knows(q)'
                BY <4>1 DEF Return, TypeOK, Paired, Knows, Unacquainted
            <4> QED BY <4>1, <4>2, PairedStutter
        <3> QED BY <3>2, <3>3
    <2> QED BY <1>1, <2>1, <2>2, <2>3, <2>4 DEF ContactStep
<1>2. ASSUME NEW r \in Requests, CodeStep(r) PROVE Paired'
    <2>1. UNCHANGED <<contact, oddPairs>>
        BY <1>2 DEF CodeStep, ReadCode, Draw, CheckRetired, SwapCode
    <2>2. \A q \in Requests : Knows(q)'
        BY <1>2, <2>1
           DEF CodeStep, ReadCode, Draw, CheckRetired, SwapCode, TakeCode,
               KnowCode, Start, Return, TypeOK, Paired, Knows, Unacquainted
    <2> QED BY <2>1, <2>2, PairedStutter
<1>3. ASSUME NEW u \in Users, NEW v \in Users, Reject(u, v) PROVE Paired'
    <2>1. \A q \in Requests : Knows(q)'
        BY <1>3 DEF Reject, TypeOK, Paired, Knows, Unacquainted
    <2>2. ListedMaySend' /\ RequestsAcceptable'
        BY <1>3
           DEF Reject, TypeOK, Paired, ListedMaySend, RequestsAcceptable
    <2> QED BY <1>3, <2>1, <2>2 DEF Reject, Paired, TypeOK
<1>4. ASSUME NEW c \in Codes, Expire(c) PROVE Paired'
    BY <1>4, PairedStutter DEF Expire, Paired, Knows, Unacquainted
<1>5. CASE CleanupRetiredCodes
    BY <1>5, PairedStutter DEF CleanupRetiredCodes, Paired, Knows, Unacquainted
<1>6. CASE UNCHANGED vars
    BY <1>6, PairedStutter DEF vars, Paired, Knows, Unacquainted
<1> QED BY <1>1, <1>2, <1>3, <1>4, <1>5, <1>6 DEF Next

LEMMA PairedCorrect == Spec => []Paired
<1>1. Init => Paired
    BY DEF Init, Paired, ListedMaySend, RequestsAcceptable, Knows
<1> QED BY <1>1, TypeCorrect, PairedStep, PTL DEF Spec

(* Contacts are mutual but for pairs written on a withdrawn request, or    *)
(* against a row that a failed lookup hid.                                 *)
THEOREM ListedCorrect == Spec => []ListedMaySend
<1>1. Paired => ListedMaySend
    BY DEF Paired
<1> QED BY <1>1, PairedCorrect, PTL

(* Requests can be accepted but for pairs that were written twice, the     *)
(* second time without a view of the first.                                *)
THEOREM AcceptableCorrect == Spec => []RequestsAcceptable
<1>1. Paired => RequestsAcceptable
    BY DEF Paired
<1> QED BY <1>1, PairedCorrect, PTL

-----------------------------------------------------------------------------
(* The book of contacts.  A pair of rows is known by its users.            *)
LEMMA SamePair ==
    ASSUME NEW x, NEW y, NEW u, NEW v
    PROVE  {x, y} = {u, v} <=> (x = u /\ y = v) \/ (x = v /\ y = u)
OBVIOUS

LEMMA BookStutter ==
    ASSUME UNCHANGED <<contact, oddPairs>> PROVE UNCHANGED Book!vars
BY DEF Book!vars, RowsThatFit

(* Of a pair that is odd already the book keeps nothing that could change. *)
LEMMA OddStutter ==
    ASSUME NEW u \in Users, NEW v \in Users,
           {u, v} \in oddPairs, oddPairs' = oddPairs,
           \A x, y \in Users :
               {x, y} # {u, v} => contact'[x][y] = contact[x][y]
    PROVE  UNCHANGED Book!vars
<1>1. \A x, y \in Users : {x, y} \notin oddPairs =>
                                contact'[x][y] = contact[x][y]
    OBVIOUS
<1>2. ASSUME NEW status
      PROVE  RowsThatFit(status)' = RowsThatFit(status)
    BY <1>1 DEF RowsThatFit
<1> QED BY <1>2 DEF Book!vars

(* A pair becomes odd before it is a contact.                              *)
LEMMA BookCollides ==
    ASSUME Paired, NEW u \in Users, NEW v \in Users, u # v,
           {u, v} \notin oddPairs, contact[u][v] = "none",
           oddPairs' = oddPairs \cup {{u, v}},
           \A x, y \in Users :
               {x, y} # {u, v} => contact'[x][y] = contact[x][y]
    PROVE  Book!Collide(u, v)
<1>1. contact[v][u] # "accepted"
    BY SamePair DEF Paired, ListedMaySend
<1>2. \A x, y \in Users :
          {x, y} # {u, v} => <<x, y>> \notin Book!BothWays(u, v)
    BY DEF Book!BothWays
<1>3. \A x, y \in Users :
          {x, y} = {u, v} => <<x, y>> \in Book!BothWays(u, v)
    BY SamePair DEF Book!BothWays
<1>4. Book!BothWays(u, v) \cap RowsThatFit("accepted") = {}
    BY <1>1 DEF Book!BothWays, RowsThatFit
<1>5. RowsThatFit("accepted")' = RowsThatFit("accepted")
    BY <1>2, <1>3, <1>4 DEF RowsThatFit
<1>6. RowsThatFit("pending")' = RowsThatFit("pending") \ Book!BothWays(u, v)
    BY <1>2, <1>3 DEF RowsThatFit
<1> QED BY <1>4, <1>5, <1>6 DEF Book!Collide

LEMMA BookStep == TypeOK /\ Paired /\ [Next]_vars => [Book!Next]_Book!vars
<1> SUFFICES ASSUME TypeOK, Paired, [Next]_vars
             PROVE  [Book!Next]_Book!vars
    OBVIOUS
<1>1. ASSUME NEW r \in Requests, Insert(r) PROVE [Book!Next]_Book!vars
    <2>1. PICK u \in Users, v \in Users : u = by[r] /\ v = other[r] /\ u # v
        BY <1>1 DEF Insert, TypeOK, Paired, Knows
    <2>2. CASE ~Refused(r)
        <3>1. /\ contact[u][v] = "none"
              /\ contact' = [contact EXCEPT ![u][v] = "pending"]
              /\ oddPairs' = IF r \in stale /\ contact[v][u] # "none"
                             THEN oddPairs \cup {{u, v}} ELSE oddPairs
            BY <1>1, <2>1, <2>2 DEF Insert, Written
        <3>2. \A x, y \in Users : contact'[x][y] =
                  IF x = u /\ y = v THEN "pending" ELSE contact[x][y]
            BY <3>1, WriteRow DEF TypeOK, Statuses
        <3>3. \A x, y \in Users : {x, y} # {u, v} =>
                                      contact'[x][y] = contact[x][y]
            BY <3>2
        <3>4. CASE {u, v} \in oddPairs
            <4>1. oddPairs' = oddPairs
                BY <3>1, <3>4
            <4> QED BY <3>3, <3>4, <4>1, OddStutter
        <3>5. CASE {u, v} \notin oddPairs /\ contact[v][u] # "none"
            <4>1. r \in stale
                BY <1>1, <2>1, <3>5 DEF Insert, Paired, Knows, Unacquainted
            <4>2. oddPairs' = oddPairs \cup {{u, v}}
                BY <3>1, <3>5, <4>1
            <4>3. Book!Collide(u, v)
                BY <2>1, <3>1, <3>3, <3>5, <4>2, BookCollides
            <4> QED BY <4>3 DEF Book!Next
        <3>6. CASE {u, v} \notin oddPairs /\ contact[v][u] = "none"
            <4>1. Unacquainted(u, v)
                BY <3>1, <3>6 DEF Unacquainted
            <4>2. RowsThatFit("pending")'
                      = RowsThatFit("pending") \cup {<<u, v>>}
                <5>1. oddPairs' = oddPairs /\ contact'[u][v] = "pending"
                    BY <3>1, <3>2, <3>6
                <5>2. \A x, y \in Users : contact'[x][y] = "pending" <=>
                          contact[x][y] = "pending" \/ (x = u /\ y = v)
                    BY <3>2
                <5>3. \A p \in Users \X Users :
                          p = <<u, v>> <=> p[1] = u /\ p[2] = v
                    OBVIOUS
                <5>4. ASSUME NEW p \in Users \X Users
                      PROVE  p \in RowsThatFit("pending")' <=>
                                 p \in RowsThatFit("pending") \/ p = <<u, v>>
                    BY <3>6, <5>1, <5>2, <5>3 DEF RowsThatFit
                <5>5. <<u, v>> \in Users \X Users
                    OBVIOUS
                <5>6. /\ RowsThatFit("pending")' \subseteq Users \X Users
                      /\ RowsThatFit("pending") \subseteq Users \X Users
                    BY DEF RowsThatFit
                <5> HIDE DEF RowsThatFit
                <5> QED BY <5>4, <5>5, <5>6
            <4>3. RowsThatFit("accepted")' = RowsThatFit("accepted")
                BY <3>1, <3>2, <3>6, <4>1 DEF RowsThatFit, Unacquainted
            <4>4. Book!BothWays(u, v) \cap (RowsThatFit("pending") \cup
                                            RowsThatFit("accepted")) = {}
                BY <4>1 DEF Book!BothWays, RowsThatFit, Unacquainted
            <4> QED BY <2>1, <3>1, <3>6, <4>2, <4>3, <4>4
                    DEF Book!Ask, Book!Next
        <3> QED BY <3>4, <3>5, <3>6
    <2>3. CASE Refused(r)
        BY <2>3, BookStutter DEF Refused
    <2> QED BY <2>2, <2>3
<1>2. ASSUME NEW r \in Requests, Accept(r) PROVE [Book!Next]_Book!vars
    <2>1. PICK u \in Users, v \in Users : u = by[r] /\ v = other[r] /\ u # v
        BY <1>2 DEF Accept, TypeOK, Paired, Knows
    <2>2. CASE ~Refused(r)
        <3>1. /\ contact[u][v] = "none"
              /\ \A x, y \in Users : contact'[x][y] =
                     IF x = u /\ y = v THEN "accepted"
                     ELSE IF x = v /\ y = u /\ contact[v][u] # "none"
                     THEN "accepted" ELSE contact[x][y]
              /\ oddPairs' = IF r \in stale /\ contact[v][u] = "none"
                             THEN oddPairs \cup {{u, v}} ELSE oddPairs
            BY <1>2, <2>1, <2>2, AcceptWrites
               DEF Accept, Written, TypeOK, Statuses
        <3>2. \A x, y \in Users : {x, y} # {u, v} =>
                                      contact'[x][y] = contact[x][y]
            BY <3>1
        <3>3. CASE {u, v} \in oddPairs
            <4>1. oddPairs' = oddPairs
                BY <3>1, <3>3
            <4> QED BY <3>2, <3>3, <4>1, OddStutter
        <3>4. CASE {u, v} \notin oddPairs /\ contact[v][u] = "none"
            <4>1. r \in stale
                BY <1>2, <2>1, <3>4 DEF Accept, Paired, Knows
            <4>2. oddPairs' = oddPairs \cup {{u, v}}
                BY <3>1, <3>4, <4>1
            <4>3. Book!Collide(u, v)
                BY <2>1, <3>1, <3>2, <3>4, <4>2, BookCollides
            <4> QED BY <4>3 DEF Book!Next
        <3>5. CASE {u, v} \notin oddPairs /\ contact[v][u] # "none"
            <4>1. contact[v][u] = "pending"
                <5>1. contact[v][u] # "accepted"
                    BY <3>1, <3>5 DEF Paired, ListedMaySend
                <5> QED BY <3>5, <5>1 DEF TypeOK
            <4>2. oddPairs' = oddPairs /\ {v, u} \notin oddPairs
                BY <3>1, <3>5, SamePair
            <4>3. <<v, u>> \in RowsThatFit("pending")
                BY <4>1, <4>2 DEF RowsThatFit
            <4>4. RowsThatFit("pending")' = RowsThatFit("pending") \ {<<v, u>>}
                BY <3>1, <4>1, <4>2 DEF RowsThatFit
            <4>5. RowsThatFit("accepted")'
                      = RowsThatFit("accepted") \cup Book!BothWays(u, v)
                BY <3>1, <3>5, <4>1, <4>2 DEF RowsThatFit, Book!BothWays
            <4> QED BY <4>2, <4>3, <4>4, <4>5 DEF Book!Accept, Book!Next
        <3> QED BY <3>3, <3>4, <3>5
    <2>3. CASE Refused(r)
        BY <2>3, BookStutter DEF Refused
    <2> QED BY <2>2, <2>3
<1>3. ASSUME NEW u \in Users, NEW v \in Users, Reject(u, v)
      PROVE  [Book!Next]_Book!vars
    <2>1. /\ contact[v][u] = "pending"
          /\ contact' = [contact EXCEPT ![v][u] = "none"]
          /\ oddPairs' = oddPairs
        BY <1>3 DEF Reject
    <2>2. \A x, y \in Users : contact'[x][y] =
              IF x = v /\ y = u THEN "none" ELSE contact[x][y]
        BY <2>1, WriteRow DEF TypeOK, Statuses
    <2>3. CASE {v, u} \in oddPairs
        BY <2>1, <2>2, <2>3, OddStutter
    <2>4. CASE {v, u} \notin oddPairs
        <3>1. <<v, u>> \in RowsThatFit("pending")
            BY <2>1, <2>4 DEF RowsThatFit
        <3>2. RowsThatFit("pending")' = RowsThatFit("pending") \ {<<v, u>>}
            BY <2>1, <2>2 DEF RowsThatFit
        <3>3. RowsThatFit("accepted")' = RowsThatFit("accepted")
            BY <2>1, <2>2 DEF RowsThatFit
        <3> QED BY <2>1, <3>1, <3>2, <3>3 DEF Book!Reject, Book!Next
    <2> QED BY <2>3, <2>4
<1>4. CASE UNCHANGED <<contact, oddPairs>>
    BY <1>4, BookStutter
<1> QED BY <1>1, <1>2, <1>3, <1>4
        DEF Next, ContactStep, CodeStep, ResolveCode, FindRequest, FindRow,
            ReadCode, Draw, CheckRetired, SwapCode, Expire,
            CleanupRetiredCodes, vars

(* The handlers of contacts keep the book: a contact begins with a request *)
(* that only the user who was asked answers, requests that fit never       *)
(* cross, and a contact lasts, whoever looks and writes in between, and    *)
(* whichever lookup or statement fails.                                    *)
THEOREM BookIsKept == Spec => BookSpec
<1>1. Init => Book!Init
    BY DEF Init, Book!Init, RowsThatFit
<1> QED BY <1>1, BookStep, TypeCorrect, PairedCorrect, PTL
        DEF Spec, BookSpec, Book!Spec

-----------------------------------------------------------------------------
(* What a handler that is making a code knows, until it is overtaken.      *)
KnowsCode(r) ==
    /\ at[r] \in {"draw", "check", "swap"} /\ r \notin stale =>
           held[r] = code[by[r]]
    /\ at[r] = "swap" /\ r \notin stale => drawn[r] \notin retired

Retiring ==
    /\ GivenUpIsRetired /\ RetiredIsNobodys
    /\ \A u, v \in Users : u # v /\ code[u] # NoCode => code[u] # code[v]
    /\ givenUp \cap expired \subseteq oddCodes
    /\ \A r \in Requests : KnowsCode(r)

(* A step that changes no code, and no set of codes.                       *)
LEMMA RetiringStutter ==
    ASSUME TypeOK, Retiring, UNCHANGED codes,
           \A r \in Requests : KnowsCode(r)'
    PROVE  Retiring'
BY DEF Retiring, GivenUpIsRetired, RetiredIsNobodys

LEMMA RetiringStep == TypeOK /\ Retiring /\ [Next]_vars => Retiring'
<1> SUFFICES ASSUME TypeOK, Retiring, [Next]_vars PROVE Retiring'
    OBVIOUS
<1>1. ASSUME NEW r \in Requests, ContactStep(r) PROVE Retiring'
    <2>1. UNCHANGED codes
        BY <1>1
           DEF ContactStep, ResolveCode, FindRequest, FindRow, Insert, Accept
    <2>2. \A q \in Requests : KnowsCode(q)'
        BY <1>1, <2>1
           DEF ContactStep, ResolveCode, FindRequest, FindRow, Insert, Accept,
               Proceed, Written, Refused, LookedAt, Start, Return, TypeOK,
               Retiring, KnowsCode
    <2> QED BY <2>1, <2>2, RetiringStutter
<1>2. ASSUME NEW r \in Requests, CodeStep(r) PROVE Retiring'
    <2>1. ASSUME NEW u \in Users, ReadCode(r, u) PROVE Retiring'
        <3>1. \A q \in Requests : KnowsCode(q)'
            BY <2>1 DEF ReadCode, Start, TypeOK, Retiring, KnowsCode
        <3> QED BY <2>1, <3>1, RetiringStutter DEF ReadCode
    <2>2. CASE Draw(r)
        <3>1. \A q \in Requests : KnowsCode(q)'
            BY <2>2 DEF Draw, Return, TypeOK, Retiring, KnowsCode
        <3> QED BY <2>2, <3>1, RetiringStutter DEF Draw
    <2>3. CASE CheckRetired(r)
        <3>1. \A q \in Requests : KnowsCode(q)'
            BY <2>3 DEF CheckRetired, Return, TypeOK, Retiring, KnowsCode
        <3> QED BY <2>3, <3>1, RetiringStutter DEF CheckRetired
    <2>4. CASE SwapCode(r) /\ code' = code
        <3>1. /\ stale' = stale \ {r} /\ Return(r)
              /\ UNCHANGED <<retired, expired, givenUp, oddCodes>>
            BY <2>4 DEF SwapCode, TakeCode, TypeOK
        <3>2. \A q \in Requests : KnowsCode(q)'
            BY <2>4, <3>1 DEF Return, TypeOK, Retiring, KnowsCode
        <3> QED BY <2>4, <3>1, <3>2, RetiringStutter
    <2>5. CASE SwapCode(r) /\ code' # code
        <3>1. PICK u \in Users, c \in Codes, h \in Codes \cup {NoCode} :
                  u = by[r] /\ c = drawn[r] /\ h = held[r]
            BY <2>5 DEF SwapCode, TypeOK
        <3>2. /\ \A v \in Users : code[v] # c
              /\ TakeCode(r, c) /\ retired' = retired \cup ({h} \ {NoCode})
              /\ Return(r) /\ expired' = expired
            BY <2>5, <3>1 DEF SwapCode
        <3>3. /\ code' = [code EXCEPT ![u] = c]
              /\ givenUp' = (givenUp \cup ({code[u]} \ {NoCode})) \ {c}
              /\ stale' = (stale \ {r}) \cup KnowCode(r, u, h)
              /\ r \in stale => oddCodes' =
                                oddCodes \cup ({code[u], c, h} \ {NoCode})
              /\ r \notin stale => oddCodes' = oddCodes \ {c}
            BY <3>1, <3>2 DEF TakeCode
        <3>4. r \notin stale => h = code[u] /\ c \notin retired
            BY <2>5, <3>1 DEF SwapCode, Retiring, KnowsCode
        <3>5. \A q \in Requests : KnowsCode(q)'
            BY <3>1, <3>2, <3>3, NoCodeIsFresh
               DEF KnowCode, Return, TypeOK, Retiring, KnowsCode
        <3>6. GivenUpIsRetired'
            BY <3>2, <3>3, <3>4 DEF Retiring, GivenUpIsRetired
        <3>7. RetiredIsNobodys'
            BY <3>2, <3>3, <3>4, NoCodeIsFresh
               DEF TypeOK, Retiring, RetiredIsNobodys
        <3>8. (givenUp \cap expired \subseteq oddCodes)'
            BY <3>2, <3>3, <3>4 DEF TypeOK, Retiring, RetiredIsNobodys
        <3>9. (\A v, w \in Users :
                   v # w /\ code[v] # NoCode => code[v] # code[w])'
            BY <3>2, <3>3, NoCodeIsFresh DEF TypeOK, Retiring
        <3> QED BY <3>5, <3>6, <3>7, <3>8, <3>9 DEF Retiring
    <2> QED BY <1>2, <2>1, <2>2, <2>3, <2>4, <2>5 DEF CodeStep
<1>3. ASSUME NEW u \in Users, NEW v \in Users, Reject(u, v) PROVE Retiring'
    BY <1>3, RetiringStutter DEF Reject, Retiring, KnowsCode
<1>4. ASSUME NEW c \in Codes, Expire(c) PROVE Retiring'
    BY <1>4
       DEF Expire, TypeOK, Retiring, GivenUpIsRetired, RetiredIsNobodys,
           KnowsCode
<1>5. CASE CleanupRetiredCodes
    BY <1>5
       DEF CleanupRetiredCodes, TypeOK, Retiring, GivenUpIsRetired,
           RetiredIsNobodys, KnowsCode
<1>6. CASE UNCHANGED vars
    BY <1>6, RetiringStutter DEF vars, Retiring, KnowsCode
<1> QED BY <1>1, <1>2, <1>3, <1>4, <1>5, <1>6 DEF Next

LEMMA RetiringCorrect == Spec => []Retiring
<1>1. Init => Retiring
    BY NoCodeIsFresh
       DEF Init, Retiring, GivenUpIsRetired, RetiredIsNobodys, KnowsCode
<1> QED BY <1>1, TypeCorrect, RetiringStep, PTL DEF Spec

(* A code that was given up stays out of use for its 24 hours.             *)
THEOREM GivenUpCorrect == Spec => []GivenUpIsRetired
<1>1. Retiring => GivenUpIsRetired
    BY DEF Retiring
<1> QED BY <1>1, RetiringCorrect, PTL

(* Nobody is handed a code that is retired.                                *)
THEOREM RetiredCorrect == Spec => []RetiredIsNobodys
<1>1. Retiring => RetiredIsNobodys
    BY DEF Retiring
<1> QED BY <1>1, RetiringCorrect, PTL
=============================================================================
