---------------------------- MODULE Registration ----------------------------
(***************************************************************************)
(* POST /api/register of internal/routes/auth.go with the proof of work of *)
(* internal/pow/pow.go.  The challenges live in memory, under one mutex;   *)
(* the users live in the database, where every query and the transaction   *)
(* of register is a step.  Contact codes are in module Contacts; here a    *)
(* user's invitation code goes by the user's key, and a code that cannot   *)
(* be allocated is one of the ways in which the transaction comes to no    *)
(* user.                                                                   *)
(***************************************************************************)
EXTENDS Integers, Sequences, FiniteSets

CONSTANTS
    Keys,       \* public keys
    Founder,    \* the user who is there before anybody is invited
    Names,      \* display names
    Requests,   \* handlers of register; one stands for many in turn
    Challenges, \* a challenge string holds 8 random bytes: none comes twice
    Digests,    \* SHA-256 values, as sequences of bytes
    Difficulty, \* leading zero bits that pay for a registration
    Uses,       \* registrations an invitation code is good for; 3 in the code
    NoName,     \* the name of a key that is not registered
    NoKey, NoChallenge

ASSUME FounderType == Founder \in Keys
ASSUME UsesType == Uses \in Nat
ASSUME DifficultyType == Difficulty \in Nat
ASSUME DigestType == Digests \subseteq Seq(0..255)
ASSUME NoneIsFresh == /\ NoName \notin Names /\ NoKey \notin Keys
                      /\ NoChallenge \notin Challenges

VARIABLES
    name,      \* users.display_name of each registered key
    uses,      \* users.invitation_code_usages
    store,     \* Service.store: the challenges
    late,      \* those older than five minutes
    at,        \* progress of each request
    key,       \* its public key
    wish,      \* its display name
    inviter,   \* the user whose invitation code it gives
    challenge, \* the challenge it has solved
    invitedBy, \* whose code each user came with: history
    paid,      \* the challenge each user came with: history
    unproven,  \* challenges accepted for too few zero bits: history
    blind,     \* requests whose check of the name has been overtaken: history
    crowded    \* users registered by such a request: history

request == <<at, key, wish, inviter, challenge>>
pow == <<store, late, unproven>>
users == <<name, uses, invitedBy, paid, crowded>>
vars == <<users, pow, request, blind>>

TypeOK ==
    /\ name \in [Keys -> Names \cup {NoName}]
    /\ uses \in [Keys -> 0..Uses]
    /\ store \in [Challenges -> {"never", "open", "used", "gone"}]
    /\ late \subseteq Challenges
    /\ at \in [Requests -> {"idle", "key", "name", "tx"}]
    /\ key \in [Requests -> Keys \cup {NoKey}]
    /\ wish \in [Requests -> Names \cup {NoName}]
    /\ inviter \in [Requests -> Keys \cup {NoKey}]
    /\ challenge \in [Requests -> Challenges \cup {NoChallenge}]
    /\ \A r \in Requests : at[r] # "idle" =>
           /\ key[r] \in Keys /\ inviter[r] \in Keys
           /\ wish[r] \in Names /\ challenge[r] \in Challenges
    /\ invitedBy \in [Keys -> Keys \cup {NoKey}]
    /\ paid \in [Keys -> Challenges \cup {NoChallenge}]
    /\ unproven \subseteq Challenges
    /\ blind \subseteq Requests /\ crowded \subseteq Keys

Init ==
    /\ \E n \in Names :
           name = [k \in Keys |-> IF k = Founder THEN n ELSE NoName]
    /\ uses = [k \in Keys |-> IF k = Founder THEN Uses ELSE 0]
    /\ store = [c \in Challenges |-> "never"]
    /\ late = {}
    /\ at = [r \in Requests |-> "idle"]
    /\ key = [r \in Requests |-> NoKey]
    /\ wish = [r \in Requests |-> NoName]
    /\ inviter = [r \in Requests |-> NoKey]
    /\ challenge = [r \in Requests |-> NoChallenge]
    /\ invitedBy = [k \in Keys |-> NoKey]
    /\ paid = [k \in Keys |-> NoChallenge]
    /\ unproven = {} /\ blind = {} /\ crowded = {}

Registered(k) == name[k] # NoName

(* POST /api/invite/validate, and the guard of the UPDATE in register.     *)
InviteValid(k) == Registered(k) /\ uses[k] > 0

Leave(r) ==
    /\ at' = [at EXCEPT ![r] = "idle"]
    /\ key' = [key EXCEPT ![r] = NoKey]
    /\ wish' = [wish EXCEPT ![r] = NoName]
    /\ inviter' = [inviter EXCEPT ![r] = NoKey]
    /\ challenge' = [challenge EXCEPT ![r] = NoChallenge]

Return(r) == Leave(r) /\ blind' = blind \ {r}

(* The request of key k for name n with j's invitation code goes on.       *)
Enter(r, c, k, n, j) ==
    /\ at' = [at EXCEPT ![r] = "key"]
    /\ key' = [key EXCEPT ![r] = k]
    /\ wish' = [wish EXCEPT ![r] = n]
    /\ inviter' = [inviter EXCEPT ![r] = j]
    /\ challenge' = [challenge EXCEPT ![r] = c]

Goto(r, phase) ==
    /\ at' = [at EXCEPT ![r] = phase]
    /\ UNCHANGED <<key, wish, inviter, challenge>>

-----------------------------------------------------------------------------
(* pow.go.  hasLeadingZeroBits looks at whole bytes first; of the byte     *)
(* that holds the last of the difficulty bits, it masks the high ones.     *)
Remaining(difficulty, i) == difficulty - 8 * (i - 1)

(* Fault: the mask is one bit short.                                       *)
ZeroButOne(hash, difficulty) ==
    \A i \in 1..Len(hash) :
        LET remaining == Remaining(difficulty, i)
        IN  /\ remaining >= 8 => hash[i] = 0
            /\ remaining \in 1..7 => hash[i] < 2^(9 - remaining)

HasLeadingZeroBits(hash, difficulty) ==
    \A i \in 1..Len(hash) :
        LET remaining == Remaining(difficulty, i)
        IN  /\ remaining >= 8 => hash[i] = 0
            /\ remaining \in 1..7 => hash[i] < 2^(8 - remaining)

(* Bit i of a digest, the first bit of its first byte being bit 1.         *)
Bit(hash, i) == (hash[((i - 1) \div 8) + 1] \div 2^(7 - ((i - 1) % 8))) % 2

(* Its first difficulty bits are zero, or all of them if it has fewer.     *)
ZeroBits(hash, difficulty) ==
    \A i \in 1..(8 * Len(hash)) : i <= difficulty => Bit(hash, i) = 0

Generate(c) ==
    /\ store[c] = "never"
    /\ store' = [store EXCEPT ![c] = "open"]
    /\ UNCHANGED <<users, late, unproven, request, blind>>

Stored == {c \in Challenges : store[c] \in {"open", "used"}}

Expire(c) ==
    /\ c \in Stored \ late
    /\ late' = late \cup {c}
    /\ UNCHANGED <<users, store, unproven, request, blind>>

gc ==
    /\ Stored \cap late # {}
    /\ store' = [c \in Challenges |->
                    IF c \in Stored \cap late THEN "gone" ELSE store[c]]
    /\ UNCHANGED <<users, late, unproven, request, blind>>

(* Fault: a challenge is not marked when it is used.                       *)
VerifyAgain(r, c, hash, k, n, j) ==
    /\ at[r] = "idle"
    /\ store[c] = "open" /\ c \notin late
    /\ HasLeadingZeroBits(hash, Difficulty)
    /\ Enter(r, c, k, n, j)
    /\ UNCHANGED <<users, pow, blind>>

(* Whatever its nonce is worth, an open challenge is used up.              *)
Verify(r, c, hash, k, n, j) ==
    /\ at[r] = "idle"
    /\ store[c] = "open"
    /\ store' = [store EXCEPT ![c] = IF c \in late THEN "gone" ELSE "used"]
    /\ IF c \notin late /\ HasLeadingZeroBits(hash, Difficulty)
       THEN /\ Enter(r, c, k, n, j)
            /\ unproven' = IF ZeroBits(hash, Difficulty) THEN unproven
                           ELSE unproven \cup {c}
       ELSE UNCHANGED <<request, unproven>>
    /\ UNCHANGED <<users, late, blind>>

-----------------------------------------------------------------------------
(* auth.go.  Both checks go on when their query fails.                     *)
CheckKey(r) ==
    /\ at[r] = "key"
    /\ \/ Goto(r, "name") /\ UNCHANGED blind
       \/ Registered(key[r]) /\ Return(r)
    /\ UNCHANGED <<users, pow>>

(* Fault: the name is not looked for.                                      *)
CheckNoName(r) ==
    /\ at[r] = "name"
    /\ Goto(r, "tx")
    /\ UNCHANGED <<users, pow, blind>>

CheckName(r) ==
    /\ at[r] = "name"
    /\ \/ /\ \A k \in Keys : name[k] # wish[r]
          /\ Goto(r, "tx") /\ UNCHANGED blind
       \/ (\E k \in Keys : name[k] = wish[r]) /\ Return(r)
       \/ Goto(r, "tx") /\ blind' = blind \cup {r} \* the query has failed
    /\ UNCHANGED <<users, pow>>

(* Fault: the use that has been taken is not given back when the INSERT    *)
(* fails.                                                                  *)
RegisterTxNoRollback(r) ==
    LET k == key[r] j == inviter[r]
    IN  /\ at[r] = "tx"
        /\ InviteValid(j) /\ Registered(k)
        /\ uses' = [uses EXCEPT ![j] = @ - 1]
        /\ Return(r)
        /\ UNCHANGED <<name, invitedBy, paid, crowded, pow>>

(* The guarded UPDATE takes a use of the invitation; the INSERT fails if   *)
(* the key is registered.                                                  *)
RegisterTx(r) ==
    LET k == key[r] j == inviter[r]
    IN  /\ at[r] = "tx"
        /\ InviteValid(j) /\ ~Registered(k)
        /\ name' = [name EXCEPT ![k] = wish[r]]
        /\ uses' = [uses EXCEPT ![j] = @ - 1, ![k] = Uses]
        /\ invitedBy' = [invitedBy EXCEPT ![k] = j]
        /\ paid' = [paid EXCEPT ![k] = challenge[r]]
        /\ crowded' = IF r \in blind THEN crowded \cup {k} ELSE crowded
        /\ Leave(r)
        /\ blind' = (blind \ {r}) \cup {q \in Requests \ {r} :
                                  at[q] = "tx" /\ wish[q] = wish[r]}
        /\ UNCHANGED pow

(* The transaction is rolled back, or no code could be allocated for it.   *)
Refuse(r) ==
    /\ at[r] = "tx"
    /\ Return(r)
    /\ UNCHANGED <<users, pow>>

(* The server stops and comes back: handlers and challenges are lost.      *)
Crash ==
    /\ store' = [c \in Challenges |->
                    IF c \in Stored THEN "gone" ELSE store[c]]
    /\ at' = [r \in Requests |-> "idle"]
    /\ key' = [r \in Requests |-> NoKey]
    /\ wish' = [r \in Requests |-> NoName]
    /\ inviter' = [r \in Requests |-> NoKey]
    /\ challenge' = [r \in Requests |-> NoChallenge]
    /\ blind' = {}
    /\ UNCHANGED <<users, late, unproven>>

-----------------------------------------------------------------------------
ChallengeStep == gc \/ \E c \in Challenges : Generate(c) \/ Expire(c)

RequestStep(r) ==
    \/ \E c \in Challenges, hash \in Digests, k, j \in Keys, n \in Names :
           Verify(r, c, hash, k, n, j)
    \/ CheckKey(r) \/ CheckName(r) \/ RegisterTx(r) \/ Refuse(r)

Next ==
    \/ ChallengeStep
    \/ \E r \in Requests : RequestStep(r)
    \/ Crash

Spec == Init /\ [][Next]_vars

-----------------------------------------------------------------------------
Invited(k) == {j \in Keys : invitedBy[j] = k}

(* Every use of an invitation code has become a user, and no registration  *)
(* that fails, is sent twice or is cut off by a stop burns one: what       *)
(* register says of its guarded UPDATE (auth.go:117).                      *)
UsesConserved ==
    \A k \in Keys : /\ Registered(k) =>
                           uses[k] + Cardinality(Invited(k)) = Uses
                    /\ ~Registered(k) => Invited(k) = {}

(* A challenge pays for one user at the most, also when several requests   *)
(* bring it at once, on either side of its expiry, of the sweep or of a    *)
(* restart (pow.go:63).                                                    *)
ChallengePaysOnce ==
    \A k, l \in Keys :
        k # l /\ paid[k] # NoChallenge => paid[k] # paid[l]

(* Nobody pays with fewer than Difficulty leading zero bits, counted bit   *)
(* by bit where pow.go:110 counts bytes and masks the last one.            *)
WorkWasDone == unproven = {}

(* Two users share a display name only if the second one's check was       *)
(* overtaken by the first one's INSERT, or its query failed: no constraint *)
(* backs "Display name already taken" (auth.go:101).                       *)
NamesUnique ==
    \A k, l \in Keys : k # l /\ Registered(k) /\ name[k] = name[l] =>
                           k \in crowded \/ l \in crowded
=============================================================================
