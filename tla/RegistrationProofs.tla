------------------------- MODULE RegistrationProofs -------------------------
(***************************************************************************)
(* Registration, for any keys, names, requests and challenges: invitation  *)
(* codes, by which alone a user gets in, challenges and the work they ask  *)
(* for, and display names.                                                 *)
(***************************************************************************)
EXTENDS Registration, SequenceTheorems, TLAPS, FiniteSetTheorems

USE DEF request, pow, users

LEMMA TypeStep == TypeOK /\ [Next]_vars => TypeOK'
<1> SUFFICES ASSUME TypeOK, [Next]_vars PROVE TypeOK'
    OBVIOUS
<1> USE FounderType, UsesType DEF TypeOK
<1>1. CASE ChallengeStep
    BY <1>1 DEF ChallengeStep, gc, Generate, Expire, Stored
<1>2. ASSUME NEW r \in Requests, RequestStep(r) PROVE TypeOK'
    <2>1. ASSUME NEW c \in Challenges, NEW hash \in Digests, NEW k \in Keys,
                 NEW j \in Keys, NEW n \in Names, Verify(r, c, hash, k, n, j)
          PROVE  TypeOK'
        <3>1. store' \in [Challenges -> {"never", "open", "used", "gone"}]
            BY <2>1 DEF Verify
        <3>2. unproven' \subseteq Challenges
            BY <2>1 DEF Verify
        <3>3. CASE Enter(r, c, k, n, j)
            BY <2>1, <3>1, <3>2, <3>3 DEF Verify, Enter
        <3>4. CASE ~Enter(r, c, k, n, j)
            BY <2>1, <3>1, <3>2, <3>4 DEF Verify
        <3> QED BY <3>3, <3>4
    <2>2. CASE CheckKey(r)
        BY <2>2 DEF CheckKey, Goto, Return, Leave
    <2>3. CASE CheckName(r)
        BY <2>3 DEF CheckName, Goto, Return, Leave
    <2>4. CASE RegisterTx(r)
        <3>1. name' \in [Keys -> Names \cup {NoName}]
            BY <2>4 DEF RegisterTx
        <3>2. uses' \in [Keys -> 0..Uses]
            BY <2>4 DEF RegisterTx, InviteValid
        <3>3. /\ invitedBy' \in [Keys -> Keys \cup {NoKey}]
              /\ paid' \in [Keys -> Challenges \cup {NoChallenge}]
              /\ crowded' \subseteq Keys /\ blind' \subseteq Requests
            BY <2>4 DEF RegisterTx
        <3> QED BY <2>4, <3>1, <3>2, <3>3 DEF RegisterTx, Leave
    <2>5. CASE Refuse(r)
        BY <2>5 DEF Refuse, Return, Leave
    <2> QED BY <1>2, <2>1, <2>2, <2>3, <2>4, <2>5 DEF RequestStep
<1>3. CASE Crash
    BY <1>3 DEF Crash, Stored
<1>4. CASE UNCHANGED vars
    BY <1>4 DEF vars
<1> QED BY <1>1, <1>2, <1>3, <1>4 DEF Next

(* Every reachable state is a state of the declared types.                 *)
THEOREM TypeCorrect == Spec => []TypeOK
<1>1. Init => TypeOK
    BY FounderType, UsesType DEF Init, TypeOK
<1> QED BY <1>1, TypeStep, PTL DEF Spec

(* What the table users goes through: one registration, or nothing.        *)
LEMMA UsersStep ==
    ASSUME [Next]_vars, ~\E r \in Requests : RegisterTx(r)
    PROVE  UNCHANGED <<name, uses, invitedBy, paid, crowded>>
BY DEF Next, ChallengeStep, RequestStep, gc, Generate, Expire, Verify,
       CheckKey, CheckName, Refuse, Crash, vars

-----------------------------------------------------------------------------
(* What UsesConserved needs to be inductive: that Cardinality counts, and  *)
(* that nobody who is not registered yet has been counted.                 *)
Conserved ==
    /\ UsesConserved
    /\ \A k \in Keys : IsFiniteSet(Invited(k))
    /\ \A k \in Keys : ~Registered(k) => invitedBy[k] = NoKey

LEMMA ConservedStep == TypeOK /\ Conserved /\ [Next]_vars => Conserved'
<1> SUFFICES ASSUME TypeOK, Conserved, [Next]_vars PROVE Conserved'
    OBVIOUS
<1>1. CASE ~\E r \in Requests : RegisterTx(r)
    BY <1>1, UsersStep
       DEF Conserved, UsesConserved, Invited, Registered
<1>2. ASSUME NEW r \in Requests, RegisterTx(r) PROVE Conserved'
    <2>1. PICK k \in Keys, j \in Keys, n \in Names :
              /\ Registered(j) /\ ~Registered(k) /\ uses[j] > 0 /\ k # j
              /\ name' = [name EXCEPT ![k] = n]
              /\ uses' = [uses EXCEPT ![j] = @ - 1, ![k] = Uses]
              /\ invitedBy' = [invitedBy EXCEPT ![k] = j]
        BY <1>2 DEF RegisterTx, InviteValid, TypeOK
    <2>2. \A l \in Keys : Registered(l)' <=> Registered(l) \/ l = k
        BY <2>1, NoneIsFresh DEF Registered, TypeOK
    <2>3. Invited(j)' = Invited(j) \cup {k} /\ k \notin Invited(j)
        BY <2>1, NoneIsFresh DEF Invited, TypeOK, Conserved
    <2>4. \A l \in Keys \ {j} : Invited(l)' = Invited(l)
        BY <2>1, NoneIsFresh DEF Invited, TypeOK, Conserved
    <2>5. /\ IsFiniteSet(Invited(j)')
          /\ Cardinality(Invited(j)') = Cardinality(Invited(j)) + 1
        BY <2>1, <2>3, FS_AddElement DEF Conserved
    <2>6. ASSUME NEW l \in Keys PROVE IsFiniteSet(Invited(l)')
        BY <2>4, <2>5 DEF Conserved
    <2>7. ASSUME NEW l \in Keys, ~Registered(l)'
          PROVE  invitedBy'[l] = NoKey /\ Invited(l)' = {}
        BY <2>1, <2>2, <2>4, <2>7 DEF Conserved, UsesConserved, TypeOK
    <2>8. ASSUME NEW l \in Keys, Registered(l)'
          PROVE  uses'[l] + Cardinality(Invited(l)') = Uses
        <3>1. CASE l = k
            <4>1. Invited(l)' = {} /\ uses'[l] = Uses
                BY <2>1, <2>4, <3>1 DEF Conserved, UsesConserved, TypeOK
            <4> QED BY <4>1, FS_EmptySet, UsesType
        <3>2. CASE l = j
            <4>1. uses'[l] = uses[l] - 1 /\ uses[l] \in Nat
                BY <2>1, <3>2, UsesType DEF TypeOK
            <4>2. Cardinality(Invited(l)) \in Nat
                BY FS_CardinalityType DEF Conserved
            <4>3. uses[l] + Cardinality(Invited(l)) = Uses
                BY <2>1, <3>2 DEF Conserved, UsesConserved
            <4> QED BY <2>5, <3>2, <4>1, <4>2, <4>3
        <3>3. CASE l # k /\ l # j
            BY <2>1, <2>2, <2>4, <2>8, <3>3
               DEF Conserved, UsesConserved, TypeOK
        <3> QED BY <3>1, <3>2, <3>3
    <2> QED BY <2>6, <2>7, <2>8 DEF Conserved, UsesConserved
<1> QED BY <1>1, <1>2

LEMMA ConservedCorrect == Spec => []Conserved
<1>1. Init => Conserved
    <2>1. ASSUME Init, NEW k \in Keys
          PROVE  Invited(k) = {} /\ invitedBy[k] = NoKey
                 /\ (Registered(k) => uses[k] = Uses)
        BY <2>1, NoneIsFresh DEF Init, Invited, Registered
    <2> QED BY <2>1, FS_EmptySet, UsesType DEF Conserved, UsesConserved
<1> QED BY <1>1, TypeCorrect, ConservedStep, PTL DEF Spec

(* The uses that are left and the users who came with the code always add  *)
(* up: no registration is for nothing and none is free.                    *)
THEOREM UsesCorrect == Spec => []UsesConserved
<1>1. Conserved => UsesConserved
    BY DEF Conserved
<1> QED BY <1>1, ConservedCorrect, PTL

-----------------------------------------------------------------------------
(* Registration is by invitation only: whichever set of users one closes   *)
(* under "came with the code of", starting from the founder, everybody who *)
(* is registered is in it; that is, a chain of invitations leads from the  *)
(* founder to every user.                                                  *)
ClosedUnderInvitation(S) == \A k \in Keys : invitedBy[k] \in S => k \in S

EverybodyWasInvited ==
    \A S \in SUBSET Keys :
        Founder \in S /\ ClosedUnderInvitation(S) =>
            \A k \in Keys : Registered(k) => k \in S

LEMMA InvitedStep ==
    TypeOK /\ Conserved /\ EverybodyWasInvited /\ [Next]_vars
        => EverybodyWasInvited'
<1> SUFFICES ASSUME TypeOK, Conserved, EverybodyWasInvited, [Next]_vars
             PROVE  EverybodyWasInvited'
    OBVIOUS
<1>1. CASE ~\E r \in Requests : RegisterTx(r)
    BY <1>1, UsersStep
       DEF EverybodyWasInvited, ClosedUnderInvitation, Registered
<1>2. ASSUME NEW r \in Requests, RegisterTx(r) PROVE EverybodyWasInvited'
    <2> SUFFICES ASSUME NEW S \in SUBSET Keys, Founder \in S,
                        ClosedUnderInvitation(S)',
                        NEW l \in Keys, Registered(l)'
                 PROVE  l \in S
        BY DEF EverybodyWasInvited
    <2>1. PICK k \in Keys, j \in Keys, n \in Names :
              /\ Registered(j) /\ ~Registered(k)
              /\ name' = [name EXCEPT ![k] = n]
              /\ invitedBy' = [invitedBy EXCEPT ![k] = j]
        BY <1>2 DEF RegisterTx, InviteValid, TypeOK
    <2>2. ClosedUnderInvitation(S) \* nobody had invited k
        BY <2>1, NoneIsFresh DEF ClosedUnderInvitation, Conserved, TypeOK
    <2>3. j \in S
        BY <2>1, <2>2 DEF EverybodyWasInvited
    <2>4. CASE l = k
        BY <2>1, <2>3, <2>4 DEF ClosedUnderInvitation, TypeOK
    <2>5. CASE l # k
        BY <2>1, <2>2, <2>5 DEF EverybodyWasInvited, Registered, TypeOK
    <2> QED BY <2>4, <2>5
<1> QED BY <1>1, <1>2

(* A newcomer's inviter was invited before: nobody gets in from outside.   *)
THEOREM InvitedCorrect == Spec => []EverybodyWasInvited
<1>1. Init => EverybodyWasInvited
    BY DEF Init, EverybodyWasInvited, Registered
<1> QED BY <1>1, TypeCorrect, ConservedCorrect, InvitedStep, PTL DEF Spec

-----------------------------------------------------------------------------
(* Every challenge that has paid, or is about to, is out of reach of       *)
(* Verify, and has one bearer.                                             *)
Spent ==
    /\ ChallengePaysOnce
    /\ \A k \in Keys : paid[k] # NoChallenge =>
           /\ store[paid[k]] \in {"used", "gone"}
           /\ \A r \in Requests : at[r] # "idle" => challenge[r] # paid[k]
    /\ \A r \in Requests : at[r] # "idle" =>
           /\ store[challenge[r]] \in {"used", "gone"}
           /\ \A q \in Requests : q # r /\ at[q] # "idle" =>
                  challenge[q] # challenge[r]

(* No step brings a challenge that is spent back.                          *)
LEMMA SpentStays ==
    ASSUME TypeOK, [Next]_vars, NEW c \in Challenges,
           store[c] \in {"used", "gone"}
    PROVE  store'[c] \in {"used", "gone"}
BY DEF TypeOK, Next, ChallengeStep, RequestStep, gc, Generate, Expire, Verify,
       CheckKey, CheckName, RegisterTx, Refuse, Crash, Stored, vars

(* Requests that go on or leave, when nobody is registered.                *)
LEMMA SpentStutter ==
    ASSUME TypeOK, Spent, [Next]_vars, paid' = paid,
           \A r \in Requests : at'[r] # "idle" =>
               at[r] # "idle" /\ challenge'[r] = challenge[r]
    PROVE  Spent'
BY SpentStays DEF TypeOK, Spent, ChallengePaysOnce

LEMMA SpentStep == TypeOK /\ Spent /\ [Next]_vars => Spent'
<1> SUFFICES ASSUME TypeOK, Spent, [Next]_vars PROVE Spent'
    OBVIOUS
<1>1. CASE ChallengeStep
    BY <1>1, SpentStutter DEF ChallengeStep, gc, Generate, Expire
<1>2. ASSUME NEW r \in Requests, RequestStep(r) PROVE Spent'
    <2>1. ASSUME NEW c \in Challenges, NEW hash \in Digests, NEW k \in Keys,
                 NEW j \in Keys, NEW n \in Names, Verify(r, c, hash, k, n, j)
          PROVE  Spent'
        <3>1. store[c] = "open" /\ store'[c] \in {"used", "gone"}
            BY <2>1 DEF Verify, TypeOK
        <3>2. paid' = paid
            BY <2>1 DEF Verify
        <3>3. CASE UNCHANGED request
            BY <3>2, <3>3, SpentStutter
        <3>4. CASE Enter(r, c, k, n, j)
            <4>1. /\ at' = [at EXCEPT ![r] = "key"]
                  /\ challenge' = [challenge EXCEPT ![r] = c]
                BY <3>4 DEF Enter
            <4> QED BY <3>1, <3>2, <4>1, SpentStays
                    DEF TypeOK, Spent, ChallengePaysOnce
        <3> QED BY <2>1, <3>3, <3>4 DEF Verify
    <2>2. CASE CheckKey(r) \/ CheckName(r) \/ Refuse(r)
        <3>1. /\ paid' = paid
              /\ \A q \in Requests : at'[q] # "idle" =>
                     at[q] # "idle" /\ challenge'[q] = challenge[q]
            BY <2>2 DEF CheckKey, CheckName, Refuse, Goto, Return, Leave,
                        TypeOK
        <3> QED BY <3>1, SpentStutter
    <2>3. CASE RegisterTx(r)
        <3>1. /\ key[r] \in Keys /\ at[r] # "idle"
              /\ at' = [at EXCEPT ![r] = "idle"]
              /\ challenge' = [challenge EXCEPT ![r] = NoChallenge]
              /\ paid' = [paid EXCEPT ![key[r]] = challenge[r]]
              /\ store' = store
            BY <2>3 DEF RegisterTx, Leave, TypeOK
        <3> QED BY <3>1 DEF TypeOK, Spent, ChallengePaysOnce
    <2> QED BY <1>2, <2>1, <2>2, <2>3 DEF RequestStep
<1>3. CASE Crash
    BY <1>3, SpentStutter DEF Crash
<1>4. CASE UNCHANGED vars
    BY <1>4, SpentStutter DEF vars
<1> QED BY <1>1, <1>2, <1>3, <1>4 DEF Next

(* A solved challenge registers one user, however many requests bring it,  *)
(* when it expires and whenever the server restarts.                       *)
THEOREM PaysOnce == Spec => []ChallengePaysOnce
<1>1. Init => Spent
    BY DEF Init, Spent, ChallengePaysOnce
<1>2. Spent => ChallengePaysOnce
    BY DEF Spent
<1> QED BY <1>1, <1>2, TypeCorrect, SpentStep, PTL DEF Spec

-----------------------------------------------------------------------------
(* A request whose check has not been overtaken holds a name nobody has.   *)
Free ==
    /\ NamesUnique
    /\ \A r \in Requests : at[r] = "tx" /\ r \notin blind =>
           \A k \in Keys : name[k] # wish[r]

(* Requests that leave, or that fail to look, when nobody is registered.   *)
LEMMA FreeStutter ==
    ASSUME TypeOK, Free, name' = name, crowded' = crowded,
           \A r \in Requests : at'[r] = "tx" /\ r \notin blind' =>
               /\ at[r] = "tx" /\ r \notin blind
               /\ wish'[r] = wish[r]
    PROVE  Free'
BY DEF Free, NamesUnique, Registered

LEMMA FreeStep == TypeOK /\ Free /\ [Next]_vars => Free'
<1> SUFFICES ASSUME TypeOK, Free, [Next]_vars PROVE Free'
    OBVIOUS
<1>1. CASE ChallengeStep
    BY <1>1, FreeStutter DEF ChallengeStep, gc, Generate, Expire
<1>2. ASSUME NEW r \in Requests, RequestStep(r) PROVE Free'
    <2>1. ASSUME NEW c \in Challenges, NEW hash \in Digests, NEW k \in Keys,
                 NEW j \in Keys, NEW n \in Names, Verify(r, c, hash, k, n, j)
          PROVE  Free'
        BY <2>1, FreeStutter DEF Verify, Enter, TypeOK
    <2>2. CASE CheckKey(r) \/ Refuse(r)
        BY <2>2, FreeStutter
           DEF CheckKey, Refuse, Goto, Return, Leave, TypeOK
    <2>3. CASE CheckName(r)
        <3>1. CASE /\ \A k \in Keys : name[k] # wish[r]
                   /\ Goto(r, "tx") /\ UNCHANGED blind
            BY <2>3, <3>1
               DEF CheckName, Goto, TypeOK, Free, NamesUnique, Registered
        <3>2. CASE Return(r)
            BY <2>3, <3>2, FreeStutter DEF CheckName, Return, Leave, TypeOK
        <3>3. CASE Goto(r, "tx") /\ blind' = blind \cup {r}
            BY <2>3, <3>3, FreeStutter DEF CheckName, Goto, TypeOK
        <3> QED BY <2>3, <3>1, <3>2, <3>3 DEF CheckName
    <2>4. CASE RegisterTx(r)
        <3>1. /\ key[r] \in Keys /\ wish[r] \in Names
              /\ at[r] = "tx" /\ ~Registered(key[r])
              /\ name' = [name EXCEPT ![key[r]] = wish[r]]
              /\ crowded' = IF r \in blind THEN crowded \cup {key[r]}
                            ELSE crowded
              /\ at' = [at EXCEPT ![r] = "idle"]
              /\ wish' = [wish EXCEPT ![r] = NoName]
              /\ blind' = (blind \ {r}) \cup {q \in Requests \ {r} :
                                        at[q] = "tx" /\ wish[q] = wish[r]}
            BY <2>4 DEF RegisterTx, Leave, TypeOK
        <3>2. \A q \in Requests : at'[q] = "tx" /\ q \notin blind' =>
                  \A k \in Keys : name'[k] # wish'[q]
            BY <3>1 DEF TypeOK, Free
        <3>3. NamesUnique'
            BY <3>1, NoneIsFresh DEF TypeOK, Free, NamesUnique, Registered
        <3> QED BY <3>2, <3>3 DEF Free
    <2> QED BY <1>2, <2>1, <2>2, <2>3, <2>4 DEF RequestStep
<1>3. CASE Crash
    BY <1>3, FreeStutter DEF Crash
<1>4. CASE UNCHANGED vars
    BY <1>4, FreeStutter DEF vars
<1> QED BY <1>1, <1>2, <1>3, <1>4 DEF Next

(* Display names are taken twice in the named windows only.                *)
THEOREM NamesCorrect == Spec => []NamesUnique
<1>1. Init => Free
    BY DEF Init, Free, NamesUnique, Registered
<1>2. Free => NamesUnique
    BY DEF Free
<1> QED BY <1>1, <1>2, TypeCorrect, FreeStep, PTL DEF Spec

-----------------------------------------------------------------------------
LEMMA Powers ==
    ASSUME NEW k \in 0..7
    PROVE  /\ 2^k \in Nat \ {0}
           /\ \A m \in 1..k : 2^m <= 2^k
<1> DEFINE power == [m \in 0..7 |-> 2^m]
<1>1. /\ power[0] = 1 /\ power[1] = 2 /\ power[2] = 4
      /\ power[3] = 8 /\ power[4] = 16 /\ power[5] = 32
      /\ power[6] = 64 /\ power[7] = 128
    BY SMT
<1>2. \A m \in 0..7 : 2^m = power[m]
    BY Zenon
<1> HIDE DEF power
<1>3. \A m \in 0..7 : m \in {0, 1, 2, 3, 4, 5, 6, 7}
    OBVIOUS
<1>4. \A m \in 0..7 : power[m] \in Nat \ {0}
    BY <1>1, <1>3
<1>5. ASSUME NEW m \in 1..k PROVE power[m] <= power[k]
    BY <1>1, <1>3
<1>6. \A m \in 1..k : m \in 0..7
    OBVIOUS
<1> QED BY <1>2, <1>4, <1>5, <1>6, Zenon

(* A byte below the mask's lowest bit has zeros from that bit on.          *)
LEMMA HighBitsZero ==
    ASSUME NEW byte \in 0..255, NEW n \in 1..7, byte < 2^(8 - n),
           NEW k \in 0..7, k >= 8 - n
    PROVE  (byte \div 2^k) % 2 = 0
<1>1. 2^k \in Nat \ {0} /\ 2^(8 - n) \in Nat /\ 2^(8 - n) <= 2^k
    <2>1. 8 - n \in 1..k /\ 8 - n \in 0..7
        OBVIOUS
    <2> QED BY <2>1, Powers
<1>2. ASSUME NEW low \in Nat, NEW unit \in Nat \ {0}, low < unit
      PROVE  (low \div unit) % 2 = 0
    BY <1>2
<1>3. byte < 2^k
    BY <1>1
<1> QED BY <1>1, <1>2, <1>3

(* Counting whole bytes and masking the last one looks at all the bits.    *)
LEMMA LeadingBits ==
    ASSUME NEW hash \in Seq(0..255), NEW difficulty \in Nat,
           HasLeadingZeroBits(hash, difficulty)
    PROVE  ZeroBits(hash, difficulty)
<1> SUFFICES ASSUME NEW i \in 1..(8 * Len(hash)), i <= difficulty
             PROVE  Bit(hash, i) = 0
    BY DEF ZeroBits
<1> DEFINE b == ((i - 1) \div 8) + 1
           k == 7 - ((i - 1) % 8)
           n == Remaining(difficulty, b)
<1>1. b \in 1..Len(hash) /\ k \in 0..7
    OBVIOUS
<1>2. i = 8 * (b - 1) + 8 - k
    OBVIOUS
<1>3. n \in Nat \ {0} /\ n >= 8 - k
    <2> HIDE DEF b, k
    <2> QED BY <1>1, <1>2 DEF Remaining
<1>4. hash[b] \in 0..255
    <2> HIDE DEF b
    <2> QED BY <1>1, ElementOfSeq
<1>5. CASE n >= 8
    <2>1. hash[b] = 0
        BY <1>1, <1>5 DEF HasLeadingZeroBits
    <2>2. 0 \div 2^k = 0
        <3>1. 2^k \in Nat \ {0}
            BY <1>1, Powers
        <3>2. \A unit \in Nat \ {0} : 0 \div unit = 0
            OBVIOUS
        <3> QED BY <3>1, <3>2
    <2> QED BY <2>1, <2>2 DEF Bit
<1>6. CASE n \in 1..7
    <2>1. hash[b] < 2^(8 - n)
        BY <1>1, <1>6 DEF HasLeadingZeroBits
    <2>2. k >= 8 - n
        <3> HIDE DEF b, k, n
        <3> QED BY <1>1, <1>3, <1>6
    <2>3. (hash[b] \div 2^k) % 2 = 0
        <3> HIDE DEF b, k, n
        <3> QED BY <1>1, <1>4, <1>6, <2>1, <2>2, HighBitsZero
    <2> QED BY <2>3 DEF Bit
<1> QED BY <1>3, <1>5, <1>6

LEMMA WorkStep == TypeOK /\ WorkWasDone /\ [Next]_vars => WorkWasDone'
<1> SUFFICES ASSUME TypeOK, WorkWasDone, [Next]_vars PROVE WorkWasDone'
    OBVIOUS
<1>1. ASSUME NEW r \in Requests, NEW c \in Challenges, NEW hash \in Digests,
             NEW k \in Keys, NEW j \in Keys, NEW n \in Names,
             Verify(r, c, hash, k, n, j)
      PROVE  WorkWasDone'
    <2>1. hash \in Seq(0..255)
        BY DigestType
    <2>2. HasLeadingZeroBits(hash, Difficulty) => ZeroBits(hash, Difficulty)
        BY <2>1, DifficultyType, LeadingBits
    <2> QED BY <1>1, <2>2 DEF Verify, WorkWasDone
<1>2. CASE UNCHANGED unproven
    BY <1>2 DEF WorkWasDone
<1> QED BY <1>1, <1>2
        DEF Next, ChallengeStep, RequestStep, vars, pow, users, gc, Generate,
            Expire, CheckKey, CheckName, RegisterTx, Refuse, Crash

(* Whatever the difficulty and the digest, no challenge is accepted whose  *)
(* digest lacks a zero bit.                                                *)
THEOREM WorkCorrect == Spec => []WorkWasDone
<1>1. Init => WorkWasDone
    BY DEF Init, WorkWasDone
<1> QED BY <1>1, TypeCorrect, WorkStep, PTL DEF Spec
=============================================================================
