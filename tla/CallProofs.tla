----------------------------- MODULE CallProofs -----------------------------
(***************************************************************************)
(* Calls, for any users, devices and attempts that cross: an attempt has   *)
(* one holder and leaves at most one missed-call row, the only call of a   *)
(* pair is recorded when it rang out, and the handlers implement           *)
(* CallLedger and keep to the registry that Presence implements.           *)
(***************************************************************************)
EXTENDS CallSignaling, TLAPS

USE DEF Sockets, tracking, cleanup, history, EntryStates, OfferStates

LEMMA CallerType == \A c \in Calls : Caller(c) \in Users /\ callKey(c) \in Keys
BY OwnerType, ViaType DEF Caller, Keys

(* endCall's critical section keeps its tables in their types.             *)
LEMMA EndCallType ==
    ASSUME TypeOK, NEW k \in Keys, NEW d \in BOOLEAN, EndCall(k, d)
    PROVE  /\ callTimings' \in [Keys -> Calls \cup {NoCall}]
           /\ activeCalls' \subseteq Keys
           /\ ending' \subseteq Calls
BY DEF TypeOK, EndCall

LEMMA TypeStep == TypeOK /\ [Next]_vars => TypeOK'
<1> SUFFICES ASSUME TypeOK, [Next]_vars PROVE TypeOK'
    OBVIOUS
<1> USE OwnerType, CallerType DEF TypeOK, RegistryTypeOK
<1>1. ASSUME NEW c \in Calls, OfferStep(c) PROVE TypeOK'
    <2>1. CASE Offer(c)
        BY <2>1 DEF Offer
    <2>2. CASE WaitForAnySocket(c)
        BY <2>2 DEF WaitForAnySocket
    <2>3. CASE Unavailable(c)
        BY <2>3 DEF Unavailable
    <2>4. CASE Forward(c) \/ Record(c)
        BY <2>4 DEF Forward, Record
    <2> QED BY <1>1, <2>1, <2>2, <2>3, <2>4 DEF OfferStep
<1>2. ASSUME NEW c \in Calls, TalkStep(c) PROVE TypeOK'
    <2>1. CASE Answer(c)
        BY <2>1 DEF Answer
    <2>2. CASE Hangup(c)
        BY <2>2, EndCallType DEF Hangup
    <2>3. CASE Reject(c)
        BY <2>3, EndCallType DEF Reject
    <2>4. CASE SettleMissed(c)
        BY <2>4 DEF SettleMissed
    <2> QED BY <1>2, <2>1, <2>2, <2>3, <2>4 DEF TalkStep
<1>3. ASSUME NEW s \in Sockets, SocketStep(s) PROVE TypeOK'
    <2>1. CASE Connect(s) \/ Ready(s) \/ Disconnect(s)
        BY <2>1 DEF Connect, Ready, Disconnect, AddRaw, Attach, RemoveRaw
    <2>2. CASE CollectKeys(s)
        BY <2>2 DEF CollectKeys
    <2>3. CASE EndOnDisconnect(s)
        BY <2>3, EndCallType DEF EndOnDisconnect
    <2> QED BY <1>3, <2>1, <2>2, <2>3 DEF SocketStep
<1>4. CASE UNCHANGED vars
    BY <1>4 DEF vars
<1> QED BY <1>1, <1>2, <1>3, <1>4 DEF Next

(* Every reachable state is a state of the declared types.                 *)
THEOREM TypeCorrect == Spec => []TypeOK
<1>1. Init => TypeOK
    BY DEF Init, RegistryInit, TypeOK, RegistryTypeOK
<1> QED BY <1>1, TypeStep, PTL DEF Spec

-----------------------------------------------------------------------------
(* endCall takes what is tracked and leaves nothing of it behind: the      *)
(* attempt changes hands and no other attempt is touched.                  *)
LEMMA EndCallHolds ==
    ASSUME TypeOK, OneHolder, NEW k \in Keys, NEW d \in BOOLEAN,
           EndCall(k, d), offer' = offer, missed' = missed
    PROVE  OneHolder'
BY NoCallFresh DEF TypeOK, OneHolder, EndCall

LEMMA HolderStep == TypeOK /\ OneHolder /\ [Next]_vars => OneHolder'
<1> SUFFICES ASSUME TypeOK, OneHolder, [Next]_vars PROVE OneHolder'
    OBVIOUS
<1> USE CallerType, NoCallFresh DEF TypeOK, OneHolder
<1>1. ASSUME NEW c \in Calls, OfferStep(c) PROVE OneHolder'
    <2>1. CASE Offer(c) \/ WaitForAnySocket(c) \/ Forward(c)
        <3>1. /\ offer[c] \in {"idle", "waiting", "forward"}
              /\ offer' = [offer EXCEPT ![c] = offer'[c]]
              /\ UNCHANGED <<callTimings, ending, missed>>
              /\ offer'[c] \in {"waiting", "forward", "record", "unavailable"}
            BY <2>1 DEF Offer, WaitForAnySocket, Forward
        <3> QED BY <3>1
    <2>2. CASE Unavailable(c)
        BY <2>2 DEF Unavailable
    <2>3. CASE Record(c)
        BY <2>3 DEF Record
    <2> QED BY <1>1, <2>1, <2>2, <2>3 DEF OfferStep
<1>2. ASSUME NEW c \in Calls, TalkStep(c) PROVE OneHolder'
    <2>1. CASE Answer(c)
        BY <2>1 DEF Answer
    <2>2. CASE Hangup(c)
        BY <2>2, EndCallHolds DEF Hangup
    <2>3. CASE Reject(c)
        BY <2>3, EndCallHolds DEF Reject
    <2>4. CASE SettleMissed(c)
        BY <2>4 DEF SettleMissed
    <2> QED BY <1>2, <2>1, <2>2, <2>3, <2>4 DEF TalkStep
<1>3. ASSUME NEW s \in Sockets, SocketStep(s) PROVE OneHolder'
    <2>1. CASE Connect(s) \/ Ready(s) \/ Disconnect(s) \/ CollectKeys(s)
        BY <2>1 DEF Connect, Ready, Disconnect, CollectKeys
    <2>2. CASE EndOnDisconnect(s)
        BY <2>2, EndCallHolds DEF EndOnDisconnect
    <2> QED BY <1>3, <2>1, <2>2 DEF SocketStep
<1>4. CASE UNCHANGED vars
    BY <1>4 DEF vars
<1> QED BY <1>1, <1>2, <1>3, <1>4 DEF Next

LEMMA MissedStep ==
    TypeOK /\ OneHolder /\ MissedOnce /\ [Next]_vars => MissedOnce'
<1> SUFFICES ASSUME TypeOK, OneHolder, MissedOnce, [Next]_vars
             PROVE  MissedOnce'
    OBVIOUS
<1> USE DEF TypeOK, OneHolder, MissedOnce
<1>1. ASSUME NEW c \in Calls, Unavailable(c) PROVE MissedOnce'
    BY <1>1 DEF Unavailable
<1>2. ASSUME NEW c \in Calls, SettleMissed(c) PROVE MissedOnce'
    BY <1>2 DEF SettleMissed
<1>3. ASSUME missed' = missed PROVE MissedOnce'
    BY <1>3
<1> QED BY <1>1, <1>2, <1>3
        DEF Next, OfferStep, TalkStep, SocketStep, vars, Offer,
            WaitForAnySocket, Forward, Record, Answer, Hangup, Reject,
            Connect, Ready, Disconnect, CollectKeys, EndOnDisconnect

(* An attempt never has two holders: no two handlers settle it.            *)
THEOREM HolderCorrect == Spec => []OneHolder
<1>1. Init => OneHolder
    BY NoCallFresh DEF Init, OneHolder
<1> QED BY <1>1, TypeCorrect, HolderStep, PTL DEF Spec

(* However many devices of either user hang up, decline and disconnect at  *)
(* once, an attempt is recorded as missed at most once.                    *)
THEOREM MissedOnceCorrect == Spec => []MissedOnce
<1>1. Init => MissedOnce
    BY DEF Init, MissedOnce
<1> QED BY <1>1, TypeCorrect, HolderCorrect, MissedStep, PTL DEF Spec

-----------------------------------------------------------------------------
(* Only an offer that was forwarded rings, and a pair counts as answered   *)
(* because of an attempt that rang.                                        *)
AnswersRang ==
    /\ \A c \in rang : offer[c] \in {"record", "done"}
    /\ answered \subseteq rang
    /\ \A k \in activeCalls : \E c \in answered : callKey(c) = k

LEMMA EndCallAnswers ==
    ASSUME AnswersRang, NEW k \in Keys, NEW d \in BOOLEAN, EndCall(k, d),
           UNCHANGED <<offer, rang, answered>>
    PROVE  AnswersRang'
BY DEF AnswersRang, EndCall

LEMMA AnswersStep == TypeOK /\ AnswersRang /\ [Next]_vars => AnswersRang'
<1> SUFFICES ASSUME TypeOK, AnswersRang, [Next]_vars PROVE AnswersRang'
    OBVIOUS
<1> USE CallerType DEF TypeOK
<1>1. ASSUME NEW c \in Calls, OfferStep(c) PROVE AnswersRang'
    <2>1. CASE Offer(c) \/ WaitForAnySocket(c) \/ Unavailable(c)
        <3>1. /\ offer[c] \in {"idle", "waiting", "unavailable"}
              /\ \A d \in Calls \ {c} : offer'[d] = offer[d]
              /\ UNCHANGED <<rang, answered, activeCalls>>
            BY <2>1 DEF Offer, WaitForAnySocket, Unavailable
        <3> QED BY <3>1 DEF AnswersRang
    <2>2. CASE Forward(c) \/ Record(c)
        BY <2>2 DEF Forward, Record, AnswersRang
    <2> QED BY <1>1, <2>1, <2>2 DEF OfferStep
<1>2. ASSUME NEW c \in Calls, TalkStep(c) PROVE AnswersRang'
    <2>1. CASE Answer(c)
        BY <2>1 DEF Answer, AnswersRang
    <2>2. CASE Hangup(c) \/ Reject(c)
        BY <2>2, EndCallAnswers DEF Hangup, Reject
    <2>3. CASE SettleMissed(c)
        BY <2>3 DEF SettleMissed, AnswersRang
    <2> QED BY <1>2, <2>1, <2>2, <2>3 DEF TalkStep
<1>3. ASSUME NEW s \in Sockets, SocketStep(s) PROVE AnswersRang'
    <2>1. CASE Connect(s) \/ Ready(s) \/ Disconnect(s) \/ CollectKeys(s)
        BY <2>1 DEF Connect, Ready, Disconnect, CollectKeys, AnswersRang
    <2>2. CASE EndOnDisconnect(s)
        BY <2>2, EndCallAnswers DEF EndOnDisconnect
    <2> QED BY <1>3, <2>1, <2>2 DEF SocketStep
<1>4. CASE UNCHANGED vars
    BY <1>4 DEF vars, AnswersRang
<1> QED BY <1>1, <1>2, <1>3, <1>4 DEF Next

(* What becomes of a pair's only call, once it has been recorded.          *)
Accounted(c) ==
    \/ callTimings[callKey(c)] = c
    \/ c \in ending \cup answered \cup rejected
    \/ missed[c] = 1

OnlyCallAccounted ==
    \A c \in Calls :
        OnlyCallOfPair(c) /\ ServiceOnly(Callee[c]) /\ offer[c] = "done" =>
            Accounted(c)

(* An attempt that endCall takes is answered, declined or will be settled. *)
LEMMA EndCallAccounts ==
    ASSUME TypeOK, OneHolder, AnswersRang, OnlyCallAccounted,
           NEW k \in Keys, NEW d \in BOOLEAN, EndCall(k, d),
           UNCHANGED <<offer, missed, answered>>,
           rejected \subseteq rejected',
           \A c \in Calls : d /\ OnlyCallOfPair(c) /\ callTimings[k] = c =>
                                c \in rejected'
    PROVE  OnlyCallAccounted'
<1> SUFFICES ASSUME NEW c \in Calls, OnlyCallOfPair(c), ServiceOnly(Callee[c]),
                    offer[c] = "done"
             PROVE  Accounted(c)'
    BY DEF OnlyCallAccounted, OnlyCallOfPair, ServiceOnly
<1>1. Accounted(c)
    BY DEF OnlyCallAccounted
<1>2. CASE callTimings[k] = c
    <2>1. k = callKey(c)
        BY <1>2 DEF OneHolder
    <2>2. CASE k \in activeCalls
        <3>1. PICK e \in answered : callKey(e) = k
            BY <2>2 DEF AnswersRang
        <3>2. e \in Calls /\ offer[e] # "idle"
            BY <3>1 DEF AnswersRang, TypeOK
        <3>3. e = c
            BY <2>1, <3>1, <3>2 DEF OnlyCallOfPair
        <3> QED BY <3>1, <3>3 DEF Accounted
    <2>3. CASE d
        BY <1>2, <2>3 DEF Accounted
    <2>4. CASE k \notin activeCalls /\ ~d
        BY <1>2, <2>4, NoCallFresh DEF EndCall, Accounted
    <2> QED BY <2>2, <2>3, <2>4
<1>3. CASE callTimings[k] # c
    <2>1. callTimings[callKey(c)] = c => callTimings'[callKey(c)] = c
        BY <1>3, CallerType DEF EndCall, TypeOK
    <2>2. ending \subseteq ending'
        BY DEF EndCall
    <2> QED BY <1>1, <2>1, <2>2 DEF Accounted
<1> QED BY <1>2, <1>3

LEMMA AccountedStep ==
    TypeOK /\ OneHolder /\ AnswersRang /\ OnlyCallAccounted /\ [Next]_vars
        => OnlyCallAccounted'
<1> SUFFICES ASSUME TypeOK, OneHolder, AnswersRang, OnlyCallAccounted,
                    [Next]_vars
             PROVE  OnlyCallAccounted'
    OBVIOUS
<1> USE CallerType DEF TypeOK
<1>1. ASSUME NEW c \in Calls, OfferStep(c) PROVE OnlyCallAccounted'
    <2> SUFFICES ASSUME NEW e \in Calls, OnlyCallOfPair(e)',
                        ServiceOnly(Callee[e]), offer'[e] = "done"
                 PROVE  Accounted(e)'
        BY DEF OnlyCallAccounted, ServiceOnly
    <2>1. offer[c] # "done" /\ \A d \in Calls \ {c} : offer'[d] = offer[d]
        BY <1>1 DEF OfferStep, Offer, WaitForAnySocket, Unavailable, Forward,
                    Record
    <2>2. offer'[c] # "idle"
        BY <1>1 DEF OfferStep, Offer, WaitForAnySocket, Unavailable, Forward,
                    Record
    <2>3. OnlyCallOfPair(e)
        BY <2>1, <2>2 DEF OnlyCallOfPair
    <2>4. CASE e = c
        <3>1. Record(c)
            BY <1>1, <2>4 DEF OfferStep, Offer, WaitForAnySocket, Unavailable,
                              Forward
        <3> QED BY <2>4, <3>1 DEF Record, Accounted
    <2>5. CASE e # c
        <3>1. callKey(c) # callKey(e)
            BY <2>2, <2>5 DEF OnlyCallOfPair
        <3>2. Accounted(e)
            BY <2>1, <2>3, <2>5 DEF OnlyCallAccounted
        <3> QED BY <1>1, <2>5, <3>1, <3>2
                DEF OfferStep, Offer, WaitForAnySocket, Unavailable, Forward,
                    Record, Accounted
    <2> QED BY <2>4, <2>5
<1>2. ASSUME NEW c \in Calls, TalkStep(c) PROVE OnlyCallAccounted'
    <2>1. CASE Answer(c)
        BY <2>1 DEF Answer, OnlyCallAccounted, OnlyCallOfPair, ServiceOnly,
                    Accounted
    <2>2. CASE Hangup(c)
        BY <2>2, EndCallAccounts DEF Hangup
    <2>3. CASE Reject(c)
        <3>1. ASSUME NEW e \in Calls, OnlyCallOfPair(e),
                     callTimings[callKey(c)] = e
              PROVE  e \in rejected'
            <4>1. callKey(e) = callKey(c) /\ e \notin ending /\ missed[e] = 0
                BY <3>1 DEF OneHolder
            <4>2. offer[c] # "idle"
                BY <2>3 DEF Reject, AnswersRang
            <4>3. c = e
                BY <3>1, <4>1, <4>2 DEF OnlyCallOfPair
            <4> QED BY <2>3, <4>1, <4>3 DEF Reject
        <3> QED BY <2>3, <3>1, EndCallAccounts DEF Reject
    <2>4. CASE SettleMissed(c)
        <3> SUFFICES ASSUME NEW e \in Calls, OnlyCallOfPair(e),
                            ServiceOnly(Callee[e]), offer[e] = "done"
                     PROVE  Accounted(e)'
            BY <2>4 DEF SettleMissed, OnlyCallAccounted, OnlyCallOfPair,
                        ServiceOnly
        <3>1. Accounted(e)
            BY DEF OnlyCallAccounted
        <3>2. CASE e = c
            <4>1. ~HasAppSocket(Callee[c])
                BY <3>2 DEF ServiceOnly, HasAppSocket, Registered
            <4>2. missed[c] = 0
                BY <2>4 DEF SettleMissed, OneHolder
            <4> QED BY <2>4, <3>2, <4>1, <4>2 DEF SettleMissed, Accounted
        <3>3. CASE e # c
            BY <2>4, <3>1, <3>3 DEF SettleMissed, Accounted
        <3> QED BY <3>2, <3>3
    <2> QED BY <1>2, <2>1, <2>2, <2>3, <2>4 DEF TalkStep
<1>3. ASSUME NEW s \in Sockets, SocketStep(s) PROVE OnlyCallAccounted'
    <2>1. CASE Connect(s) \/ Ready(s) \/ Disconnect(s) \/ CollectKeys(s)
        BY <2>1 DEF Connect, Ready, Disconnect, CollectKeys,
                    OnlyCallAccounted, OnlyCallOfPair, ServiceOnly, Accounted
    <2>2. CASE EndOnDisconnect(s)
        BY <2>2, EndCallAccounts DEF EndOnDisconnect
    <2> QED BY <1>3, <2>1, <2>2 DEF SocketStep
<1>4. CASE UNCHANGED vars
    BY <1>4 DEF vars, OnlyCallAccounted, OnlyCallOfPair, ServiceOnly,
                Accounted
<1> QED BY <1>1, <1>2, <1>3, <1>4 DEF Next

(* A pair's only call that rang out is recorded for a callee without app   *)
(* sockets, in whatever order its parties hang up and disconnect.          *)
THEOREM OnlyCallCorrect == Spec => []OnlyCallIsMissed
<1>1. Init => AnswersRang /\ OnlyCallAccounted
    BY DEF Init, AnswersRang, OnlyCallAccounted
<1>2. OnlyCallAccounted => OnlyCallIsMissed
    BY DEF OnlyCallAccounted, OnlyCallIsMissed, RangOut, Accounted
<1> QED BY <1>1, <1>2, TypeCorrect, HolderCorrect, AnswersStep,
           AccountedStep, PTL DEF Spec

-----------------------------------------------------------------------------
(* The call handlers change the registry only by the operations that       *)
(* presence.go offers, in the order it allows: module Presence, which      *)
(* implements the registry, may stand for it below this module.            *)
THEOREM RegistryIsUsed == Spec => RegistrySpec
<1>1. Init => RegistryInit
    BY DEF Init
<1>2. [Next]_vars => [RegistryNext]_entry
    BY DEF Next, vars, RegistryNext, OfferStep, TalkStep, SocketStep, Offer,
           WaitForAnySocket, Unavailable, Forward, Record, Answer, Hangup,
           Reject, SettleMissed, Connect, Ready, Disconnect, CollectKeys,
           EndOnDisconnect
<1> QED BY <1>1, <1>2, PTL DEF Spec, RegistrySpec

-----------------------------------------------------------------------------
(* The life of an attempt.  A step that leaves every attempt standing as   *)
(* it did, and its rows alone, is a stutter of the ledger; one that moves  *)
(* a single attempt is a step of that attempt's.                           *)
LEMMA LedgerStutters ==
    ASSUME missed' = missed, \A d \in Calls : Standing(d)' = Standing(d)
    PROVE  UNCHANGED Ledger!vars
BY DEF Ledger!vars

LEMMA LedgerMoves ==
    ASSUME NEW c \in Calls, NEW to,
           \A d \in Calls : Standing(d)' = IF d = c THEN to ELSE Standing(d)
    PROVE  [d \in Calls |-> Standing(d)]'
               = [[d \in Calls |-> Standing(d)] EXCEPT ![c] = to]
OBVIOUS

(* endCall moves the attempt that the pair had tracked, if any.            *)
LEMMA EndCallEnds ==
    ASSUME TypeOK, OneHolder, NEW k \in Keys, NEW d \in BOOLEAN,
           EndCall(k, d), UNCHANGED <<offer, missed>>
    PROVE  [Ledger!Next]_Ledger!vars
<1> USE CallerType, NoCallFresh
<1>1. CASE callTimings[k] = NoCall
    <2>1. callTimings' = callTimings /\ ending' = ending
        BY <1>1 DEF EndCall, TypeOK
    <2>2. \A e \in Calls : Standing(e)' = Standing(e)
        BY <2>1 DEF Standing
    <2> QED BY <2>2, LedgerStutters
<1>2. CASE callTimings[k] # NoCall
    <2>1. PICK c \in Calls : callTimings[k] = c
        BY <1>2 DEF TypeOK
    <2>2. /\ c \in Calls /\ k = callKey(c)
          /\ offer[c] = "done" /\ c \notin ending /\ missed[c] = 0
        BY <2>1 DEF OneHolder
    <2>3. /\ callTimings' = [callTimings EXCEPT ![k] = NoCall]
          /\ ending' \in {ending, ending \cup {c}}
        BY <2>1, <1>2 DEF EndCall
    <2>4. Standing(c) = "tracked" /\ Standing(c)' \in {"closed", "taken"}
        BY <2>1, <2>2, <2>3 DEF Standing, TypeOK
    <2>5. ASSUME NEW e \in Calls, e # c PROVE Standing(e)' = Standing(e)
        BY <2>1, <2>2, <2>3, <2>5 DEF Standing, TypeOK
    <2>6. PICK to \in {"closed", "taken"} : Standing(c)' = to
        BY <2>4
    <2>7. [e \in Calls |-> Standing(e)]'
              = [[e \in Calls |-> Standing(e)] EXCEPT ![c] = to]
        BY <2>2, <2>5, <2>6, LedgerMoves
    <2>8. Ledger!End(c)
        BY <2>2, <2>4, <2>6, <2>7 DEF Ledger!End, Ledger!Move
    <2> QED BY <2>2, <2>8 DEF Ledger!Next
<1> QED BY <1>1, <1>2

LEMMA LedgerStep ==
    TypeOK /\ OneHolder /\ [Next]_vars => [Ledger!Next]_Ledger!vars
<1> SUFFICES ASSUME TypeOK, OneHolder, [Next]_vars
             PROVE  [Ledger!Next]_Ledger!vars
    OBVIOUS
<1> USE CallerType, NoCallFresh
<1>1. ASSUME NEW c \in Calls, OfferStep(c) PROVE [Ledger!Next]_Ledger!vars
    <2>1. CASE Offer(c) \/ WaitForAnySocket(c) \/ Forward(c)
        <3>1. /\ offer[c] \in {"idle", "waiting", "forward"}
              /\ offer' = [offer EXCEPT ![c] = offer'[c]]
              /\ offer'[c] \in {"waiting", "forward", "record", "unavailable"}
              /\ UNCHANGED <<callTimings, ending, missed>>
            BY <2>1 DEF Offer, WaitForAnySocket, Forward, TypeOK
        <3>2. \A d \in Calls : Standing(d)' = Standing(d)
            BY <3>1 DEF Standing, TypeOK
        <3> QED BY <3>1, <3>2, LedgerStutters
    <2>2. CASE Unavailable(c)
        <3>1. Standing(c) = "open" /\ Standing(c)' = "missed"
            BY <2>2 DEF Unavailable, Standing, TypeOK, OneHolder
        <3>2. ASSUME NEW d \in Calls, d # c PROVE Standing(d)' = Standing(d)
            BY <2>2, <3>2 DEF Unavailable, Standing, TypeOK
        <3>3. [d \in Calls |-> Standing(d)]'
                  = [[d \in Calls |-> Standing(d)] EXCEPT ![c] = "missed"]
            BY <3>1, <3>2, LedgerMoves
        <3>4. Ledger!Refuse(c)
            BY <2>2, <3>1, <3>3
               DEF Unavailable, Ledger!Refuse, Ledger!Move, Ledger!WriteRow
        <3> QED BY <3>4 DEF Ledger!Next
    <2>3. CASE Record(c)
        <3>1. Standing(c) = "open" /\ Standing(c)' = "tracked"
            BY <2>3 DEF Record, Standing, TypeOK, OneHolder
        <3>2. ASSUME NEW d \in Calls, d # c
              PROVE  Standing(d)' =
                         IF callKey(d) = callKey(c) /\ Standing(d) = "tracked"
                         THEN "closed" ELSE Standing(d)
            BY <2>3, <3>2 DEF Record, Standing, TypeOK, OneHolder
        <3>3. Ledger!Track(c)
            BY <2>3, <3>1, <3>2 DEF Record, Ledger!Track
        <3> QED BY <3>3 DEF Ledger!Next
    <2> QED BY <1>1, <2>1, <2>2, <2>3 DEF OfferStep
<1>2. ASSUME NEW c \in Calls, TalkStep(c) PROVE [Ledger!Next]_Ledger!vars
    <2>1. CASE Answer(c)
        BY <2>1, LedgerStutters DEF Answer, Standing
    <2>2. CASE Hangup(c)
        BY <2>2, EndCallEnds DEF Hangup
    <2>3. CASE Reject(c)
        BY <2>3, EndCallEnds DEF Reject
    <2>4. CASE SettleMissed(c)
        <3> DEFINE to == IF HasAppSocket(Callee[c]) THEN "closed" ELSE "missed"
        <3>1. Standing(c) = "taken" /\ Standing(c)' = to
            BY <2>4 DEF SettleMissed, Standing, TypeOK, OneHolder
        <3>2. ASSUME NEW d \in Calls, d # c PROVE Standing(d)' = Standing(d)
            BY <2>4, <3>2 DEF SettleMissed, Standing, TypeOK
        <3>3. [d \in Calls |-> Standing(d)]'
                  = [[d \in Calls |-> Standing(d)] EXCEPT ![c] = to]
            BY <3>1, <3>2, LedgerMoves
        <3>4. Ledger!Settle(c)
            BY <2>4, <3>1, <3>3
               DEF SettleMissed, Ledger!Settle, Ledger!Move, Ledger!WriteRow
        <3> QED BY <3>4 DEF Ledger!Next
    <2> QED BY <1>2, <2>1, <2>2, <2>3, <2>4 DEF TalkStep
<1>3. ASSUME NEW s \in Sockets, SocketStep(s)
      PROVE  [Ledger!Next]_Ledger!vars
    <2>1. CASE Connect(s) \/ Ready(s) \/ Disconnect(s) \/ CollectKeys(s)
        BY <2>1, LedgerStutters
           DEF Connect, Ready, Disconnect, CollectKeys, Standing
    <2>2. CASE EndOnDisconnect(s)
        <3>1. PICK k \in cleaning[s] : EndCall(k, FALSE)
            BY <2>2 DEF EndOnDisconnect
        <3>2. k \in Keys /\ UNCHANGED <<offer, missed>>
            BY <2>2 DEF EndOnDisconnect, TypeOK
        <3> QED BY <3>1, <3>2, EndCallEnds
    <2> QED BY <1>3, <2>1, <2>2 DEF SocketStep
<1>4. CASE UNCHANGED vars
    BY <1>4, LedgerStutters DEF vars, Standing
<1> QED BY <1>1, <1>2, <1>3, <1>4 DEF Next

(* The handlers and tables of calls keep the ledger: however hang-ups,     *)
(* answers, glare and disconnects interleave, an attempt that is over is   *)
(* never taken up again and never leaves a second row.                     *)
THEOREM LedgerIsKept == Spec => LedgerSpec
<1>1. Init => Ledger!Init
    BY CallerType, NoCallFresh DEF Init, Ledger!Init, Standing
<1> QED BY <1>1, LedgerStep, TypeCorrect, HolderCorrect, PTL
        DEF Spec, LedgerSpec, Ledger!Spec
=============================================================================
