---------------------------- MODULE CallSignaling ----------------------------
(***************************************************************************)
(* internal/socketio/signaling.go: the handlers of call:offer, answer,     *)
(* hangup and reject, and the tables callTimings and activeCalls that say  *)
(* which calls are tracked and which are answered.  The tables are keyed   *)
(* by the pair of users, whoever calls; handlers of all sockets of both    *)
(* users run concurrently, and each critical section under callMu, each    *)
(* look at presence and each emission is a step of its own.  ICE counters, *)
(* answer times and statistics only feed the log and are left out.         *)
(***************************************************************************)
EXTENDS SocketRegistry, Naturals

CONSTANTS
    Calls,      \* call attempts: one per call:offer
    Via,        \* the caller's socket on which each offer arrives
    Callee,     \* the user each offer is for
    NoCall      \* a missing key of callTimings

ASSUME ViaType     == Via \in [Calls -> Sockets]
ASSUME CalleeType  == Callee \in [Calls -> Users]
ASSUME NoCallFresh == NoCall \notin Calls

Caller(c) == Owner[Via[c]]

callKey(c) == {Caller(c), Callee[c]}
Keys == {callKey(c) : c \in Calls}

VARIABLES
    offer,       \* progress of the call:offer handler of each attempt
    rang,        \* attempts whose call:offer was emitted to some socket
    callTimings, \* the tracked attempt of each pair
    activeCalls, \* the pairs with an answer
    ending,      \* attempts that endCall took unanswered and will look at
    leaving,     \* sockets whose disconnect handler has yet to snapshot
    cleaning,    \* keys that handler still has to end
    missed,      \* call:missed rows written for each attempt
    answered,    \* attempts the callee answered: history
    rejected     \* attempts declined before endCall took them: history

tracking == <<callTimings, activeCalls, ending>>
cleanup  == <<leaving, cleaning>>
history  == <<answered, rejected>>
vars == <<entry, offer, rang, callTimings, activeCalls, ending, leaving,
          cleaning, missed, answered, rejected>>

OfferStates == {"idle", "waiting", "forward", "record", "done",
                "unavailable", "failed"}

TypeOK ==
    /\ RegistryTypeOK
    /\ offer \in [Calls -> OfferStates]
    /\ rang \subseteq Calls
    /\ callTimings \in [Keys -> Calls \cup {NoCall}]
    /\ activeCalls \subseteq Keys
    /\ ending \subseteq Calls
    /\ leaving \subseteq Sockets
    /\ cleaning \in [Sockets -> SUBSET Keys]
    /\ missed \in [Calls -> Nat]
    /\ answered \subseteq Calls
    /\ rejected \subseteq Calls

Init ==
    /\ RegistryInit
    /\ offer = [c \in Calls |-> "idle"]
    /\ callTimings = [k \in Keys |-> NoCall]
    /\ activeCalls = {} /\ ending = {} /\ leaving = {}
    /\ cleaning = [s \in Sockets |-> {}]
    /\ missed = [c \in Calls |-> 0]
    /\ rang = {} /\ answered = {} /\ rejected = {}

-----------------------------------------------------------------------------
(* call:offer.                                                             *)

(* The handler looks at presence; for a user without any socket it waits   *)
(* if there is a device token to wake, and gives up otherwise.             *)
Offer(c) ==
    /\ offer[c] = "idle"
    /\ entry[Via[c]] = "live"
    /\ \E next \in IF IsUserOnline(Callee[c]) THEN {"forward"}
                   ELSE {"waiting", "unavailable"} :
           offer' = [offer EXCEPT ![c] = next]
    /\ UNCHANGED <<entry, rang, tracking, cleanup, missed, history>>

(* Fault: the wait has no deadline.                                        *)
WaitForever(c) ==
    /\ offer[c] = "waiting"
    /\ IsUserOnline(Callee[c])
    /\ offer' = [offer EXCEPT ![c] = "forward"]
    /\ UNCHANGED <<entry, rang, tracking, cleanup, missed, history>>

(* WaitForAnySocket, every 300ms: presence is polled first, then the       *)
(* caller's connection.  The deadline may pass at any moment, also between *)
(* the callee's arrival and the next poll.                                 *)
WaitForAnySocket(c) ==
    /\ offer[c] = "waiting"
    /\ \/ /\ IsUserOnline(Callee[c])
          /\ offer' = [offer EXCEPT ![c] = "forward"]
       \/ \* the deadline, or an absent callee and a caller who left
          offer' = [offer EXCEPT ![c] = "unavailable"]
    /\ UNCHANGED <<entry, rang, tracking, cleanup, missed, history>>

(* Fault: the return after the refusal is missing.                         *)
UnavailableFallsThrough(c) ==
    /\ offer[c] = "unavailable"
    /\ offer' = [offer EXCEPT ![c] = "forward"]
    /\ missed' = [missed EXCEPT ![c] = @ + 1]
    /\ UNCHANGED <<entry, rang, tracking, cleanup, history>>

Unavailable(c) ==
    /\ offer[c] = "unavailable"
    /\ offer' = [offer EXCEPT ![c] = "failed"]
    /\ missed' = [missed EXCEPT ![c] = @ + 1]
    /\ UNCHANGED <<entry, rang, tracking, cleanup, history>>

(* EmitToUser reaches the attached sockets only.                           *)
Forward(c) ==
    /\ offer[c] = "forward"
    /\ offer' = [offer EXCEPT ![c] = "record"]
    /\ rang' = IF Reachable(Callee[c]) # {} THEN rang \cup {c} ELSE rang
    /\ UNCHANGED <<entry, tracking, cleanup, missed, history>>

(* The attempt is tracked only now, over whatever the pair had tracked.    *)
Record(c) ==
    /\ offer[c] = "record"
    /\ offer' = [offer EXCEPT ![c] = "done"]
    /\ callTimings' = [callTimings EXCEPT ![callKey(c)] = c]
    /\ UNCHANGED <<entry, rang, activeCalls, ending, cleanup, missed, history>>

-----------------------------------------------------------------------------
(* call:answer counts for the pair, tracked or not.  A device that rings   *)
(* may answer although the call is over at the server.                     *)
Answer(c) ==
    /\ c \in rang \ (answered \cup rejected)
    /\ Reachable(Callee[c]) # {}
    /\ activeCalls' = activeCalls \cup {callKey(c)}
    /\ answered' = answered \cup {c}
    /\ UNCHANGED <<entry, offer, rang, callTimings, ending, cleanup, missed,
                   rejected>>

(* Fault: the entry of callTimings stays.                                  *)
EndCallKeepsTiming(k, declined) ==
    /\ activeCalls' = activeCalls \ {k}
    /\ ending' = IF k \in activeCalls \/ declined THEN ending
                 ELSE ending \cup ({callTimings[k]} \ {NoCall})
    /\ UNCHANGED callTimings

(* endCall's critical section.  What is kept of the call afterwards is     *)
(* whether it may have been missed.                                        *)
EndCall(k, declined) ==
    /\ callTimings' = [callTimings EXCEPT ![k] = NoCall]
    /\ activeCalls' = activeCalls \ {k}
    /\ ending' = IF k \in activeCalls \/ declined THEN ending
                 ELSE ending \cup ({callTimings[k]} \ {NoCall})

(* Fault: a service socket passes for somebody who saw the call.           *)
SettleIfOffline(c) ==
    /\ c \in ending
    /\ ending' = ending \ {c}
    /\ missed' = IF IsUserOnline(Callee[c]) THEN missed
                 ELSE [missed EXCEPT ![c] = @ + 1]
    /\ UNCHANGED <<entry, offer, rang, callTimings, activeCalls, cleanup,
                   history>>

(* The rest of endCall.                                                    *)
SettleMissed(c) ==
    /\ c \in ending
    /\ ending' = ending \ {c}
    /\ missed' = IF HasAppSocket(Callee[c]) THEN missed
                 ELSE [missed EXCEPT ![c] = @ + 1]
    /\ UNCHANGED <<entry, offer, rang, callTimings, activeCalls, cleanup,
                   history>>

(* Either party hangs up a call it knows of, as often as it likes.  The    *)
(* relay to the other party changes nothing here.                          *)
Hangup(c) ==
    /\ \/ offer[c] # "idle" /\ Reachable(Caller(c)) # {}
       \/ c \in rang /\ Reachable(Callee[c]) # {}
    /\ EndCall(callKey(c), FALSE)
    /\ UNCHANGED <<entry, offer, rang, cleanup, missed, history>>

Reject(c) ==
    /\ c \in rang \ (answered \cup rejected)
    /\ Reachable(Callee[c]) # {}
    /\ rejected' = IF c \in ending \/ missed[c] > 0 THEN rejected
                   ELSE rejected \cup {c}
    /\ EndCall(callKey(c), TRUE)
    /\ UNCHANGED <<entry, offer, rang, cleanup, missed, answered>>

-----------------------------------------------------------------------------
(* Connections; as in MessageDelivery a socket of the model connects again *)
(* when its former disconnect handler has returned.                        *)
Connect(s) ==
    /\ s \notin leaving /\ cleaning[s] = {}
    /\ \A c \in Calls : Via[c] = s => offer[c] \in {"idle", "done", "failed"}
    /\ AddRaw(s)
    /\ UNCHANGED <<offer, rang, tracking, cleanup, missed, history>>

Ready(s) ==
    Attach(s) /\ UNCHANGED <<offer, rang, tracking, cleanup, missed, history>>

(* The disconnect handler: presence.Remove, then cleanupCallTracking.      *)
Disconnect(s) ==
    /\ RemoveRaw(s)
    /\ leaving' = leaving \cup {s}
    /\ UNCHANGED <<offer, rang, tracking, cleaning, missed, history>>

(* The keys are collected from callTimings only, and for every socket the  *)
(* user loses, whichever the call runs on.                                 *)
CollectKeys(s) ==
    /\ s \in leaving
    /\ leaving' = leaving \ {s}
    /\ cleaning' = [cleaning EXCEPT ![s] =
                      {k \in Keys : Owner[s] \in k /\ callTimings[k] # NoCall}]
    /\ UNCHANGED <<entry, offer, rang, tracking, missed, history>>

EndOnDisconnect(s) ==
    \E k \in cleaning[s] :
        /\ cleaning' = [cleaning EXCEPT ![s] = @ \ {k}]
        /\ EndCall(k, FALSE)
        /\ UNCHANGED <<entry, offer, rang, leaving, missed, history>>

-----------------------------------------------------------------------------
OfferStep(c) == \/ Offer(c) \/ WaitForAnySocket(c) \/ Unavailable(c)
                \/ Forward(c) \/ Record(c)

TalkStep(c) == Answer(c) \/ Hangup(c) \/ Reject(c) \/ SettleMissed(c)

SocketStep(s) == \/ Connect(s) \/ Ready(s) \/ Disconnect(s)
                 \/ CollectKeys(s) \/ EndOnDisconnect(s)

Next == \/ \E c \in Calls : OfferStep(c) \/ TalkStep(c)
        \/ \E s \in Sockets : SocketStep(s)

Spec == Init /\ [][Next]_vars

(* A handler that has started runs on, and the deadline of a wait passes.  *)
Fairness ==
    /\ \A c \in Calls : /\ WF_vars(WaitForAnySocket(c) \/ Unavailable(c)
                                    \/ Forward(c) \/ Record(c))
                        /\ WF_vars(SettleMissed(c))
    /\ \A s \in Sockets : WF_vars(CollectKeys(s) \/ EndOnDisconnect(s))

FairSpec == Spec /\ Fairness

-----------------------------------------------------------------------------
(* An attempt leaves at most one missed-call entry, however many devices   *)
(* hang up and disconnect at once: the entry is written either by the      *)
(* offer that found nobody, or by the one endCall that took the tracked    *)
(* attempt.                                                                *)
MissedOnce == \A c \in Calls : missed[c] <= 1

(* Why: at any moment an attempt is in the hands of its offer handler, or  *)
(* tracked, or taken by one endCall, or settled, and of one of them only.  *)
OneHolder ==
    \A c \in Calls :
        /\ \A k \in Keys : callTimings[k] = c =>
               k = callKey(c) /\ offer[c] = "done" /\ c \notin ending
                              /\ missed[c] = 0
        /\ c \in ending => offer[c] = "done" /\ missed[c] = 0
        /\ offer[c] \notin {"done", "failed"} => missed[c] = 0

(* So an attempt has one life, and a handler that comes late to it finds   *)
(* that it is over: the tables and the handlers between two critical       *)
(* sections keep the ledger of CallLedger.                                 *)
Standing(c) ==
    IF missed[c] > 0 THEN "missed"
    ELSE IF callTimings[callKey(c)] = c THEN "tracked"
    ELSE IF c \in ending THEN "taken"
    ELSE IF offer[c] = "done" THEN "closed"
    ELSE "open"

Ledger == INSTANCE CallLedger
          WITH Pair  <- [c \in Calls |-> callKey(c)],
               state <- [c \in Calls |-> Standing(c)],
               rows  <- missed

LedgerSpec == Ledger!Spec

(* A callee without app sockets has every attempt recorded that rang out:  *)
(* one that was forwarded, is no longer tracked, and was neither answered  *)
(* nor declined.  (288-290)                                                *)
ServiceOnly(u) == \A s \in AppSockets : Owner[s] # u

RangOut(c) == /\ offer[c] = "done"
              /\ callTimings[callKey(c)] # c /\ c \notin ending
              /\ c \notin answered \cup rejected

UnansweredIsMissed ==
    \A c \in Calls : ServiceOnly(Callee[c]) /\ RangOut(c) => missed[c] = 1

(* It is so for a pair's only call, whoever hangs up or disconnects when.  *)
(* A second one may take its place in callTimings (144), or be taken for   *)
(* answered because of what the first one left in activeCalls (169).       *)
OnlyCallOfPair(c) ==
    \A d \in Calls \ {c} : callKey(d) = callKey(c) => offer[d] = "idle"

OnlyCallIsMissed ==
    \A c \in Calls :
        OnlyCallOfPair(c) /\ ServiceOnly(Callee[c]) /\ RangOut(c)
            => missed[c] = 1

(* An offer is forwarded only once some live socket of the callee can      *)
(* ring: what WaitForAnySocket and the gate before it are for.             *)
ForwardedRings ==
    \A c \in Calls : offer[c] \in {"record", "done"} => c \in rang

(* No caller waits forever: every offer is forwarded or refused, and every *)
(* call that endCall took is settled.                                      *)
OfferSettles ==
    \A c \in Calls :
        /\ (offer[c] # "idle") ~> (offer[c] \in {"done", "failed"})
        /\ (c \in ending) ~> (c \notin ending)
=============================================================================
