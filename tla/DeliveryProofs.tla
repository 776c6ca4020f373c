--------------------------- MODULE DeliveryProofs ---------------------------
(***************************************************************************)
(* Messages and notices, for any users, sockets, messages and notices:     *)
(* what a drain may delete and where a notice may get lost; that the       *)
(* handlers keep to the registry; and the device tokens, by which users    *)
(* are woken whom no socket reaches.                                       *)
(***************************************************************************)
EXTENDS MessageDelivery, TLAPS

USE DEF Sockets, Notices, tables, clients, drains, EntryStates, SendStates,
        NoticeStates, DrainStates

LEMMA TypeStep == TypeOK /\ [Next]_vars => TypeOK'
<1> SUFFICES ASSUME TypeOK, [Next]_vars PROVE TypeOK'
    OBVIOUS
<1> USE OwnerType, Addressed DEF TypeOK, RegistryTypeOK
<1>1. ASSUME NEW s \in Sockets, SocketStep(s) PROVE TypeOK'
    BY <1>1 DEF SocketStep, Connect, StartDrain, Disconnect,
                AddRaw, Attach, RemoveRaw
<1>2. ASSUME NEW s \in Sockets, DrainStep(s) PROVE TypeOK'
    <2>1. CASE GiveUp(s) \/ Purge(s)
        BY <2>1 DEF GiveUp, Purge
    <2>2. CASE SelectMessages(s)
        BY <2>2 DEF SelectMessages
    <2>3. CASE EmitMessages(s)
        BY <2>3 DEF EmitMessages
    <2>4. CASE SelectEvents(s)
        BY <2>4 DEF SelectEvents
    <2>5. CASE EmitEvents(s)
        BY <2>5 DEF EmitEvents
    <2> QED BY <1>2, <2>1, <2>2, <2>3, <2>4, <2>5 DEF DrainStep
<1>3. ASSUME NEW m \in Messages, MessageStep(m) PROVE TypeOK'
    BY <1>3 DEF MessageStep, StoreMessage, FanOut, CleanupStaleMessages
<1>4. ASSUME NEW s \in Sockets, NEW m \in Messages, AckStep(s, m)
      PROVE  TypeOK'
    BY <1>4 DEF AckStep, AckLookup, AckDelete
<1>5. ASSUME NEW n \in Messages, DeleteMessage(n) PROVE TypeOK'
    BY <1>5 DEF DeleteMessage
<1>6. ASSUME NEW n \in Notices, SendAvatar(n) \/ MissCall(n) PROVE TypeOK'
    BY <1>6 DEF SendAvatar, MissCall
<1>7. ASSUME NEW n \in Notices, HandNotice(n) PROVE TypeOK'
    BY <1>7 DEF HandNotice, CheckOnline, Relay, Queue
<1>8. CASE UNCHANGED vars
    BY <1>8 DEF vars
<1> QED BY <1>1, <1>2, <1>3, <1>4, <1>5, <1>6, <1>7, <1>8 DEF Next

(* Every reachable state is a state of the declared types.                 *)
THEOREM TypeCorrect == Spec => []TypeOK
<1>1. Init => TypeOK
    BY DEF Init, RegistryInit, TypeOK, RegistryTypeOK
<1> QED BY <1>1, TypeStep, PTL DEF Spec

-----------------------------------------------------------------------------
(* A step that attaches the socket starts its drain; a step that stores    *)
(* the message owes a fan-out; a SELECT fetches it; an emission hands it   *)
(* over.  Every other step leaves the obligation as it was.                *)
LEMMA NoMissedStep ==
    ASSUME ~DbMayFail
    PROVE  TypeOK /\ NoMissedMessage /\ [Next]_vars => NoMissedMessage'
<1> SUFFICES ASSUME TypeOK, NoMissedMessage, [Next]_vars,
                    NEW s \in Sockets, NEW m \in Messages,
                    m \in stored', To[m] = Owner[s], entry'[s] = "live",
                    drain'[s] # "select"
             PROVE  \/ m \in got'[s]
                    \/ send'[m] = "stored"
                    \/ drain'[s] = "emit" /\ m \in rows'[s]
    BY TypeStep DEF NoMissedMessage, TypeOK
<1> USE OwnerType, Addressed DEF TypeOK, RegistryTypeOK
<1>0. ASSUME m \in stored, entry[s] = "live", drain[s] # "select"
      PROVE  \/ m \in got[s]
             \/ send[m] = "stored"
             \/ drain[s] = "emit" /\ m \in rows[s]
    BY <1>0 DEF NoMissedMessage
<1>1. ASSUME NEW r \in Sockets, SocketStep(r)
      PROVE  /\ m \in stored /\ entry[s] = "live" /\ drain[s] # "select"
             /\ got'[s] = got[s] /\ send' = send
             /\ drain'[s] = drain[s] /\ rows' = rows
    BY <1>1 DEF SocketStep, Connect, StartDrain, Disconnect,
                AddRaw, Attach, RemoveRaw
<1>2. ASSUME NEW r \in Sockets, DrainStep(r)
      PROVE  \/ m \in got'[s]
             \/ send'[m] = "stored"
             \/ drain'[s] = "emit" /\ m \in rows'[s]
    <2>1. CASE GiveUp(r)
        BY <2>1 DEF GiveUp
    <2>2. CASE SelectMessages(r)
        BY <1>0, <2>2 DEF SelectMessages
    <2>3. CASE EmitMessages(r)
        BY <1>0, <2>3 DEF EmitMessages
    <2>4. CASE SelectEvents(r)
        BY <1>0, <2>4 DEF SelectEvents
    <2>5. CASE EmitEvents(r)
        BY <1>0, <2>5 DEF EmitEvents
    <2>6. CASE Purge(r)
        BY <1>0, <2>6 DEF Purge
    <2> QED BY <1>2, <2>1, <2>2, <2>3, <2>4, <2>5, <2>6 DEF DrainStep
<1>3. ASSUME NEW k \in Messages, MessageStep(k)
      PROVE  \/ m \in got'[s]
             \/ send'[m] = "stored"
             \/ drain'[s] = "emit" /\ m \in rows'[s]
    <2>1. CASE StoreMessage(k)
        BY <1>0, <2>1 DEF StoreMessage
    <2>2. CASE FanOut(k)
        \* an attached socket of the recipient is in the snapshot
        BY <1>0, <2>2 DEF FanOut, Reachable, Registered
    <2>3. CASE CleanupStaleMessages(k)
        BY <1>0, <2>3 DEF CleanupStaleMessages
    <2> QED BY <1>3, <2>1, <2>2, <2>3 DEF MessageStep
<1>4. ASSUME \/ \E r \in Sockets, k \in Messages : AckStep(r, k)
             \/ \E n \in Notices : \/ n \in Messages /\ DeleteMessage(n)
                                   \/ SendAvatar(n) \/ MissCall(n)
                                   \/ HandNotice(n)
             \/ UNCHANGED vars
      PROVE  /\ stored' \subseteq stored /\ entry' = entry /\ drain' = drain
             /\ got' = got /\ send' = send /\ rows' = rows
    BY <1>4 DEF AckStep, AckLookup, AckDelete, DeleteMessage, SendAvatar,
                MissCall, HandNotice, CheckOnline, Relay, Queue, vars
<1> QED BY <1>0, <1>1, <1>2, <1>3, <1>4 DEF Next

(* When no query fails, a socket whose drain is past its SELECT is owed no *)
(* stored message that is not on its way to it.                            *)
THEOREM NoMissedCorrect ==
    ASSUME ~DbMayFail
    PROVE  Spec => []NoMissedMessage
<1>1. Init => NoMissedMessage
    BY DEF Init, NoMissedMessage
<1>2. TypeOK /\ NoMissedMessage /\ [Next]_vars => NoMissedMessage'
    BY NoMissedStep
<1> QED BY <1>1, <1>2, TypeCorrect, PTL DEF Spec

-----------------------------------------------------------------------------
NoticeIInv == PurgeIsCovered /\ LossOnlyInWindows

(* Steps that leave the notices and the fetched ones alone.                *)
noticeVars == <<entry, queued, notice, seen, drain, events, window>>

LEMMA NoticeIInvStutter ==
    ASSUME NoticeIInv, UNCHANGED noticeVars PROVE NoticeIInv'
BY DEF NoticeIInv, PurgeIsCovered, LossOnlyInWindows, Lost, noticeVars

(* A drain that fetches, emits or purges keeps every notice in the table,  *)
(* in its hands, seen by the user, or in a window.                         *)
LEMMA NoticeIInvDrain ==
    ASSUME TypeOK, NoticeIInv, NEW r \in Sockets, DrainStep(r)
    PROVE  NoticeIInv'
<1> USE Addressed DEF TypeOK, NoticeIInv, PurgeIsCovered, LossOnlyInWindows,
                      Lost
<1>1. CASE GiveUp(r)
    BY <1>1 DEF GiveUp
<1>2. CASE SelectMessages(r)
    BY <1>2 DEF SelectMessages
<1>3. CASE EmitMessages(r)
    BY <1>3 DEF EmitMessages
<1>4. CASE SelectEvents(r)
    BY <1>4 DEF SelectEvents
<1>5. CASE EmitEvents(r)
    <2>1. events[r] \subseteq seen' \cup window' /\ seen \subseteq seen'
          /\ window \subseteq window'
        BY <1>5 DEF EmitEvents
    <2>2. /\ queued' = queued /\ notice' = notice
          /\ events' = [events EXCEPT ![r] = {}]
          /\ drain' = [drain EXCEPT ![r] = IF events[r] = {} THEN "done"
                                           ELSE "purge"]
        BY <1>5 DEF EmitEvents
    <2>3. PurgeIsCovered'
        BY <1>5, <2>1, <2>2 DEF EmitEvents
    <2>4. LossOnlyInWindows'
        BY <2>1, <2>2
    <2> QED BY <2>3, <2>4
<1>6. CASE Purge(r)
    <2>1. \A n \in queued : n \in queued' \/ n \in seen \cup window
        BY <1>6 DEF Purge
    <2>2. /\ queued' \subseteq queued /\ seen' = seen /\ window' = window
          /\ events' = events /\ notice' = notice
          /\ drain' = [drain EXCEPT ![r] = "done"]
        BY <1>6 DEF Purge
    <2>3. PurgeIsCovered'
        BY <1>6, <2>2 DEF Purge
    <2>4. LossOnlyInWindows'
        BY <2>1, <2>2
    <2> QED BY <2>3, <2>4
<1> QED BY <1>1, <1>2, <1>3, <1>4, <1>5, <1>6 DEF DrainStep

(* Issuing a notice ends with the notice in the table, with the user, or   *)
(* in a window; an INSERT beside a drain about to delete is in a window.   *)
LEMMA NoticeIInvNotice ==
    ASSUME TypeOK, NoticeIInv, NEW k \in Notices, HandNotice(k)
    PROVE  NoticeIInv'
<1> USE Addressed DEF TypeOK, NoticeIInv, PurgeIsCovered, LossOnlyInWindows,
                      Lost
<1>1. CASE CheckOnline(k)
    BY <1>1 DEF CheckOnline
<1>2. CASE Relay(k)
    BY <1>2 DEF Relay
<1>3. CASE Queue(k)
    <2>1. PurgeIsCovered'
        BY <1>3 DEF Queue, WillPurge
    <2>2. LossOnlyInWindows'
        BY <1>3 DEF Queue
    <2> QED BY <2>1, <2>2
<1> QED BY <1>1, <1>2, <1>3 DEF HandNotice

LEMMA NoticeIInvStep == TypeOK /\ NoticeIInv /\ [Next]_vars => NoticeIInv'
<1> SUFFICES ASSUME TypeOK, NoticeIInv, [Next]_vars PROVE NoticeIInv'
    OBVIOUS
<1>1. ASSUME NEW s \in Sockets, SocketStep(s) PROVE NoticeIInv'
    <2> USE DEF TypeOK, RegistryTypeOK, NoticeIInv, PurgeIsCovered,
                LossOnlyInWindows, Lost
    <2>1. CASE Connect(s)
        BY <2>1 DEF Connect, AddRaw
    <2>2. CASE StartDrain(s)
        BY <2>2 DEF StartDrain, Attach
    <2>3. CASE Disconnect(s)
        BY <2>3 DEF Disconnect, RemoveRaw
    <2> QED BY <1>1, <2>1, <2>2, <2>3 DEF SocketStep
<1>2. ASSUME NEW s \in Sockets, DrainStep(s) PROVE NoticeIInv'
    BY <1>2, NoticeIInvDrain
<1>3. ASSUME NEW m \in Messages, MessageStep(m) PROVE NoticeIInv'
    BY <1>3, NoticeIInvStutter
    DEF noticeVars, MessageStep, StoreMessage, FanOut, CleanupStaleMessages
<1>4. ASSUME NEW s \in Sockets, NEW m \in Messages, AckStep(s, m)
      PROVE  NoticeIInv'
    BY <1>4, NoticeIInvStutter DEF noticeVars, AckStep, AckLookup, AckDelete
<1>5. ASSUME NEW n \in Notices, \/ n \in Messages /\ DeleteMessage(n)
                                \/ SendAvatar(n) \/ MissCall(n)
      PROVE  NoticeIInv'
    BY <1>5 DEF TypeOK, NoticeIInv, PurgeIsCovered, LossOnlyInWindows, Lost,
                DeleteMessage, SendAvatar, MissCall
<1>6. ASSUME NEW n \in Notices, HandNotice(n) PROVE NoticeIInv'
    BY <1>6, NoticeIInvNotice
<1>7. CASE UNCHANGED vars
    BY <1>7, NoticeIInvStutter DEF noticeVars, vars
<1> QED BY <1>1, <1>2, <1>3, <1>4, <1>5, <1>6, <1>7 DEF Next

LEMMA NoticeIInvCorrect == Spec => []NoticeIInv
<1>1. Init => NoticeIInv
    BY DEF Init, RegistryInit, NoticeIInv, PurgeIsCovered, LossOnlyInWindows,
           Lost
<1> QED BY <1>1, TypeCorrect, NoticeIInvStep, PTL DEF Spec

(* What a drain is about to delete has been emitted or came in between.    *)
THEOREM PurgeCorrect == Spec => []PurgeIsCovered
<1>1. NoticeIInv => PurgeIsCovered
    BY DEF NoticeIInv
<1> QED BY <1>1, NoticeIInvCorrect, PTL

(* Whatever fails or interleaves, a notice is lost only in one of the      *)
(* windows that LossOnlyInWindows names.                                   *)
THEOREM LossCorrect == Spec => []LossOnlyInWindows
<1>1. NoticeIInv => LossOnlyInWindows
    BY DEF NoticeIInv
<1> QED BY <1>1, NoticeIInvCorrect, PTL

-----------------------------------------------------------------------------
(* The chat handlers change the registry only by the operations that       *)
(* presence.go offers, in the order it allows.                             *)
THEOREM RegistryIsUsed == Spec => RegistrySpec
<1>1. Init => RegistryInit
    BY DEF Init
<1>2. [Next]_vars => [RegistryNext]_entry
    BY DEF Next, vars, RegistryNext, SocketStep, DrainStep, MessageStep,
           AckStep, HandNotice, Connect, StartDrain, Disconnect, GiveUp,
           SelectMessages, EmitMessages, SelectEvents, EmitEvents, Purge,
           StoreMessage, FanOut, CleanupStaleMessages, AckLookup, AckDelete,
           DeleteMessage, SendAvatar, MissCall, CheckOnline, Relay, Queue
<1> QED BY <1>1, <1>2, PTL DEF Spec, RegistrySpec

-----------------------------------------------------------------------------
(* The table of DeviceTokens, by which the push wakes a user whom no       *)
(* socket reaches.  Its users are those of MessageDelivery; nothing else   *)
(* is shared.                                                              *)
CONSTANTS Tokens, Wakes, NoUser, NoToken
VARIABLES owner, dead, joining, leaving, list, pruning

Push == INSTANCE DeviceTokens

LEMMA PushTypeStep == Push!TypeOK /\ [Push!Next]_Push!vars => Push!TypeOK'
<1> SUFFICES ASSUME Push!TypeOK, [Push!Next]_Push!vars PROVE Push!TypeOK'
    OBVIOUS
<1> USE DEF Push!TypeOK, Push!requests, Push!fanouts
<1>1. CASE Push!External
    BY <1>1 DEF Push!External, Push!Request, Push!Die
<1>2. ASSUME NEW u \in Users, NEW t \in Tokens, Push!Handle(u, t)
      PROVE  Push!TypeOK'
    BY <1>2 DEF Push!Handle, Push!UpsertDeviceToken, Push!DeleteDeviceToken,
                Push!Drop
<1>3. ASSUME NEW w \in Wakes, Push!Fanout(w) PROVE Push!TypeOK'
    BY <1>3 DEF Push!Fanout, Push!GetUserTokens, Push!Send, Push!Prune
<1>4. CASE Push!Crash
    BY <1>4 DEF Push!Crash
<1>5. CASE UNCHANGED Push!vars
    BY <1>5 DEF Push!vars
<1> QED BY <1>1, <1>2, <1>3, <1>4, <1>5 DEF Push!Next

(* Every reachable state of the token table is of the declared types.      *)
THEOREM PushTypeCorrect == Push!Spec => []Push!TypeOK
<1>1. Push!Init => Push!TypeOK
    BY DEF Push!Init, Push!TypeOK
<1> QED BY <1>1, PushTypeStep, PTL DEF Push!Spec

(* A fan-out is about to delete only what FCM has given up for good.       *)
PrunesDead == \A w \in Wakes : pruning[w] # NoToken => pruning[w] \in dead

LEMMA PrunesStep ==
    Push!TypeOK /\ PrunesDead /\ [Push!Next]_Push!vars => PrunesDead'
<1> SUFFICES ASSUME Push!TypeOK, PrunesDead, [Push!Next]_Push!vars
             PROVE  PrunesDead'
    OBVIOUS
<1> USE DEF PrunesDead, Push!TypeOK, Push!requests, Push!fanouts
<1>1. CASE Push!External
    BY <1>1 DEF Push!External, Push!Request, Push!Die
<1>2. ASSUME NEW w \in Wakes, Push!Fanout(w) PROVE PrunesDead'
    BY <1>2 DEF Push!Fanout, Push!GetUserTokens, Push!Send, Push!Prune
<1>3. CASE UNCHANGED <<pruning, dead>>
    BY <1>3
<1>4. CASE Push!Crash
    BY <1>4 DEF Push!Crash
<1> QED BY <1>1, <1>2, <1>3, <1>4
        DEF Push!Next, Push!vars, Push!Handle, Push!UpsertDeviceToken,
            Push!DeleteDeviceToken, Push!Drop

(* Neither a request of a former user nor a fan-out takes the row of a     *)
(* live token from the user who has it.                                    *)
LEMMA LiveTokenStep ==
    ASSUME NoUser \notin Users, Push!TypeOK, PrunesDead,
           [Push!Next]_Push!vars,
           NEW t \in Tokens \ dead, owner[t] # NoUser,
           <<owner[t], t>> \notin leaving
    PROVE  owner'[t] # NoUser
<1> USE DEF Push!TypeOK, Push!requests, Push!fanouts
<1>1. ASSUME NEW u \in Users, NEW s \in Tokens, Push!Handle(u, s)
      PROVE  owner'[t] # NoUser
    <2>1. CASE Push!UpsertDeviceToken(u, s)
        BY <2>1 DEF Push!UpsertDeviceToken
    <2>2. CASE Push!DeleteDeviceToken(u, s)
        BY <2>2 DEF Push!DeleteDeviceToken
    <2>3. CASE Push!Drop(u, s)
        BY <2>3 DEF Push!Drop
    <2> QED BY <1>1, <2>1, <2>2, <2>3 DEF Push!Handle
<1>2. ASSUME NEW w \in Wakes, Push!Fanout(w) PROVE owner'[t] # NoUser
    <2>1. CASE Push!Prune(w)
        BY <2>1 DEF Push!Prune, PrunesDead
    <2> QED BY <1>2, <2>1 DEF Push!Fanout, Push!GetUserTokens, Push!Send
<1>3. CASE owner' = owner
    BY <1>3
<1> QED BY <1>1, <1>2, <1>3
        DEF Push!Next, Push!vars, Push!External, Push!Request, Push!Die,
            Push!Crash

(* A device that can be woken stays so until its own user asks otherwise,  *)
(* for any users, tokens and fan-outs.                                     *)
THEOREM LiveTokenCorrect ==
    ASSUME NoUser \notin Users
    PROVE  Push!Spec => Push!LiveTokenStays
<1>1. Push!Init => PrunesDead
    BY DEF Push!Init, PrunesDead
<1>2. Push!TypeOK /\ PrunesDead /\ [Push!Next]_Push!vars =>
          [\A t \in Tokens \ dead :
              owner[t] # NoUser /\ <<owner[t], t>> \notin leaving =>
                  owner'[t] # NoUser]_Push!vars
    BY LiveTokenStep
<1> QED BY <1>1, <1>2, PushTypeCorrect, PrunesStep, PTL
        DEF Push!Spec, Push!LiveTokenStays
=============================================================================
