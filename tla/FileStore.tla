------------------------------ MODULE FileStore ------------------------------
(***************************************************************************)
(* internal/files/service.go with the object store it drives, the part of  *)
(* internal/db/cleanup.go that unlinks files, and what the chat handlers   *)
(* do to the messages the files belong to.  One uploader: quotas are kept  *)
(* per sender and no handler reads another sender's rows.  Each query and  *)
(* each call to the object store is a step; a query may fail, and the      *)
(* server may stop between any two steps: then only the tables and the     *)
(* store remain.  Queries that only read and whose failure ends a handler  *)
(* before it has changed anything need no step of their own.               *)
(***************************************************************************)
EXTENDS Naturals, FiniteSets, FiniteSetsExt

CONSTANTS
    Files,          \* upload requests; each gets a row and an object key
    Messages,       \* chat messages
    Message,        \* the message id the client commits each file with
    Size,           \* the declared size, at most the per-file limit
    Quota,          \* maxPerUser
    StorageMayFail, \* whether the store may refuse to delete
    MaxFaults       \* bound on failing queries and server stops together

ASSUME MessageType == Message \in [Files -> Messages]
ASSUME SizeType    == Size \in [Files -> Nat \ {0}]
ASSUME QuotaType   == Quota \in Nat
ASSUME FailBoolean == StorageMayFail \in BOOLEAN
ASSUME FaultBound  == MaxFaults \in Nat

VARIABLES
    row,      \* the status of each file's row in table files
    linked,   \* rows whose message_id is set
    old,      \* rows created more than reserveWindow ago
    object,   \* objects in the store
    putUrl,   \* files whose presigned PUT URL is valid
    request,  \* progress of RequestUpload
    commit,   \* progress of Commit
    reclaim,  \* progress of CleanupOrphans and of DeleteByMessage, per file
    unlinked, \* messages CleanupStaleMessages has unlinked, not yet deleted
    mail,     \* the life of each message
    purge,    \* deleted messages whose files are still to be looked up
    stray,    \* objects put late or not deleted when their row was: history
    overbooked, \* files whose bytes no check of the quota has seen: history
    swept,    \* files in the sweep's hands since Commit saw them: history
    faults    \* failing queries and stops so far

handlers == <<request, commit, reclaim, unlinked, purge>>
vars == <<row, linked, old, object, putUrl, request, commit, reclaim,
          unlinked, mail, purge, stray, overbooked, swept, faults>>
history == <<stray, overbooked, swept>>

Reclaimers == {"sweep", "delete"}
RequestStates == {"idle", "insert", "sign", "granted", "refused"}

(* "kept": its sender deleted it, but the DELETE failed.                   *)
MailStates == {"unsent", "stored", "gone", "deleted", "kept"}

TypeOK ==
    /\ row \in [Files -> {"none", "pending", "committed"}]
    /\ linked \subseteq Files /\ old \subseteq Files
    /\ object \subseteq Files /\ putUrl \subseteq Files
    /\ request \in [Files -> RequestStates]
    /\ commit \in [Files -> {"idle", "size", "update"}]
    /\ reclaim \in [Reclaimers -> [Files -> {"no", "object", "row"}]]
    /\ unlinked \subseteq Messages
    /\ mail \in [Messages -> MailStates]
    /\ purge \subseteq Messages
    /\ stray \subseteq Files /\ overbooked \subseteq Files
    /\ swept \subseteq Files
    /\ faults \in 0..MaxFaults

Init ==
    /\ row = [f \in Files |-> "none"]
    /\ linked = {} /\ old = {} /\ object = {} /\ putUrl = {}
    /\ request = [f \in Files |-> "idle"]
    /\ commit = [f \in Files |-> "idle"]
    /\ reclaim = [w \in Reclaimers |-> [f \in Files |-> "no"]]
    /\ unlinked = {} /\ purge = {} /\ faults = 0
    /\ stray = {} /\ overbooked = {} /\ swept = {}
    /\ mail = [m \in Messages |-> "unsent"]

(* A query that fails, or a server that stops.                             *)
Fault == faults < MaxFaults /\ faults' = faults + 1

Dismissed(m) == mail[m] \in {"deleted", "kept"}

-----------------------------------------------------------------------------
(* usedBytesForUser: an expired reservation no longer counts.              *)
Counted == {f \in Files : \/ row[f] = "committed"
                          \/ row[f] = "pending" /\ f \notin old}

Bytes(S) == MapThenSumSet(LAMBDA f : Size[f], S)

usedBytes == Bytes(Counted)

(* Fault: the request's own size is forgotten.                             *)
CheckQuotaWithoutSize(f) ==
    /\ request[f] = "idle"
    /\ \/ /\ request' = [request EXCEPT ![f] =
                           IF usedBytes > Quota THEN "refused" ELSE "insert"]
          /\ UNCHANGED faults
       \/ Fault /\ request' = [request EXCEPT ![f] = "refused"]
    /\ UNCHANGED <<row, linked, old, object, putUrl, commit, reclaim, unlinked,
                   mail, purge, history>>

(* RequestUpload, past the contact and size checks.                        *)
CheckQuota(f) ==
    /\ request[f] = "idle"
    /\ \/ /\ request' = [request EXCEPT ![f] =
                           IF usedBytes + Size[f] > Quota THEN "refused"
                           ELSE "insert"]
          /\ UNCHANGED faults
       \/ Fault /\ request' = [request EXCEPT ![f] = "refused"]
    /\ UNCHANGED <<row, linked, old, object, putUrl, commit, reclaim, unlinked,
                   mail, purge, history>>

(* Requests whose check of the quota is outdated once f's bytes count.     *)
Outdated(f) == {g \in Files \ {f} : request[g] = "insert"}

Reserve(f) ==
    /\ request[f] = "insert"
    /\ \/ /\ row' = [row EXCEPT ![f] = "pending"]
          /\ request' = [request EXCEPT ![f] = "sign"]
          /\ overbooked' = overbooked \cup Outdated(f)
          /\ UNCHANGED faults
       \/ /\ Fault
          /\ request' = [request EXCEPT ![f] = "refused"]
          /\ UNCHANGED <<row, overbooked>>
    /\ UNCHANGED <<linked, old, object, putUrl, commit, reclaim, unlinked,
                   mail, purge, stray, swept>>

(* A URL that cannot be signed leaves the reservation behind.              *)
PresignPut(f) ==
    /\ request[f] = "sign"
    /\ \/ /\ request' = [request EXCEPT ![f] = "granted"]
          /\ putUrl' = putUrl \cup {f}
       \/ /\ StorageMayFail
          /\ request' = [request EXCEPT ![f] = "refused"]
          /\ UNCHANGED putUrl
    /\ UNCHANGED <<row, linked, old, object, commit, reclaim, unlinked, mail,
                   purge, history, faults>>

(* The client's PUT, as often as it likes while the URL is valid.          *)
Put(f) ==
    /\ f \in putUrl
    /\ object' = object \cup {f}
    /\ stray' = IF \/ row[f] = "none"
                   \/ \E w \in Reclaimers : reclaim[w][f] = "row"
                THEN stray \cup {f} ELSE stray
    /\ UNCHANGED <<row, linked, old, putUrl, handlers, mail, overbooked,
                   swept, faults>>

(* PutTTL is shorter than reserveWindow, and a handler than either.        *)
ExpireUrl(f) ==
    /\ f \in putUrl
    /\ putUrl' = putUrl \ {f}
    /\ UNCHANGED <<row, linked, old, object, handlers, mail, history, faults>>

Age(f) ==
    /\ row[f] # "none" /\ f \notin old
    /\ f \notin putUrl /\ request[f] # "sign"
    /\ old' = old \cup {f}
    /\ UNCHANGED <<row, linked, object, putUrl, handlers, mail, history,
                   faults>>

-----------------------------------------------------------------------------
(* Commit.                                                                 *)
FindPending(f) ==
    /\ commit[f] = "idle" /\ row[f] = "pending" /\ request[f] = "granted"
    /\ commit' = [commit EXCEPT ![f] = "size"]
    /\ UNCHANGED <<row, linked, old, object, putUrl, request, reclaim,
                   unlinked, mail, purge, history, faults>>

(* Fault: the store is not asked for the object.                           *)
CheckNoSize(f) ==
    /\ commit[f] = "size"
    /\ commit' = [commit EXCEPT ![f] = "update"]
    /\ swept' = swept \ {f}
    /\ UNCHANGED <<row, linked, old, object, putUrl, request, reclaim,
                   unlinked, mail, purge, stray, overbooked, faults>>

(* No object, one of another size, or a store that fails, ends it.         *)
CheckSize(f) ==
    /\ commit[f] = "size"
    /\ \/ /\ f \in object
          /\ commit' = [commit EXCEPT ![f] = "update"]
          /\ swept' = swept \ {f}
       \/ commit' = [commit EXCEPT ![f] = "idle"] /\ UNCHANGED swept
    /\ UNCHANGED <<row, linked, old, object, putUrl, request, reclaim,
                   unlinked, mail, purge, stray, overbooked, faults>>

(* UPDATE files ... WHERE id = ?: a row that is gone is not missed.        *)
Link(f) ==
    /\ commit[f] = "update"
    /\ commit' = [commit EXCEPT ![f] = "idle"]
    /\ \/ /\ row[f] # "none"
          /\ row' = [row EXCEPT ![f] = "committed"]
          /\ linked' = linked \cup {f}
          /\ overbooked' = IF f \in Counted THEN overbooked
                           ELSE overbooked \cup {f} \cup Outdated(f)
          /\ swept' = IF reclaim["sweep"][f] = "no" THEN swept
                      ELSE swept \cup {f}
          /\ UNCHANGED faults
       \/ /\ IF row[f] = "none" THEN UNCHANGED faults ELSE Fault
          /\ UNCHANGED <<row, linked, overbooked, swept>>
    /\ UNCHANGED <<old, object, putUrl, request, reclaim, unlinked, mail,
                   purge, stray>>

-----------------------------------------------------------------------------
(* Fault: a reservation is taken to have no object.                        *)
FetchTrustsStatus(w, batch) ==
    reclaim' = [reclaim EXCEPT ![w] = [f \in Files |->
                  IF f \notin batch THEN @[f]
                  ELSE IF row[f] = "pending" THEN "row" ELSE "object"]]

(* Both loops delete the object first and the row then, whatever became of *)
(* the object or of the row since the SELECT.                              *)
Fetch(w, batch) ==
    reclaim' = [reclaim EXCEPT ![w] = [f \in Files |->
                  IF f \in batch THEN "object" ELSE @[f]]]

(* The loop is busy with another file; each message:delete has its own.    *)
Busy(w, f) == \E g \in Files : /\ reclaim[w][g] = "row"
                               /\ w = "sweep" \/ Message[g] = Message[f]

DeleteObject(w, f) ==
    /\ reclaim[w][f] = "object" /\ ~Busy(w, f)
    /\ reclaim' = [reclaim EXCEPT ![w][f] = "row"]
    /\ \/ object' = object \ {f} /\ stray' = stray \ {f}
       \/ /\ StorageMayFail /\ UNCHANGED object
          /\ stray' = stray \cup ({f} \cap object)
    /\ swept' = IF w = "sweep" /\ commit[f] = "update" THEN swept \cup {f}
                ELSE swept
    /\ UNCHANGED <<row, linked, old, putUrl, request, commit, unlinked, mail,
                   purge, overbooked, faults>>

(* The error of the DELETE is ignored: the row may outlive its object.     *)
DeleteRow(w, f) ==
    /\ reclaim[w][f] = "row"
    /\ reclaim' = [reclaim EXCEPT ![w][f] = "no"]
    /\ \/ /\ row' = [row EXCEPT ![f] = "none"]
          /\ linked' = linked \ {f}
          /\ UNCHANGED faults
       \/ Fault /\ UNCHANGED <<row, linked>>
    /\ UNCHANGED <<old, object, putUrl, request, commit, unlinked, mail, purge,
                   history>>

(* Fault: uploads that lost their message are not orphans.                 *)
PendingOrphans == {f \in old : row[f] = "pending"}

Orphans == {f \in old : \/ row[f] = "pending"
                        \/ row[f] = "committed" /\ f \notin linked}

(* CleanupOrphans, one run at a time.                                      *)
CleanupOrphans ==
    /\ \A f \in Files : reclaim["sweep"][f] = "no"
    /\ Orphans # {}
    /\ Fetch("sweep", Orphans)
    /\ UNCHANGED <<row, linked, old, object, putUrl, request, commit, unlinked,
                   mail, purge, history, faults>>

-----------------------------------------------------------------------------
(* What happens to messages, as far as files are concerned.                *)
Become(m, next) ==
    /\ mail' = [mail EXCEPT ![m] = next]
    /\ UNCHANGED <<row, linked, old, object, putUrl, request, commit, reclaim,
                   history>>

SendMessage(m) == mail[m] = "unsent" /\ Become(m, "stored")
                  /\ UNCHANGED <<unlinked, purge, faults>>

(* The message's row goes: the recipient has it, or it is stale.           *)
LoseRow(m) == Become(m, CASE mail[m] = "stored" -> "gone"
                          [] mail[m] = "kept"   -> "deleted"
                          [] OTHER              -> mail[m])

AckMessage(m) == mail[m] \in {"stored", "kept"} /\ LoseRow(m)
                 /\ UNCHANGED <<unlinked, purge, faults>>

(* message:delete, which ignores whether its DELETE succeeds, then its     *)
(* call of DeleteByMessage.                                                *)
DeleteMessage(m) ==
    /\ \/ mail[m] \in {"stored", "gone"} /\ Become(m, "deleted")
          /\ UNCHANGED faults
       \/ mail[m] = "stored" /\ Become(m, "kept") /\ Fault
    /\ purge' = purge \cup {m}
    /\ UNCHANGED unlinked

DeleteByMessage(m) ==
    /\ m \in purge
    /\ purge' = purge \ {m}
    /\ \/ /\ Fetch("delete", {f \in linked : Message[f] = m})
          /\ UNCHANGED faults
       \/ Fault /\ UNCHANGED reclaim
    /\ UNCHANGED <<row, linked, old, object, putUrl, request, commit, unlinked,
                   mail, history>>

(* CleanupStaleMessages: the UPDATE, whose error is ignored, then the      *)
(* DELETE.  The sender dates a message, so that it may be stale at any     *)
(* age.                                                                    *)
UnlinkStale(m) ==
    LET its == {f \in linked : Message[f] = m}
    IN  /\ mail[m] \in {"stored", "kept"} /\ m \notin unlinked
        /\ \/ linked' = linked \ its /\ UNCHANGED faults
           \/ Fault /\ UNCHANGED linked
        /\ unlinked' = unlinked \cup {m}
        /\ UNCHANGED <<row, old, object, putUrl, request, commit, reclaim,
                       mail, purge, history>>

DeleteStale(m) ==
    /\ m \in unlinked
    /\ unlinked' = unlinked \ {m}
    /\ \/ LoseRow(m) /\ UNCHANGED faults
       \/ Become(m, mail[m]) /\ Fault
    /\ UNCHANGED purge

(* The server stops: every handler and job is forgotten.                   *)
Crash ==
    /\ Fault
    /\ request' = [f \in Files |-> IF request[f] \in {"insert", "sign"}
                                   THEN "refused" ELSE request[f]]
    /\ commit' = [f \in Files |-> "idle"]
    /\ reclaim' = [w \in Reclaimers |-> [f \in Files |-> "no"]]
    /\ unlinked' = {} /\ purge' = {}
    /\ UNCHANGED <<row, linked, old, object, putUrl, mail, history>>

-----------------------------------------------------------------------------
UploadStep(f) == \/ CheckQuota(f) \/ Reserve(f) \/ PresignPut(f)
                 \/ Put(f) \/ ExpireUrl(f) \/ Age(f)
CommitStep(f) == FindPending(f) \/ CheckSize(f) \/ Link(f)
ReclaimStep(w, f) == DeleteObject(w, f) \/ DeleteRow(w, f)
MessageStep(m) == \/ SendMessage(m) \/ AckMessage(m) \/ DeleteMessage(m)
                  \/ DeleteByMessage(m) \/ UnlinkStale(m) \/ DeleteStale(m)

Next == \/ \E f \in Files : UploadStep(f) \/ CommitStep(f)
        \/ \E w \in Reclaimers, f \in Files : ReclaimStep(w, f)
        \/ \E m \in Messages : MessageStep(m)
        \/ CleanupOrphans
        \/ Crash

Spec == Init /\ [][Next]_vars

(* Time passes, the hourly sweep runs, and what runs goes on.  Clients do  *)
(* what they like.                                                         *)
Fairness ==
    /\ \A f \in Files : /\ WF_vars(ExpireUrl(f)) /\ WF_vars(Age(f))
                        /\ WF_vars(CheckSize(f) \/ Link(f))
                        /\ WF_vars(Reserve(f) \/ PresignPut(f))
    /\ \A w \in Reclaimers, f \in Files : WF_vars(ReclaimStep(w, f))
    /\ \A m \in Messages : /\ WF_vars(DeleteByMessage(m))
                           /\ WF_vars(DeleteStale(m))
    /\ WF_vars(CleanupOrphans)

FairSpec == Spec /\ Fairness

-----------------------------------------------------------------------------
(* Deleting the object before the row pays off: whenever the server stops, *)
(* an object without a row, which no sweep could ever find, is one that    *)
(* was put after its deletion or that the store refused to delete.         *)
NoObjectForgotten ==
    \A f \in object : row[f] = "none" => f \in stray

(* Why: a row about to be deleted has no object, or a stray one.           *)
RowDeletedLast ==
    \A w \in Reclaimers, f \in Files :
        reclaim[w][f] = "row" => f \notin object \/ f \in stray

(* A reservation that is never committed, and an upload whose message went *)
(* stale, are eventually reclaimed, also when the server is restarted.     *)
OrphansAreReclaimed ==
    \A f \in Files :
        /\ (row[f] = "pending") ~> (row[f] # "pending")
        /\ (row[f] = "committed" /\ f \notin linked)
              ~> (row[f] = "none" \/ f \in linked)

(* The quota bounds the bytes a sender holds, committed or reserved, except *)
(* in two windows: a request whose check another request overtook, and a   *)
(* reservation that expired, stopped counting and was committed all the    *)
(* same.  Every other order of requests, commits, deletions and restarts   *)
(* stays within it.                                                        *)
QuotaHolds == Bytes(Counted \ overbooked) <= Quota

(* Neither loop takes away the object of a file that a message links to,   *)
(* unless the sender deleted that message.                                 *)
LinkedHasObject ==
    \A f \in linked : ~Dismissed(Message[f]) => f \in object

(* When one is missing, the sweep had the file in hand when Commit linked  *)
(* it, or took its object between Commit's look at it and the UPDATE (and  *)
(* may have failed to delete the row): no other order of uploads, commits, *)
(* deletions, failing queries and stops gives a recipient a file that is   *)
(* not there.                                                              *)
LostToSweepOnly ==
    \A f \in linked : f \in object \cup swept \/ Dismissed(Message[f])

(* The sweep removes files whose message row is gone.                      *)
GoneIsReclaimed ==
    \A f \in Files :
        (row[f] = "committed" /\ mail[Message[f]] = "gone")
            ~> (row[f] = "none")
=============================================================================
