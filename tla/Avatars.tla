------------------------------ MODULE Avatars ------------------------------
(***************************************************************************)
(* internal/avatars/service.go with the object store it drives, and the    *)
(* handlers of internal/routes/avatars.go that call it.  One user: every   *)
(* query is keyed by the user, but for the sweep's, which treats each row  *)
(* by itself.  Each query and each call to the store is a step, several    *)
(* uploads and commits of the user run at a time (a client that retries    *)
(* needs no more), and the server may stop between any two steps.          *)
(***************************************************************************)
EXTENDS Naturals, FiniteSets

CONSTANTS
    AvatarIds, \* upload requests; each gets a row and an object key
    Kind,      \* the kind each is requested for
    Commits,   \* handlers of commit requests
    NoAvatar,  \* what a query returns that finds no row
    MaxFaults  \* bound on failing calls and server stops together

Kinds == {"default", "custom"}

ASSUME KindType    == Kind \in [AvatarIds -> Kinds]
ASSUME NoneIsFresh == NoAvatar \notin AvatarIds
ASSUME FaultBound  == MaxFaults \in Nat
ASSUME NoLoopIsId  == {"sweep", "custom"} \cap AvatarIds = {}

VARIABLES
    row,      \* the status of each avatar's row in table avatars
    old,      \* rows created more than reserveWindow ago
    object,   \* objects in the store
    putUrl,   \* avatars whose presigned PUT URL is valid
    upload,   \* progress of RequestUpload
    drop,     \* rows a loop or a request is deleting, object first
    commit,   \* progress of each Commit
    target,   \* the avatar it was called for
    current,  \* the committed avatar its lookup found
    faults,   \* failing calls and stops so far
    marred,   \* avatars put late, or whose deletion was cut short: history
    outdated, \* commits that do not know the committed rows: history
    surplus   \* avatars that such commits promoted: history

table == <<row, old>>
store == <<object, putUrl>>
committing == <<commit, target, current>>
history == <<marred, outdated, surplus>>
vars == <<table, store, upload, drop, committing, faults, history>>

(* The hourly sweep, DeleteCustom, and RequestUpload for what it replaces. *)
Droppers == {"sweep", "custom"} \cup AvatarIds

TypeOK ==
    /\ row \in [AvatarIds -> {"none", "pending", "committed"}]
    /\ old \subseteq AvatarIds
    /\ object \subseteq AvatarIds /\ putUrl \subseteq AvatarIds
    /\ upload \in [AvatarIds ->
                     {"new", "insert", "sign", "granted", "refused"}]
    /\ drop \in [Droppers -> [AvatarIds -> {"no", "object", "row"}]]
    /\ commit \in [Commits -> {"idle", "size", "lookup", "swap", "delete"}]
    /\ target \in [Commits -> AvatarIds \cup {NoAvatar}]
    /\ current \in [Commits -> AvatarIds \cup {NoAvatar}]
    /\ \A c \in Commits :
           /\ commit[c] # "idle" => target[c] \in AvatarIds
           /\ commit[c] = "delete" => current[c] \in AvatarIds
    /\ faults \in 0..MaxFaults
    /\ marred \subseteq AvatarIds /\ surplus \subseteq AvatarIds
    /\ outdated \subseteq Commits

Init ==
    /\ row = [a \in AvatarIds |-> "none"]
    /\ old = {} /\ object = {} /\ putUrl = {}
    /\ upload = [a \in AvatarIds |-> "new"]
    /\ drop = [w \in Droppers |-> [a \in AvatarIds |-> "no"]]
    /\ commit = [c \in Commits |-> "idle"]
    /\ target = [c \in Commits |-> NoAvatar]
    /\ current = [c \in Commits |-> NoAvatar]
    /\ faults = 0
    /\ marred = {} /\ outdated = {} /\ surplus = {}

Rows(kind, status) ==
    {a \in AvatarIds : Kind[a] = kind /\ row[a] = status}

(* What DownloadURL signs a URL for.                                       *)
Downloadable == {a \in AvatarIds : row[a] = "committed"}

(* A call that fails, or a server that stops.                              *)
Fault == faults < MaxFaults /\ faults' = faults + 1

-----------------------------------------------------------------------------
(* RequestUpload: any pending row of the kind is to go; a query that fails *)
(* counts as one that finds nothing.                                       *)
FindReplaced(a) ==
    /\ upload[a] = "new"
    /\ upload' = [upload EXCEPT ![a] = "insert"]
    /\ \/ /\ \E p \in Rows(Kind[a], "pending") :
                 drop' = [drop EXCEPT ![a][p] = "object"]
          /\ UNCHANGED faults
       \/ /\ UNCHANGED drop
          /\ IF Rows(Kind[a], "pending") = {} THEN UNCHANGED faults ELSE Fault
    /\ UNCHANGED <<table, store, committing, history>>

(* Once the row to be replaced has been dealt with.                        *)
Insert(a) ==
    /\ upload[a] = "insert"
    /\ \A p \in AvatarIds : drop[a][p] = "no"
    /\ \/ /\ row' = [row EXCEPT ![a] = "pending"]
          /\ upload' = [upload EXCEPT ![a] = "sign"]
          /\ UNCHANGED faults
       \/ /\ Fault
          /\ upload' = [upload EXCEPT ![a] = "refused"]
          /\ UNCHANGED row
    /\ UNCHANGED <<old, store, drop, committing, history>>

PresignPut(a) ==
    /\ upload[a] = "sign"
    /\ \/ /\ upload' = [upload EXCEPT ![a] = "granted"]
          /\ putUrl' = putUrl \cup {a}
          /\ UNCHANGED faults
       \/ /\ Fault
          /\ upload' = [upload EXCEPT ![a] = "refused"]
          /\ UNCHANGED putUrl
    /\ UNCHANGED <<table, object, drop, committing, history>>

(* The client's PUT, as often as it likes while the URL is valid.          *)
Put(a) ==
    /\ a \in putUrl
    /\ object' = object \cup {a}
    /\ marred' = IF row[a] = "none" \/ \E w \in Droppers : drop[w][a] = "row"
                 THEN marred \cup {a} ELSE marred
    /\ UNCHANGED <<table, putUrl, upload, drop, committing, faults, outdated,
                   surplus>>

(* PutTTL is shorter than reserveWindow, and a handler than either.        *)
ExpireUrl(a) ==
    /\ a \in putUrl
    /\ putUrl' = putUrl \ {a}
    /\ UNCHANGED <<table, object, upload, drop, committing, faults, history>>

Age(a) ==
    /\ row[a] # "none" /\ a \notin old
    /\ a \notin putUrl /\ upload[a] # "sign"
    /\ old' = old \cup {a}
    /\ UNCHANGED <<row, store, upload, drop, committing, faults, history>>

-----------------------------------------------------------------------------
(* The three deletions: the object, the row, each result ignored.          *)
Busy(w) == \E a \in AvatarIds : drop[w][a] = "row"

DropObject(w, a) ==
    /\ drop[w][a] = "object" /\ ~Busy(w)
    /\ drop' = [drop EXCEPT ![w][a] = "row"]
    /\ \/ object' = object \ {a} /\ UNCHANGED <<faults, marred>>
       \/ /\ Fault /\ UNCHANGED object
          /\ marred' = marred \cup ({a} \cap object)
    /\ UNCHANGED <<table, putUrl, upload, committing, outdated, surplus>>

DropRow(w, a) ==
    /\ drop[w][a] = "row"
    /\ drop' = [drop EXCEPT ![w][a] = "no"]
    /\ \/ /\ row' = [row EXCEPT ![a] = "none"]
          /\ old' = old \ {a}
          /\ UNCHANGED <<faults, marred>>
       \/ /\ Fault
          /\ marred' = marred \cup {a}
          /\ UNCHANGED table
    /\ UNCHANGED <<store, upload, committing, outdated, surplus>>

Fetch(w, batch) ==
    /\ \A a \in AvatarIds : drop[w][a] = "no"
    /\ batch # {}
    /\ drop' = [drop EXCEPT ![w] = [a \in AvatarIds |->
                  IF a \in batch THEN "object" ELSE "no"]]
    /\ UNCHANGED <<table, store, upload, committing, faults, history>>

DeleteCustom == Fetch("custom", Rows("custom", "pending")
                                \cup Rows("custom", "committed"))

StalePending == {a \in old : row[a] = "pending"}

CleanupOrphans == Fetch("sweep", StalePending)

-----------------------------------------------------------------------------
(* Commit.  The client has the id of an upload that was granted.           *)
FindPending(c, a) ==
    /\ commit[c] = "idle" /\ row[a] = "pending" /\ upload[a] = "granted"
    /\ commit' = [commit EXCEPT ![c] = "size"]
    /\ target' = [target EXCEPT ![c] = a]
    /\ UNCHANGED <<table, store, upload, drop, current, faults, history>>

Return(c) ==
    /\ commit' = [commit EXCEPT ![c] = "idle"]
    /\ target' = [target EXCEPT ![c] = NoAvatar]
    /\ current' = [current EXCEPT ![c] = NoAvatar]

(* Fault: an upload that never came is taken for one.                      *)
CheckNoSize(c) ==
    /\ commit[c] = "size"
    /\ commit' = [commit EXCEPT ![c] = "lookup"]
    /\ UNCHANGED <<table, store, upload, drop, target, current, faults,
                   history>>

(* No object, one of another size, or a store that fails, ends it.         *)
CheckSize(c) ==
    /\ commit[c] = "size"
    /\ \/ /\ target[c] \in object
          /\ commit' = [commit EXCEPT ![c] = "lookup"]
          /\ UNCHANGED <<target, current>>
       \/ Return(c)
    /\ UNCHANGED <<table, store, upload, drop, faults, history>>

(* Fault: the avatar that is to be replaced is never found.                *)
FindNoCurrent(c) ==
    /\ commit[c] = "lookup"
    /\ commit' = [commit EXCEPT ![c] = "swap"]
    /\ UNCHANGED <<table, store, upload, drop, target, current, faults,
                   history>>

(* The row the lookup finds, any if there are several, none if it fails.   *)
FindCurrent(c) ==
    LET there == Rows(Kind[target[c]], "committed")
    IN  /\ commit[c] = "lookup"
        /\ commit' = [commit EXCEPT ![c] = "swap"]
        /\ \/ \E a \in there : current' = [current EXCEPT ![c] = a]
              /\ UNCHANGED faults
           \/ /\ UNCHANGED current
              /\ IF there = {} THEN UNCHANGED faults ELSE Fault
        /\ outdated' = IF there \ surplus \subseteq {current'[c]}
                       THEN outdated \ {c} ELSE outdated \cup {c}
        /\ UNCHANGED <<table, store, upload, drop, target, marred, surplus>>

(* The transaction: DELETE the old row, UPDATE the new one, if it is there *)
(* and whatever its status.                                                *)
Promote(c) ==
    LET a == target[c]
        rest == [b \in AvatarIds |-> IF b = current[c] THEN "none" ELSE row[b]]
    IN  /\ row' = [rest EXCEPT ![a] = IF @ = "none" THEN "none"
                                      ELSE "committed"]
        /\ old' = old \ {current[c]}
        /\ surplus' = IF c \in outdated THEN surplus \cup {a} ELSE surplus
        /\ outdated' = (outdated \ {c}) \cup
              {d \in Commits \ {c} : /\ commit[d] = "swap"
                                     /\ Kind[target[d]] = Kind[a]}

ToDelete(c) == /\ commit' = [commit EXCEPT ![c] = "delete"]
               /\ UNCHANGED <<target, current>>

(* Fault: there is always an old object to delete.                         *)
SwapAlwaysOld(c) ==
    /\ commit[c] = "swap"
    /\ Promote(c) /\ ToDelete(c)
    /\ UNCHANGED <<store, upload, drop, faults, marred>>

(* Fault: the old object's key is not kept for after the transaction.      *)
SwapForgetsKey(c) ==
    /\ commit[c] = "swap"
    /\ Promote(c) /\ Return(c)
    /\ UNCHANGED <<store, upload, drop, faults, marred>>

Swap(c) ==
    /\ commit[c] = "swap"
    /\ \/ /\ Promote(c)
          /\ IF current[c] = NoAvatar THEN Return(c) ELSE ToDelete(c)
          /\ UNCHANGED faults
       \/ /\ Fault /\ Return(c)
          /\ outdated' = outdated \ {c}
          /\ UNCHANGED <<table, surplus>>
    /\ UNCHANGED <<store, upload, drop, marred>>

DeleteOld(c) ==
    /\ commit[c] = "delete"
    /\ Return(c)
    /\ \/ object' = object \ {current[c]} /\ UNCHANGED <<faults, marred>>
       \/ /\ Fault /\ UNCHANGED object
          /\ marred' = marred \cup ({current[c]} \cap object)
    /\ UNCHANGED <<table, putUrl, upload, drop, outdated, surplus>>

(* The server stops: every handler and loop is forgotten.                  *)
Crash ==
    /\ Fault
    /\ upload' = [a \in AvatarIds |-> IF upload[a] \in {"insert", "sign"}
                                      THEN "refused" ELSE upload[a]]
    /\ drop' = [w \in Droppers |-> [a \in AvatarIds |-> "no"]]
    /\ commit' = [c \in Commits |-> "idle"]
    /\ target' = [c \in Commits |-> NoAvatar]
    /\ current' = [c \in Commits |-> NoAvatar]
    /\ marred' = marred
         \cup {current[c] : c \in {d \in Commits : commit[d] = "delete"}}
         \cup {a \in Downloadable : \E w \in Droppers : drop[w][a] = "row"}
    /\ outdated' = {}
    /\ UNCHANGED <<table, store, surplus>>

-----------------------------------------------------------------------------
UploadStep(a) == \/ FindReplaced(a) \/ Insert(a) \/ PresignPut(a)
                 \/ Put(a) \/ ExpireUrl(a) \/ Age(a)
DropStep(w, a) == DropObject(w, a) \/ DropRow(w, a)
CommitStep(c) == \/ \E a \in AvatarIds : FindPending(c, a)
                 \/ CheckSize(c) \/ FindCurrent(c) \/ Swap(c) \/ DeleteOld(c)

Next == \/ \E a \in AvatarIds : UploadStep(a)
        \/ \E w \in Droppers, a \in AvatarIds : DropStep(w, a)
        \/ \E c \in Commits : CommitStep(c)
        \/ DeleteCustom
        \/ CleanupOrphans
        \/ Crash

Spec == Init /\ [][Next]_vars

-----------------------------------------------------------------------------
(* What DownloadURL hands out exists, also when a reservation is replaced, *)
(* swept or deleted while it is being committed: a committed row has its   *)
(* object, or is about to go itself, or its deletion was cut short.        *)
DownloadsExist ==
    \A a \in Downloadable :
        a \in object \/ a \in marred \/ \E w \in Droppers : drop[w][a] = "row"

(* Commit deletes the old row before the old object, everything else does  *)
(* it the other way round.  An object without a row is one that Commit is  *)
(* about to delete, or one whose deletion failed, was cut short by a stop, *)
(* or came before the client's last PUT.                                   *)
NoObjectForgotten ==
    \A a \in object :
        row[a] = "none" =>
            \/ a \in marred
            \/ \E c \in Commits : commit[c] = "delete" /\ current[c] = a

(* One committed avatar of a kind, but for those that were promoted by a   *)
(* commit whose lookup another commit overtook, or failed, or found one of *)
(* several.                                                                *)
OneCurrent ==
    \A a, b \in Downloadable \ surplus : Kind[a] = Kind[b] => a = b

(* A user who has a default avatar has one ever after: an upload leaves it *)
(* alone until Commit swaps it.                                            *)
DefaultIsKept ==
    [][Rows("default", "committed") # {}
         => Rows("default", "committed")' # {}]_vars
=============================================================================
