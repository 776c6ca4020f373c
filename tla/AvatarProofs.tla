---------------------------- MODULE AvatarProofs ----------------------------
(***************************************************************************)
(* The uploads, commits and deletions of Avatars, for any number of each   *)
(* and of faults.                                                          *)
(***************************************************************************)
EXTENDS Avatars, TLAPS

USE DEF table, store, committing, history, Droppers

LEMMA FaultType == TypeOK /\ Fault => faults' \in 0..MaxFaults
BY FaultBound DEF TypeOK, Fault

(* What a handler that returns leaves of the progress of the commits.      *)
LEMMA ReturnType ==
    ASSUME TypeOK, NEW c \in Commits, Return(c)
    PROVE  /\ commit' \in
                  [Commits -> {"idle", "size", "lookup", "swap", "delete"}]
           /\ target' \in [Commits -> AvatarIds \cup {NoAvatar}]
           /\ current' \in [Commits -> AvatarIds \cup {NoAvatar}]
           /\ \A d \in Commits :
                  /\ commit'[d] # "idle" => target'[d] \in AvatarIds
                  /\ commit'[d] = "delete" => current'[d] \in AvatarIds
BY DEF TypeOK, Return

LEMMA PromoteType ==
    ASSUME TypeOK, NEW c \in Commits, Promote(c)
    PROVE  /\ row' \in [AvatarIds -> {"none", "pending", "committed"}]
           /\ old' \subseteq AvatarIds
           /\ target[c] \in AvatarIds => surplus' \subseteq AvatarIds
           /\ outdated' \subseteq Commits
BY DEF TypeOK, Promote

LEMMA UploadType ==
    ASSUME TypeOK, NEW a \in AvatarIds, UploadStep(a) PROVE TypeOK'
<1>1. CASE FindReplaced(a)
    <2>1. faults' \in 0..MaxFaults
        BY <1>1, FaultType DEF FindReplaced, TypeOK
    <2>2. drop' \in [Droppers -> [AvatarIds -> {"no", "object", "row"}]]
        <3>1. ASSUME NEW p \in AvatarIds,
                     drop' = [drop EXCEPT ![a][p] = "object"]
              PROVE  drop' \in [Droppers ->
                                   [AvatarIds -> {"no", "object", "row"}]]
            BY <3>1 DEF TypeOK
        <3> QED BY <1>1, <3>1 DEF FindReplaced, TypeOK, Rows
    <2>3. upload' \in [AvatarIds ->
                         {"new", "insert", "sign", "granted", "refused"}]
        BY <1>1 DEF FindReplaced, TypeOK
    <2> QED BY <1>1, <2>1, <2>2, <2>3 DEF FindReplaced, TypeOK
<1>2. CASE Insert(a)
    BY <1>2, FaultType DEF Insert, TypeOK
<1>3. CASE PresignPut(a)
    BY <1>3, FaultType DEF PresignPut, TypeOK
<1>4. CASE Put(a)
    BY <1>4 DEF Put, TypeOK
<1>5. CASE ExpireUrl(a) \/ Age(a)
    BY <1>5 DEF ExpireUrl, Age, TypeOK
<1> QED BY <1>1, <1>2, <1>3, <1>4, <1>5 DEF UploadStep

LEMMA DropType ==
    ASSUME TypeOK, NEW w \in Droppers, NEW a \in AvatarIds, DropStep(w, a)
    PROVE  TypeOK'
<1>1. CASE DropObject(w, a)
    <2>1. drop' \in [Droppers -> [AvatarIds -> {"no", "object", "row"}]]
        BY <1>1 DEF DropObject, TypeOK
    <2> QED BY <1>1, <2>1, FaultType DEF DropObject, TypeOK
<1>2. CASE DropRow(w, a)
    <2>1. drop' \in [Droppers -> [AvatarIds -> {"no", "object", "row"}]]
        BY <1>2 DEF DropRow, TypeOK
    <2>2. row' \in [AvatarIds -> {"none", "pending", "committed"}]
        BY <1>2 DEF DropRow, TypeOK
    <2> QED BY <1>2, <2>1, <2>2, FaultType DEF DropRow, TypeOK
<1> QED BY <1>1, <1>2 DEF DropStep

LEMMA CommitType ==
    ASSUME TypeOK, NEW c \in Commits, CommitStep(c) PROVE TypeOK'
<1>1. ASSUME NEW a \in AvatarIds, FindPending(c, a) PROVE TypeOK'
    BY <1>1 DEF FindPending, TypeOK
<1>2. CASE CheckSize(c)
    <2>1. CASE Return(c)
        BY <1>2, <2>1, ReturnType DEF CheckSize, TypeOK
    <2>2. CASE /\ commit' = [commit EXCEPT ![c] = "lookup"]
               /\ UNCHANGED <<target, current>>
        BY <1>2, <2>2 DEF CheckSize, TypeOK
    <2> QED BY <1>2, <2>1, <2>2 DEF CheckSize
<1>3. CASE FindCurrent(c)
    <2>1. current' \in [Commits -> AvatarIds \cup {NoAvatar}]
        BY <1>3 DEF FindCurrent, TypeOK, Rows
    <2>2. faults' \in 0..MaxFaults
        BY <1>3, FaultType DEF FindCurrent, TypeOK
    <2>3. outdated' \subseteq Commits
        BY <1>3 DEF FindCurrent, TypeOK
    <2>4. /\ commit' \in
                 [Commits -> {"idle", "size", "lookup", "swap", "delete"}]
          /\ \A d \in Commits :
                 /\ commit'[d] # "idle" => target[d] \in AvatarIds
                 /\ commit'[d] = "delete" => current'[d] \in AvatarIds
        BY <1>3 DEF FindCurrent, TypeOK
    <2> QED BY <1>3, <2>1, <2>2, <2>3, <2>4 DEF FindCurrent, TypeOK
<1>4. CASE Swap(c)
    <2>1. target[c] \in AvatarIds
        BY <1>4 DEF Swap, TypeOK
    <2>2. CASE Promote(c) /\ Return(c) /\ UNCHANGED faults
        BY <1>4, <2>1, <2>2, PromoteType, ReturnType DEF Swap, TypeOK
    <2>3. CASE /\ Promote(c) /\ ToDelete(c) /\ current[c] # NoAvatar
               /\ UNCHANGED faults
        <3>1. /\ commit' \in
                     [Commits -> {"idle", "size", "lookup", "swap", "delete"}]
              /\ \A d \in Commits :
                     /\ commit'[d] # "idle" => target[d] \in AvatarIds
                     /\ commit'[d] = "delete" => current[d] \in AvatarIds
            BY <2>1, <2>3 DEF ToDelete, TypeOK
        <3> QED BY <1>4, <2>1, <2>3, <3>1, PromoteType
                DEF Swap, ToDelete, TypeOK
    <2>4. CASE /\ Fault /\ Return(c) /\ outdated' = outdated \ {c}
               /\ UNCHANGED <<table, surplus>>
        BY <1>4, <2>4, FaultType, ReturnType DEF Swap, TypeOK
    <2> QED BY <1>4, <2>2, <2>3, <2>4 DEF Swap
<1>5. CASE DeleteOld(c)
    BY <1>5, FaultType, ReturnType DEF DeleteOld, TypeOK
<1> QED BY <1>1, <1>2, <1>3, <1>4, <1>5 DEF CommitStep

LEMMA FetchType ==
    ASSUME TypeOK, NEW w \in Droppers, NEW batch, Fetch(w, batch)
    PROVE  TypeOK'
BY DEF Fetch, TypeOK

LEMMA CrashType == ASSUME TypeOK, Crash PROVE TypeOK'
<1>1. marred' \subseteq AvatarIds
    BY DEF Crash, TypeOK, Downloadable
<1>2. upload' \in [AvatarIds ->
                     {"new", "insert", "sign", "granted", "refused"}]
    BY DEF Crash, TypeOK
<1> QED BY <1>1, <1>2, FaultType DEF Crash, TypeOK

LEMMA TypeStep == TypeOK /\ [Next]_vars => TypeOK'
<1>1. ASSUME TypeOK, UNCHANGED vars PROVE TypeOK'
    BY <1>1 DEF vars, TypeOK
<1> QED BY <1>1, UploadType, DropType, CommitType, FetchType, CrashType
        DEF Next, DeleteCustom, CleanupOrphans

(* Every reachable state is a state of the declared types.                 *)
THEOREM TypeCorrect == Spec => []TypeOK
<1>1. Init => TypeOK
    BY FaultBound DEF Init, TypeOK
<1> QED BY <1>1, TypeStep, PTL DEF Spec

-----------------------------------------------------------------------------
(* A row is there, or is to be committed, only after its upload inserted   *)
(* it, and an upload that has not begun deletes nothing.                   *)
UploadInv ==
    /\ \A a \in AvatarIds :
           /\ row[a] # "none" => upload[a] \notin {"new", "insert"}
           /\ upload[a] = "new" => \A b \in AvatarIds : drop[a][b] = "no"
    /\ \A c \in Commits :
           /\ target[c] \in AvatarIds => upload[target[c]] = "granted"
           /\ current[c] \in AvatarIds =>
                  upload[current[c]] \notin {"new", "insert"}

LEMMA UploadStepInv == TypeOK /\ UploadInv /\ [Next]_vars => UploadInv'
<1> SUFFICES ASSUME TypeOK, UploadInv, [Next]_vars PROVE UploadInv'
    OBVIOUS
<1> USE DEF UploadInv
<1>1. ASSUME NEW a \in AvatarIds, UploadStep(a) PROVE UploadInv'
    <2>1. CASE FindReplaced(a)
        <3>1. \A b \in AvatarIds \ {a} : drop'[b] = drop[b]
            BY <2>1 DEF FindReplaced, TypeOK, Rows
        <3>2. upload' = [upload EXCEPT ![a] = "insert"] /\ row[a] = "none"
            BY <2>1 DEF FindReplaced, TypeOK
        <3> QED BY <2>1, <3>1, <3>2, NoneIsFresh DEF FindReplaced, TypeOK
    <2>2. CASE Insert(a)
        BY <2>2 DEF Insert, TypeOK
    <2>3. CASE PresignPut(a)
        BY <2>3 DEF PresignPut, TypeOK
    <2>4. CASE Put(a) \/ ExpireUrl(a) \/ Age(a)
        BY <2>4 DEF Put, ExpireUrl, Age
    <2> QED BY <1>1, <2>1, <2>2, <2>3, <2>4 DEF UploadStep
<1>2. ASSUME NEW w \in Droppers, NEW a \in AvatarIds, DropStep(w, a)
      PROVE  UploadInv'
    <2>1. \A b \in AvatarIds : \A e \in AvatarIds :
              drop[b][e] = "no" => drop'[b][e] = "no"
        <3>1. CASE DropObject(w, a)
            BY <3>1 DEF DropObject, TypeOK
        <3>2. CASE DropRow(w, a)
            BY <3>2 DEF DropRow, TypeOK
        <3> QED BY <1>2, <3>1, <3>2 DEF DropStep
    <2>2. \A b \in AvatarIds : row'[b] # "none" => row[b] # "none"
        BY <1>2 DEF DropStep, DropObject, DropRow, TypeOK
    <2> QED BY <1>2, <2>1, <2>2 DEF DropStep, DropObject, DropRow
<1>3. ASSUME NEW c \in Commits, CommitStep(c) PROVE UploadInv'
    <2>1. UNCHANGED <<upload, drop>>
        BY <1>3 DEF CommitStep, FindPending, CheckSize, FindCurrent, Swap,
                    DeleteOld
    <2>2. \A b \in AvatarIds : row'[b] # "none" => row[b] # "none"
        BY <1>3 DEF CommitStep, FindPending, CheckSize, FindCurrent, Swap,
                    DeleteOld, Promote, TypeOK
    <2>3. \A d \in Commits :
              target'[d] \in AvatarIds => upload[target'[d]] = "granted"
        BY <1>3, NoneIsFresh
           DEF CommitStep, FindPending, CheckSize, FindCurrent, Swap,
               DeleteOld, Return, ToDelete, TypeOK
    <2>4. \A d \in Commits : current'[d] \in AvatarIds =>
              current'[d] = current[d] \/ row[current'[d]] # "none"
        BY <1>3, NoneIsFresh
           DEF CommitStep, FindPending, CheckSize, FindCurrent, Swap,
               DeleteOld, Return, ToDelete, Rows, TypeOK
    <2> QED BY <2>1, <2>2, <2>3, <2>4
<1>4. CASE DeleteCustom \/ CleanupOrphans
    <2>1. \A b \in AvatarIds : drop'[b] = drop[b]
        BY <1>4, NoLoopIsId DEF DeleteCustom, CleanupOrphans, Fetch, TypeOK
    <2> QED BY <1>4, <2>1 DEF DeleteCustom, CleanupOrphans, Fetch
<1>5. CASE Crash
    BY <1>5, NoneIsFresh DEF Crash, TypeOK
<1>6. CASE UNCHANGED vars
    BY <1>6 DEF vars
<1> QED BY <1>1, <1>2, <1>3, <1>4, <1>5, <1>6 DEF Next

LEMMA UploadCorrect == Spec => [](TypeOK /\ UploadInv)
<1>1. Init => UploadInv
    BY NoneIsFresh DEF Init, UploadInv
<1> QED BY <1>1, UploadStepInv, TypeCorrect, PTL DEF Spec

-----------------------------------------------------------------------------
(* The object is there, or somebody took it who takes the row next, or     *)
(* could not.                                                              *)
Sound(a) ==
    a \in object \/ a \in marred \/ \E w \in Droppers : drop[w][a] = "row"

(* From the size check on, the target of a commit is sound if its row is   *)
(* still there; the row of an object that Commit deletes is gone.          *)
SoundInv ==
    /\ DownloadsExist
    /\ \A c \in Commits :
           commit[c] \in {"lookup", "swap"} /\ row[target[c]] # "none"
               => Sound(target[c])
    /\ \A c \in Commits : commit[c] = "delete" => row[current[c]] = "none"

(* A step outside Commit that leaves sound what it leaves a row.           *)
LEMMA SoundKept ==
    ASSUME TypeOK, UploadInv, SoundInv, UNCHANGED committing,
           \A a \in AvatarIds : row'[a] # "none" /\ Sound(a) => Sound(a)',
           \A a \in AvatarIds :
               \/ row'[a] \in {row[a], "none"}
               \/ row'[a] = "pending" /\ upload[a] = "insert"
    PROVE  SoundInv'
<1>1. DownloadsExist'
    BY DEF SoundInv, DownloadsExist, Downloadable, Sound
<1>2. ASSUME NEW c \in Commits, commit[c] \in {"lookup", "swap"},
             row'[target[c]] # "none"
      PROVE  Sound(target[c])'
    BY <1>2 DEF TypeOK, UploadInv, SoundInv
<1>3. ASSUME NEW c \in Commits, commit[c] = "delete"
      PROVE  row'[current[c]] = "none"
    BY <1>3 DEF TypeOK, UploadInv, SoundInv
<1>4. ASSUME NEW c \in Commits, commit'[c] \in {"lookup", "swap"},
             row'[target'[c]] # "none"
      PROVE  Sound(target[c])'
    BY <1>2, <1>4
<1> QED BY <1>1, <1>3, <1>4 DEF SoundInv

LEMMA SoundStep == TypeOK /\ UploadInv /\ SoundInv /\ [Next]_vars => SoundInv'
<1> SUFFICES ASSUME TypeOK, UploadInv, SoundInv, [Next]_vars PROVE SoundInv'
    OBVIOUS
<1>1. ASSUME NEW a \in AvatarIds, UploadStep(a) PROVE SoundInv'
    <2>1. object \subseteq object' /\ marred \subseteq marred'
        BY <1>1 DEF UploadStep, FindReplaced, Insert, PresignPut, Put,
                    ExpireUrl, Age
    <2>2. \A w \in Droppers, b \in AvatarIds :
              drop[w][b] = "row" => drop'[w][b] = "row"
        <3>1. CASE FindReplaced(a)
            BY <3>1 DEF FindReplaced, UploadInv, Rows, TypeOK
        <3> QED BY <1>1, <3>1 DEF UploadStep, Insert, PresignPut, Put,
                                  ExpireUrl, Age
    <2>3. \A b \in AvatarIds :
              \/ row'[b] \in {row[b], "none"}
              \/ row'[b] = "pending" /\ upload[b] = "insert"
        BY <1>1 DEF UploadStep, FindReplaced, Insert, PresignPut, Put,
                    ExpireUrl, Age, TypeOK
    <2>4. UNCHANGED committing
        BY <1>1 DEF UploadStep, FindReplaced, Insert, PresignPut, Put,
                    ExpireUrl, Age
    <2>5. \A b \in AvatarIds : Sound(b) => Sound(b)'
        BY <2>1, <2>2 DEF Sound
    <2> QED BY <2>3, <2>4, <2>5, SoundKept
<1>2. ASSUME NEW w \in Droppers, NEW a \in AvatarIds, DropStep(w, a)
      PROVE  SoundInv'
    <2>1. UNCHANGED committing
        BY <1>2 DEF DropStep, DropObject, DropRow
    <2>2. \A b \in AvatarIds : row'[b] \in {row[b], "none"}
        BY <1>2 DEF DropStep, DropObject, DropRow, TypeOK
    <2>3. ASSUME NEW b \in AvatarIds, row'[b] # "none", Sound(b)
          PROVE  Sound(b)'
        <3>1. CASE DropObject(w, a)
            <4>1. /\ drop'[w][a] = "row"
                  /\ \A v \in Droppers : drop[v][b] = "row" =>
                                             drop'[v][b] = "row"
                BY <3>1 DEF DropObject, TypeOK
            <4>2. marred \subseteq marred' /\ object \ {a} \subseteq object'
                BY <3>1 DEF DropObject
            <4> QED BY <2>3, <4>1, <4>2 DEF Sound
        <3>2. CASE DropRow(w, a)
            <4>1. /\ object' = object /\ marred \subseteq marred'
                  /\ b = a => b \in marred'
                BY <2>3, <3>2 DEF DropRow, TypeOK
            <4>2. b # a => \A v \in Droppers : drop'[v][b] = drop[v][b]
                BY <3>2 DEF DropRow, TypeOK
            <4> QED BY <2>3, <4>1, <4>2 DEF Sound
        <3> QED BY <1>2, <3>1, <3>2 DEF DropStep
    <2> QED BY <2>1, <2>2, <2>3, SoundKept
<1>3. ASSUME NEW w \in Droppers, NEW batch, Fetch(w, batch) PROVE SoundInv'
    <2>1. \A v \in Droppers, b \in AvatarIds :
              drop[v][b] = "row" => drop'[v][b] = "row"
        BY <1>3 DEF Fetch, TypeOK
    <2>2. UNCHANGED <<row, object, marred, committing>>
        BY <1>3 DEF Fetch
    <2>3. \A b \in AvatarIds : Sound(b) => Sound(b)'
        BY <2>1, <2>2 DEF Sound
    <2> QED BY <2>2, <2>3, SoundKept
<1>4. ASSUME NEW c \in Commits, CommitStep(c) PROVE SoundInv'
    <2>1. ASSUME NEW a \in AvatarIds, FindPending(c, a) PROVE SoundInv'
        BY <2>1 DEF FindPending, SoundInv, DownloadsExist, Downloadable,
                    Sound, TypeOK
    <2>2. CASE CheckSize(c)
        BY <2>2 DEF CheckSize, Return, SoundInv, DownloadsExist,
                    Downloadable, Sound, TypeOK
    <2>3. CASE FindCurrent(c)
        BY <2>3 DEF FindCurrent, SoundInv, DownloadsExist, Downloadable,
                    Sound, TypeOK
    <2>4. CASE Swap(c)
        <3>1. UNCHANGED <<object, drop, marred>> /\ commit[c] = "swap"
            BY <2>4 DEF Swap
        <3>2. \A b \in AvatarIds : Sound(b)' <=> Sound(b)
            BY <3>1 DEF Sound
        <3>3. \A b \in AvatarIds :
                  /\ row[b] = "none" => row'[b] = "none"
                  /\ row'[b] = "committed" => row[b] = "committed"
                                                  \/ b = target[c]
            BY <2>4 DEF Swap, Promote, TypeOK
        <3>4. DownloadsExist'
            BY <3>1, <3>2, <3>3
               DEF SoundInv, DownloadsExist, Downloadable, Sound, TypeOK
        <3>5. \A d \in Commits : commit'[d] = "delete" =>
                  row'[current'[d]] = "none"
            <4>1. CASE Promote(c) /\ ToDelete(c) /\ current[c] # NoAvatar
                <5>1. current[c] \in AvatarIds
                    BY <4>1 DEF TypeOK
                <5>2. row'[current[c]] = "none"
                    BY <4>1, <5>1 DEF Promote, TypeOK
                <5> QED BY <4>1, <5>2, <3>3
                        DEF ToDelete, SoundInv, TypeOK
            <4>2. CASE Return(c)
                BY <3>1, <3>3, <4>2 DEF Return, SoundInv, TypeOK
            <4> QED BY <2>4, <4>1, <4>2 DEF Swap
        <3>6. \A d \in Commits :
                  commit'[d] \in {"lookup", "swap"} =>
                      commit'[d] = commit[d] /\ target'[d] = target[d]
            BY <2>4 DEF Swap, Return, ToDelete, TypeOK
        <3>7. ASSUME NEW d \in Commits, commit'[d] \in {"lookup", "swap"},
                     row'[target'[d]] # "none"
              PROVE  Sound(target[d])'
            <4>1. /\ target[d] \in AvatarIds /\ target'[d] = target[d]
                  /\ commit[d] \in {"lookup", "swap"}
                BY <3>6, <3>7 DEF TypeOK
            <4>2. Sound(target[d])
                BY <3>3, <3>7, <4>1 DEF SoundInv
            <4> QED BY <4>1, <4>2, <3>1 DEF Sound
        <3> QED BY <3>4, <3>5, <3>7 DEF SoundInv
    <2>5. CASE DeleteOld(c)
        <3>1. /\ current[c] \in AvatarIds /\ row[current[c]] = "none"
              /\ row' = row /\ drop' = drop
              /\ marred \subseteq marred'
              /\ object \ {current[c]} \subseteq object'
            BY <2>5 DEF DeleteOld, SoundInv, TypeOK
        <3>2. DownloadsExist'
            BY <3>1 DEF SoundInv, DownloadsExist, Downloadable
        <3>3. \A d \in Commits :
                  commit'[d] # "idle" =>
                      /\ commit'[d] = commit[d] /\ target'[d] = target[d]
                      /\ current'[d] = current[d]
            BY <2>5 DEF DeleteOld, Return, TypeOK
        <3>4. ASSUME NEW d \in Commits, commit'[d] \in {"lookup", "swap"},
                     row'[target'[d]] # "none"
              PROVE  Sound(target[d])'
            BY <3>1, <3>3, <3>4 DEF SoundInv, Sound
        <3> QED BY <3>1, <3>2, <3>3, <3>4 DEF SoundInv
    <2> QED BY <1>4, <2>1, <2>2, <2>3, <2>4, <2>5 DEF CommitStep
<1>5. CASE Crash
    BY <1>5 DEF Crash, SoundInv, DownloadsExist, Downloadable, TypeOK
<1>6. CASE UNCHANGED vars
    BY <1>6 DEF vars, SoundInv, DownloadsExist, Downloadable, Sound
<1> QED BY <1>1, <1>2, <1>3, <1>4, <1>5, <1>6
        DEF Next, DeleteCustom, CleanupOrphans

(* A committed avatar has its object, or is about to go, or lost its       *)
(* object to a deletion that was cut short: DownloadURL signs no URL for   *)
(* nothing (avatars/service.go:44-137).                                    *)
THEOREM DownloadsCorrect == Spec => []DownloadsExist
<1>1. Init => SoundInv
    BY DEF Init, SoundInv, DownloadsExist, Downloadable
<1>2. SoundInv => DownloadsExist
    BY DEF SoundInv
<1> QED BY <1>1, <1>2, SoundStep, UploadCorrect, PTL DEF Spec

-----------------------------------------------------------------------------
(* An avatar whose row goes next has lost its object, or is marred.        *)
ObjectFirst ==
    \A a \in AvatarIds : (\E w \in Droppers : drop[w][a] = "row") =>
        a \notin object \/ a \in marred

Deleting(a) == \E c \in Commits : commit[c] = "delete" /\ current[c] = a

ForgottenInv == NoObjectForgotten /\ ObjectFirst

LEMMA ForgottenStep == TypeOK /\ ForgottenInv /\ [Next]_vars => ForgottenInv'
<1> SUFFICES ASSUME TypeOK, ForgottenInv, [Next]_vars PROVE ForgottenInv'
    OBVIOUS
<1> USE DEF ForgottenInv
<1>1. ASSUME NEW a \in AvatarIds, UploadStep(a) PROVE ForgottenInv'
    <2>1. CASE Put(a)
        <3>1. /\ UNCHANGED <<row, drop, commit, current>>
              /\ object' = object \cup {a} /\ marred \subseteq marred'
              /\ row[a] = "none" \/ (\E w \in Droppers : drop[w][a] = "row")
                     => a \in marred'
            BY <2>1 DEF Put
        <3>2. ObjectFirst'
            BY <3>1 DEF ObjectFirst
        <3>3. NoObjectForgotten'
            BY <3>1 DEF NoObjectForgotten
        <3> QED BY <3>2, <3>3
    <2>2. CASE FindReplaced(a) \/ Insert(a) \/ PresignPut(a) \/ ExpireUrl(a)
                   \/ Age(a)
        <3>1. UNCHANGED <<object, marred, commit, current>>
            BY <2>2 DEF FindReplaced, Insert, PresignPut, ExpireUrl, Age
        <3>2. \A b \in AvatarIds : row'[b] = "none" => row[b] = "none"
            BY <2>2 DEF FindReplaced, Insert, PresignPut, ExpireUrl, Age,
                        TypeOK
        <3>3. \A w \in Droppers, b \in AvatarIds :
                  drop'[w][b] = "row" => drop[w][b] = "row"
            <4>1. ASSUME NEW p \in AvatarIds,
                         drop' = [drop EXCEPT ![a][p] = "object"]
                  PROVE  \A w \in Droppers, b \in AvatarIds :
                             drop'[w][b] = "row" => drop[w][b] = "row"
                BY <4>1 DEF TypeOK
            <4> QED BY <2>2, <4>1 DEF FindReplaced, Insert, PresignPut,
                                      ExpireUrl, Age, Rows
        <3>4. ObjectFirst'
            BY <3>1, <3>3 DEF ObjectFirst
        <3>5. NoObjectForgotten'
            BY <3>1, <3>2 DEF NoObjectForgotten, TypeOK
        <3> QED BY <3>4, <3>5
    <2> QED BY <1>1, <2>1, <2>2 DEF UploadStep
<1>2. ASSUME NEW w \in Droppers, NEW a \in AvatarIds, DropObject(w, a)
      PROVE  ForgottenInv'
    <2>1. /\ UNCHANGED <<row, commit, current>> /\ marred \subseteq marred'
          /\ object' \subseteq object
          /\ a \notin object' \/ a \in marred'
        BY <1>2 DEF DropObject
    <2>2. \A v \in Droppers, b \in AvatarIds :
              drop'[v][b] = "row" => b = a \/ drop[v][b] = "row"
        BY <1>2 DEF DropObject, TypeOK
    <2>3. ObjectFirst'
        BY <2>1, <2>2 DEF ObjectFirst
    <2>4. NoObjectForgotten'
        BY <2>1 DEF NoObjectForgotten
    <2> QED BY <2>3, <2>4
<1>3. ASSUME NEW w \in Droppers, NEW a \in AvatarIds, DropRow(w, a)
      PROVE  ForgottenInv'
    <2>1. /\ UNCHANGED <<object, commit, current>> /\ marred \subseteq marred'
          /\ \A b \in AvatarIds : b # a => row'[b] = row[b]
          /\ a \notin object \/ a \in marred
        BY <1>3 DEF DropRow, ObjectFirst, TypeOK
    <2>2. \A v \in Droppers, b \in AvatarIds :
              drop'[v][b] = "row" => drop[v][b] = "row"
        BY <1>3 DEF DropRow, TypeOK
    <2>3. ObjectFirst'
        BY <2>1, <2>2 DEF ObjectFirst
    <2>4. NoObjectForgotten'
        BY <2>1 DEF NoObjectForgotten, TypeOK
    <2> QED BY <2>3, <2>4
<1>4. ASSUME NEW w \in Droppers, NEW batch, Fetch(w, batch)
      PROVE  ForgottenInv'
    <2>1. \A v \in Droppers, b \in AvatarIds :
              drop'[v][b] = "row" => drop[v][b] = "row"
        BY <1>4 DEF Fetch, TypeOK
    <2>2. UNCHANGED <<row, object, marred, commit, current>>
        BY <1>4 DEF Fetch
    <2> QED BY <2>1, <2>2 DEF ObjectFirst, NoObjectForgotten
<1>5. ASSUME NEW c \in Commits, CommitStep(c) PROVE ForgottenInv'
    <2>1. CASE Swap(c)
        <3>1. UNCHANGED <<object, drop, marred>> /\ commit[c] = "swap"
            BY <2>1 DEF Swap
        <3>2. ObjectFirst'
            BY <3>1 DEF ObjectFirst
        <3>3. \A b \in AvatarIds : Deleting(b) => Deleting(b)'
            BY <2>1, <3>1 DEF Swap, Return, ToDelete, Deleting, TypeOK
        <3>4. ASSUME NEW b \in AvatarIds, row'[b] = "none", row[b] # "none"
              PROVE  Deleting(b)'
            <4>1. b = current[c] /\ Promote(c)
                BY <2>1, <3>4 DEF Swap, Promote, TypeOK
            <4>2. ToDelete(c)
                BY <2>1, <3>4, <4>1, NoneIsFresh DEF Swap
            <4> QED BY <4>1, <4>2 DEF ToDelete, Deleting, TypeOK
        <3>5. NoObjectForgotten'
            BY <3>1, <3>3, <3>4 DEF NoObjectForgotten, Deleting, TypeOK
        <3> QED BY <3>2, <3>5
    <2>2. CASE DeleteOld(c)
        <3>1. /\ UNCHANGED <<row, drop>> /\ marred \subseteq marred'
              /\ object' \subseteq object
              /\ current[c] \notin object' \/ current[c] \in marred'
            BY <2>2 DEF DeleteOld
        <3>2. \A b \in AvatarIds :
                  b # current[c] /\ Deleting(b) => Deleting(b)'
            BY <2>2 DEF DeleteOld, Return, Deleting, TypeOK
        <3>3. ObjectFirst'
            BY <3>1 DEF ObjectFirst
        <3>4. NoObjectForgotten'
            BY <3>1, <3>2 DEF NoObjectForgotten, Deleting, TypeOK
        <3> QED BY <3>3, <3>4
    <2>3. CASE \/ \E a \in AvatarIds : FindPending(c, a)
               \/ CheckSize(c) \/ FindCurrent(c)
        <3>1. UNCHANGED <<row, object, drop, marred>>
            BY <2>3 DEF FindPending, CheckSize, FindCurrent
        <3>2. \A b \in AvatarIds : Deleting(b) => Deleting(b)'
            BY <2>3 DEF FindPending, CheckSize, FindCurrent, Return,
                        Deleting, TypeOK
        <3> QED BY <3>1, <3>2
                DEF ObjectFirst, NoObjectForgotten, Deleting, TypeOK
    <2> QED BY <1>5, <2>1, <2>2, <2>3 DEF CommitStep
<1>6. CASE Crash
    BY <1>6 DEF Crash, ObjectFirst, NoObjectForgotten, TypeOK
<1>7. CASE UNCHANGED vars
    BY <1>7 DEF vars, ObjectFirst, NoObjectForgotten
<1> QED BY <1>1, <1>2, <1>3, <1>4, <1>5, <1>6, <1>7
        DEF Next, DropStep, DeleteCustom, CleanupOrphans

(* No object outlives its row unnoticed: what has none is about to be      *)
(* deleted by a commit, or its deletion failed, was cut short or came      *)
(* before the last PUT (avatars/service.go:71-87, 113-137, 169-173).       *)
THEOREM ForgottenCorrect == Spec => []NoObjectForgotten
<1>1. Init => ForgottenInv
    BY DEF Init, ForgottenInv, NoObjectForgotten, ObjectFirst
<1>2. ForgottenInv => NoObjectForgotten
    BY DEF ForgottenInv
<1> QED BY <1>1, <1>2, ForgottenStep, TypeCorrect, PTL DEF Spec

-----------------------------------------------------------------------------
(* A commit that is not outdated knows the committed row of its kind.      *)
CurrentInv ==
    /\ OneCurrent
    /\ \A c \in Commits : commit[c] = "swap" /\ c \notin outdated =>
           Rows(Kind[target[c]], "committed") \ surplus \subseteq {current[c]}

(* A step outside Commit that promotes nothing.                            *)
LEMMA CurrentKept ==
    ASSUME CurrentInv, UNCHANGED <<committing, outdated, surplus>>,
           \A a \in AvatarIds : row'[a] = "committed" => row[a] = "committed"
    PROVE  CurrentInv'
<1>1. OneCurrent'
    BY DEF CurrentInv, OneCurrent, Downloadable
<1>2. \A k : Rows(k, "committed")' \subseteq Rows(k, "committed")
    BY DEF Rows
<1> QED BY <1>1, <1>2 DEF CurrentInv

LEMMA CurrentStep == TypeOK /\ CurrentInv /\ [Next]_vars => CurrentInv'
<1> SUFFICES ASSUME TypeOK, CurrentInv, [Next]_vars PROVE CurrentInv'
    OBVIOUS
<1>1. ASSUME NEW a \in AvatarIds, UploadStep(a) PROVE CurrentInv'
    <2>1. UNCHANGED <<committing, outdated, surplus>>
        BY <1>1 DEF UploadStep, FindReplaced, Insert, PresignPut, Put,
                    ExpireUrl, Age
    <2>2. \A b \in AvatarIds : row'[b] = "committed" => row[b] = "committed"
        BY <1>1 DEF UploadStep, FindReplaced, Insert, PresignPut, Put,
                    ExpireUrl, Age, TypeOK
    <2> QED BY <2>1, <2>2, CurrentKept
<1>2. ASSUME NEW w \in Droppers, NEW a \in AvatarIds, DropStep(w, a)
      PROVE  CurrentInv'
    <2>1. UNCHANGED <<committing, outdated, surplus>>
        BY <1>2 DEF DropStep, DropObject, DropRow
    <2>2. \A b \in AvatarIds : row'[b] = "committed" => row[b] = "committed"
        BY <1>2 DEF DropStep, DropObject, DropRow, TypeOK
    <2> QED BY <2>1, <2>2, CurrentKept
<1>3. ASSUME NEW w \in Droppers, NEW batch, Fetch(w, batch) PROVE CurrentInv'
    BY <1>3, CurrentKept DEF Fetch
<1>4. ASSUME NEW c \in Commits, CommitStep(c) PROVE CurrentInv'
    <2>1. CASE \/ \E a \in AvatarIds : FindPending(c, a)
               \/ CheckSize(c) \/ DeleteOld(c)
        <3>1. UNCHANGED <<row, outdated, surplus>>
            BY <2>1 DEF FindPending, CheckSize, DeleteOld
        <3>2. \A d \in Commits : commit'[d] = "swap" =>
                  /\ commit[d] = "swap" /\ target'[d] = target[d]
                  /\ current'[d] = current[d]
            BY <2>1 DEF FindPending, CheckSize, DeleteOld, Return, TypeOK
        <3>3. OneCurrent'
            BY <3>1 DEF CurrentInv, OneCurrent, Downloadable
        <3> QED BY <3>1, <3>2, <3>3 DEF CurrentInv, Rows
    <2>2. CASE FindCurrent(c)
        <3>1. UNCHANGED <<row, target, surplus>>
            BY <2>2 DEF FindCurrent
        <3>2. OneCurrent'
            BY <3>1 DEF CurrentInv, OneCurrent, Downloadable
        <3>3. \A d \in Commits \ {c} :
                  commit'[d] = commit[d] /\ current'[d] = current[d]
            BY <2>2 DEF FindCurrent, Rows, TypeOK
        <3>4. outdated' = IF Rows(Kind[target[c]], "committed") \ surplus
                                 \subseteq {current'[c]}
                          THEN outdated \ {c} ELSE outdated \cup {c}
            BY <2>2 DEF FindCurrent
        <3>5. ASSUME NEW d \in Commits, commit'[d] = "swap", d \notin outdated'
              PROVE  Rows(Kind[target[d]], "committed") \ surplus
                         \subseteq {current'[d]}
            BY <3>3, <3>4, <3>5 DEF CurrentInv
        <3> QED BY <3>1, <3>2, <3>5 DEF CurrentInv, Rows
    <2>3. CASE Swap(c)
        <3>1. \A d \in Commits : commit'[d] = "swap" =>
                  /\ d # c /\ commit[d] = "swap" /\ target'[d] = target[d]
                  /\ current'[d] = current[d]
            BY <2>3 DEF Swap, Return, ToDelete, TypeOK
        <3>2. CASE Promote(c)
            <4> DEFINE t == target[c]
            <4>1. /\ \A b \in AvatarIds : row'[b] = "committed" =>
                         b = t \/ (row[b] = "committed" /\ b # current[c])
                  /\ surplus \subseteq surplus'
                  /\ c \in outdated => t \in surplus'
                  /\ \A d \in Commits \ {c} :
                         d \in outdated' <=>
                             \/ d \in outdated
                             \/ commit[d] = "swap" /\ Kind[target[d]] = Kind[t]
                BY <3>2 DEF Promote, TypeOK
            <4>2. commit[c] = "swap" /\ t \in AvatarIds
                BY <2>3 DEF Swap, TypeOK
            <4>3. ASSUME NEW a \in Downloadable' \ surplus',
                         NEW b \in Downloadable' \ surplus',
                         Kind[a] = Kind[b]
                  PROVE  a = b
                <5>1. a \in AvatarIds /\ b \in AvatarIds
                    BY DEF Downloadable
                <5>2. CASE a # t /\ b # t
                    BY <4>1, <4>3, <5>1, <5>2
                       DEF CurrentInv, OneCurrent, Downloadable
                <5>3. ASSUME NEW x \in Downloadable' \ surplus', x # t,
                             t \notin surplus', Kind[x] = Kind[t]
                      PROVE  FALSE
                    <6>1. /\ x \in AvatarIds /\ row[x] = "committed"
                          /\ x # current[c] /\ x \notin surplus
                        BY <4>1, <5>3 DEF Downloadable
                    <6>2. c \notin outdated
                        BY <4>1, <5>3
                    <6> QED BY <4>2, <5>3, <6>1, <6>2 DEF CurrentInv, Rows
                <5> QED BY <4>3, <5>1, <5>2, <5>3
            <4>4. ASSUME NEW d \in Commits, commit'[d] = "swap",
                         d \notin outdated'
                  PROVE  Rows(Kind[target[d]], "committed")' \ surplus'
                             \subseteq {current'[d]}
                <5>1. /\ d # c /\ commit[d] = "swap" /\ d \notin outdated
                      /\ Kind[target[d]] # Kind[t]
                    BY <3>1, <4>1, <4>4
                <5>2. Rows(Kind[target[d]], "committed")'
                          \subseteq Rows(Kind[target[d]], "committed")
                    BY <4>1, <5>1, <3>1, <4>4 DEF Rows
                <5> QED BY <3>1, <4>1, <4>4, <5>1, <5>2 DEF CurrentInv, Rows
            <4> QED BY <4>3, <4>4 DEF CurrentInv, OneCurrent
        <3>3. CASE outdated' = outdated \ {c} /\ UNCHANGED <<table, surplus>>
            <4>1. OneCurrent'
                BY <3>3 DEF CurrentInv, OneCurrent, Downloadable
            <4> QED BY <3>1, <3>3, <4>1 DEF CurrentInv, Rows
        <3> QED BY <2>3, <3>2, <3>3 DEF Swap
    <2> QED BY <1>4, <2>1, <2>2, <2>3 DEF CommitStep
<1>5. CASE Crash
    BY <1>5 DEF Crash, CurrentInv, OneCurrent, Downloadable
<1>6. CASE UNCHANGED vars
    BY <1>6, CurrentKept DEF vars
<1> QED BY <1>1, <1>2, <1>3, <1>4, <1>5, <1>6
        DEF Next, DeleteCustom, CleanupOrphans

(* A user has one committed avatar of a kind, as long as no commit         *)
(* promotes on a lookup that was overtaken or failed                       *)
(* (avatars/service.go:63-82).                                             *)
THEOREM CurrentCorrect == Spec => []OneCurrent
<1>1. Init => CurrentInv
    BY DEF Init, CurrentInv, OneCurrent, Downloadable
<1>2. CurrentInv => OneCurrent
    BY DEF CurrentInv
<1> QED BY <1>1, <1>2, CurrentStep, TypeCorrect, PTL DEF Spec
=============================================================================
