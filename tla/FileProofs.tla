----------------------------- MODULE FileProofs -----------------------------
(***************************************************************************)
(* Files, for any files, messages and sizes, and however often a query     *)
(* fails or the server stops: no object is forgotten, the quota holds but  *)
(* for two windows, and a linked file loses its object to an overtaken     *)
(* sweep only.                                                             *)
(***************************************************************************)
EXTENDS FileStore, FiniteSetTheorems, WellFoundedInduction, TLAPS

USE DEF Reclaimers, RequestStates, MailStates, handlers, history

(* The loops' cells stay in their type.                                    *)
LEMMA FetchType ==
    ASSUME TypeOK, NEW w \in Reclaimers, NEW batch, Fetch(w, batch)
    PROVE  reclaim' \in [Reclaimers -> [Files -> {"no", "object", "row"}]]
BY DEF TypeOK, Fetch

LEMMA TypeStep == TypeOK /\ [Next]_vars => TypeOK'
<1> SUFFICES ASSUME TypeOK, [Next]_vars PROVE TypeOK'
    OBVIOUS
<1> USE MessageType, FaultBound DEF TypeOK, Fault
<1>1. ASSUME NEW f \in Files, UploadStep(f) PROVE TypeOK'
    <2>1. CASE CheckQuota(f) \/ Reserve(f) \/ PresignPut(f)
        BY <2>1 DEF CheckQuota, Reserve, Outdated, PresignPut
    <2>2. CASE Put(f) \/ ExpireUrl(f) \/ Age(f)
        BY <2>2 DEF Put, ExpireUrl, Age
    <2> QED BY <1>1, <2>1, <2>2 DEF UploadStep
<1>2. ASSUME NEW f \in Files, CommitStep(f) PROVE TypeOK'
    BY <1>2 DEF CommitStep, FindPending, CheckSize, Link, Outdated
<1>3. ASSUME NEW w \in Reclaimers, NEW f \in Files, ReclaimStep(w, f)
      PROVE  TypeOK'
    BY <1>3 DEF ReclaimStep, DeleteObject, DeleteRow
<1>4. ASSUME NEW m \in Messages, MessageStep(m) PROVE TypeOK'
    <2>1. CASE SendMessage(m) \/ AckMessage(m) \/ DeleteMessage(m)
        BY <2>1 DEF SendMessage, AckMessage, DeleteMessage, LoseRow, Become
    <2>2. CASE DeleteByMessage(m)
        BY <2>2, FetchType DEF DeleteByMessage
    <2>3. CASE UnlinkStale(m)
        BY <2>3 DEF UnlinkStale
    <2>4. CASE DeleteStale(m)
        BY <2>4 DEF DeleteStale, LoseRow, Become
    <2> QED BY <1>4, <2>1, <2>2, <2>3, <2>4 DEF MessageStep
<1>5. CASE CleanupOrphans
    BY <1>5, FetchType DEF CleanupOrphans
<1>6. CASE Crash
    BY <1>6 DEF Crash
<1>7. CASE UNCHANGED vars
    BY <1>7 DEF vars
<1> QED BY <1>1, <1>2, <1>3, <1>4, <1>5, <1>6, <1>7 DEF Next

(* Every reachable state is a state of the declared types.                 *)
THEOREM TypeCorrect == Spec => []TypeOK
<1>1. Init => TypeOK
    BY FaultBound DEF Init, TypeOK
<1> QED BY <1>1, TypeStep, PTL DEF Spec

-----------------------------------------------------------------------------
Remembered == NoObjectForgotten /\ RowDeletedLast

(* A step that puts no object, deletes no row, and brings no loop to the   *)
(* point of deleting one, forgets nothing.                                 *)
LEMMA RememberedStutter ==
    ASSUME Remembered, object' = object, stray' = stray,
           \A f \in Files : row'[f] = "none" => row[f] = "none",
           \A w \in Reclaimers, f \in Files :
               reclaim'[w][f] = "row" => reclaim[w][f] = "row",
           object \subseteq Files
    PROVE  Remembered'
BY DEF Remembered, NoObjectForgotten, RowDeletedLast

(* Fetching a batch brings its files to the deletion of their objects.     *)
LEMMA FetchRemembers ==
    ASSUME TypeOK, NEW v \in Reclaimers, NEW batch, Fetch(v, batch)
    PROVE  \A w \in Reclaimers, f \in Files :
               reclaim'[w][f] = "row" => reclaim[w][f] = "row"
BY DEF TypeOK, Fetch

LEMMA RememberedStep == TypeOK /\ Remembered /\ [Next]_vars => Remembered'
<1> SUFFICES ASSUME TypeOK, Remembered, [Next]_vars PROVE Remembered'
    OBVIOUS
<1> USE DEF TypeOK
<1>1. ASSUME NEW f \in Files, UploadStep(f) PROVE Remembered'
    <2>1. CASE Put(f)
        BY <2>1 DEF Put, Remembered, NoObjectForgotten, RowDeletedLast
    <2>2. CASE CheckQuota(f) \/ Reserve(f) \/ PresignPut(f)
               \/ ExpireUrl(f) \/ Age(f)
        BY <2>2, RememberedStutter
           DEF CheckQuota, Reserve, PresignPut, ExpireUrl, Age
    <2> QED BY <1>1, <2>1, <2>2 DEF UploadStep
<1>2. ASSUME NEW f \in Files, CommitStep(f) PROVE Remembered'
    BY <1>2, RememberedStutter DEF CommitStep, FindPending, CheckSize, Link
<1>3. ASSUME NEW w \in Reclaimers, NEW f \in Files, ReclaimStep(w, f)
      PROVE  Remembered'
    <2>1. CASE DeleteObject(w, f)
        BY <2>1
           DEF DeleteObject, Remembered, NoObjectForgotten, RowDeletedLast
    <2>2. CASE DeleteRow(w, f)
        BY <2>2 DEF DeleteRow, Remembered, NoObjectForgotten, RowDeletedLast
    <2> QED BY <1>3, <2>1, <2>2 DEF ReclaimStep
<1>4. ASSUME NEW m \in Messages, MessageStep(m) PROVE Remembered'
    <2>1. CASE DeleteByMessage(m)
        BY <2>1, RememberedStutter, FetchRemembers DEF DeleteByMessage
    <2>2. CASE ~DeleteByMessage(m)
        BY <1>4, <2>2, RememberedStutter
           DEF MessageStep, SendMessage, AckMessage, DeleteMessage,
               UnlinkStale, DeleteStale, LoseRow, Become
    <2> QED BY <2>1, <2>2
<1>5. CASE CleanupOrphans
    BY <1>5, RememberedStutter, FetchRemembers DEF CleanupOrphans
<1>6. CASE Crash
    BY <1>6, RememberedStutter DEF Crash
<1>7. CASE UNCHANGED vars
    BY <1>7, RememberedStutter DEF vars
<1> QED BY <1>1, <1>2, <1>3, <1>4, <1>5, <1>6, <1>7 DEF Next

LEMMA RememberedCorrect == Spec => []Remembered
<1>1. Init => Remembered
    BY DEF Init, Remembered, NoObjectForgotten, RowDeletedLast
<1> QED BY <1>1, TypeCorrect, RememberedStep, PTL DEF Spec

(* Wherever the server stops, an object without a row is one that was put  *)
(* after its deletion or that the store refused to delete.                 *)
THEOREM NothingForgotten == Spec => []NoObjectForgotten
<1>1. Remembered => NoObjectForgotten
    BY DEF Remembered
<1> QED BY <1>1, RememberedCorrect, PTL

(* No loop deletes the row of an object that it, or the other loop, still  *)
(* has to delete.                                                          *)
THEOREM RowLast == Spec => []RowDeletedLast
<1>1. Remembered => RowDeletedLast
    BY DEF Remembered
<1> QED BY <1>1, RememberedCorrect, PTL
-----------------------------------------------------------------------------
(* What SUM(size) of the quota's query does to a set of rows.  The library *)
(* has induction over a property only, which is an operator; here the sets *)
(* that have the property are a set themselves.                            *)
LEMMA SubsetInduction ==
    ASSUME NEW S, IsFiniteSet(S), NEW good \in SUBSET SUBSET S,
           \A T \in SUBSET S :
               (\A U \in SUBSET T : U # T => U \in good) => T \in good
    PROVE  good = SUBSET S
<1> SUFFICES ASSUME (SUBSET S) \ good # {} PROVE FALSE
    OBVIOUS
<1>1. IsWellFoundedOn(StrictSubsetOrdering(S), SUBSET S)
    <2>1. FiniteSubsetsOf(S) = SUBSET S
        BY FS_FiniteSubsetsOfFinite
    <2>2. IsWellFoundedOn(StrictSubsetOrdering(S), FiniteSubsetsOf(S))
        BY FS_StrictSubsetOrderingWellFounded
    <2> QED BY <2>1, <2>2
<1> DEFINE bad == (SUBSET S) \ good
<1>2. PICK T \in bad : \A U \in bad : <<U, T>> \notin StrictSubsetOrdering(S)
    <2>1. bad \subseteq SUBSET S /\ bad # {}
        OBVIOUS
    <2> HIDE DEF bad
    <2> QED BY <1>1, <2>1, WFMin
<1>3. \A U \in SUBSET T : U # T => U \in good
    BY <1>2 DEF StrictSubsetOrdering
<1> QED BY <1>2, <1>3

First(S) == CHOOSE f \in S : TRUE

Adds(g, S) ==
    g = [T \in SUBSET S |-> IF T = {} THEN 0
                            ELSE Size[First(T)] + g[T \ {First(T)}]]

LEMMA BytesIsSum == \A S : Bytes(S) = (CHOOSE g : Adds(g, S))[S]
BY DEF Bytes, MapThenSumSet, MapThenFoldSet, Adds, First

LEMMA FirstIn == \A S : S # {} => First(S) \in S
BY DEF First

LEMMA SumsAgree ==
    ASSUME NEW S, NEW T, IsFiniteSet(S), NEW g, NEW h, Adds(g, S), Adds(h, T)
    PROVE  \A U \in SUBSET (S \cap T) : g[U] = h[U]
<1> DEFINE good == {U \in SUBSET (S \cap T) : g[U] = h[U]}
<1>1. IsFiniteSet(S \cap T)
    BY FS_Subset
<1>2. ASSUME NEW U \in SUBSET (S \cap T),
             \A V \in SUBSET U : V # U => V \in good
      PROVE  U \in good
    <2>1. CASE U = {}
        BY <2>1 DEF Adds
    <2>2. CASE U # {}
        <3>1. First(U) \in U
            BY <2>2, FirstIn
        <3>2. g[U \ {First(U)}] = h[U \ {First(U)}]
            BY <1>2, <3>1
        <3>3. g[U] = Size[First(U)] + g[U \ {First(U)}]
            BY <2>2 DEF Adds
        <3>4. h[U] = Size[First(U)] + h[U \ {First(U)}]
            BY <2>2 DEF Adds
        <3> QED BY <3>2, <3>3, <3>4
    <2> QED BY <2>1, <2>2
<1> HIDE DEF good
<1>3. good \in SUBSET SUBSET (S \cap T)
    BY DEF good
<1>4. good = SUBSET (S \cap T)
    BY <1>1, <1>2, <1>3, SubsetInduction
<1> QED BY <1>4 DEF good

LEMMA SumExists ==
    ASSUME NEW S, IsFiniteSet(S)
    PROVE  \E g : Adds(g, S)
<1> DEFINE good == {T \in SUBSET S : \E g : Adds(g, T)}
<1>1. ASSUME NEW T \in SUBSET S,
             \A U \in SUBSET T : U # T => U \in good
      PROVE  T \in good
    <2> DEFINE sum(U) == CHOOSE g : Adds(g, U)
    <2> DEFINE h == [U \in SUBSET T |-> IF U = {} THEN 0
                        ELSE Size[First(U)]
                                 + sum(U \ {First(U)})[U \ {First(U)}]]
    <2>1. \A U \in SUBSET T : U # T => Adds(sum(U), U) /\ IsFiniteSet(U)
        BY <1>1, FS_Subset
    <2>2. ASSUME NEW U \in SUBSET T, U # T
          PROVE  h[U] = sum(U)[U]
        <3>1. CASE U = {}
            <4>1. sum(U)[U] = 0
                <5> HIDE DEF sum
                <5> QED BY <2>1, <2>2, <3>1 DEF Adds
            <4> QED BY <3>1, <4>1
        <3>2. CASE U # {}
            <4> DEFINE V == U \ {First(U)}
            <4>1. V \in SUBSET T /\ V # T /\ V \subseteq U
                BY <3>2, FirstIn
            <4>2. sum(U)[V] = sum(V)[V]
                <5> HIDE DEF sum, V
                <5>1. Adds(sum(U), U) /\ Adds(sum(V), V) /\ IsFiniteSet(U)
                    BY <2>1, <2>2, <4>1
                <5>2. V \in SUBSET (U \cap V)
                    BY <4>1
                <5> QED BY <5>1, <5>2, SumsAgree
            <4>3. sum(U)[U] = Size[First(U)] + sum(U)[V]
                <5> HIDE DEF sum
                <5>1. Adds(sum(U), U)
                    BY <2>1, <2>2
                <5> QED BY <5>1, <3>2 DEF Adds
            <4>4. h[U] = Size[First(U)] + sum(V)[V]
                BY <3>2
            <4> QED BY <4>2, <4>3, <4>4
        <3> QED BY <3>1, <3>2
    <2>3. h = [U \in SUBSET T |-> IF U = {} THEN 0
                  ELSE Size[First(U)] + h[U \ {First(U)}]]
        <3>1. \A U \in SUBSET T : U # {} =>
                  /\ U \ {First(U)} \in SUBSET T
                  /\ U \ {First(U)} # T
            BY FirstIn
        <3>2. \A U \in SUBSET T : U # {} =>
                  sum(U \ {First(U)})[U \ {First(U)}] = h[U \ {First(U)}]
            <4> HIDE DEF h, sum
            <4> QED BY <2>2, <3>1
        <3> HIDE DEF sum
        <3>3. \A U \in SUBSET T : h[U] = IF U = {} THEN 0
                  ELSE Size[First(U)] + h[U \ {First(U)}]
            <4>1. \A U \in SUBSET T : h[U] = IF U = {} THEN 0
                  ELSE Size[First(U)] + sum(U \ {First(U)})[U \ {First(U)}]
                  OBVIOUS
            <4> HIDE DEF h
            <4> QED BY <3>2, <4>1
        <3>4. h = [U \in SUBSET T |-> h[U]]
            OBVIOUS
        <3> HIDE DEF h
        <3> QED BY <3>3, <3>4
    <2> HIDE DEF h
    <2> QED BY <2>3 DEF Adds
<1> HIDE DEF good
<1>2. good \in SUBSET SUBSET S
    BY DEF good
<1>3. good = SUBSET S
    BY <1>1, <1>2, SubsetInduction
<1> QED BY <1>3 DEF good

(* The equation of the fold *)
LEMMA BytesStep ==
    ASSUME NEW S, IsFiniteSet(S)
    PROVE  Bytes(S) = IF S = {} THEN 0
                      ELSE Size[First(S)] + Bytes(S \ {First(S)})
<1> DEFINE sum(T) == CHOOSE g : Adds(g, T)
<1> DEFINE U == S \ {First(S)}
<1>1. Adds(sum(S), S) /\ Adds(sum(U), U)
    BY SumExists, FS_Subset
<1>2. Bytes(S) = sum(S)[S] /\ Bytes(U) = sum(U)[U]
    BY BytesIsSum
<1> HIDE DEF sum, U
<1>3. sum(S)[U] = sum(U)[U]
    <2>1. U \in SUBSET (S \cap U)
        BY DEF U
    <2> QED BY <1>1, <2>1, SumsAgree
<1>4. sum(S)[S] = IF S = {} THEN 0 ELSE Size[First(S)] + sum(S)[U]
    BY <1>1 DEF Adds, U
<1> QED BY <1>2, <1>3, <1>4 DEF U

LEMMA BytesType ==
    ASSUME NEW S \in SUBSET Files, IsFiniteSet(S)
    PROVE  Bytes(S) \in Nat
<1> DEFINE good == {T \in SUBSET S : Bytes(T) \in Nat}
<1>1. ASSUME NEW T \in SUBSET S,
             \A U \in SUBSET T : U # T => U \in good
      PROVE  T \in good
    <2>1. IsFiniteSet(T)
        BY FS_Subset
    <2>2. CASE T = {}
        <3>1. Bytes(T) = 0
            BY <2>1, <2>2, BytesStep
        <3> QED BY <3>1
    <2>3. CASE T # {}
        <3>1. First(T) \in T
            BY <2>3, FirstIn
        <3>2. Bytes(T \ {First(T)}) \in Nat
            BY <1>1, <3>1
        <3>3. Size[First(T)] \in Nat
            BY <3>1, SizeType
        <3> QED BY <2>1, <2>3, <3>2, <3>3, BytesStep
    <2> QED BY <2>2, <2>3
<1> HIDE DEF good
<1>2. good \in SUBSET SUBSET S
    BY DEF good
<1>3. good = SUBSET S
    BY <1>1, <1>2, SubsetInduction
<1> QED BY <1>3 DEF good

LEMMA BytesRemove ==
    ASSUME NEW S \in SUBSET Files, IsFiniteSet(S)
    PROVE  \A f \in S : Bytes(S) = Bytes(S \ {f}) + Size[f]
<1> DEFINE Removes(T) == \A f \in T : Bytes(T) = Bytes(T \ {f}) + Size[f]
<1> DEFINE good == {T \in SUBSET S : Removes(T)}
<1>1. ASSUME NEW T \in SUBSET S,
             \A U \in SUBSET T : U # T => U \in good
      PROVE  T \in good
    <2>1. SUFFICES ASSUME NEW f \in T
                   PROVE  Bytes(T) = Bytes(T \ {f}) + Size[f]
        OBVIOUS
    <2> DEFINE g == First(T)
    <2>2. /\ IsFiniteSet(T) /\ IsFiniteSet(T \ {f})
          /\ IsFiniteSet(T \ {g}) /\ IsFiniteSet((T \ {f}) \ {g})
        BY FS_Subset
    <2>3. g \in T
        BY FirstIn
    <2>4. Bytes(T) = Size[g] + Bytes(T \ {g})
        BY <2>2, BytesStep
    <2>5. /\ Size[f] \in Nat /\ Size[g] \in Nat
          /\ Bytes(T \ {g}) \in Nat
          /\ Bytes((T \ {f}) \ {g}) \in Nat
        BY <2>2, <2>3, BytesType, SizeType
    <2>6. CASE f = g
        BY <2>4, <2>5, <2>6
    <2>7. CASE f # g
        <3>1. Removes(T \ {g}) /\ Removes(T \ {f})
            BY <1>1, <2>3
        <3>2. Bytes(T \ {g}) = Bytes((T \ {g}) \ {f}) + Size[f]
            BY <2>7, <3>1
        <3>3. Bytes(T \ {f}) = Bytes((T \ {f}) \ {g}) + Size[g]
            BY <2>3, <2>7, <3>1
        <3>4. (T \ {g}) \ {f} = (T \ {f}) \ {g}
            OBVIOUS
        <3>5. Bytes(T) = Size[g] + (Bytes((T \ {f}) \ {g}) + Size[f])
            BY <2>4, <3>2, <3>4
        <3>6. Bytes(T \ {f}) + Size[f]
                  = (Bytes((T \ {f}) \ {g}) + Size[g]) + Size[f]
            BY <3>3
        <3> HIDE DEF g
        <3> QED BY <2>5, <3>5, <3>6
    <2> QED BY <2>6, <2>7
<1> HIDE DEF good
<1>2. good \in SUBSET SUBSET S
    BY DEF good
<1>3. good = SUBSET S
    BY <1>1, <1>2, SubsetInduction
<1> QED BY <1>3 DEF good

LEMMA BytesMonotone ==
    ASSUME NEW S \in SUBSET Files, IsFiniteSet(S), NEW T \in SUBSET S
    PROVE  Bytes(T) <= Bytes(S)
<1> DEFINE good == {U \in SUBSET S : T \subseteq U => Bytes(T) <= Bytes(U)}
<1>1. ASSUME NEW U \in SUBSET S,
             \A V \in SUBSET U : V # U => V \in good
      PROVE  U \in good
    <2>1. IsFiniteSet(U) /\ IsFiniteSet(T)
        BY FS_Subset
    <2>2. CASE U = T
        <3>1. Bytes(T) \in Nat
            BY <2>1, BytesType
        <3> QED BY <2>2, <3>1
    <2>3. CASE T \subseteq U /\ U # T
        <3>1. PICK f \in U \ T : TRUE
            BY <2>3
        <3>2. Bytes(T) <= Bytes(U \ {f})
            BY <1>1, <2>3, <3>1
        <3>3. Bytes(U) = Bytes(U \ {f}) + Size[f]
            BY <2>1, <3>1, BytesRemove
        <3>4. /\ Bytes(T) \in Nat /\ Bytes(U \ {f}) \in Nat
              /\ Size[f] \in Nat
            BY <2>1, <3>1, BytesType, SizeType, FS_Subset
        <3> QED BY <3>2, <3>3, <3>4
    <2> QED BY <2>2, <2>3
<1> HIDE DEF good
<1>2. good \in SUBSET SUBSET S
    BY DEF good
<1>3. good = SUBSET S
    BY <1>1, <1>2, SubsetInduction
<1> QED BY <1>3 DEF good

-----------------------------------------------------------------------------
(* A request that has passed its check, and that no other one has outdated *)
(* since, still finds room for its bytes; only finitely many rows exist.   *)
Stored == {f \in Files : row[f] # "none"}

Booked == Counted \ overbooked

RoomInv ==
    /\ IsFiniteSet(Stored)
    /\ QuotaHolds
    /\ \A f \in Files : request[f] = "insert" /\ f \notin overbooked =>
           Bytes(Booked) + Size[f] <= Quota

LEMMA RoomType ==
    ASSUME IsFiniteSet(Stored)
    PROVE  /\ Booked \in SUBSET Files /\ IsFiniteSet(Booked)
           /\ Bytes(Booked) \in Nat
<1>1. Booked \subseteq Stored /\ Booked \subseteq Files
    BY DEF Booked, Counted, Stored
<1>2. IsFiniteSet(Booked)
    BY <1>1, FS_Subset
<1> QED BY <1>1, <1>2, BytesType

(* Fewer rows, fewer requests, or more of them outdated: there is room.    *)
LEMMA RoomStutter ==
    ASSUME RoomInv, Stored' \subseteq Stored, Booked' \subseteq Booked,
           \A f \in Files : request'[f] = "insert" /\ f \notin overbooked' =>
               request[f] = "insert" /\ f \notin overbooked
    PROVE  RoomInv'
<1>1. IsFiniteSet(Stored')
    BY FS_Subset DEF RoomInv
<1>2. Bytes(Booked') <= Bytes(Booked)
    BY RoomType, BytesMonotone DEF RoomInv
<1>3. /\ Bytes(Booked) \in Nat
      /\ Bytes(Booked') \in Nat
    BY <1>1, RoomType, BytesType, FS_Subset DEF RoomInv
<1>4. Bytes(Booked)' = Bytes(Booked')
    BY DEF Bytes, MapThenSumSet, MapThenFoldSet
<1> QED BY <1>1, <1>2, <1>3, <1>4, QuotaType, SizeType
        DEF RoomInv, QuotaHolds, Booked

LEMMA CheckKeepsRoom ==
    ASSUME TypeOK, RoomInv, NEW f \in Files, CheckQuota(f)
    PROVE  RoomInv'
<1>1. Booked' = Booked /\ Stored' = Stored /\ overbooked' = overbooked
    BY DEF CheckQuota, Booked, Counted, Stored
<1>2. CASE request'[f] = "insert"
    <2>1. IsFiniteSet(Counted) /\ Counted \in SUBSET Files
        <3>1. Counted \subseteq Stored
            BY DEF Counted, Stored
        <3> QED BY <3>1, FS_Subset DEF RoomInv, Stored
    <2>2. Bytes(Booked) <= Bytes(Counted)
        BY <2>1, BytesMonotone DEF Booked
    <2>3. Bytes(Booked) \in Nat /\ Bytes(Counted) \in Nat
        BY <2>1, RoomType, BytesType DEF RoomInv
    <2>4. ~(Bytes(Counted) + Size[f] > Quota)
        BY <1>2 DEF CheckQuota, TypeOK, usedBytes
    <2>5. Bytes(Booked) + Size[f] <= Quota
        BY <2>2, <2>3, <2>4, SizeType, QuotaType
    <2>6. \A g \in Files \ {f} : request'[g] = request[g]
        BY DEF CheckQuota, TypeOK
    <2>7. Bytes(Booked)' = Bytes(Booked)
        BY <1>1 DEF Bytes, MapThenSumSet, MapThenFoldSet
    <2> QED BY <1>1, <2>5, <2>6, <2>7 DEF RoomInv, QuotaHolds, Booked
<1>3. CASE request'[f] # "insert"
    BY <1>1, <1>3, RoomStutter DEF CheckQuota, TypeOK
<1> QED BY <1>2, <1>3

(* The row takes the room its check has found, and every other request     *)
(* that has been checked is outdated.                                      *)
LEMMA ReserveKeepsRoom ==
    ASSUME TypeOK, RoomInv, NEW f \in Files, Reserve(f), row' # row
    PROVE  RoomInv'
<1>1. /\ request[f] = "insert"
      /\ row' = [row EXCEPT ![f] = "pending"]
      /\ overbooked' = overbooked \cup Outdated(f)
      /\ old' = old
      /\ \A g \in Files : request'[g] = "insert" => g \in overbooked'
    BY DEF Reserve, Outdated, TypeOK
<1>2. Stored' = Stored \cup {f}
    BY <1>1 DEF Stored, TypeOK
<1>3. IsFiniteSet(Stored')
    BY <1>2, FS_AddElement DEF RoomInv
<1>4. Booked' \subseteq Booked \cup {f}
    BY <1>1 DEF Booked, Counted, TypeOK
<1>5. /\ Booked \in SUBSET Files /\ IsFiniteSet(Booked)
      /\ Bytes(Booked) \in Nat
    BY RoomType DEF RoomInv
<1>6. Bytes(Booked') <= Quota
    <2>1. CASE f \in overbooked
        <3>1. Booked' \subseteq Booked
            BY <1>1, <1>4, <2>1 DEF Booked
        <3>2. Bytes(Booked') <= Bytes(Booked)
            BY <1>5, <3>1, BytesMonotone
        <3>3. Bytes(Booked') \in Nat
            BY <1>5, <3>1, BytesType, FS_Subset
        <3> QED BY <1>5, <3>2, <3>3, QuotaType DEF RoomInv, QuotaHolds, Booked
    <2>2. CASE f \notin overbooked
        <3> DEFINE more == Booked \cup {f}
        <3>1. more \in SUBSET Files /\ IsFiniteSet(more)
            BY <1>5, FS_AddElement
        <3>2. Bytes(Booked') <= Bytes(more)
            BY <1>4, <3>1, BytesMonotone
        <3>3. Bytes(more) = Bytes(more \ {f}) + Size[f]
            BY <3>1, BytesRemove
        <3>4. Bytes(more \ {f}) <= Bytes(Booked)
            BY <1>5, BytesMonotone
        <3>5. /\ Bytes(Booked') \in Nat /\ Bytes(more) \in Nat
              /\ Bytes(more \ {f}) \in Nat
            BY <1>4, <3>1, BytesType, FS_Subset
        <3>6. Bytes(Booked) + Size[f] <= Quota
            BY <1>1, <2>2 DEF RoomInv
        <3> HIDE DEF more
        <3> QED BY <1>5, <3>2, <3>3, <3>4, <3>5, <3>6, SizeType, QuotaType
    <2> QED BY <2>1, <2>2
<1>7. QuotaHolds'
    BY <1>6 DEF QuotaHolds, Booked, Bytes, MapThenSumSet, MapThenFoldSet
<1> QED BY <1>1, <1>3, <1>7 DEF RoomInv

(* Bytes that no check has seen are left out of what is booked.            *)
LEMMA LinkKeepsRoom ==
    ASSUME TypeOK, RoomInv, NEW f \in Files, Link(f)
    PROVE  RoomInv'
<1>1. CASE UNCHANGED <<row, overbooked>>
    BY <1>1, RoomStutter DEF Link, Stored, Booked, Counted
<1>2. CASE ~UNCHANGED <<row, overbooked>>
    <2>1. Stored' \subseteq Stored
        BY <1>2 DEF Link, Stored, TypeOK
    <2>2. Booked' \subseteq Booked
        BY <1>2 DEF Link, Booked, Counted, TypeOK
    <2>3. request' = request /\ overbooked \subseteq overbooked'
        BY <1>2 DEF Link
    <2> QED BY <2>1, <2>2, <2>3, RoomStutter
<1> QED BY <1>1, <1>2

LEMMA RoomStep == TypeOK /\ RoomInv /\ [Next]_vars => RoomInv'
<1> SUFFICES ASSUME TypeOK, RoomInv, [Next]_vars PROVE RoomInv'
    OBVIOUS
<1> USE DEF Stored, Booked, Counted
<1>1. ASSUME NEW f \in Files, UploadStep(f) PROVE RoomInv'
    <2>1. CASE CheckQuota(f)
        BY <2>1, CheckKeepsRoom
    <2>2. CASE Reserve(f)
        <3>1. CASE row' = row
            BY <2>2, <3>1, RoomStutter DEF Reserve, Outdated, TypeOK
        <3>2. CASE row' # row
            BY <2>2, <3>2, ReserveKeepsRoom
        <3> QED BY <3>1, <3>2
    <2>3. CASE PresignPut(f)
        BY <2>3, RoomStutter DEF PresignPut, TypeOK
    <2>4. CASE Put(f) \/ ExpireUrl(f) \/ Age(f)
        BY <2>4, RoomStutter DEF Put, ExpireUrl, Age
    <2> QED BY <1>1, <2>1, <2>2, <2>3, <2>4 DEF UploadStep
<1>2. ASSUME NEW f \in Files, CommitStep(f) PROVE RoomInv'
    <2>1. CASE FindPending(f) \/ CheckSize(f)
        BY <2>1, RoomStutter DEF FindPending, CheckSize
    <2>2. CASE Link(f)
        BY <2>2, LinkKeepsRoom
    <2> QED BY <1>2, <2>1, <2>2 DEF CommitStep
<1>3. ASSUME NEW w \in Reclaimers, NEW f \in Files, ReclaimStep(w, f)
      PROVE  RoomInv'
    BY <1>3, RoomStutter DEF ReclaimStep, DeleteObject, DeleteRow, TypeOK
<1>4. ASSUME NEW m \in Messages, MessageStep(m) PROVE RoomInv'
    BY <1>4, RoomStutter
       DEF MessageStep, SendMessage, AckMessage, DeleteMessage,
           DeleteByMessage, UnlinkStale, DeleteStale, LoseRow, Become
<1>5. CASE CleanupOrphans
    BY <1>5, RoomStutter DEF CleanupOrphans
<1>6. CASE Crash
    BY <1>6, RoomStutter DEF Crash
<1>7. CASE UNCHANGED vars
    BY <1>7, RoomStutter DEF vars
<1> QED BY <1>1, <1>2, <1>3, <1>4, <1>5, <1>6, <1>7 DEF Next

(* Whatever requests, commits, sweeps and restarts do, the bytes that some *)
(* check of the quota has seen are within it, for files of any size.       *)
THEOREM QuotaCorrect == Spec => []QuotaHolds
<1>1. Init => RoomInv
    <2> SUFFICES ASSUME Init PROVE RoomInv
        OBVIOUS
    <2>1. Stored = {} /\ Counted = {} /\ Counted \ overbooked = {}
        BY DEF Init, Stored, Counted
    <2>2. IsFiniteSet({}) /\ Bytes({}) = 0
        BY FS_EmptySet, BytesStep
    <2>3. \A f \in Files : request[f] # "insert"
        BY DEF Init
    <2> QED BY <2>1, <2>2, <2>3, QuotaType DEF RoomInv, QuotaHolds
<1>2. RoomInv => QuotaHolds
    BY DEF RoomInv
<1> QED BY <1>1, <1>2, TypeCorrect, RoomStep, PTL DEF Spec

-----------------------------------------------------------------------------
(* Who may take the object of a linked file away: message:delete, and a    *)
(* sweep that deleted it, or had the file in hand, since Commit saw it.    *)
(* What that rests on, in the order of a file's life: its row is written   *)
(* once, it is linked only when it is committed and only by its Commit,    *)
(* and an object whose size Commit has seen stays until Commit updates the *)
(* row, unless one of those two takes it.                                  *)
WrittenOnce ==
    \A f \in Files : /\ request[f] \in {"idle", "insert"} => row[f] = "none"
                     /\ request[f] = "granted" \/ commit[f] = "idle"

Handed ==
    /\ \A m \in purge : Dismissed(m)
    /\ \A f \in Files : reclaim["delete"][f] # "no" => Dismissed(Message[f])
    /\ \A f \in linked : row[f] = "committed" /\ commit[f] = "idle"
    /\ \A f \in linked \ swept : reclaim["sweep"][f] = "no"

SeenStays ==
    \A f \in Files : commit[f] = "update" =>
        f \in object \cup swept \/ row[f] = "none" \/ Dismissed(Message[f])

LEMMA WrittenStep == TypeOK /\ WrittenOnce /\ [Next]_vars => WrittenOnce'
<1> SUFFICES ASSUME TypeOK, WrittenOnce, [Next]_vars PROVE WrittenOnce'
    OBVIOUS
<1> USE DEF TypeOK, WrittenOnce
<1>1. ASSUME NEW f \in Files, UploadStep(f) PROVE WrittenOnce'
    BY <1>1 DEF UploadStep, CheckQuota, Reserve, PresignPut, Put, ExpireUrl,
                Age
<1>2. ASSUME NEW f \in Files, CommitStep(f) PROVE WrittenOnce'
    BY <1>2 DEF CommitStep, FindPending, CheckSize, Link
<1>3. ASSUME NEW w \in Reclaimers, NEW f \in Files, ReclaimStep(w, f)
      PROVE  WrittenOnce'
    BY <1>3 DEF ReclaimStep, DeleteObject, DeleteRow
<1>4. CASE UNCHANGED <<request, commit, row>>
    BY <1>4
<1>5. CASE Crash
    BY <1>5 DEF Crash
<1> QED BY <1>1, <1>2, <1>3, <1>4, <1>5
        DEF Next, MessageStep, SendMessage, AckMessage, DeleteMessage,
            DeleteByMessage, UnlinkStale, DeleteStale, LoseRow, Become,
            CleanupOrphans, vars

(* A message that its sender has deleted stays so.                         *)
LEMMA DeletedStays ==
    ASSUME TypeOK, [Next]_vars, NEW m \in Messages, Dismissed(m)
    PROVE  Dismissed(m)'
<1> USE DEF Dismissed
<1>1. ASSUME NEW n \in Messages, MessageStep(n) PROVE Dismissed(m)'
    BY <1>1 DEF MessageStep, SendMessage, AckMessage, DeleteMessage,
                DeleteByMessage, UnlinkStale, DeleteStale, LoseRow, Become,
                TypeOK
<1>2. CASE mail' = mail
    BY <1>2
<1> QED BY <1>1, <1>2
        DEF Next, UploadStep, CheckQuota, Reserve, PresignPut, Put, ExpireUrl,
            Age, CommitStep, FindPending, CheckSize, Link, ReclaimStep,
            DeleteObject, DeleteRow, CleanupOrphans, Crash, vars

LEMMA HandedStep ==
    TypeOK /\ WrittenOnce /\ Handed /\ [Next]_vars => Handed'
<1> SUFFICES ASSUME TypeOK, WrittenOnce, Handed, [Next]_vars PROVE Handed'
    OBVIOUS
<1> USE MessageType, DeletedStays DEF TypeOK, Handed
<1>1. ASSUME NEW f \in Files, UploadStep(f) PROVE Handed'
    BY <1>1 DEF UploadStep, CheckQuota, Reserve, PresignPut, Put, ExpireUrl,
                Age, WrittenOnce
<1>2. ASSUME NEW f \in Files, CommitStep(f) PROVE Handed'
    BY <1>2 DEF CommitStep, FindPending, CheckSize, Link
<1>3. ASSUME NEW w \in Reclaimers, NEW f \in Files, ReclaimStep(w, f)
      PROVE  Handed'
    BY <1>3 DEF ReclaimStep, DeleteObject, DeleteRow
<1>4. ASSUME NEW m \in Messages, MessageStep(m) PROVE Handed'
    <2>1. CASE SendMessage(m) \/ AckMessage(m) \/ DeleteMessage(m)
               \/ DeleteStale(m)
        BY <2>1 DEF SendMessage, AckMessage, DeleteMessage, DeleteStale,
                    LoseRow, Become, Dismissed
    <2>2. CASE DeleteByMessage(m)
        BY <2>2 DEF DeleteByMessage, Fetch
    <2>3. CASE UnlinkStale(m)
        BY <2>3 DEF UnlinkStale
    <2> QED BY <1>4, <2>1, <2>2, <2>3 DEF MessageStep
<1>5. CASE CleanupOrphans
    BY <1>5 DEF CleanupOrphans, Fetch, Orphans
<1>6. CASE Crash
    BY <1>6 DEF Crash
<1>7. CASE UNCHANGED vars
    BY <1>7 DEF vars
<1> QED BY <1>1, <1>2, <1>3, <1>4, <1>5, <1>6, <1>7 DEF Next

LEMMA SeenStep ==
    TypeOK /\ WrittenOnce /\ Handed /\ SeenStays /\ [Next]_vars => SeenStays'
<1> SUFFICES ASSUME TypeOK, WrittenOnce, Handed, SeenStays, [Next]_vars
             PROVE  SeenStays'
    OBVIOUS
<1> USE MessageType, DeletedStays DEF TypeOK, SeenStays
<1>1. ASSUME NEW f \in Files, UploadStep(f) PROVE SeenStays'
    BY <1>1 DEF UploadStep, CheckQuota, Reserve, PresignPut, Put, ExpireUrl,
                Age, WrittenOnce
<1>2. ASSUME NEW f \in Files, CommitStep(f) PROVE SeenStays'
    BY <1>2 DEF CommitStep, FindPending, CheckSize, Link
<1>3. ASSUME NEW w \in Reclaimers, NEW f \in Files, ReclaimStep(w, f)
      PROVE  SeenStays'
    BY <1>3 DEF ReclaimStep, DeleteObject, DeleteRow, Handed
<1>4. ASSUME NEW m \in Messages, MessageStep(m) PROVE SeenStays'
    <2>1. UNCHANGED <<commit, object, row, swept>>
        BY <1>4 DEF MessageStep, SendMessage, AckMessage, DeleteMessage,
                    DeleteByMessage, UnlinkStale, DeleteStale, LoseRow,
                    Become, Fetch
    <2> QED BY <2>1
<1>5. CASE CleanupOrphans
    BY <1>5 DEF CleanupOrphans, Fetch, Orphans
<1>6. CASE Crash
    BY <1>6 DEF Crash
<1>7. CASE UNCHANGED vars
    BY <1>7 DEF vars
<1> QED BY <1>1, <1>2, <1>3, <1>4, <1>5, <1>6, <1>7 DEF Next

LEMMA LostStep ==
    /\ TypeOK /\ WrittenOnce /\ Handed /\ SeenStays /\ LostToSweepOnly
    /\ [Next]_vars
    => LostToSweepOnly'
<1> SUFFICES ASSUME TypeOK, WrittenOnce, Handed, SeenStays, LostToSweepOnly,
                    [Next]_vars
             PROVE  LostToSweepOnly'
    OBVIOUS
<1> USE MessageType, DeletedStays DEF TypeOK, LostToSweepOnly
<1>1. ASSUME NEW f \in Files, CommitStep(f) PROVE LostToSweepOnly'
    BY <1>1 DEF CommitStep, FindPending, CheckSize, Link, SeenStays
<1>2. ASSUME NEW w \in Reclaimers, NEW f \in Files, ReclaimStep(w, f)
      PROVE  LostToSweepOnly'
    BY <1>2 DEF ReclaimStep, DeleteObject, DeleteRow, Handed
<1>3. CASE /\ linked' \subseteq linked /\ object \subseteq object'
           /\ swept' = swept
    BY <1>3
<1>4. ASSUME NEW f \in Files, UploadStep(f) PROVE LostToSweepOnly'
    <2>1. linked' = linked /\ object \subseteq object' /\ swept' = swept
        BY <1>4 DEF UploadStep, CheckQuota, Reserve, PresignPut, Put,
                    ExpireUrl, Age
    <2> QED BY <2>1, <1>3
<1>5. ASSUME NEW m \in Messages, MessageStep(m) PROVE LostToSweepOnly'
    <2>1. linked' \subseteq linked /\ object' = object /\ swept' = swept
        BY <1>5 DEF MessageStep, SendMessage, AckMessage, DeleteMessage,
                    DeleteByMessage, UnlinkStale, DeleteStale, LoseRow,
                    Become
    <2> QED BY <2>1, <1>3
<1>6. CASE CleanupOrphans \/ Crash \/ UNCHANGED vars
    <2>1. linked' = linked /\ object' = object /\ swept' = swept
        BY <1>6 DEF CleanupOrphans, Crash, vars
    <2> QED BY <2>1, <1>3
<1> QED BY <1>1, <1>2, <1>4, <1>5, <1>6 DEF Next

(* A file that a message links to is there, unless its sender deleted the  *)
(* message or the sweep took its object after Commit had seen it, or had   *)
(* it in hand when it was linked: whichever queries fail, no other race    *)
(* leaves a recipient without the file.                                    *)
THEOREM LostCorrect == Spec => []LostToSweepOnly
<1>1. Init => WrittenOnce /\ Handed /\ SeenStays /\ LostToSweepOnly
    BY DEF Init, WrittenOnce, Handed, SeenStays, LostToSweepOnly
<1> QED BY <1>1, TypeCorrect, WrittenStep, HandedStep, SeenStep, LostStep,
           PTL DEF Spec
=============================================================================
