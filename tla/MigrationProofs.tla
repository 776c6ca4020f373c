-------------------------- MODULE MigrationProofs --------------------------
(***************************************************************************)
(* The start-up of Migration, for any users, codes and number of stops.    *)
(***************************************************************************)
EXTENDS Migration, TLAPS

USE DEF Columns, Statements

LEMMA LegacyType ==
    ASSUME NEW there \in BOOLEAN, NEW columns \in SUBSET Columns,
           NEW notNull \in BOOLEAN, NEW ids \in SUBSET Users
    PROVE  Legacy(there, columns, notNull, ids) \in Database
BY UsesType DEF Legacy, Database

(* A statement that leads to a database leads to one on disk.              *)
LEMMA ExecuteType ==
    ASSUME TypeOK, NEW new \in Database,
           NEW next \in Statements \cup {"stopped", "serving"},
           Execute(new, next), tx' \in BOOLEAN,
           copy' \subseteq Users, missing' \subseteq Users
    PROVE  TypeOK'
BY DEF TypeOK, Execute

LEMMA QueryType ==
    ASSUME TypeOK, NEW next \in Statements \cup {"stopped", "serving"},
           Query(next), tx' \in BOOLEAN,
           copy' \subseteq Users, missing' \subseteq Users
    PROVE  TypeOK'
BY DEF TypeOK, Query

LEMMA TypeStep == TypeOK /\ [Next]_vars => TypeOK'
<1> SUFFICES ASSUME TypeOK, [Next]_vars PROVE TypeOK'
    OBVIOUS
<1>1. CASE Start \/ CheckUsername
    BY <1>1, QueryType DEF Start, CheckUsername, TypeOK
<1>2. CASE CreateTables
    <2>1. [db EXCEPT !.table = TRUE, !.columns = Columns,
                     !.usernameNotNull = FALSE] \in Database
        BY DEF TypeOK, Database
    <2> QED BY <1>2, <2>1, ExecuteType DEF CreateTables, TypeOK
<1>3. CASE AddChatKey
    <2>1. [db EXCEPT !.columns = @ \cup {"chat_public_key"}] \in Database
        BY DEF TypeOK, Database
    <2> QED BY <1>3, <2>1, ExecuteType DEF AddChatKey, TypeOK
<1>4. CASE Begin \/ Copy
    <2>1. db.ids \subseteq Users
        BY DEF TypeOK, Database
    <2> QED BY <1>4, <2>1, QueryType DEF Begin, Copy, TypeOK
<1>5. CASE DropUsers
    <2>1. [db EXCEPT !.table = FALSE, !.ids = {}, !.indexed = FALSE]
              \in Database
        BY DEF TypeOK, Database
    <2> QED BY <1>5, <2>1, ExecuteType DEF DropUsers, TypeOK
<1>6. CASE Rename
    <2>1. Legacy(TRUE, {"chat_public_key"}, FALSE, copy) \in Database
        BY LegacyType DEF TypeOK
    <2> QED BY <1>6, <2>1, ExecuteType DEF Rename, TypeOK
<1>7. CASE Commit
    BY <1>7 DEF Commit, TypeOK
<1>8. CASE AddInvitation
    <2>1. [db EXCEPT !.columns = @ \cup {"invitation_code"}] \in Database
        BY DEF TypeOK, Database
    <2> QED BY <1>8, <2>1, ExecuteType DEF AddInvitation, TypeOK
<1>9. CASE AddUsages
    <2> DEFINE given == [u \in Users |-> IF u \in db.ids THEN Uses ELSE 0]
    <2>1. given \in [Users -> 0..Uses]
        BY UsesType
    <2> HIDE DEF given
    <2>2. [db EXCEPT !.columns = @ \cup {"invitation_code_usages"},
                     !.left = given] \in Database
        BY <2>1 DEF TypeOK, Database
    <2> QED BY <1>9, <2>2, ExecuteType DEF AddUsages, TypeOK, given
<1>10. CASE SelectMissing \/ EndBackfill
    <2>1. db.ids \subseteq Users
        BY DEF TypeOK, Database
    <2> QED BY <1>10, <2>1, QueryType DEF SelectMissing, EndBackfill, TypeOK
<1>11. ASSUME NEW u \in Users, NEW c \in Codes, Backfill(u, c) PROVE TypeOK'
    <2> DEFINE code == [db.code EXCEPT ![u] = c]
               left == [db.left EXCEPT ![u] = Uses]
    <2>1. /\ code \in [Users -> Codes \cup {NoCode}]
          /\ left \in [Users -> 0..Uses]
        BY UsesType DEF TypeOK, Database
    <2>2. Execute([db EXCEPT !.code = code, !.left = left], "backfill")
        BY <1>11 DEF Backfill
    <2> HIDE DEF code, left
    <2>3. [db EXCEPT !.code = code, !.left = left] \in Database
        BY <2>1 DEF TypeOK, Database
    <2> QED BY <1>11, <2>2, <2>3, ExecuteType DEF Backfill, TypeOK
<1>12. CASE CreateIndexes
    <2>1. [db EXCEPT !.indexed = TRUE] \in Database
        BY DEF TypeOK, Database
    <2>2. CASE Execute([db EXCEPT !.indexed = TRUE], "serving")
        BY <1>12, <2>1, <2>2, ExecuteType DEF CreateIndexes, TypeOK
    <2>3. CASE /\ ignored' = TRUE /\ pc' = "serving"
               /\ UNCHANGED <<db, disk, stops>>
        BY <1>12, <2>3 DEF CreateIndexes, TypeOK
    <2> QED BY <1>12, <2>2, <2>3 DEF CreateIndexes
<1>13. ASSUME NEW u \in Users, NEW inviter \in Users, NEW c \in Codes,
              Register(u, inviter, c)
       PROVE  TypeOK'
    <2> DEFINE ids == db.ids \cup {u}
               code == [db.code EXCEPT ![u] = c]
               left == [db.left EXCEPT ![inviter] = @ - 1, ![u] = Uses]
    <2>1. db.left \in [Users -> 0..Uses] /\ db.left[inviter] > 0
        BY <1>13 DEF Register, TypeOK, Database
    <2>2. /\ ids \subseteq Users
          /\ code \in [Users -> Codes \cup {NoCode}]
          /\ left \in [Users -> 0..Uses]
        BY <2>1, UsesType DEF TypeOK, Database
    <2>3. Execute([db EXCEPT !.ids = ids, !.code = code, !.left = left],
                  "serving")
        BY <1>13 DEF Register
    <2> HIDE DEF ids, code, left
    <2>4. [db EXCEPT !.ids = ids, !.code = code, !.left = left] \in Database
        BY <2>2 DEF TypeOK, Database
    <2> QED BY <1>13, <2>3, <2>4, ExecuteType DEF Register, TypeOK
<1>14. CASE Stop
    <2>1. stops + 1 \in 0..MaxStops
        BY <1>14, StopBound DEF Stop, TypeOK
    <2> QED BY <1>14, <2>1 DEF Stop, TypeOK
<1>15. CASE UNCHANGED vars
    BY <1>15 DEF vars, TypeOK
<1> QED BY <1>1, <1>2, <1>3, <1>4, <1>5, <1>6, <1>7, <1>8, <1>9, <1>10,
           <1>11, <1>12, <1>13, <1>14, <1>15
        DEF Next, StartUp, Rebuild, Invitations, Serve

(* Every reachable state is a state of the declared types.                 *)
THEOREM TypeCorrect == Spec => []TypeOK
<1>1. ASSUME Init PROVE TypeOK
    <2>1. db \in Database
        BY <1>1, LegacyType DEF Init
    <2>2. stops \in 0..MaxStops
        BY <1>1, StopBound DEF Init
    <2> QED BY <1>1, <2>1, <2>2 DEF Init, TypeOK
<1> QED BY <1>1, TypeStep, PTL DEF Spec

-----------------------------------------------------------------------------
(* A table without today's shape has given out no codes yet.               *)
OldHasNoCodes(d) ==
    d.usernameNotNull \/ "invitation_code_usages" \notin d.columns =>
        \A u \in d.ids : d.code[u] = NoCode

CodesDiffer(d) ==
    \A u, v \in d.ids :
        u # v /\ d.code[u] # NoCode => d.code[u] # d.code[v]

InTransaction == {"copy", "drop", "rename", "commit"}
Rebuilt == {"invitation", "usages", "select", "backfill", "indexes",
            "serving"}

(* Until the commit, a restart finds the table that is being rebuilt, and  *)
(* its rows are in users_new when the table itself has lost them.          *)
RebuildInv ==
    /\ tx <=> pc \in InTransaction
    /\ ~tx => disk = db
    /\ tx => disk.usernameNotNull
    /\ pc = "begin" => db.usernameNotNull
    /\ pc = "copy" => db = disk
    /\ pc \in {"drop", "rename"} => copy = disk.ids
    /\ pc = "commit" => db = Legacy(TRUE, {"chat_public_key"}, FALSE, disk.ids)

(* What the statements so far have made of the table.                      *)
ShapeInv ==
    /\ pc \notin {"stopped", "tables", "rename"} => db.table
    /\ pc \notin {"stopped", "tables", "chat"} =>
           "chat_public_key" \in db.columns
    /\ pc \in Rebuilt => ~db.usernameNotNull
    /\ pc \in Rebuilt \ {"invitation"} => "invitation_code" \in db.columns
    /\ pc \in Rebuilt \ {"invitation", "usages"} =>
           "invitation_code_usages" \in db.columns

(* The backfill still has those on its list, and only those, without code. *)
CodesInv ==
    /\ OldHasNoCodes(db) /\ OldHasNoCodes(disk)
    /\ CodesDiffer(db) /\ CodesDiffer(disk)
    /\ pc = "backfill" => missing = {u \in db.ids : db.code[u] = NoCode}
    /\ pc \in {"indexes", "serving"} => \A u \in db.ids : db.code[u] # NoCode
    /\ pc = "serving" => db.indexed \/ ignored

Inv == RebuildInv /\ ShapeInv /\ CodesInv

USE DEF InTransaction, Rebuilt

LEMMA InvInit == Init => Inv
<1> SUFFICES ASSUME Init PROVE Inv
    OBVIOUS
<1>1. /\ db.ids \subseteq Users
      /\ \A u \in db.ids : db.code[u] = NoCode
    <2>1. CASE db = Legacy(FALSE, {}, FALSE, {})
        BY <2>1 DEF Legacy
    <2>2. ASSUME NEW columns \in SUBSET {"chat_public_key"},
                 NEW notNull \in BOOLEAN, NEW ids \in SUBSET Users,
                 db = Legacy(TRUE, columns, notNull, ids)
          PROVE  /\ db.ids \subseteq Users
                 /\ \A u \in db.ids : db.code[u] = NoCode
        BY <2>2 DEF Legacy
    <2> QED BY <2>1, <2>2 DEF Init
<1>2. OldHasNoCodes(db) /\ CodesDiffer(db)
    BY <1>1 DEF OldHasNoCodes, CodesDiffer
<1> QED BY <1>1, <1>2 DEF Init, Inv, RebuildInv, ShapeInv, CodesInv

(* A statement that leaves the rows and their codes as they are.           *)
LEMMA SameRows ==
    ASSUME NEW c, NEW d, d.ids = c.ids, d.code = c.code,
           OldHasNoCodes(c), CodesDiffer(c),
           \/ OldHasNoCodes(d)
           \/ /\ c.columns \subseteq d.columns
              /\ d.usernameNotNull <=> c.usernameNotNull
    PROVE  OldHasNoCodes(d) /\ CodesDiffer(d)
BY DEF OldHasNoCodes, CodesDiffer

LEMMA InvStep == TypeOK /\ Inv /\ [Next]_vars => Inv'
<1> SUFFICES ASSUME TypeOK, Inv, [Next]_vars PROVE Inv'
    OBVIOUS
<1> USE DEF Inv
<1>1. CASE Start
    BY <1>1 DEF Start, Query, RebuildInv, ShapeInv, CodesInv
<1>16. CASE CheckUsername
    BY <1>16 DEF CheckUsername, Query, RebuildInv, ShapeInv, CodesInv
<1>17. CASE EndBackfill
    BY <1>17 DEF EndBackfill, Query, RebuildInv, ShapeInv, CodesInv
<1>2. CASE CreateTables
    <2>1. /\ db'.table /\ disk' = db' /\ pc' = "chat" /\ pc = "tables"
          /\ db'.ids = db.ids /\ db'.code = db.code /\ ~tx /\ ~tx'
          /\ \/ db' = db
             \/ ~db'.usernameNotNull /\ db'.columns = Columns
        BY <1>2 DEF CreateTables, Execute, RebuildInv, TypeOK, Database
    <2>2. OldHasNoCodes(db') /\ CodesDiffer(db')
        BY <2>1 DEF CodesInv, OldHasNoCodes, CodesDiffer
    <2> QED BY <2>1, <2>2 DEF RebuildInv, ShapeInv, CodesInv
<1>3. CASE AddChatKey
    <2>1. /\ db'.table = db.table /\ disk' = db' /\ ~tx /\ ~tx'
          /\ pc' = "username" /\ pc = "chat"
          /\ db'.ids = db.ids /\ db'.code = db.code
          /\ db'.usernameNotNull = db.usernameNotNull
          /\ db'.columns = db.columns \cup {"chat_public_key"}
        BY <1>3 DEF AddChatKey, Execute, RebuildInv, TypeOK, Database
    <2>2. OldHasNoCodes(db') /\ CodesDiffer(db')
        BY <2>1, SameRows DEF CodesInv
    <2> QED BY <2>1, <2>2 DEF RebuildInv, ShapeInv, CodesInv
<1>4. CASE Begin \/ Copy
    BY <1>4 DEF Begin, Copy, Query, RebuildInv, ShapeInv, CodesInv
<1>5. CASE DropUsers
    <2>1. /\ pc = "drop" /\ pc' = "rename" /\ db'.ids = {} /\ tx /\ tx'
          /\ UNCHANGED <<disk, copy>> /\ db'.columns = db.columns
        BY <1>5 DEF DropUsers, Execute, RebuildInv, TypeOK, Database
    <2>2. OldHasNoCodes(db') /\ CodesDiffer(db')
        BY <2>1 DEF OldHasNoCodes, CodesDiffer
    <2> QED BY <2>1, <2>2 DEF RebuildInv, ShapeInv, CodesInv
<1>6. CASE Rename
    <2>1. /\ pc = "rename" /\ pc' = "commit" /\ tx /\ tx' /\ disk' = disk
          /\ db' = Legacy(TRUE, {"chat_public_key"}, FALSE, disk.ids)
        BY <1>6 DEF Rename, Execute, RebuildInv
    <2>2. /\ db'.ids \subseteq Users /\ db'.table
          /\ db'.columns = {"chat_public_key"} /\ ~db'.usernameNotNull
          /\ \A u \in db'.ids : db'.code[u] = NoCode
        <3>1. disk.ids \subseteq Users
            BY DEF TypeOK, Database
        <3> QED BY <2>1, <3>1 DEF Legacy
    <2>3. OldHasNoCodes(db') /\ CodesDiffer(db')
        BY <2>2 DEF OldHasNoCodes, CodesDiffer
    <2> QED BY <2>1, <2>2, <2>3 DEF RebuildInv, ShapeInv, CodesInv
<1>7. CASE Commit
    <2>1. ~db.usernameNotNull
        <3>1. db = Legacy(TRUE, {"chat_public_key"}, FALSE, disk.ids)
            BY <1>7 DEF Commit, RebuildInv
        <3> QED BY <3>1 DEF Legacy
    <2> QED BY <1>7, <2>1 DEF Commit, RebuildInv, ShapeInv, CodesInv
<1>8. CASE AddInvitation
    <2>1. /\ db'.table = db.table /\ disk' = db' /\ ~tx /\ ~tx'
          /\ pc' = "usages" /\ pc = "invitation"
          /\ db'.ids = db.ids /\ db'.code = db.code
          /\ db'.usernameNotNull = db.usernameNotNull
          /\ db'.columns = db.columns \cup {"invitation_code"}
        BY <1>8 DEF AddInvitation, Execute, RebuildInv, TypeOK, Database
    <2>2. OldHasNoCodes(db') /\ CodesDiffer(db')
        BY <2>1, SameRows DEF CodesInv
    <2> QED BY <2>1, <2>2 DEF RebuildInv, ShapeInv, CodesInv
<1>9. CASE AddUsages
    <2>1. /\ db'.table = db.table /\ disk' = db' /\ ~tx /\ ~tx'
          /\ pc' = "select" /\ pc = "usages"
          /\ db'.ids = db.ids /\ db'.code = db.code
          /\ db'.usernameNotNull = db.usernameNotNull
          /\ db'.columns = db.columns \cup {"invitation_code_usages"}
        BY <1>9 DEF AddUsages, Execute, RebuildInv, TypeOK, Database
    <2>2. OldHasNoCodes(db') /\ CodesDiffer(db')
        BY <2>1, SameRows DEF CodesInv
    <2> QED BY <2>1, <2>2 DEF RebuildInv, ShapeInv, CodesInv
<1>10. CASE SelectMissing
    BY <1>10 DEF SelectMissing, Query, RebuildInv, ShapeInv, CodesInv
<1>11. ASSUME NEW u \in Users, NEW c \in Codes, Backfill(u, c) PROVE Inv'
    <2>1. /\ pc = "backfill" /\ pc' = "backfill" /\ ~tx /\ ~tx'
          /\ disk' = db' /\ db'.table = db.table /\ db'.ids = db.ids
          /\ db'.usernameNotNull = db.usernameNotNull
          /\ db'.columns = db.columns
          /\ db'.code = [db.code EXCEPT ![u] = c]
          /\ u \in missing /\ missing' = missing \ {u} /\ c \notin UsedCodes
        BY <1>11 DEF Backfill, Execute, RebuildInv, TypeOK, Database
    <2>2. /\ db'.code[u] = c /\ c # NoCode
          /\ \A v \in db.ids \ {u} : db'.code[v] = db.code[v]
          /\ \A v \in db.ids : db.code[v] # c
        BY <2>1, NoCodeIsFresh DEF UsedCodes, TypeOK, Database
    <2>3. CodesDiffer(db')
        BY <2>1, <2>2 DEF CodesInv, CodesDiffer
    <2>4. OldHasNoCodes(db')
        BY <2>1 DEF ShapeInv, OldHasNoCodes
    <2>5. missing' = {v \in db'.ids : db'.code[v] = NoCode}
        BY <2>1, <2>2 DEF CodesInv
    <2> QED BY <2>1, <2>3, <2>4, <2>5 DEF RebuildInv, ShapeInv, CodesInv
<1>12. CASE CreateIndexes
    <2>1. /\ db'.table = db.table /\ disk' = db' /\ ~tx /\ ~tx'
          /\ pc' = "serving" /\ pc = "indexes" /\ (db'.indexed \/ ignored')
          /\ db'.ids = db.ids /\ db'.code = db.code
          /\ db'.usernameNotNull = db.usernameNotNull
          /\ db'.columns = db.columns
        BY <1>12 DEF CreateIndexes, Execute, RebuildInv, TypeOK, Database
    <2>2. OldHasNoCodes(db') /\ CodesDiffer(db')
        BY <2>1, SameRows DEF CodesInv
    <2> QED BY <2>1, <2>2 DEF RebuildInv, ShapeInv, CodesInv
<1>13. ASSUME NEW u \in Users, NEW inviter \in Users, NEW c \in Codes,
              Register(u, inviter, c)
       PROVE  Inv'
    <2>1. /\ pc = "serving" /\ pc' = "serving" /\ ~tx /\ ~tx'
          /\ disk' = db' /\ db'.table = db.table
          /\ db'.ids = db.ids \cup {u} /\ u \notin db.ids
          /\ db'.usernameNotNull = db.usernameNotNull
          /\ db'.columns = db.columns /\ db'.indexed = db.indexed
          /\ ignored' = ignored
          /\ db'.code = [db.code EXCEPT ![u] = c] /\ c \notin UsedCodes
        BY <1>13 DEF Register, Execute, RebuildInv, TypeOK, Database
    <2>2. /\ db'.code[u] = c /\ c # NoCode
          /\ \A v \in db.ids : db'.code[v] = db.code[v] /\ db.code[v] # c
        BY <2>1, NoCodeIsFresh DEF UsedCodes, TypeOK, Database
    <2>3. CodesDiffer(db') /\ \A v \in db'.ids : db'.code[v] # NoCode
        BY <2>1, <2>2 DEF CodesInv, CodesDiffer
    <2>4. OldHasNoCodes(db')
        BY <2>1 DEF ShapeInv, OldHasNoCodes
    <2> QED BY <2>1, <2>3, <2>4 DEF RebuildInv, ShapeInv, CodesInv
<1>14. CASE Stop
    BY <1>14 DEF Stop, RebuildInv, ShapeInv, CodesInv
<1>15. CASE UNCHANGED vars
    BY <1>15 DEF vars, RebuildInv, ShapeInv, CodesInv
<1> QED BY <1>1, <1>2, <1>3, <1>4, <1>5, <1>6, <1>7, <1>8, <1>9, <1>10,
           <1>11, <1>12, <1>13, <1>14, <1>15, <1>16, <1>17
        DEF Next, StartUp, Rebuild, Invitations, Serve

LEMMA InvCorrect == Spec => [](TypeOK /\ Inv)
BY InvInit, InvStep, TypeCorrect, PTL DEF Spec

(* A server that serves has today's table with a code for every user, no   *)
(* code twice and the unique indexes, if their creation was not ignored    *)
(* (schema.go:8-28, migrate.go:9-105).                                     *)
THEOREM MigratedCorrect == Spec => []ServesMigrated
<1>1. TypeOK /\ Inv => ServesMigrated
    BY DEF TypeOK, Database, Inv, RebuildInv, ShapeInv, CodesInv,
           CodesDiffer, ServesMigrated
<1> QED BY <1>1, InvCorrect, PTL

-----------------------------------------------------------------------------
(* What a statement outside the transaction leaves of the rows.            *)
LEMMA KeptRows ==
    ASSUME TypeOK, disk'.ids = disk.ids, disk'.code = disk.code,
           disk'.left = disk.left
    PROVE  \A u \in disk.ids : Kept(u)
<1>1. \A u \in disk.ids : disk.left[u] \in Nat
    BY UsesType DEF TypeOK, Database
<1> QED BY <1>1 DEF Kept

LEMMA KeptStep ==
    TypeOK /\ Inv /\ [Next]_vars => \A u \in disk.ids : Kept(u)
<1> SUFFICES ASSUME TypeOK, Inv, [Next]_vars
             PROVE  \A u \in disk.ids : Kept(u)
    OBVIOUS
<1> USE DEF Inv
<1>1. CASE UNCHANGED disk
    BY <1>1, KeptRows
<1>2. CASE CreateTables
    <2>1. disk'.ids = disk.ids /\ disk'.code = disk.code
              /\ disk'.left = disk.left
        BY <1>2 DEF CreateTables, Execute, RebuildInv, TypeOK, Database
    <2> QED BY <2>1, KeptRows
<1>3. CASE AddChatKey \/ AddInvitation
    <2>1. disk'.ids = disk.ids /\ disk'.code = disk.code
              /\ disk'.left = disk.left
        BY <1>3 DEF AddChatKey, AddInvitation, Execute, RebuildInv, TypeOK,
                    Database
    <2> QED BY <2>1, KeptRows
<1>4. CASE DropUsers \/ Rename
    BY <1>1, <1>4 DEF DropUsers, Rename, Execute, RebuildInv
<1>5. CASE Commit
    <2>1. disk.usernameNotNull /\ disk'.ids = disk.ids
        BY <1>5 DEF Commit, RebuildInv, Legacy
    <2> QED BY <2>1 DEF CodesInv, OldHasNoCodes, Kept
<1>6. CASE AddUsages
    <2>1. CASE "invitation_code_usages" \in db.columns
        BY <1>1, <1>6, <2>1 DEF AddUsages, Execute, RebuildInv
    <2>2. CASE "invitation_code_usages" \notin db.columns
        <3>1. disk = db /\ disk'.ids = disk.ids
            BY <1>6, <2>2 DEF AddUsages, Execute, RebuildInv, TypeOK, Database
        <3> QED BY <2>2, <3>1 DEF CodesInv, OldHasNoCodes, Kept
    <2> QED BY <2>1, <2>2
<1>7. ASSUME NEW u \in Users, NEW c \in Codes, Backfill(u, c)
      PROVE  \A v \in disk.ids : Kept(v)
    <2>1. /\ disk = db /\ disk'.ids = disk.ids
          /\ disk'.code = [disk.code EXCEPT ![u] = c]
          /\ disk'.left = [disk.left EXCEPT ![u] = Uses]
        BY <1>7 DEF Backfill, Execute, RebuildInv, TypeOK, Database
    <2>2. disk.code[u] = NoCode
        BY <1>7, <2>1 DEF Backfill, CodesInv
    <2>3. ASSUME NEW v \in disk.ids, v # u PROVE Kept(v)
        <3>1. v \in Users /\ disk.left[v] \in Nat
            BY UsesType DEF TypeOK, Database
        <3>2. disk'.code[v] = disk.code[v] /\ disk'.left[v] = disk.left[v]
            BY <2>1, <2>3, <3>1 DEF TypeOK, Database
        <3> QED BY <2>1, <3>1, <3>2 DEF Kept
    <2> QED BY <2>1, <2>2, <2>3 DEF Kept
<1>8. CASE CreateIndexes
    <2>1. disk'.ids = disk.ids /\ disk'.code = disk.code
              /\ disk'.left = disk.left
        BY <1>8 DEF CreateIndexes, Execute, RebuildInv, TypeOK, Database
    <2> QED BY <2>1, KeptRows
<1>9. ASSUME NEW u \in Users, NEW inviter \in Users, NEW c \in Codes,
             Register(u, inviter, c)
      PROVE  \A v \in disk.ids : Kept(v)
    <2>1. /\ disk = db /\ disk'.ids = disk.ids \cup {u} /\ u \notin disk.ids
          /\ disk'.code = [disk.code EXCEPT ![u] = c]
          /\ disk'.left = [disk.left EXCEPT ![inviter] = @ - 1, ![u] = Uses]
        BY <1>9 DEF Register, Execute, RebuildInv, TypeOK, Database
    <2>2. ASSUME NEW v \in disk.ids PROVE Kept(v)
        <3>1. v \in Users /\ v # u /\ disk.left[v] \in Nat
            BY <2>1, UsesType DEF TypeOK, Database
        <3>2. disk'.code[v] = disk.code[v]
            BY <2>1, <3>1 DEF TypeOK, Database
        <3>3. disk'.left[v] = IF v = inviter THEN disk.left[v] - 1
                                             ELSE disk.left[v]
            BY <2>1, <3>1 DEF TypeOK, Database
        <3> QED BY <2>1, <3>1, <3>2, <3>3 DEF Kept
    <2> QED BY <2>2
<1>10. CASE Start \/ CheckUsername \/ Begin \/ Copy \/ SelectMissing
                \/ EndBackfill
    BY <1>1, <1>10 DEF Start, CheckUsername, Begin, Copy, SelectMissing,
                       EndBackfill, Query
<1>11. CASE Stop \/ UNCHANGED vars
    BY <1>1, <1>11 DEF Stop, vars
<1> QED BY <1>2, <1>3, <1>4, <1>5, <1>6, <1>7, <1>8, <1>9, <1>10, <1>11
        DEF Next, StartUp, Rebuild, Invitations, Serve

(* No statement, commit or registration loses a user on disk, changes a    *)
(* code that was given or gives uses back (migrate.go:9, 43).              *)
THEOREM SurvivesCorrect == Spec => DataSurvives
<1>1. TypeOK /\ Inv /\ [Next]_vars => [\A u \in disk.ids : Kept(u)]_vars
    BY KeptStep
<1> QED BY <1>1, InvCorrect, PTL DEF Spec, DataSurvives
=============================================================================
