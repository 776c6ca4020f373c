------------------------------ MODULE Migration ------------------------------
(***************************************************************************)
(* Start-up over an existing SQLite file: InitSchema of                    *)
(* internal/db/schema.go with the statements of internal/db/migrate.go, as *)
(* cmd/server/main.go runs them before it serves.  Of the database, the    *)
(* table users is modelled.  A statement is a step; the process may stop,  *)
(* or exit because a statement fails, after any of them, and systemd       *)
(* starts it again.  The statements come one after the other from one      *)
(* goroutine, so that the pool hands them the same connection and BEGIN    *)
(* and COMMIT enclose those in between.                                    *)
(***************************************************************************)
EXTENDS Naturals, FiniteSets

CONSTANTS
    Users,
    Codes,   \* invitation codes a random draw may give
    Uses,    \* registrations an invitation code is good for; 3 in the code
    NoCode,  \* NULL
    MaxStops \* bound: how often the process stops

ASSUME NoCodeIsFresh == NoCode \notin Codes
ASSUME UsesType == Uses \in Nat
ASSUME StopBound == MaxStops \in Nat

VARIABLES
    db,      \* the database as the connection sees it
    disk,    \* the database as a restart would find it
    tx,      \* whether a transaction is open
    copy,    \* the users in users_new
    missing, \* the users the backfill still has to give a code
    pc,      \* the statement that comes next
    ignored, \* whether this start has ignored a failing CREATE INDEX
    stops    \* how often the process has stopped

vars == <<db, disk, tx, copy, missing, pc, ignored, stops>>

Columns == {"chat_public_key", "invitation_code", "invitation_code_usages"}

Database ==
    [table : BOOLEAN,           \* whether table users exists
     columns : SUBSET Columns,  \* those that not all versions have
     usernameNotNull : BOOLEAN, \* as the first versions declared it
     ids : SUBSET Users,        \* the rows
     code : [Users -> Codes \cup {NoCode}],
     left : [Users -> 0..Uses],
     indexed : BOOLEAN]         \* whether its unique indexes exist

Statements == {"tables", "chat", "username", "begin", "copy", "drop", "rename",
               "commit", "invitation", "usages", "select", "backfill",
               "indexes"}

TypeOK ==
    /\ db \in Database /\ disk \in Database
    /\ tx \in BOOLEAN
    /\ copy \subseteq Users /\ missing \subseteq Users
    /\ pc \in Statements \cup {"stopped", "serving"}
    /\ ignored \in BOOLEAN
    /\ stops \in 0..MaxStops

(* What was there before this version first starts: nothing, or the table  *)
(* of an older version, none of which had invitations.                     *)
Legacy(there, columns, notNull, ids) ==
    [table |-> there, columns |-> columns, usernameNotNull |-> notNull,
     ids |-> ids, code |-> [u \in Users |-> NoCode],
     left |-> [u \in Users |-> 0], indexed |-> FALSE]

Init ==
    /\ \/ db = Legacy(FALSE, {}, FALSE, {})
       \/ \E columns \in SUBSET {"chat_public_key"}, notNull \in BOOLEAN,
             ids \in SUBSET Users :
              db = Legacy(TRUE, columns, notNull, ids)
    /\ disk = db
    /\ tx = FALSE
    /\ copy = {} /\ missing = {}
    /\ pc = "stopped"
    /\ ignored = FALSE /\ stops = 0

(* A statement that leads to the database new and to the statement next.   *)
Execute(new, next) ==
    /\ db' = new
    /\ disk' = IF tx THEN disk ELSE new
    /\ pc' = next
    /\ UNCHANGED <<ignored, stops>>

Query(next) == pc' = next /\ UNCHANGED <<db, disk, ignored, stops>>

UsedCodes == {db.code[u] : u \in db.ids}

-----------------------------------------------------------------------------
Start ==
    /\ pc = "stopped"
    /\ Query("tables")
    /\ UNCHANGED <<tx, copy, missing>>

(* CREATE TABLE IF NOT EXISTS.                                             *)
CreateTables ==
    /\ pc = "tables"
    /\ Execute(IF db.table THEN db
               ELSE [db EXCEPT !.table = TRUE, !.columns = Columns,
                               !.usernameNotNull = FALSE], "chat")
    /\ UNCHANGED <<tx, copy, missing>>

AddChatKey ==
    /\ pc = "chat"
    /\ Execute([db EXCEPT !.columns = @ \cup {"chat_public_key"}], "username")
    /\ UNCHANGED <<tx, copy, missing>>

CheckUsername ==
    /\ pc = "username"
    /\ Query(IF db.usernameNotNull THEN "begin" ELSE "invitation")
    /\ UNCHANGED <<tx, copy, missing>>

(* Fault: each statement of the rebuild commits by itself.                 *)
BeginNothing ==
    /\ pc = "begin"
    /\ Query("copy")
    /\ copy' = {}
    /\ UNCHANGED <<tx, missing>>

(* BEGIN, DROP TABLE IF EXISTS users_new, CREATE TABLE users_new.          *)
Begin ==
    /\ pc = "begin"
    /\ Query("copy")
    /\ tx' = TRUE
    /\ copy' = {}
    /\ UNCHANGED missing

Copy ==
    /\ pc = "copy"
    /\ Query("drop")
    /\ copy' = db.ids
    /\ UNCHANGED <<tx, missing>>

(* The indexes go with the table.                                          *)
DropUsers ==
    /\ pc = "drop"
    /\ Execute([db EXCEPT !.table = FALSE, !.ids = {}, !.indexed = FALSE],
               "rename")
    /\ UNCHANGED <<tx, copy, missing>>

(* users_new has the columns the INSERT ... SELECT names, and no others.   *)
Rename ==
    /\ pc = "rename"
    /\ Execute(Legacy(TRUE, {"chat_public_key"}, FALSE, copy), "commit")
    /\ copy' = {}
    /\ UNCHANGED <<tx, missing>>

Commit ==
    /\ pc = "commit"
    /\ tx' = FALSE
    /\ disk' = db
    /\ pc' = "invitation"
    /\ UNCHANGED <<db, copy, missing, ignored, stops>>

(* Fault: the column is added without a look whether it is there, the      *)
(* statement fails and main exits.                                         *)
AddInvitationAlways ==
    /\ pc = "invitation"
    /\ IF "invitation_code" \in db.columns
       THEN Query("stopped")
       ELSE Execute([db EXCEPT !.columns = @ \cup {"invitation_code"}],
                    "usages")
    /\ UNCHANGED <<tx, copy, missing>>

AddInvitation ==
    /\ pc = "invitation"
    /\ Execute([db EXCEPT !.columns = @ \cup {"invitation_code"}], "usages")
    /\ UNCHANGED <<tx, copy, missing>>

(* ADD COLUMN ... DEFAULT 3, unless the column is there.                   *)
AddUsages ==
    /\ pc = "usages"
    /\ Execute(IF "invitation_code_usages" \in db.columns THEN db
               ELSE [db EXCEPT !.columns = @ \cup {"invitation_code_usages"},
                               !.left = [u \in Users |->
                                   IF u \in db.ids THEN Uses ELSE 0]],
               "select")
    /\ UNCHANGED <<tx, copy, missing>>

(* Fault: the backfill is skipped when one of the users has a code.        *)
SelectIfNone ==
    /\ pc = "select"
    /\ Query("backfill")
    /\ missing' = IF UsedCodes \subseteq {NoCode} THEN db.ids ELSE {}
    /\ UNCHANGED <<tx, copy>>

SelectMissing ==
    /\ pc = "select"
    /\ Query("backfill")
    /\ missing' = {u \in db.ids : db.code[u] = NoCode}
    /\ UNCHANGED <<tx, copy>>

(* backfillInviteCode draws until nobody has the code; then the UPDATE.    *)
Backfill(u, c) ==
    /\ pc = "backfill" /\ u \in missing
    /\ c \notin UsedCodes
    /\ Execute([db EXCEPT !.code = [db.code EXCEPT ![u] = c],
                          !.left = [db.left EXCEPT ![u] = Uses]], "backfill")
    /\ missing' = missing \ {u}
    /\ UNCHANGED <<tx, copy>>

EndBackfill ==
    /\ pc = "backfill" /\ missing = {}
    /\ Query("indexes")
    /\ UNCHANGED <<tx, copy, missing>>

(* InitSchema ignores what becomes of the CREATE INDEX statements.         *)
CreateIndexes ==
    /\ pc = "indexes"
    /\ \/ Execute([db EXCEPT !.indexed = TRUE], "serving")
       \/ /\ ignored' = TRUE /\ pc' = "serving"
          /\ UNCHANGED <<db, disk, stops>>
    /\ UNCHANGED <<tx, copy, missing>>

(* While the server serves, register takes a use of a code and inserts a   *)
(* user with a code of its own.                                            *)
Register(u, inviter, c) ==
    /\ pc = "serving"
    /\ u \notin db.ids /\ inviter \in db.ids
    /\ db.left[inviter] > 0 /\ c \notin UsedCodes
    /\ Execute([db EXCEPT
                   !.ids = @ \cup {u},
                   !.code = [db.code EXCEPT ![u] = c],
                   !.left = [db.left EXCEPT ![inviter] = @ - 1, ![u] = Uses]],
               "serving")
    /\ UNCHANGED <<tx, copy, missing>>

(* The process ends; an open transaction is rolled back.                   *)
Stop ==
    /\ pc # "stopped" /\ stops < MaxStops
    /\ stops' = stops + 1
    /\ pc' = "stopped"
    /\ db' = disk /\ tx' = FALSE
    /\ copy' = {} /\ missing' = {} /\ ignored' = FALSE
    /\ UNCHANGED disk

-----------------------------------------------------------------------------
Rebuild == Begin \/ Copy \/ DropUsers \/ Rename \/ Commit

Invitations ==
    \/ AddInvitation \/ AddUsages \/ SelectMissing \/ EndBackfill
    \/ \E u \in Users, c \in Codes : Backfill(u, c)

StartUp ==
    \/ Start \/ CreateTables \/ AddChatKey \/ CheckUsername \/ Rebuild
    \/ Invitations \/ CreateIndexes

Serve == \E u, inviter \in Users, c \in Codes : Register(u, inviter, c)

Next == StartUp \/ Serve \/ Stop

Spec == Init /\ [][Next]_vars

(* systemd restarts the server (Restart=always), and main runs on.         *)
FairSpec == Spec /\ WF_vars(StartUp)

-----------------------------------------------------------------------------
(* Whenever the process stops, the file keeps every user, and no later     *)
(* start gives a user another invitation code or gives uses back: what     *)
(* "Idempotent" means for the migration (migrate.go:9), and what the       *)
(* transaction around the rebuild is for (migrate.go:43).                  *)
Kept(u) ==
    /\ u \in disk'.ids
    /\ disk.code[u] # NoCode => /\ disk'.code[u] = disk.code[u]
                                /\ disk'.left[u] <= disk.left[u]

DataSurvives == [][\A u \in disk.ids : Kept(u)]_vars

(* A server that serves has the table in today's shape, with every user's  *)
(* code in it, no code twice, and the unique indexes that the rebuild has  *)
(* dropped unless InitSchema has ignored that they could not be made,      *)
(* however many starts it took (migrate.go:88, schema.go:25).              *)
ServesMigrated ==
    pc = "serving" =>
        /\ disk = db /\ db.table /\ db.columns = Columns
        /\ ~db.usernameNotNull /\ (db.indexed \/ ignored)
        /\ \A u \in db.ids : db.code[u] # NoCode
        /\ \A u, v \in db.ids : u # v => db.code[u] # db.code[v]

(* A server that is stopped comes up: no state in which a start was cut    *)
(* off keeps the next one from going through (migrate.go:18-87).           *)
ComesUp == (pc = "stopped") ~> (pc = "serving")
=============================================================================
