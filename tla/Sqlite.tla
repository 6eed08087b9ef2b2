------------------------------- MODULE Sqlite -------------------------------
(***************************************************************************)
(* The database file and the sessions that db/session.py opens on it.      *)
(*                                                                         *)
(* make_engine leaves pysqlite in its default transaction mode, so a       *)
(* SELECT runs outside a transaction and sees the last commit, and the     *)
(* first INSERT or UPDATE of a session takes the file's single write lock, *)
(* which the session keeps until it commits or rolls back.  From then on   *)
(* the session reads what it has written itself.  Another session that     *)
(* wants to write waits, and after the busy timeout its statement raises.  *)
(*                                                                         *)
(* The module is external to the repository: it models SQLite and the      *)
(* SQLAlchemy session as src/job_aggregator/app/db/session.py sets them up.*)
(* The modules that use the database EXTEND it and build their actions     *)
(* from its operators.                                                     *)
(***************************************************************************)

CONSTANTS Sessions,     \* everything that opens a session on the file
          NoSession     \* the value of writer when the write lock is free

ASSUME NoSessionAssumption == NoSession \notin Sessions

VARIABLES db,           \* the last committed image of the tables
          pending,      \* the image the session that holds the lock has built
          writer        \* the session that holds the write lock

dbvars == <<db, pending, writer>>

(* What a SELECT of session s returns its rows from.                       *)
View(s) == IF writer = s THEN pending ELSE db

CanWrite(s) == writer \in {NoSession, s}

(* A flush that emits a statement: takes the write lock if s has it not.   *)
Write(s, image) ==
    /\ CanWrite(s)
    /\ writer' = s
    /\ pending' = image
    /\ UNCHANGED db

Commit(s) ==
    /\ writer' = IF writer = s THEN NoSession ELSE writer
    /\ db' = View(s)
    /\ UNCHANGED pending

Rollback(s) ==
    /\ writer' = IF writer = s THEN NoSession ELSE writer
    /\ pending' = IF writer = s THEN db ELSE pending
    /\ UNCHANGED db

(* A flush and the commit that follows it with nothing in between.         *)
WriteCommit(s, image) ==
    /\ CanWrite(s)
    /\ db' = image
    /\ pending' = image
    /\ writer' = NoSession

(* The columns an UPDATE writes are those whose new value differs from the *)
(* one the session loaded; the others keep what the row holds by then.     *)
Dirty(current, loaded, values) ==
    [c \in DOMAIN current |->
        IF values[c] # loaded[c] THEN values[c] ELSE current[c]]

(* The lock is consistent: while no session holds it there is nothing      *)
(* uncommitted, so a lost session leaves no trace of its transaction.      *)
NothingPending == writer = NoSession => pending = db
=============================================================================
