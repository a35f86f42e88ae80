-------------------------------- MODULE Sessions --------------------------------
(***************************************************************************)
(* What every handler of the application shares: it runs in a thread of a  *)
(* pool with a database session of its own (app/database.py), at READ      *)
(* COMMITTED.  It loads rows, checks its guards on what it loaded, changes *)
(* the objects in memory and commits; the UPDATE lists the columns that    *)
(* differ from the loaded ones, and only those.  Between the load and the  *)
(* commit other sessions may write the same rows, unless the handler       *)
(* locked them.                                                            *)
(***************************************************************************)
CONSTANTS
    NULL,
    Worker         \* threads of the pool, of all server processes

ASSUME SessionAssumption == NULL \notin Worker

\* A role acts as itself and as the role whose access it inherits.
effective_roles(role) ==
    {role} \cup (IF role = "HR" THEN {"GA"} ELSE {})
           \cup (IF role = "PROJECT_CONTROL" THEN {"PM"} ELSE {})

\* A worker between two requests.
Idle == [op |-> "idle"]

\* The row after an UPDATE by a session that loaded read and turned it into new.
Merged(current, read, new) ==
    [column \in DOMAIN current |->
        IF new[column] # read[column] THEN new[column] ELSE current[column]]

\* The same for a row that may have been inserted (read is NULL) or deleted (new is NULL).
Written(current, read, new) ==
    IF read = new THEN current
    ELSE IF read = NULL \/ new = NULL THEN new
    ELSE Merged(current, read, new)

\* The UPDATE finds no row: SQLAlchemy raises and the transaction rolls back.  A
\* DELETE that finds none only draws a warning.
Misses(current, read, new) == current = NULL /\ read # NULL /\ new \notin {NULL, read}
================================================================================
