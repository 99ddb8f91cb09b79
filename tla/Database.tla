------------------------------ MODULE Database ------------------------------
(***************************************************************************)
(* sqlite-open and sqlite-query (scheme_sqlite.c) and what run-query of    *)
(* sql.scm makes of a result.  SQLite itself is external: a table of       *)
(* notices in a file that other processes may lock.  (No program of the    *)
(* repository calls sqlite-close, after which db would point to a handle   *)
(* that is gone.)                                                          *)
(***************************************************************************)
EXTENDS Integers, Sequences

CONSTANTS
  max_rows,      \* 65535 in the code
  PointerSize,   \* sizeof(pointer)
  PageSize,      \* sysconf(_SC_PAGESIZE)
  MaxOpen        \* bound: how often sqlite-open is called

ASSUME DatabaseAssumption ==
  /\ max_rows \in Nat /\ PointerSize \in Nat \ {0} /\ PageSize \in Nat \ {0}
  /\ MaxOpen \in Nat

VARIABLES
  db,        \* the static pointer: 0, or the number of the handle it points to
  handles,   \* each handle that sqlite3_open has made: "open" or "sick"
  there,     \* the table exists
  table,     \* its rows, oldest first
  locked     \* another process has the file locked

dbVars == <<db, handles, there, table, locked>>

DatabaseInit ==
  /\ db = 0 /\ handles = << >>
  /\ there \in BOOLEAN /\ table = << >>
  /\ locked = FALSE

(* Another process takes or drops its lock.                                *)
Lock == locked' = ~locked /\ UNCHANGED <<db, handles, there, table>>

(* sqlite3_open makes a handle even when it fails: one that can only be    *)
(* closed.  The handle that db pointed to before is not closed.            *)
sqlite_open(opens) ==
  /\ Len(handles) < MaxOpen
  /\ handles' = Append(handles, IF opens THEN "open" ELSE "sick")
  /\ db' = Len(handles')
  /\ UNCHANGED <<there, table, locked>>

---------------------------------------------------------------------------
(* What sqlite3_prepare_v2 may answer, and sqlite3_step after an SQLITE_OK. *)
(* A file that is locked is noticed by the one or the other, or by none.   *)
Prepare(stmt) ==
  IF db = 0 \/ handles[db] # "open" THEN {"misuse"}
  ELSE {IF there = (stmt = "create") THEN "error" ELSE "ok"}
       \cup (IF locked THEN {"busy"} ELSE {})

Step == {"done"} \cup (IF locked THEN {"busy"} ELSE {})

(* rows[] has room for this many pointers.                                 *)
Capacity == (1 + ((max_rows * PointerSize) \div PageSize) * PageSize) \div PointerSize

Failure == [tag |-> "#f", rows |-> << >>]
Crash   == [tag |-> "crash", rows |-> << >>]
Vector(rows) == [tag |-> "vector", rows |-> rows]

(* Fault: the loop ends when max_rows rows are there.                      *)
QueryResultsUpTo(prepared, stepped, selected) ==
  IF prepared = "ok" /\ stepped = "done"
  THEN {Vector(SubSeq(selected, 1, IF Len(selected) > max_rows THEN max_rows
                                   ELSE Len(selected)))}
  ELSE {Failure}

(* What sqlite-query returns.  Only SQLITE_ERROR is an error of prepare;   *)
(* after any other one there is no statement: sqlite3_step and             *)
(* sqlite3_finalize have nothing to do and the result is an empty vector.  *)
(* sqlite3_changes reads the handle, whatever it is.  Rows that find no    *)
(* room in rows[] are stored behind it.                                    *)
QueryResults(prepared, stepped, selected) ==
  CASE prepared = "error" -> {Failure}
    [] prepared = "misuse" /\ db = 0 -> {Crash}
    [] prepared \in {"misuse", "busy"} /\ db # 0 -> {Vector(<< >>)}
    [] prepared = "ok" /\ stepped = "busy" -> {Failure}
    [] OTHER ->
         LET rows == SubSeq(selected, 1, IF Len(selected) > max_rows THEN max_rows + 1
                                         ELSE Len(selected))
         IN  {Vector(rows)} \cup (IF Len(rows) > Capacity
                                  THEN {Crash} ELSE {})

(* The statement is carried out, by the first sqlite3_step, or it is not.  *)
Execute(stmt, row) ==
  /\ table' = CASE stmt = "insert" -> Append(table, row)
                [] stmt = "delete" -> << >>
                [] OTHER           -> table
  /\ there' = (there \/ stmt = "create")

(* sqlite-query, for the statement stmt that inserts row if it inserts.    *)
(* answer is what the program gets.                                        *)
sqlite_query(stmt, row, answer) ==
  \E prepared \in Prepare(stmt), stepped \in Step :
    /\ answer \in QueryResults(prepared, stepped,
                               IF stmt = "select" THEN table ELSE << >>)
    /\ IF prepared = "ok" /\ stepped = "done" THEN Execute(stmt, row)
       ELSE UNCHANGED <<there, table>>
    /\ UNCHANGED <<db, handles, locked>>

(* run-query: instead of #f the procedure sqlite-error, not what it says.  *)
run_query(answer) == IF answer.tag = "#f" THEN "sqlite-error" ELSE answer.tag
=============================================================================
