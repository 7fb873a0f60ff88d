----------------------------- MODULE BiDatabase -----------------------------
(***************************************************************************)
(* The sample BI database, a file that the first process to need it makes, *)
(* and the guarded queries on it.  Every process that runs here, a gateway *)
(* or a worker, keeps its engine, and the allowlist of the coworker agent, *)
(* for as long as it lives; text-to-SQL reads the tables at each question. *)
(*                                                                         *)
(* Connecting creates the file, empty; each table is created by a          *)
(* statement that is durable by itself; all the rows are one transaction.  *)
(***************************************************************************)
EXTENDS Integers, FiniteSets

CONSTANTS
  Processes,      \* what may open the database
  TableCount,     \* the tables of _SCHEMA, numbered in its order
  MaxRows, MaxOffset,
  Named,          \* the tables a query may name, by number
  Numbers,        \* the numbers a query may give as its LIMIT or OFFSET
  MaxQueries,     \* bound on the queries; a query changes nothing that another one reads
  MaxDeaths       \* bound on the deaths of processes

ASSUME BiAssumption ==
  /\ TableCount \in Nat \ {0} /\ MaxDeaths \in Nat /\ MaxQueries \in Nat
  /\ MaxRows \in Nat /\ MaxOffset \in Nat /\ Numbers \subseteq Nat
  /\ Named \subseteq Nat

VARIABLES
  file,           \* whether it exists, how many tables it has, and how often it was filled
  opened,         \* what each process is doing and has cached
  sql,            \* what became of the latest query, and how many there were
  deaths          \* how many processes have died

biVars == <<file, opened, sql, deaths>>

SampleTables == 1..TableCount
Existing     == 1..file.made
Unread       == {0}              \* _sql_tool was not called yet
Unopened     == [stage |-> "idle", next |-> 1, engine |-> FALSE, full |-> FALSE,
                 allowed |-> Unread]

\* The engine's own catalog is always there and in no list; a number beyond is no table's.
Catalog == TableCount + 1
Present == Existing \union {Catalog}

\* What the parser tells of a query: whether it is one statement, a SELECT or UNION without a
\* forbidden node or function; the tables it reads, and those of them that have the name of
\* one of its CTEs, in whatever scope that is; its LIMIT and OFFSET.
Absent    == -1
Computed  == -2                  \* not a literal
Fraction  == -3                  \* a literal, but no integer
Amounts   == Numbers \union {Absent, Computed, Fraction}
Queries   == UNION {[readOnly: BOOLEAN, tables: {read}, alike: SUBSET read,
                     limit: Amounts, offset: Amounts] : read \in SUBSET Named}

BiTypeOK ==
  /\ file \in [exists: BOOLEAN, made: 0..TableCount, filled: Nat]
  /\ opened \in [Processes -> [stage: {"idle", "connecting", "creating", "filling"}, next: Nat,
                               engine: BOOLEAN, full: BOOLEAN,
                               allowed: (SUBSET SampleTables) \union {Unread}]]
  /\ sql \in [outcome: {"none", "rejected", "raised", "missing", "rows"}, rows: Nat,
               listed: BOOLEAN, asked: 0..MaxQueries]
  /\ deaths \in 0..MaxDeaths

NoResult == [outcome |-> "none", rows |-> 0, listed |-> TRUE, asked |-> 0]
BiInit ==
  /\ file = [exists |-> FALSE, made |-> 0, filled |-> 0]
  /\ opened = [p \in Processes |-> Unopened]
  /\ sql = NoResult
  /\ deaths = 0

-----------------------------------------------------------------------------
\* get_engine: an existing file is opened as it is, full, half made or empty; else it is made.
GetEngine(p) ==
  /\ opened[p].stage = "idle" /\ ~opened[p].engine
  /\ opened' = IF file.exists
               THEN [opened EXCEPT ![p].engine = TRUE, ![p].full = (file.filled > 0)]
               ELSE [opened EXCEPT ![p].stage = "connecting"]
  /\ UNCHANGED <<file, sql, deaths>>

\* sqlite3.connect: the file is there from now on, with no table yet.
Connect(p) ==
  /\ opened[p].stage = "connecting"
  /\ file' = [file EXCEPT !.exists = TRUE]
  /\ opened' = [opened EXCEPT ![p].stage = "creating", ![p].next = 1]
  /\ UNCHANGED <<sql, deaths>>

\* Mutant: CREATE TABLE IF NOT EXISTS.
CreateUnlessThere(p) ==
  LET k == opened[p].next IN
  /\ opened[p].stage = "creating"
  /\ file' = [file EXCEPT !.made = IF k > @ THEN k ELSE @]
  /\ opened' = [opened EXCEPT ![p].next = k + 1,
                              ![p].stage = IF k = TableCount THEN "filling" ELSE @]
  /\ UNCHANGED <<sql, deaths>>

\* One statement of the schema: a table that is there already is an error, which the request
\* gets; nothing is cached.
CreateTable(p) ==
  LET k == opened[p].next IN
  /\ opened[p].stage = "creating"
  /\ IF k <= file.made
     THEN opened' = [opened EXCEPT ![p] = Unopened] /\ UNCHANGED file
     ELSE /\ file' = [file EXCEPT !.made = k]
          /\ opened' = [opened EXCEPT ![p].next = k + 1,
                                      ![p].stage = IF k = TableCount THEN "filling" ELSE @]
  /\ UNCHANGED <<sql, deaths>>
FillTables(p) ==
  /\ opened[p].stage = "filling"
  /\ file' = [file EXCEPT !.filled = @ + 1]
  /\ opened' = [opened EXCEPT ![p].stage = "idle", ![p].engine = TRUE, ![p].full = TRUE]
  /\ UNCHANGED <<sql, deaths>>

Die(p) ==
  /\ deaths < MaxDeaths
  /\ deaths' = deaths + 1
  /\ opened' = [opened EXCEPT ![p] = Unopened]
  /\ UNCHANGED <<file, sql>>

\* The coworker's run_sql tool is built once: reflect_tables for the life of the process.
BuildSqlTool(p) ==
  /\ opened[p].engine /\ opened[p].allowed = Unread
  /\ opened' = [opened EXCEPT ![p].allowed = Existing]
  /\ UNCHANGED <<file, sql, deaths>>

\* validate_sql: what it rejects (a table is excused by any CTE of its name), the ValueError of
\* a literal it cannot read, and the LIMIT it leaves.
Rejected(q, allowed) ==
  \/ ~q.readOnly
  \/ ~(q.tables \ q.alike \subseteq allowed)
  \/ q.offset \notin 0..MaxOffset \union {Absent, Fraction}
Raises(q)  == Fraction \in {q.limit, q.offset}
LimitOf(q) == IF q.limit \in 0..MaxRows THEN q.limit ELSE MaxRows

\* A query of text-to-SQL (`fresh`) or of the coworker, and up to how many rows it finds.
RunSql(p, fresh, q, found) ==
  LET allowed == IF fresh THEN Existing ELSE opened[p].allowed
      outcome == IF Rejected(q, allowed) THEN "rejected"
                 ELSE IF Raises(q) THEN "raised"
                 ELSE IF q.tables \subseteq Present THEN "rows" ELSE "missing"
  IN  /\ opened[p].engine /\ (fresh \/ opened[p].allowed # Unread)
      /\ sql.asked < MaxQueries
      /\ sql' = [outcome |-> outcome, listed |-> q.tables \subseteq allowed,
                 asked |-> sql.asked + 1,
                 rows |-> IF outcome # "rows" \/ file.filled = 0 THEN 0
                          ELSE IF found < LimitOf(q) THEN found ELSE LimitOf(q)]
      /\ UNCHANGED <<file, opened, deaths>>

BiNext ==
  \/ \E p \in Processes :
       \/ GetEngine(p) \/ Connect(p) \/ CreateTable(p) \/ FillTables(p) \/ Die(p) \/ BuildSqlTool(p)
       \/ \E fresh \in BOOLEAN, q \in Queries, found \in Numbers : RunSql(p, fresh, q, found)
BiSpec == BiInit /\ [][BiNext]_biVars

-----------------------------------------------------------------------------
(* bi_database.py:73-110: however processes meet over a file that is not   *)
(* there, empty or not finished, and wherever one dies, the rows are put   *)
(* in at most once, into all the tables.  A process that opened a full     *)
(* database allows all of its tables; one that did not may keep a shorter  *)
(* list, but never allows a table that is not there, so that a query all   *)
(* of whose tables are in the list finds them, however old the list; and   *)
(* no answer is longer than MAX_ROWS.                                      *)
BiSound ==
  /\ file.filled <= 1 /\ (file.filled = 1 => file.made = TableCount)
  /\ \A p \in Processes :
       opened[p].allowed # Unread =>
         /\ opened[p].allowed \subseteq Existing
         /\ opened[p].full => opened[p].allowed = SampleTables
  /\ (sql.outcome = "missing" => ~sql.listed) /\ sql.rows <= MaxRows
=============================================================================
