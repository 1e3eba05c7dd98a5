------------------------------ MODULE Startup ------------------------------
(***************************************************************************)
(* One start of the process: main waits until Postgres has its tables,     *)
(* pings Redis once, and serves.  The tables are brought up to date by a   *)
(* list of statements; any error of the ping or of a CREATE sends main     *)
(* back to the start of the list after 15 seconds, as often as it comes,   *)
(* and the error of an ALTER is dropped.                                   *)
(***************************************************************************)
EXTENDS Naturals, Sequences

UserColumns == {"is_verified", "countrycode", "profilepicture", "middle_name", "names"}
AppColumns == {"is_public", "company_icon"}

\* What the statements add to the database: the tables, and the columns that an
\* ALTER adds to a table of an earlier version.  Columns that no ALTER adds are not
\* here.  "names" is the type of the columns of names, which one ALTER sets.
Elements == {"schema", "users", "apps"} \cup UserColumns \cup AppColumns

\* Mutant: a column nobody adds to a table that is already there.
StatementsForgetful ==
  <<"ping", "schema",
    "users", "is_verified", "countrycode", "profilepicture", "names",
    "apps", "is_public", "company_icon">>

\* Init of Usersrepo.  A statement is named for the element it adds.
Statements ==
  <<"ping", "schema",
    "users", "is_verified", "countrycode", "profilepicture", "middle_name", "names",
    "apps", "is_public", "company_icon">>

\* The statements whose error is returned.
Checked == {"ping", "schema", "users", "apps"}

VARIABLES
  pc,       \* where main is
  at,       \* the statement that is next
  db,       \* the elements the database has
  pg,       \* is Postgres away, does it answer and refuse, or is it up?
  redis,    \* does Redis answer?
  dropped   \* history: an error was dropped since the start of the list

Postgres == {"away", "refuses", "up"}

startVars == <<pc, at, db, pg, redis, dropped>>

\* An earlier version may have left tables, with less columns.
StartInit ==
  /\ pc = "init" /\ at = 1
  /\ db \in SUBSET Elements
  /\ db # {} => "schema" \in db
  /\ db \cap UserColumns # {} => "users" \in db
  /\ db \cap AppColumns # {} => "apps" \in db
  /\ pg \in Postgres /\ redis \in BOOLEAN
  /\ dropped = FALSE

-----------------------------------------------------------------------------
\* CREATE TABLE IF NOT EXISTS makes the whole table, or nothing.
Added(s) ==
  CASE s = "ping" -> {}
    [] s = "users" /\ "users" \notin db -> {"users"} \cup UserColumns
    [] s = "apps" /\ "apps" \notin db -> {"apps"} \cup AppColumns
    [] OTHER -> {s}

NextStatement ==
  IF at = Len(Statements) THEN pc' = "redis" /\ at' = at
                          ELSE pc' = pc /\ at' = at + 1

Exec ==
  /\ pc = "init" /\ pg # "away"
  /\ db' = db \cup Added(Statements[at])
  /\ NextStatement
  /\ UNCHANGED <<pg, redis, dropped>>

\* Mutant: main only waits for the ping.
CheckedFailsUnseen ==
  /\ pc = "init" /\ pg # "up" /\ Statements[at] \in Checked
  /\ IF at = 1 THEN pc' = "sleep" /\ at' = at ELSE NextStatement
  /\ UNCHANGED <<db, pg, redis, dropped>>

\* Postgres is away, is starting up, or refuses: a wrong password, a role that may
\* not create.  Init returns the error and main does not ask which one it is.
CheckedFails ==
  /\ pc = "init" /\ pg # "up" /\ Statements[at] \in Checked
  /\ pc' = "sleep"
  /\ UNCHANGED <<at, db, pg, redis, dropped>>

\* Mutant: the error of an ALTER is returned.
DroppedReturned ==
  /\ pc = "init" /\ Statements[at] \notin Checked
  /\ pc' = "sleep"
  /\ UNCHANGED <<at, db, pg, redis, dropped>>

\* An ALTER may be refused at any time: for rows that do not fit a column of names,
\* or for a role that does not own the table.
DroppedFails ==
  /\ pc = "init" /\ Statements[at] \notin Checked
  /\ dropped' = TRUE
  /\ NextStatement
  /\ UNCHANGED <<db, pg, redis>>

\* 15 seconds later, whatever the error was.
Retry ==
  /\ pc = "sleep"
  /\ pc' = "init" /\ at' = 1 /\ dropped' = FALSE
  /\ UNCHANGED <<db, pg, redis>>

\* Redis is asked once: without an answer the process exits with code 9.
PingRedis ==
  /\ pc = "redis"
  /\ pc' = IF redis THEN "serving" ELSE "exited"
  /\ UNCHANGED <<at, db, pg, redis, dropped>>

Main == Exec \/ CheckedFails \/ DroppedFails \/ Retry \/ PingRedis

\* Mutant: the container is run with a restart policy.
CrashRestarts ==
  /\ pc = "serving"
  /\ pc' = "init" /\ at' = 1 /\ dropped' = FALSE
  /\ UNCHANGED <<db, pg, redis>>

\* A panic outside of a request, such as the one of ProfilePhoto.
Crash ==
  /\ pc = "serving"
  /\ pc' = "exited"
  /\ UNCHANGED <<at, db, pg, redis, dropped>>

\* The two servers come and go.
Servers ==
  /\ pg' \in Postgres /\ redis' \in BOOLEAN
  /\ UNCHANGED <<pc, at, db, dropped>>

StartNext == Main \/ Crash \/ Servers

\* main runs whenever it can; nothing is assumed of the servers.
StartSpec == StartInit /\ [][StartNext]_startVars /\ WF_startVars(Main)

-----------------------------------------------------------------------------
(* Properties *)

\* A process that serves has its tables, whenever Postgres was away or refused.
ServingHasTables == pc \in {"redis", "serving"} => {"schema", "users", "apps"} \subseteq db

\* It has every column that a statement adds, whichever of them the tables it found
\* had, unless the error of an ALTER was dropped in the last pass.
CompleteUnlessDropped == pc = "serving" /\ ~dropped => db = Elements

\* The process is a container of the deployment: it starts, and never again.
C == INSTANCE Container
       WITH state <- IF pc \in {"serving", "exited"} THEN pc ELSE "starting"
RunsAsContainer == C!Spec

\* Once Postgres stays up, and accepts the ping and the CREATEs, main gets to an end:
\* it serves or it exits, even if every ALTER is refused.  Nothing is promised while
\* Postgres refuses: main then tries again for ever.
StartEnds == <>[](pg = "up") => <>(pc \in {"serving", "exited"})

=============================================================================
