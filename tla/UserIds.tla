------------------------------ MODULE UserIds ------------------------------
(***************************************************************************)
(* The ids of accounts.  RegisterAccount makes a snowflake node for itself *)
(* and takes one id from it: the millisecond, the number of the node, which*)
(* is 1 in every process, and a sequence that a node keeps and a new node  *)
(* starts at 0.  Between drawing the id and the INSERT other requests run. *)
(* UserTable runs these steps with those of Profile.                       *)
(***************************************************************************)
EXTENDS Integers

CONSTANTS
  Nil,
  Emails,
  Reqs,        \* registrations at the same time, in one process or two
  MaxMs        \* bound of the model: milliseconds since the epoch of the ids, < 512

VARIABLES
  ms,          \* the wall clock of the machine
  rows,        \* accounts.users: e-mail and user_id, with when it was drawn
  req,         \* the registrations in flight
  refused      \* history: the registrations a unique constraint refused

vars == <<ms, rows, req, refused>>

\* Mutant: the clock of the ids is coarser than that of the registrations.
SnowflakeOfPair(t) == (t \div 2) * 4194304 + 4096

\* The id a new node generates: 41 bits of time, 10 of the node, 12 of the
\* sequence.
Snowflake(t) == t * 4194304 + 1 * 4096 + 0

Idle == [email |-> Nil, id |-> 0, at |-> 0]

Drawn(e, t) == [email |-> e, id |-> Snowflake(t), at |-> t]

\* Accounts may be there from before, drawn in two earlier milliseconds.
Init ==
  /\ ms = 0 /\ req = [r \in Reqs |-> Idle] /\ refused = {}
  /\ rows \in SUBSET {Drawn(e, t) : e \in Emails, t \in {-2, -1}}
  /\ \A v, w \in rows : v.email = w.email \/ v.at = w.at => v = w

-----------------------------------------------------------------------------
\* A registration has hashed its password and draws an id.  One with an empty field
\* has been refused by then, and has changed nothing.
Draw(r, e) ==
  /\ req[r] = Idle /\ e # Nil
  /\ req' = [req EXCEPT ![r] = Drawn(e, ms)]
  /\ UNCHANGED <<ms, rows, refused>>

\* user_id is the primary key, email is unique.
Conflicts(x) == \E w \in rows : w.id = x.id \/ w.email = x.email

\* The row is stored, even if the answer is then lost.
Insert(r) ==
  /\ req[r] # Idle /\ ~Conflicts(req[r])
  /\ rows' = rows \cup {req[r]}
  /\ req' = [req EXCEPT ![r] = Idle]
  /\ UNCHANGED <<ms, refused>>

\* The answer is 500, and nothing tries again with another id.
InsertConflicts(r) ==
  /\ req[r] # Idle /\ Conflicts(req[r])
  /\ refused' = refused \cup {req[r]}
  /\ req' = [req EXCEPT ![r] = Idle]
  /\ UNCHANGED <<ms, rows>>

\* The same answer for any other error of Postgres: it is away, or a value does not
\* fit its column.
InsertFails(r) ==
  /\ req[r] # Idle
  /\ req' = [req EXCEPT ![r] = Idle]
  /\ UNCHANGED <<ms, rows, refused>>

\* Time passes, or the clock of the machine is set back.
Tick ==
  /\ ms < MaxMs
  /\ ms' = ms + 1
  /\ UNCHANGED <<rows, req, refused>>

SetBack ==
  /\ ms' \in {t \in 0..MaxMs : t < ms}
  /\ UNCHANGED <<rows, req, refused>>

-----------------------------------------------------------------------------
\* A unique constraint refuses a registration only for an address that is taken, or
\* because somebody registered in the very millisecond, as the clock had it, however
\* often it was set back: ids of different milliseconds never collide.
ConflictsOnlyInOneMs ==
  \A x \in refused : \E w \in rows : w.email = x.email \/ w.at = x.at

=============================================================================
