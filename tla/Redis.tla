------------------------------- MODULE Redis -------------------------------
(***************************************************************************)
(* The commands the program sends to its Redis server, as operators on a   *)
(* keyspace: a function from every key the program can name to an entry.   *)
(* An entry is a value and a deadline, the time at which the server drops  *)
(* the key; a deadline of 0 is a key without an expiry, and the value Nil  *)
(* is a key that is not there.  The server runs one command at a time and  *)
(* a MULTI/EXEC pipeline as one command.                                   *)
(***************************************************************************)
EXTENDS Naturals

CONSTANT Nil

Missing == [data |-> Nil, deadline |-> 0]

\* The entries a keyspace with values from D may hold.
Entries(D) == [data : D \cup {Nil}, deadline : Nat]

Exists(db, k) == db[k].data # Nil

\* HSET and the like: a new value leaves an expiry that was already set.
Write(db, k, v) == [db EXCEPT ![k] = [data |-> v, deadline |-> @.deadline]]

\* EXPIRE: of a key that is not there it does nothing.
Expire(db, k, t) ==
  IF Exists(db, k) THEN [db EXCEPT ![k] = [data |-> @.data, deadline |-> t]]
                   ELSE db

\* DEL
Del(db, k) == [db EXCEPT ![k] = Missing]

\* The server at time t has dropped every key whose deadline has come.
Evict(db, t) ==
  [k \in DOMAIN db |-> IF db[k].deadline \in 1..t THEN Missing ELSE db[k]]

=============================================================================
