------------------------------ MODULE Profile ------------------------------
(***************************************************************************)
(* The columns of an account that may be NULL, and the handlers that follow*)
(* a pointer to one.  A nil pointer makes a handler panic; gin.Recovery    *)
(* answers 500 and the process goes on, but what the request had done      *)
(* stays done.  A handler reads the row in one step and signs in another.  *)
(*                                                                         *)
(* Accounts may be older than a column, and so may the tokens that clients *)
(* hold: a refresh token of the version before is good for 14 days.        *)
(* A claim of a token is a string: an absent last name is the empty one,   *)
(* an absent country is "N/A".                                             *)
(* UserTable runs these steps with the registrations of UserIds.           *)
(***************************************************************************)
CONSTANTS
  Nil,
  Users, Names, Countries,
  Reqs         \* requests in flight at the same time

VARIABLES
  rows,        \* accounts.users: middle_name, last_name and countrycode
  req,         \* the requests in flight, with the row they have read
  tokens,      \* the claims of the tokens that clients hold
  born,        \* history: the accounts this program registered
  had          \* history: the last names an account has had, "" for none

vars == <<rows, req, tokens, born, had>>

Row == [middle : Names \cup {Nil}, last : Names \cup {Nil}, country : Countries \cup {Nil}]

ASSUME NilAssumption == Nil \notin Names \cup Countries \cup Row

Claims == [uid : Users, last : Names \cup {""}, country : Countries \cup {"N/A"}]

OrEmpty(name) == IF name = Nil THEN "" ELSE name

\* "pair": /login or /token about to sign two tokens; "merge": /refresh with
\* update_info, about to copy what it has read over the claims of a token.
Idle == [pc |-> "idle", uid |-> Nil, row |-> Nil, tok |-> Nil]

Init ==
  /\ rows \in [Users -> Row \cup {Nil}]
  /\ req = [r \in Reqs |-> Idle]
  /\ tokens \in SUBSET {t \in Claims : rows[t.uid] # Nil} /\ born = {}
  /\ had = [u \in Users |-> {t.last : t \in {k \in tokens : k.uid = u}}
                             \cup (IF rows[u] = Nil THEN {} ELSE {OrEmpty(rows[u].last)})]

Answer(r, toks) ==
  /\ tokens' = tokens \cup toks
  /\ req' = [req EXCEPT ![r] = Idle]

-----------------------------------------------------------------------------
\* POST /register: no field may be empty; there is no middle name.  Any string is
\* taken for a country.
Register(u, l, c) ==
  /\ rows[u] = Nil
  /\ rows' = [rows EXCEPT ![u] = [middle |-> Nil, last |-> l, country |-> c]]
  /\ born' = born \cup {u}
  /\ had' = [had EXCEPT ![u] = {l}]
  /\ UNCHANGED <<req, tokens>>

\* POST /login with the right password, POST /token with a code (which is gone
\* from Redis by now): the account is read.
ReadAccount(r, u) ==
  /\ req[r] = Idle /\ rows[u] # Nil
  /\ req' = [req EXCEPT ![r] = [pc |-> "pair", uid |-> u, row |-> rows[u], tok |-> Nil]]
  /\ UNCHANGED <<rows, tokens, born, had>>

OrNA(country) == IF country = Nil THEN "N/A" ELSE country

\* The last name is looked at before it is followed, the country is not: /login
\* has noted that it is to be set up, and panics all the same.
SignPair(r) ==
  LET w == req[r].row IN
  /\ req[r].pc = "pair" /\ w.country # Nil
  /\ Answer(r, {[uid |-> req[r].uid, last |-> OrEmpty(w.last), country |-> w.country]})
  /\ UNCHANGED <<rows, born, had>>

PairPanics(r) ==
  /\ req[r].pc = "pair" /\ req[r].row.country = Nil
  /\ Answer(r, {})
  /\ UNCHANGED <<rows, born, had>>

\* POST /refresh with update_info.  Without it, the claims are signed as they are.
RefreshReads(r, t) ==
  /\ req[r] = Idle /\ rows[t.uid] # Nil
  /\ req' = [req EXCEPT ![r] = [pc |-> "merge", uid |-> t.uid, row |-> rows[t.uid], tok |-> t]]
  /\ UNCHANGED <<rows, tokens, born, had>>

\* Mutant: a rotation forgets the last name.
SignMergedShort(r, rotates) ==
  LET w == req[r].row IN
  /\ req[r].pc = "merge" /\ w.last # Nil
  /\ Answer(r, {[uid |-> req[r].uid, country |-> OrNA(w.country),
                 last |-> IF rotates THEN "" ELSE w.last]})
  /\ UNCHANGED <<rows, born, had>>

\* Here it is the other way round.  A rotation keeps the names of the old token.
SignMerged(r, rotates) ==
  LET w == req[r].row IN
  /\ req[r].pc = "merge" /\ w.last # Nil
  /\ Answer(r, {[uid |-> req[r].uid, country |-> OrNA(w.country),
                 last |-> IF rotates THEN req[r].tok.last ELSE w.last]})
  /\ UNCHANGED <<rows, born, had>>

MergePanics(r) ==
  /\ req[r].pc = "merge" /\ req[r].row.last = Nil
  /\ Answer(r, {})
  /\ UNCHANGED <<rows, born, had>>

-----------------------------------------------------------------------------
\* The fields of the body of PUT /update that are there.
Bodies == [middle : Names \cup {Nil}, last : Names \cup {Nil}]

\* Mutants: an absent last name is NULL, as an absent middle name is; so is the
\* country, which is in no body.
UpdatedAll(w, b) == [w EXCEPT !.middle = b.middle, !.last = b.last]

UpdatedNoCountry(w, b) ==
  [middle |-> b.middle, country |-> Nil, last |-> IF b.last = Nil THEN w.last ELSE b.last]

\* The SET clauses of updateProfile: middle_name is always one of them.
Updated(w, b) ==
  [w EXCEPT !.middle = b.middle, !.last = IF b.last = Nil THEN @ ELSE b.last]

UpdateProfile(u, b) ==
  /\ rows[u] # Nil
  /\ rows' = [rows EXCEPT ![u] = Updated(@, b)]
  /\ had' = [had EXCEPT ![u] = @ \cup {OrEmpty(rows'[u].last)}]
  /\ UNCHANGED <<req, tokens, born>>

\* A body that is not JSON: the error is printed, and no field is there.
UpdateUnparsed(u) == UpdateProfile(u, [middle |-> Nil, last |-> Nil])

\* POST /countryCode, by a user with a token, of a country that exists.  What
\* JWTAuthMiddleware puts in the context as user_id is an int64, and the handler
\* asserts that it is an int: the answer is 400.
UserIdType == "int64"

SetCountryCode(u, c) ==
  /\ rows[u] # Nil /\ \E t \in tokens : t.uid = u
  /\ rows' = IF UserIdType = "int" THEN [rows EXCEPT ![u].country = c] ELSE rows
  /\ UNCHANGED <<req, tokens, born, had>>

-----------------------------------------------------------------------------
\* /refresh writes "N/A" for a country that is NULL, and a token then says so for
\* good.  That only ever happens to an account older than this program: a token of
\* one that was registered here says "N/A" if that was registered as its country.
PlaceholdersAreOld ==
  \A t \in tokens : t.country = "N/A" /\ t.uid \in born => rows[t.uid].country = "N/A"

\* The two pointers that /login, /token and /refresh follow unseen, to the country
\* and to the last name, are never nil for an account this program registered,
\* whatever was updated since.
PanicsAreOld ==
  [][\A r \in Reqs : PairPanics(r) \/ MergePanics(r) => req[r].uid \notin born]_vars

\* A token may be older than the last change of a name, and a rotation copies
\* what the token before it said even when the account was read again; but it
\* never names a last name the account has not had.
NamesWereHeld == \A t \in tokens : t.last \in had[t.uid]

=============================================================================
