----------------------------- MODULE UserTable -----------------------------
(***************************************************************************)
(* accounts.users: the registrations of UserIds insert the rows that the   *)
(* handlers of Profile read and change.  An account is its e-mail address. *)
(***************************************************************************)
EXTENDS Profile, Integers

CONSTANTS
  Registrars,  \* registrations at the same time
  MaxMs,       \* bound of the model: milliseconds
  Settling,    \* bound of the model: the accounts people log in to
  OldTokens    \* bound of the model: the tokens an earlier version may have left

ASSUME TableAssumption == Nil \notin Users /\ MaxMs \in Nat /\ Settling \subseteq Users

VARIABLES ms, stored, regs, refused   \* of UserIds

idVars == <<ms, stored, regs, refused>>
tableVars == <<vars, idVars>>

Ids == INSTANCE UserIds WITH rows <- stored, req <- regs, Reqs <- Registrars, Emails <- Users

\* A row of the first version.
BareRow == [middle |-> Nil, last |-> Nil, country |-> Nil]

\* The columns of the accounts nobody logs in to are never read.
TableInit ==
  /\ Init /\ Ids!Init
  /\ \A u \in Users : rows[u] # Nil <=> \E w \in stored : w.email = u
  /\ tokens \subseteq OldTokens
  /\ \A u \in Users \ Settling : rows[u] \in {Nil, BareRow}

-----------------------------------------------------------------------------
\* The INSERT of a registration: it has the last name and the country.
RegisterAccount(r, l, c) ==
  /\ Ids!Insert(r)
  /\ Register(regs[r].email, l, c)

RegistrationStep ==
  /\ \/ \E r \in Registrars, e \in Users \cup {Nil} : Ids!Draw(r, e)
     \/ \E r \in Registrars : Ids!InsertConflicts(r) \/ Ids!InsertFails(r)
     \/ Ids!Tick \/ Ids!SetBack
  /\ UNCHANGED vars

SettingsStep ==
  /\ \/ \E r \in Reqs, u \in Settling : ReadAccount(r, u)
     \/ \E r \in Reqs, t \in tokens : RefreshReads(r, t)
     \/ \E r \in Reqs : SignPair(r) \/ PairPanics(r) \/ MergePanics(r)
     \/ \E r \in Reqs, rotates \in BOOLEAN : SignMerged(r, rotates)
     \/ \E u \in Settling, b \in Bodies : UpdateProfile(u, b)
     \/ \E u \in Settling : UpdateUnparsed(u)
     \/ \E u \in Settling, c \in Countries : SetCountryCode(u, c)
  /\ UNCHANGED idVars

TableNext ==
  \/ \E r \in Registrars, l \in Names, c \in Countries : RegisterAccount(r, l, c)
  \/ RegistrationStep
  \/ SettingsStep

TableSpec == TableInit /\ [][TableNext]_tableVars

-----------------------------------------------------------------------------
\* A unique constraint refuses a registration only for an address that is taken, or
\* because somebody registered in the very millisecond, as the clock had it, however
\* often it was set back: ids of different milliseconds never collide.
ConflictsOnlyInOneMs == Ids!ConflictsOnlyInOneMs

=============================================================================
