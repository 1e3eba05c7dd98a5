-------------------------- MODULE UserTableProofs --------------------------
(***************************************************************************)
(* Proofs about accounts.users, for any accounts, names, countries and any *)
(* number of registrations and requests: what the ids of UserIds promise,  *)
(* what NULLs do to the handlers of Profile, and that the two halves of a  *)
(* row stay together.                                                      *)
(***************************************************************************)
EXTENDS UserTable, TLAPS

-----------------------------------------------------------------------------
(* The inductive invariant: shapes.                                        *)

Request == [pc : {"idle", "pair", "merge"}, uid : Users \cup {Nil},
            row : Row \cup {Nil}, tok : Claims \cup {Nil}]

Busy(r) == req[r].pc # "idle"

TypeInv ==
  /\ rows \in [Users -> Row \cup {Nil}]
  /\ req \in [Reqs -> Request]
  /\ tokens \subseteq Claims
  /\ born \subseteq Users
  /\ had \in [Users -> SUBSET (Names \cup {""})]

\* A request at work has read a row of an account that is there, and a refresh
\* holds the token of that account.  Accounts with tokens are there, too.
LocalsOK ==
  /\ \A t \in tokens : rows[t.uid] # Nil
  /\ \A r \in Reqs : Busy(r) =>
       /\ req[r].uid \in Users /\ rows[req[r].uid] # Nil
       /\ req[r].row \in Row
       /\ req[r].pc = "merge" => req[r].tok \in tokens /\ req[r].tok.uid = req[r].uid

-----------------------------------------------------------------------------
(* The inductive invariant: what NULLs do.                                 *)

Whole(w) == w # Nil /\ w.last # Nil /\ w.country # Nil

\* Accounts registered here have no NULL that a handler follows.
BornWhole ==
  /\ \A u \in born : Whole(rows[u])
  /\ \A r \in Reqs : Busy(r) /\ req[r].uid \in born => Whole(req[r].row)

\* No handler changes a country: who has read the row of such an account, or has a
\* token of it, has the country that is in the row.
SameCountry ==
  /\ \A t \in tokens : t.uid \in born => t.country = rows[t.uid].country
  /\ \A r \in Reqs : Busy(r) /\ req[r].uid \in born =>
       req[r].row.country = rows[req[r].uid].country

\* Rows, requests and tokens have last names the account has had.
NamesHad ==
  /\ \A u \in Users : rows[u] # Nil => OrEmpty(rows[u].last) \in had[u]
  /\ \A r \in Reqs : Busy(r) => OrEmpty(req[r].row.last) \in had[req[r].uid]
  /\ NamesWereHeld

ProfileInv == TypeInv /\ LocalsOK /\ BornWhole /\ SameCountry /\ NamesHad

-----------------------------------------------------------------------------
(* The inductive invariant: ids.                                           *)

Registration == [email : Users, id : Int, at : Int]

IdsType ==
  /\ ms \in Int
  /\ stored \subseteq Registration /\ refused \subseteq Registration
  /\ regs \in [Registrars -> Registration \cup {Ids!Idle}]

\* An id tells when it was drawn.
IdsOfTimes ==
  /\ \A w \in stored : w.id = Ids!Snowflake(w.at)
  /\ \A r \in Registrars : regs[r] # Ids!Idle => regs[r].id = Ids!Snowflake(regs[r].at)

Unique == \A v, w \in stored : v.id = w.id \/ v.email = w.email => v = w

IdsInv == IdsType /\ IdsOfTimes /\ Unique /\ ConflictsOnlyInOneMs

\* The ids and the columns are two halves of one table: an account is in both or
\* in neither, so that an INSERT that finds no conflict in one finds no row in
\* the other.
OneTable == \A u \in Users : rows[u] # Nil <=> \E w \in stored : w.email = u

IInv == ProfileInv /\ IdsInv /\ OneTable

-----------------------------------------------------------------------------
(* The handlers of Profile: a request reads a row, answers, or changes one. *)

\* A nil pointer is no name, country or row.
LEMMA NotNil ==
  /\ \A w \in Row : w # Nil
  /\ \A x \in Names \cup Countries : x # Nil
BY NilAssumption

LEMMA OrEmptyType == \A x \in Names \cup {Nil} : OrEmpty(x) \in Names \cup {""}
BY DEF OrEmpty

\* A request that reads the row of an account that is there.
LEMMA ReadStep ==
  ASSUME ProfileInv, NEW r \in Reqs, NEW l \in Request,
         req' = [req EXCEPT ![r] = l], UNCHANGED <<rows, tokens, born, had>>,
         l.pc # "idle", l.uid \in Users, rows[l.uid] # Nil, l.row = rows[l.uid],
         l.pc = "merge" => l.tok \in tokens /\ l.tok.uid = l.uid
  PROVE  ProfileInv'
<1> USE DEF ProfileInv
<1>0. /\ req \in [Reqs -> Request] /\ req'[r] = l
      /\ \A q \in Reqs : q # r => req'[q] = req[q]
  BY DEF TypeInv
<1>1. TypeInv'
  BY DEF TypeInv
<1>2. l.row \in Row
  BY DEF TypeInv
<1>3. LocalsOK'
  BY <1>0, <1>2 DEF LocalsOK, Busy
<1>4. SameCountry'
  BY <1>0, <1>2 DEF SameCountry, Busy
<1>5. BornWhole'
  BY <1>0, <1>2 DEF BornWhole, Whole, Busy
<1>6. NamesHad'
  BY <1>0, <1>2 DEF NamesHad, NamesWereHeld, Busy
<1> QED BY <1>1, <1>3, <1>4, <1>5, <1>6

\* A request that ends, with the tokens it has signed or with none.
LEMMA AnswerStep ==
  ASSUME ProfileInv, NEW r \in Reqs, NEW toks \in SUBSET Claims, Answer(r, toks),
         UNCHANGED <<rows, born, had>>,
         \A t \in toks : /\ rows[t.uid] # Nil /\ t.last \in had[t.uid]
                         /\ t.uid \in born => t.country = rows[t.uid].country
  PROVE  ProfileInv'
<1> USE DEF ProfileInv
<1>0. /\ req \in [Reqs -> Request] /\ req'[r] = Idle
      /\ \A q \in Reqs : q # r => req'[q] = req[q]
      /\ req' = [req EXCEPT ![r] = Idle]
      /\ tokens' = tokens \cup toks
  BY DEF TypeInv, Answer
<1>1. TypeInv'
  BY <1>0 DEF TypeInv, Request, Idle
<1>2. Idle.pc = "idle"
  BY DEF Idle
<1>3. LocalsOK'
  BY <1>0, <1>2 DEF LocalsOK, Busy
<1>4. SameCountry'
  BY <1>0, <1>2 DEF SameCountry, Busy
<1>5. BornWhole'
  BY <1>0, <1>2 DEF BornWhole, Whole, Busy
<1>6. NamesHad'
  BY <1>0, <1>2 DEF NamesHad, NamesWereHeld, Busy
<1> QED BY <1>1, <1>3, <1>4, <1>5, <1>6

\* A row that changes, or appears: the country is what it was, a last name that was
\* there is not NULL, and the names it has had are added to.
LEMMA RowStep ==
  ASSUME ProfileInv, NEW u \in Users, NEW w \in Row,
         NEW h \in SUBSET (Names \cup {""}),
         rows' = [rows EXCEPT ![u] = w], had' = [had EXCEPT ![u] = h],
         UNCHANGED <<req, tokens>>,
         OrEmpty(w.last) \in h,
         \/ rows[u] = Nil /\ born' = born \cup {u} /\ Whole(w)
         \/ /\ rows[u] # Nil /\ born' = born /\ had[u] \subseteq h
            /\ w.country = rows[u].country
            /\ rows[u].last # Nil => w.last # Nil
  PROVE  ProfileInv'
<1> USE DEF ProfileInv
<1>0. /\ rows \in [Users -> Row \cup {Nil}] /\ rows'[u] = w /\ w # Nil
      /\ \A v \in Users : v # u => rows'[v] = rows[v]
      /\ had'[u] = h
      /\ \A v \in Users : v # u => had'[v] = had[v]
  BY NotNil DEF TypeInv
<1>1. TypeInv'
  BY DEF TypeInv
<1>2. LocalsOK'
  BY <1>0 DEF LocalsOK, Busy, TypeInv, Claims
<1>3. \A v \in Users : rows[v] # Nil =>
        /\ rows'[v] # Nil
        /\ rows'[v].country = rows[v].country
        /\ v \in born' => v \in born
        /\ Whole(rows[v]) => Whole(rows'[v])
        /\ had[v] \subseteq had'[v]
  BY <1>0 DEF Whole
<1>4. \A t \in tokens : t.uid \in Users /\ rows[t.uid] # Nil
  BY DEF TypeInv, Claims, LocalsOK
<1>5. \A r \in Reqs : Busy(r) => req[r].uid \in Users /\ rows[req[r].uid] # Nil
  BY DEF LocalsOK
<1>6. SameCountry'
  BY <1>3, <1>4, <1>5 DEF SameCountry, Busy
<1>7. BornWhole'
  <2>1. \A v \in born : v \in Users /\ rows[v] # Nil
    BY DEF TypeInv, BornWhole, Whole
  <2> QED BY <1>0, <1>3, <1>5, <2>1 DEF BornWhole, Busy
<1>8. NamesHad'
  BY <1>0, <1>3, <1>4, <1>5 DEF NamesHad, NamesWereHeld, Busy
<1> QED BY <1>1, <1>2, <1>6, <1>7, <1>8

-----------------------------------------------------------------------------
(* The actions of Profile are steps of these kinds.                        *)

\* An update leaves the country, and the last name when the body has none.
LEMMA UpdatedRow ==
  ASSUME NEW w \in Row, NEW b \in Bodies
  PROVE  /\ Updated(w, b) \in Row
         /\ Updated(w, b).country = w.country
         /\ w.last # Nil => Updated(w, b).last # Nil
BY DEF Updated, Row, Bodies

LEMMA RegisterInv ==
  ASSUME ProfileInv, NEW u \in Users, NEW l \in Names, NEW c \in Countries,
         Register(u, l, c)
  PROVE  ProfileInv'
<1> DEFINE w == [middle |-> Nil, last |-> l, country |-> c]
<1>1. w \in Row /\ Whole(w)
  BY NotNil DEF Row, Whole
<1>2. OrEmpty(w.last) \in {l}
  BY NotNil DEF OrEmpty
<1>3. {l} \in SUBSET (Names \cup {""})
  OBVIOUS
<1> HIDE DEF w
<1>4. /\ rows[u] = Nil /\ rows' = [rows EXCEPT ![u] = w]
      /\ had' = [had EXCEPT ![u] = {l}] /\ born' = born \cup {u}
      /\ UNCHANGED <<req, tokens>>
  BY DEF Register, w
<1> QED BY <1>1, <1>2, <1>3, <1>4, RowStep

LEMMA UpdateInv ==
  ASSUME ProfileInv, NEW u \in Users, NEW b \in Bodies, UpdateProfile(u, b)
  PROVE  ProfileInv'
<1> DEFINE w == Updated(rows[u], b)
<1> DEFINE h == had[u] \cup {OrEmpty(w.last)}
<1>1. rows[u] \in Row /\ rows[u] # Nil
  BY DEF UpdateProfile, ProfileInv, TypeInv
<1>2. /\ w \in Row /\ w.country = rows[u].country
      /\ rows[u].last # Nil => w.last # Nil
  BY <1>1, UpdatedRow
<1> HIDE DEF w
<1>3. h \in SUBSET (Names \cup {""}) /\ had[u] \subseteq h /\ OrEmpty(w.last) \in h
  BY <1>2, OrEmptyType DEF Row, ProfileInv, TypeInv
<1>4. rows' = [rows EXCEPT ![u] = w] /\ UNCHANGED <<req, tokens, born>>
  BY DEF UpdateProfile, w
<1>5. rows'[u] = w
  BY <1>4 DEF ProfileInv, TypeInv
<1>6. had' = [had EXCEPT ![u] = h]
  BY <1>5 DEF UpdateProfile
<1> HIDE DEF h
<1> QED BY <1>1, <1>2, <1>3, <1>4, <1>6, RowStep

LEMMA ReadAccountInv ==
  ASSUME ProfileInv, NEW r \in Reqs, NEW u \in Users, ReadAccount(r, u)
  PROVE  ProfileInv'
<1> DEFINE l == [pc |-> "pair", uid |-> u, row |-> rows[u], tok |-> Nil]
<1>1. l \in Request /\ l.pc = "pair" /\ l.uid = u /\ l.row = rows[u]
  BY DEF Request, ProfileInv, TypeInv
<1>2. /\ rows[u] # Nil /\ req' = [req EXCEPT ![r] = l]
      /\ UNCHANGED <<rows, tokens, born, had>>
  BY DEF ReadAccount
<1> HIDE DEF l
<1> QED BY <1>1, <1>2, ReadStep

LEMMA RefreshReadsInv ==
  ASSUME ProfileInv, NEW r \in Reqs, NEW t \in tokens, RefreshReads(r, t)
  PROVE  ProfileInv'
<1> DEFINE l == [pc |-> "merge", uid |-> t.uid, row |-> rows[t.uid], tok |-> t]
<1>1. t \in Claims /\ t.uid \in Users
  BY DEF Claims, ProfileInv, TypeInv
<1>2. l \in Request /\ l.pc = "merge" /\ l.uid = t.uid /\ l.row = rows[t.uid] /\ l.tok = t
  BY <1>1 DEF Request, ProfileInv, TypeInv
<1>3. /\ rows[t.uid] # Nil /\ req' = [req EXCEPT ![r] = l]
      /\ UNCHANGED <<rows, tokens, born, had>>
  BY DEF RefreshReads
<1> HIDE DEF l
<1> QED BY <1>1, <1>2, <1>3, ReadStep

LEMMA SignPairInv ==
  ASSUME ProfileInv, NEW r \in Reqs, SignPair(r)
  PROVE  ProfileInv'
<1> DEFINE w == req[r].row
           t == [uid |-> req[r].uid, last |-> OrEmpty(w.last), country |-> w.country]
<1>1. Busy(r) /\ w.country # Nil /\ Answer(r, {t}) /\ UNCHANGED <<rows, born, had>>
  BY DEF SignPair, Busy
<1>2. /\ req[r].uid \in Users /\ w \in Row /\ rows[req[r].uid] # Nil
      /\ OrEmpty(w.last) \in had[req[r].uid]
      /\ req[r].uid \in born => w.country = rows[req[r].uid].country
  BY <1>1 DEF ProfileInv, LocalsOK, SameCountry, NamesHad
<1>3. w.country \in Countries /\ w.last \in Names \cup {Nil}
  BY <1>1, <1>2 DEF Row
<1>4. OrEmpty(w.last) \in Names \cup {""}
  BY <1>3, OrEmptyType
<1>5. t \in Claims /\ t.uid = req[r].uid /\ t.last = OrEmpty(w.last) /\ t.country = w.country
  BY <1>2, <1>3, <1>4 DEF Claims
<1> HIDE DEF t
<1>6. {t} \in SUBSET Claims
  BY <1>5
<1>7. \A x \in {t} : /\ rows[x.uid] # Nil /\ x.last \in had[x.uid]
                     /\ x.uid \in born => x.country = rows[x.uid].country
  BY <1>2, <1>5
<1> QED BY <1>1, <1>6, <1>7, AnswerStep

LEMMA SignMergedInv ==
  ASSUME ProfileInv, NEW r \in Reqs, NEW rotates \in BOOLEAN, SignMerged(r, rotates)
  PROVE  ProfileInv'
<1> DEFINE w == req[r].row
           n == IF rotates THEN req[r].tok.last ELSE w.last
           t == [uid |-> req[r].uid, country |-> OrNA(w.country), last |-> n]
<1>1. /\ Busy(r) /\ req[r].pc = "merge" /\ w.last # Nil
      /\ Answer(r, {t}) /\ UNCHANGED <<rows, born, had>>
  BY DEF SignMerged, Busy
<1>2. /\ req[r].uid \in Users /\ w \in Row
      /\ req[r].tok \in tokens /\ req[r].tok.uid = req[r].uid
      /\ rows[req[r].uid] # Nil
      /\ req[r].uid \in born => w.country # Nil /\ w.country = rows[req[r].uid].country
  BY <1>1 DEF ProfileInv, LocalsOK, SameCountry, BornWhole, Whole
<1>3. req[r].tok \in Claims /\ req[r].tok.last \in had[req[r].uid]
  BY <1>2 DEF ProfileInv, TypeInv, NamesHad, NamesWereHeld
<1>4. w.last \in Names /\ w.last \in had[req[r].uid]
  BY <1>1, <1>2 DEF ProfileInv, NamesHad, OrEmpty, Row
<1>5. n \in Names \cup {""} /\ n \in had[req[r].uid]
  BY <1>3, <1>4 DEF Claims
<1>6. /\ OrNA(w.country) \in Countries \cup {"N/A"}
      /\ w.country # Nil => OrNA(w.country) = w.country
  BY <1>2 DEF OrNA, Row
<1> HIDE DEF n
<1>7. t \in Claims /\ t.uid = req[r].uid /\ t.last = n /\ t.country = OrNA(w.country)
  BY <1>2, <1>5, <1>6 DEF Claims
<1> HIDE DEF t
<1>8. {t} \in SUBSET Claims
  BY <1>7
<1>9. \A x \in {t} : /\ rows[x.uid] # Nil /\ x.last \in had[x.uid]
                     /\ x.uid \in born => x.country = rows[x.uid].country
  BY <1>2, <1>5, <1>6, <1>7
<1> QED BY <1>1, <1>8, <1>9, AnswerStep

LEMMA PanicsInv ==
  ASSUME ProfileInv, NEW r \in Reqs, PairPanics(r) \/ MergePanics(r)
  PROVE  ProfileInv'
<1>1. Answer(r, {}) /\ UNCHANGED <<rows, born, had>>
  BY DEF PairPanics, MergePanics
<1> QED BY <1>1, AnswerStep

LEMMA QuietInv ==
  ASSUME ProfileInv, UNCHANGED vars
  PROVE  ProfileInv'
BY DEF vars, ProfileInv, TypeInv, LocalsOK, Busy, SameCountry, BornWhole, NamesHad,
       NamesWereHeld

LEMMA SettingsInv ==
  ASSUME ProfileInv, SettingsStep
  PROVE  ProfileInv'
<1> USE TableAssumption
<1>1. ASSUME NEW r \in Reqs, NEW u \in Settling, ReadAccount(r, u) PROVE ProfileInv'
  BY <1>1, ReadAccountInv
<1>2. ASSUME NEW r \in Reqs, NEW t \in tokens, RefreshReads(r, t) PROVE ProfileInv'
  BY <1>2, RefreshReadsInv
<1>3. ASSUME NEW r \in Reqs, SignPair(r) \/ PairPanics(r) \/ MergePanics(r)
      PROVE ProfileInv'
  BY <1>3, SignPairInv, PanicsInv
<1>4. ASSUME NEW r \in Reqs, NEW rotates \in BOOLEAN, SignMerged(r, rotates)
      PROVE ProfileInv'
  BY <1>4, SignMergedInv
<1>5. ASSUME NEW u \in Settling, NEW b \in Bodies, UpdateProfile(u, b) PROVE ProfileInv'
  BY <1>5, UpdateInv
<1>6. ASSUME NEW u \in Settling, UpdateUnparsed(u) PROVE ProfileInv'
  BY <1>6, UpdateInv DEF UpdateUnparsed, Bodies
<1>7. ASSUME NEW u \in Settling, NEW c \in Countries, SetCountryCode(u, c)
      PROVE ProfileInv'
  BY <1>7, QuietInv DEF SetCountryCode, UserIdType, vars
<1> QED BY <1>1, <1>2, <1>3, <1>4, <1>5, <1>6, <1>7 DEF SettingsStep

-----------------------------------------------------------------------------
(* Registrations.                                                          *)

\* The id of a millisecond is its own.
LEMMA SnowflakesDiffer ==
  \A s, t \in Int : Ids!Snowflake(s) \in Int
                    /\ (Ids!Snowflake(s) = Ids!Snowflake(t) => s = t)
BY DEF Ids!Snowflake

LEMMA DrawnType ==
  ASSUME NEW e \in Users, NEW t \in Int
  PROVE  /\ Ids!Drawn(e, t) \in Registration /\ Ids!Drawn(e, t).at = t
         /\ Ids!Drawn(e, t).email = e /\ Ids!Drawn(e, t).id = Ids!Snowflake(t)
BY SnowflakesDiffer DEF Ids!Drawn, Registration

LEMMA RegistrationNotIdle == \A x \in Registration : x # Ids!Idle
BY TableAssumption DEF Registration, Ids!Idle

LEMMA DrawInv ==
  ASSUME IdsInv, NEW r \in Registrars, NEW e \in Users \cup {Nil}, Ids!Draw(r, e)
  PROVE  IdsInv' /\ UNCHANGED stored
<1> USE DEF IdsInv
<1>0. ms \in Int
  BY DEF IdsType
<1>1. e \in Users /\ regs' = [regs EXCEPT ![r] = Ids!Drawn(e, ms)]
      /\ UNCHANGED <<ms, stored, refused>>
  BY DEF Ids!Draw
<1> DEFINE x == Ids!Drawn(e, ms)
<1>2. x \in Registration /\ x.id = Ids!Snowflake(x.at)
  BY <1>0, <1>1, DrawnType
<1> HIDE DEF x
<1>3. regs' = [regs EXCEPT ![r] = x]
  BY <1>1 DEF x
<1>4. IdsType'
  BY <1>1, <1>2, <1>3 DEF IdsType
<1>5. IdsOfTimes'
  BY <1>1, <1>2, <1>3 DEF IdsOfTimes, IdsType
<1>6. Unique' /\ ConflictsOnlyInOneMs'
  BY <1>1 DEF Unique, ConflictsOnlyInOneMs, Ids!ConflictsOnlyInOneMs
<1> QED BY <1>1, <1>4, <1>5, <1>6

LEMMA InsertInv ==
  ASSUME IdsInv, NEW r \in Registrars, Ids!Insert(r)
  PROVE  /\ IdsInv' /\ stored' = stored \cup {regs[r]}
         /\ regs[r] \in Registration /\ \A w \in stored : w.email # regs[r].email
<1> USE DEF IdsInv
<1> DEFINE x == regs[r]
<1>1. /\ x # Ids!Idle /\ \A w \in stored : w.id # x.id /\ w.email # x.email
      /\ stored' = stored \cup {x} /\ regs' = [regs EXCEPT ![r] = Ids!Idle]
      /\ UNCHANGED <<ms, refused>>
  BY DEF Ids!Insert, Ids!Conflicts
<1>2. x \in Registration /\ x.id = Ids!Snowflake(x.at)
  BY <1>1 DEF IdsType, IdsOfTimes
<1> HIDE DEF x
<1>3. IdsType'
  BY <1>1, <1>2 DEF IdsType
<1>4. IdsOfTimes'
  BY <1>1, <1>2 DEF IdsOfTimes, IdsType
<1>5. Unique' /\ ConflictsOnlyInOneMs'
  BY <1>1 DEF Unique, ConflictsOnlyInOneMs, Ids!ConflictsOnlyInOneMs
<1> QED BY <1>1, <1>2, <1>3, <1>4, <1>5 DEF x

\* A constraint refuses an INSERT for a taken address or a taken id, and an id is taken in its
\* own millisecond only.
LEMMA InsertConflictsInv ==
  ASSUME IdsInv, NEW r \in Registrars, Ids!InsertConflicts(r)
  PROVE  IdsInv' /\ UNCHANGED stored
<1> USE DEF IdsInv
<1> DEFINE x == regs[r]
<1>1. /\ x # Ids!Idle /\ refused' = refused \cup {x}
      /\ regs' = [regs EXCEPT ![r] = Ids!Idle] /\ UNCHANGED <<ms, stored>>
  BY DEF Ids!InsertConflicts
<1>2. PICK w \in stored : w.id = x.id \/ w.email = x.email
  BY DEF Ids!InsertConflicts, Ids!Conflicts
<1>3. /\ x \in Registration /\ x.id = Ids!Snowflake(x.at)
      /\ w \in Registration /\ w.id = Ids!Snowflake(w.at)
  BY <1>1 DEF IdsType, IdsOfTimes
<1> HIDE DEF x
<1>4. w.email = x.email \/ w.at = x.at
  BY <1>2, <1>3, SnowflakesDiffer DEF Registration
<1>5. IdsType'
  BY <1>1, <1>3 DEF IdsType
<1>6. IdsOfTimes'
  BY <1>1 DEF IdsOfTimes, IdsType
<1>7. Unique' /\ ConflictsOnlyInOneMs'
  BY <1>1, <1>4 DEF Unique, ConflictsOnlyInOneMs, Ids!ConflictsOnlyInOneMs
<1> QED BY <1>1, <1>5, <1>6, <1>7

LEMMA InsertFailsInv ==
  ASSUME IdsInv, NEW r \in Registrars, Ids!InsertFails(r)
  PROVE  IdsInv' /\ UNCHANGED stored
<1>1. regs' = [regs EXCEPT ![r] = Ids!Idle] /\ UNCHANGED <<ms, stored, refused>>
  BY DEF Ids!InsertFails
<1>2. IdsType'
  BY <1>1 DEF IdsInv, IdsType
<1>3. IdsOfTimes'
  BY <1>1 DEF IdsInv, IdsOfTimes, IdsType
<1>4. Unique' /\ ConflictsOnlyInOneMs'
  BY <1>1 DEF IdsInv, Unique, ConflictsOnlyInOneMs, Ids!ConflictsOnlyInOneMs
<1> QED BY <1>1, <1>2, <1>3, <1>4 DEF IdsInv

LEMMA QuietIds ==
  ASSUME IdsInv, UNCHANGED <<stored, regs, refused>>, ms' \in Int
  PROVE  IdsInv'
BY DEF IdsInv, IdsType, IdsOfTimes, Unique, ConflictsOnlyInOneMs, Ids!ConflictsOnlyInOneMs

-----------------------------------------------------------------------------
(* The table.                                                              *)

LEMMA InitInv == TableInit => IInv
<1> SUFFICES ASSUME TableInit PROVE IInv
  OBVIOUS
<1> USE DEF TableInit
<1>1. /\ tokens \in SUBSET Claims /\ \A t \in tokens : t.uid \in Users /\ rows[t.uid] # Nil
  BY DEF Init, Claims
<1>2. TypeInv
  <2>1. \A u \in Users : rows[u] # Nil => OrEmpty(rows[u].last) \in Names \cup {""}
    BY OrEmptyType DEF Init, Row
  <2>2. had \in [Users -> SUBSET (Names \cup {""})]
    <3>1. \A u \in Users : {t.last : t \in {k \in tokens : k.uid = u}} \subseteq Names \cup {""}
      BY <1>1 DEF Claims
    <3> QED BY <2>1, <3>1 DEF Init
  <2>3. req \in [Reqs -> Request]
    BY DEF Init, Idle, Request
  <2> QED BY <1>1, <2>2, <2>3 DEF Init, TypeInv
<1>3. born = {} /\ \A r \in Reqs : req[r].pc = "idle" /\ ~Busy(r)
  BY DEF Init, Idle, Busy
<1>4. LocalsOK /\ BornWhole /\ SameCountry
  BY <1>1, <1>3 DEF LocalsOK, BornWhole, SameCountry
<1>5. NamesHad
  <2>1. \A u \in Users : rows[u] # Nil => OrEmpty(rows[u].last) \in had[u]
    BY DEF Init
  <2>2. \A t \in tokens : t.last \in had[t.uid]
    BY <1>1 DEF Init
  <2> QED BY <1>3, <2>1, <2>2 DEF NamesHad, NamesWereHeld
<1>6. \A w \in stored : \E e \in Users, t \in {-2, -1} : w = Ids!Drawn(e, t)
  BY DEF Ids!Init
<1>7. \A w \in stored : w \in Registration /\ w.id = Ids!Snowflake(w.at)
  BY <1>6, DrawnType
<1>8. ms = 0 /\ refused = {} /\ regs = [r \in Registrars |-> Ids!Idle]
  BY DEF Ids!Init
<1>9. IdsType /\ IdsOfTimes /\ ConflictsOnlyInOneMs
  BY <1>7, <1>8 DEF IdsType, IdsOfTimes, ConflictsOnlyInOneMs, Ids!ConflictsOnlyInOneMs
<1>10. Unique
  <2> SUFFICES ASSUME NEW v \in stored, NEW w \in stored, v.id = w.id \/ v.email = w.email
               PROVE  v = w
    BY DEF Unique
  <2>1. v.email = w.email \/ v.at = w.at
    BY <1>7, SnowflakesDiffer DEF Registration
  <2> QED BY <2>1 DEF Ids!Init
<1>11. OneTable
  BY DEF OneTable
<1> QED BY <1>2, <1>4, <1>5, <1>9, <1>10, <1>11 DEF IInv, ProfileInv, IdsInv

\* No handler makes a row appear or disappear.
LEMMA SettingsKeepTable ==
  ASSUME TypeInv, SettingsStep
  PROVE  \A u \in Users : rows'[u] # Nil <=> rows[u] # Nil
<1>1. ASSUME NEW u \in Settling, NEW b \in Bodies, UpdateProfile(u, b)
      PROVE  \A v \in Users : rows'[v] # Nil <=> rows[v] # Nil
  <2>1. rows[u] \in Row /\ rows[u] # Nil /\ rows' = [rows EXCEPT ![u] = Updated(rows[u], b)]
    BY <1>1, TableAssumption DEF UpdateProfile, TypeInv
  <2>2. Updated(rows[u], b) # Nil
    BY <2>1, UpdatedRow, NotNil
  <2> QED BY <2>1, <2>2 DEF TypeInv
<1>2. ASSUME NEW u \in Settling, UpdateUnparsed(u)
      PROVE  \A v \in Users : rows'[v] # Nil <=> rows[v] # Nil
  BY <1>1, <1>2 DEF UpdateUnparsed, Bodies
<1>3. CASE UNCHANGED rows
  BY <1>3
<1> QED
  BY <1>1, <1>2, <1>3 DEF SettingsStep, ReadAccount, RefreshReads, SignPair, PairPanics,
     MergePanics, SignMerged, SetCountryCode, UserIdType

LEMMA RegisterAccountStep ==
  ASSUME IInv, NEW r \in Registrars, NEW l \in Names, NEW c \in Countries,
         RegisterAccount(r, l, c)
  PROVE  IInv'
<1> DEFINE u == regs[r].email
<1>1. /\ IdsInv' /\ stored' = stored \cup {regs[r]} /\ regs[r] \in Registration
  BY InsertInv DEF IInv, RegisterAccount
<1>2. u \in Users
  BY <1>1 DEF Registration
<1>3. ProfileInv'
  BY <1>2, RegisterInv DEF IInv, RegisterAccount
<1>4. OneTable'
  <2>1. rows' = [rows EXCEPT ![u] = [middle |-> Nil, last |-> l, country |-> c]]
    BY DEF RegisterAccount, Register
  <2>2. [middle |-> Nil, last |-> l, country |-> c] # Nil
    BY NotNil DEF Row
  <2>3. rows'[u] # Nil /\ \A v \in Users : v # u => rows'[v] = rows[v]
    BY <1>2, <2>1, <2>2 DEF IInv, ProfileInv, TypeInv
  <2>4. \A v \in Users : (\E w \in stored' : w.email = v)
                           <=> (v = u \/ \E w \in stored : w.email = v)
    BY <1>1
  <2> QED BY <1>2, <2>3, <2>4 DEF IInv, OneTable
<1> QED BY <1>1, <1>3, <1>4 DEF IInv

LEMMA RegistrationInv ==
  ASSUME IInv, RegistrationStep
  PROVE  IInv' /\ UNCHANGED stored
<1>1. UNCHANGED vars
  BY DEF RegistrationStep
<1>2. ProfileInv'
  BY <1>1, QuietInv DEF IInv
<1>3. IdsInv' /\ UNCHANGED stored
  <2>1. ASSUME NEW r \in Registrars, NEW e \in Users \cup {Nil}, Ids!Draw(r, e)
        PROVE  IdsInv' /\ UNCHANGED stored
    BY <2>1, DrawInv DEF IInv
  <2>2. ASSUME NEW r \in Registrars, Ids!InsertConflicts(r) \/ Ids!InsertFails(r)
        PROVE  IdsInv' /\ UNCHANGED stored
    BY <2>2, InsertConflictsInv, InsertFailsInv DEF IInv
  <2>3. ASSUME Ids!Tick \/ Ids!SetBack
        PROVE  IdsInv' /\ UNCHANGED stored
    <3>1. UNCHANGED <<stored, regs, refused>> /\ ms' \in Int
      BY <2>3, TableAssumption DEF Ids!Tick, Ids!SetBack, IInv, IdsInv, IdsType
    <3> QED BY <3>1, QuietIds DEF IInv
  <2> QED BY <2>1, <2>2, <2>3 DEF RegistrationStep
<1>4. OneTable'
  BY <1>1, <1>3 DEF IInv, OneTable, vars
<1> QED BY <1>2, <1>3, <1>4 DEF IInv

LEMMA SettingsStepInv ==
  ASSUME IInv, SettingsStep
  PROVE  IInv' /\ UNCHANGED idVars
<1>1. UNCHANGED idVars
  BY DEF SettingsStep
<1>2. ProfileInv'
  BY SettingsInv DEF IInv
<1>3. IdsInv'
  BY <1>1, QuietIds DEF IInv, idVars, IdsInv, IdsType
<1>4. OneTable'
  BY <1>1, SettingsKeepTable DEF IInv, ProfileInv, OneTable, idVars
<1> QED BY <1>1, <1>2, <1>3, <1>4 DEF IInv

LEMMA NextInv == IInv /\ [TableNext]_tableVars => IInv'
<1> SUFFICES ASSUME IInv, [TableNext]_tableVars PROVE IInv'
  OBVIOUS
<1>1. ASSUME NEW r \in Registrars, NEW l \in Names, NEW c \in Countries,
             RegisterAccount(r, l, c)
      PROVE  IInv'
  BY <1>1, RegisterAccountStep
<1>2. CASE RegistrationStep
  BY <1>2, RegistrationInv
<1>3. CASE SettingsStep
  BY <1>3, SettingsStepInv
<1>4. CASE UNCHANGED tableVars
  <2>1. UNCHANGED vars /\ UNCHANGED idVars
    BY <1>4 DEF tableVars
  <2>2. ProfileInv'
    BY <2>1, QuietInv DEF IInv
  <2>3. IdsInv'
    BY <2>1, QuietIds DEF IInv, idVars, IdsInv, IdsType
  <2> QED BY <2>1, <2>2, <2>3 DEF IInv, OneTable, vars, idVars
<1> QED BY <1>1, <1>2, <1>3, <1>4 DEF TableNext

LEMMA Invariant == TableSpec => []IInv
BY InitInv, NextInv, PTL DEF TableSpec

-----------------------------------------------------------------------------
(* Theorems.                                                               *)

\* Type correctness of rows, requests, tokens and registrations: what goes into
\* a token is a string.
THEOREM TypeCorrect == TableSpec => [](TypeInv /\ IdsType)
<1>1. IInv => TypeInv /\ IdsType
  BY DEF IInv, ProfileInv, IdsInv
<1> QED BY <1>1, Invariant, PTL

\* Of an account registered here no token says "N/A" for its country, unless that was
\* registered: the placeholder of /refresh is for accounts older than the program.
THEOREM OldPlaceholders == TableSpec => []PlaceholdersAreOld
<1>1. IInv => PlaceholdersAreOld
  BY DEF IInv, ProfileInv, SameCountry, PlaceholdersAreOld
<1> QED BY <1>1, Invariant, PTL

\* However stale a token is, and however often it was rotated, it names a last
\* name the account has had.
THEOREM OwnNames == TableSpec => []NamesWereHeld
<1>1. IInv => NamesWereHeld
  BY DEF IInv, ProfileInv, NamesHad
<1> QED BY <1>1, Invariant, PTL

\* The pointers that /login, /token and /refresh follow unseen are nil only for
\* accounts older than the program.
THEOREM OnlyOldPanic == TableSpec => PanicsAreOld
<1>1. ASSUME IInv, NEW r \in Reqs, PairPanics(r) \/ MergePanics(r)
      PROVE  req[r].uid \notin born
  BY <1>1 DEF PairPanics, MergePanics, IInv, ProfileInv, BornWhole, Whole, Busy
<1>2. IInv => [\A r \in Reqs : PairPanics(r) \/ MergePanics(r)
                                 => req[r].uid \notin born]_vars
  BY <1>1
<1> QED BY <1>2, Invariant, PTL DEF PanicsAreOld

\* A unique constraint refuses a registration only for a taken address, or for a
\* registration in the very millisecond, wherever the clock was set.
THEOREM OnlySameMs == TableSpec => []ConflictsOnlyInOneMs
<1>1. IInv => ConflictsOnlyInOneMs
  BY DEF IInv, IdsInv
<1> QED BY <1>1, Invariant, PTL

\* A row has an id exactly when it has its other columns, so the INSERT of a
\* registration whose id and address are free never meets a row.
THEOREM TableIsOne ==
  TableSpec => [](/\ OneTable
                  /\ \A r \in Registrars :
                       regs[r] # Ids!Idle /\ ~Ids!Conflicts(regs[r])
                         => rows[regs[r].email] = Nil)
<1>1. ASSUME IInv, NEW r \in Registrars, regs[r] # Ids!Idle, ~Ids!Conflicts(regs[r])
      PROVE  rows[regs[r].email] = Nil
  <2>1. regs[r].email \in Users
    BY <1>1 DEF IInv, IdsInv, IdsType, Registration
  <2> QED BY <1>1, <2>1 DEF IInv, OneTable, Ids!Conflicts
<1>2. IInv => /\ OneTable
              /\ \A r \in Registrars : regs[r] # Ids!Idle /\ ~Ids!Conflicts(regs[r])
                                         => rows[regs[r].email] = Nil
  BY <1>1 DEF IInv
<1> QED BY <1>2, Invariant, PTL

=============================================================================
