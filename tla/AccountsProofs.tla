--------------------------- MODULE AccountsProofs ---------------------------
(***************************************************************************)
(* The safety properties of Accounts, for any number of accounts, links,   *)
(* passwords and concurrent requests.                                      *)
(***************************************************************************)
EXTENDS Accounts, TLAPS

Storing(r) == req[r].pc \in {"hset", "expire"}
Using(r) == req[r].pc \in {"del", "update"}

\* The owner of address e asked for what a link of this kind does, with
\* password p in case of a reset.
Asked(kind, e, p) ==
  /\ kind \in {"signup", "reset"}
  /\ kind = "signup" => e \in confirmed
  /\ kind = "reset" => p \in chosen[e]

\* What the later steps of a handler rely on in its locals.  A link that is
\* being stored was not mailed yet; a request that follows a mailed link asks
\* for what that link is for, if it is of the right kind, and from the read on
\* it is; a re-hash has the account's own password.
LocalsOK(r) ==
  /\ Storing(r) => /\ req[r].link \in Links \ mailed /\ drawn[req[r].link] # Nil
                   /\ drawn[req[r].link] = [kind |-> req[r].kind, email |-> req[r].email]
  /\ req[r].pc = "read" =>
       /\ req[r].link \in mailed
       /\ LET d == drawn[req[r].link]
          IN  d.kind = req[r].kind => Asked(d.kind, d.email, req[r].pw)
  /\ Using(r) => /\ req[r].link \in mailed
                 /\ req[r].email \in Emails /\ rows[req[r].email] # Nil
                 /\ Asked(req[r].kind, req[r].email, req[r].pw)
  /\ req[r].pc = "rehash" => /\ req[r].email \in Emails /\ rows[req[r].email] # Nil
                             /\ req[r].pw \in chosen[req[r].email]

Locals == \A r \in Reqs : LocalsOK(r)

\* A link is stored by one request.
OneStores ==
  \A r, q \in Reqs : Storing(r) /\ Storing(q) /\ req[r].link = req[q].link => r = q

\* Redis holds what a link was drawn for, an account's address, and only drawn
\* links are out.
StoredDrawn ==
  /\ \A k \in Links : Exists(links, k) => links[k].data = drawn[k]
  /\ \A k \in Links : drawn[k] # Nil => rows[drawn[k].email] # Nil
  /\ \A k \in mailed : drawn[k] # Nil

UsesMailed == \A k \in Links : uses[k] # 0 => k \in mailed

\* While no two requests had a link at once and no DEL failed, at most one
\* request has read it, it is gone once that request deleted it, and stays so.
OneUse(k) ==
  /\ \A r, q \in Reqs :
       Using(r) /\ Using(q) /\ req[r].link = k /\ req[q].link = k => r = q
  /\ \A r \in Reqs : req[r].pc = "update" /\ req[r].link = k => ~Exists(links, k)
  /\ uses[k] # 0 => /\ ~Exists(links, k)
                    /\ \A r \in Reqs : Using(r) => req[r].link # k

Unraced == \A k \in Links \ reusable : OneUse(k)

IInv ==
  /\ TypeOK /\ Locals /\ OneStores /\ StoredDrawn /\ UsesMailed
  /\ PasswordChosen /\ VerifiedByOwner /\ MailedLinksExpire
  /\ Unraced /\ OneUseUnlessRaced

-----------------------------------------------------------------------------
LEMMA InitInv == Init => IInv
<1> SUFFICES ASSUME Init PROVE IInv
  OBVIOUS
<1>1. rows \in [Emails -> Row \cup {Nil}]
  BY DEF Init
<1>2. chosen \in [Emails -> SUBSET Passwords] /\ PasswordChosen
  <2>1. \A e \in Emails : rows[e] # Nil => rows[e].hash.pw \in Passwords
    BY <1>1 DEF Row, Hash
  <2> QED
    BY <2>1 DEF Init, PasswordChosen
<1>3. TypeOK
  BY <1>1, <1>2 DEF Init, TypeOK, Entries, Missing, Request, Idle, Steps
<1>4. Locals /\ OneStores
  BY DEF Init, Locals, LocalsOK, OneStores, Storing, Using, Idle
<1>5. StoredDrawn /\ UsesMailed /\ MailedLinksExpire /\ VerifiedByOwner
  BY DEF Init, StoredDrawn, UsesMailed, MailedLinksExpire, VerifiedByOwner, Exists, Missing
<1>6. Unraced /\ OneUseUnlessRaced
  BY DEF Init, Unraced, OneUse, OneUseUnlessRaced, Using, Idle, Exists, Missing
<1> QED
  BY <1>2, <1>3, <1>4, <1>5, <1>6 DEF IInv

\* Nothing that the locals rely on is ever taken back.
Grown ==
  /\ \A e \in Emails : /\ rows[e] # Nil => rows'[e] # Nil
                       /\ chosen[e] \subseteq chosen'[e]
  /\ confirmed \subseteq confirmed' /\ mailed \subseteq mailed'
  /\ \A k \in Links : drawn[k] # Nil => drawn'[k] = drawn[k]

LEMMA LocalsKept ==
  ASSUME IInv, Grown, NEW q \in Reqs, req'[q] = req[q],
         Storing(q) => req[q].link \notin mailed'
  PROVE  LocalsOK(q)'
<1>1. LocalsOK(q) /\ TypeOK /\ StoredDrawn
  BY DEF IInv, Locals
<1>2. Storing(q)' <=> Storing(q)
  BY DEF Storing
<1>3. Using(q)' <=> Using(q)
  BY DEF Using
<1>4. Storing(q) => /\ req[q].link \in Links \ mailed'
                    /\ drawn'[req[q].link] # Nil
                    /\ drawn'[req[q].link] = [kind |-> req[q].kind, email |-> req[q].email]
  BY <1>1 DEF Grown, LocalsOK
<1>5. CASE req[q].pc = "read"
  <2> DEFINE d == drawn[req[q].link]
  <2>1. req[q].link \in mailed' /\ d' = d /\ d \in LinkData
    BY <1>1, <1>5 DEF Grown, LocalsOK, TypeOK, StoredDrawn
  <2>2. d.kind = req[q].kind => Asked(d.kind, d.email, req[q].pw)
    BY <1>1, <1>5 DEF LocalsOK
  <2> HIDE DEF d
  <2>3. d.kind = req[q].kind => Asked(d.kind, d.email, req[q].pw)'
    BY <1>1, <2>1, <2>2 DEF Grown, Asked, LinkData
  <2> QED
    BY <1>5, <2>1, <2>3 DEF LocalsOK, Storing, Using, d
<1>6. CASE Using(q)
  BY <1>1, <1>3, <1>6 DEF Grown, LocalsOK, Using, Storing, Asked
<1>7. CASE req[q].pc = "rehash"
  BY <1>1, <1>7 DEF Grown, LocalsOK, Using, Storing
<1>8. CASE Storing(q)
  BY <1>4, <1>8 DEF LocalsOK, Using, Storing
<1> QED
  BY <1>2, <1>3, <1>5, <1>6, <1>7, <1>8 DEF LocalsOK

\* What each command does to the keys, one key at a time.
LEMMA WriteEffect ==
  ASSUME links \in [Links -> Entries(LinkData)], NEW k \in Links, NEW v \in LinkData
  PROVE  /\ Write(links, k, v) \in [Links -> Entries(LinkData)]
         /\ Write(links, k, v)[k].data = v
         /\ \A c \in Links \ {k} : Write(links, k, v)[c] = links[c]
  BY DEF Entries, Write

LEMMA ExpireEffect ==
  ASSUME links \in [Links -> Entries(LinkData)], NEW k \in Links
  PROVE  /\ Expire(links, k, 1) \in [Links -> Entries(LinkData)]
         /\ \A c \in Links : Expire(links, k, 1)[c].data = links[c].data
         /\ Exists(links, k) => Expire(links, k, 1)[k].deadline = 1
         /\ \A c \in Links \ {k} : Expire(links, k, 1)[c] = links[c]
  BY DEF Entries, Expire, Exists

LEMMA DelEffect ==
  ASSUME links \in [Links -> Entries(LinkData)], NEW k \in Links
  PROVE  /\ Del(links, k) \in [Links -> Entries(LinkData)]
         /\ ~Exists(Del(links, k), k)
         /\ \A c \in Links \ {k} : Del(links, k)[c] = links[c]
  BY DEF Entries, Del, Exists, Missing

-----------------------------------------------------------------------------
(* Links that are drawn, stored and mailed. *)

LEMMA DrawStep ==
  ASSUME IInv, NEW r \in Reqs, NEW e \in Emails, NEW kind \in {"signup", "reset"},
         NewLink(r, kind, e),
         rows' \in [Emails -> Row \cup {Nil}], rows'[e] # Nil,
         chosen' \in [Emails -> SUBSET Passwords],
         \A x \in Emails : /\ rows[x] # Nil => rows'[x] # Nil
                           /\ chosen[x] \subseteq chosen'[x],
         PasswordChosen', VerifiedByOwner',
         UNCHANGED <<links, sessions, mailed, confirmed, uses, reusable>>
  PROVE  IInv'
<1> DEFINE d == [kind |-> kind, email |-> e]
           l == [Idle EXCEPT !.pc = "hset", !.kind = kind, !.email = e]
<1>1. PICK k \in Links :
        /\ drawn[k] = Nil
        /\ req' = [req EXCEPT ![r] = [Idle EXCEPT !.pc = "hset", !.kind = kind,
                                                  !.link = k, !.email = e]]
        /\ drawn' = [drawn EXCEPT ![k] = d]
  BY DEF NewLink, Become
<1>2. d \in LinkData /\ d # Nil /\ d.email = e /\ k \notin mailed /\ ~Exists(links, k)
  BY <1>1, NilAssumption DEF IInv, StoredDrawn, TypeOK, Entries, Exists, LinkData
<1>3. /\ req'[r].pc = "hset" /\ req'[r].link = k
      /\ [kind |-> req'[r].kind, email |-> req'[r].email] = d
      /\ \A q \in Reqs \ {r} : req'[q] = req[q]
  BY <1>1 DEF IInv, TypeOK, Idle
<1>4. drawn'[k] = d /\ \A c \in Links \ {k} : drawn'[c] = drawn[c]
  BY <1>1 DEF IInv, TypeOK
<1> HIDE DEF d
<1>5. TypeOK'
  <2>1. req' \in [Reqs -> Request] /\ drawn' \in [Links -> LinkData \cup {Nil}]
    BY <1>1, <1>2 DEF IInv, TypeOK, Request, Idle, Steps
  <2>2. \A q \in Reqs : req'[q].pc \in {"update", "rehash"} => rows'[req'[q].email] # Nil
    BY <1>3 DEF IInv, TypeOK, Locals, LocalsOK, Using
  <2> QED
    BY <2>1, <2>2 DEF IInv, TypeOK
<1>6. Grown
  BY <1>1, <1>4 DEF Grown
<1>7. \A q \in Reqs \ {r} : Storing(q) => req[q].link # k /\ req[q].link \notin mailed'
  BY <1>1, NilAssumption DEF IInv, Locals, LocalsOK, TypeOK, LinkData
<1>8. Locals'
  <2>1. LocalsOK(r)'
    BY <1>2, <1>3, <1>4 DEF LocalsOK, Storing, Using
  <2> QED
    BY <1>3, <1>6, <1>7, <2>1, LocalsKept DEF Locals
<1>9. OneStores'
  BY <1>3, <1>7 DEF IInv, OneStores, Storing
<1>10. StoredDrawn'
  BY <1>2, <1>4 DEF IInv, StoredDrawn, TypeOK, LinkData, Exists
<1>11. UsesMailed' /\ MailedLinksExpire' /\ OneUseUnlessRaced'
  BY DEF IInv, UsesMailed, MailedLinksExpire, OneUseUnlessRaced, Exists
<1>12. Unraced'
  BY <1>3 DEF IInv, Unraced, OneUse, Using, Exists
<1> QED
  BY <1>5, <1>8, <1>9, <1>10, <1>11, <1>12 DEF IInv

LEMMA RegisterStep ==
  ASSUME IInv, NEW r \in Reqs, NEW e \in Emails, NEW p \in Passwords, Register(r, e, p)
  PROVE  IInv'
<1> DEFINE w == [verified |-> FALSE, hash |-> Argon2id(p)]
<1>1. /\ rows' = [rows EXCEPT ![e] = w] /\ rows[e] = Nil
      /\ chosen' = [chosen EXCEPT ![e] = @ \cup {p}]
      /\ NewLink(r, "signup", e)
      /\ UNCHANGED <<links, sessions, mailed, confirmed, uses, reusable>>
  BY DEF Register
<1>2. w \in Row /\ ~w.verified /\ w.hash.pw = p
  BY DEF Row, Hash, Argon2id
<1> HIDE DEF w
<1>3. w # Nil
  BY <1>2, NilAssumption
<1>4. /\ rows' \in [Emails -> Row \cup {Nil}] /\ rows'[e] = w
      /\ chosen' \in [Emails -> SUBSET Passwords] /\ p \in chosen'[e]
      /\ \A x \in Emails : chosen[x] \subseteq chosen'[x]
      /\ \A x \in Emails \ {e} : rows'[x] = rows[x]
  BY <1>1, <1>2 DEF IInv, TypeOK
<1>5. PasswordChosen'
  BY <1>2, <1>4 DEF IInv, PasswordChosen
<1>6. VerifiedByOwner'
  BY <1>1, <1>2, <1>4 DEF IInv, VerifiedByOwner
<1> QED
  BY <1>1, <1>3, <1>4, <1>5, <1>6, DrawStep

LEMMA MailAgainStep ==
  ASSUME IInv, NEW r \in Reqs, NEW e \in Emails,
         LoginUnverified(r, e) \/ RequestReset(r, e)
  PROVE  IInv'
<1>1. /\ rows[e] # Nil /\ \E kind \in {"signup", "reset"} : NewLink(r, kind, e)
      /\ UNCHANGED <<rows, links, sessions, mailed, chosen, confirmed, uses, reusable>>
  BY DEF LoginUnverified, RequestReset
<1>2. PasswordChosen' /\ VerifiedByOwner'
  BY <1>1 DEF IInv, PasswordChosen, VerifiedByOwner
<1>3. /\ rows' \in [Emails -> Row \cup {Nil}] /\ rows'[e] # Nil
      /\ chosen' \in [Emails -> SUBSET Passwords]
      /\ \A x \in Emails : /\ rows[x] # Nil => rows'[x] # Nil
                           /\ chosen[x] \subseteq chosen'[x]
  BY <1>1 DEF IInv, TypeOK
<1> QED
  BY <1>1, <1>2, <1>3, DrawStep

LEMMA StoreStep ==
  ASSUME IInv, NEW r \in Reqs, StoreLink(r)
  PROVE  IInv'
<1> DEFINE k == req[r].link
           d == drawn[k]
<1>1. /\ req[r].pc = "hset"
      /\ links' = Write(links, k, [kind |-> req[r].kind, email |-> req[r].email])
      /\ req' = [req EXCEPT ![r] = [req[r] EXCEPT !.pc = "expire"]]
      /\ UNCHANGED <<rows, sessions, mailed, drawn, chosen, confirmed, uses, reusable>>
  BY DEF StoreLink, Become
<1>2. /\ k \in Links \ mailed /\ d \in LinkData
      /\ d = [kind |-> req[r].kind, email |-> req[r].email]
  BY <1>1 DEF IInv, TypeOK, Locals, LocalsOK, Storing
<1>3. /\ links' \in [Links -> Entries(LinkData)]
      /\ links'[k].data = d
      /\ \A c \in Links \ {k} : links'[c] = links[c]
  BY <1>1, <1>2, WriteEffect DEF IInv, TypeOK
<1>4. req[r] \in Request
  BY DEF IInv, TypeOK
<1>5. /\ req'[r].pc = "expire" /\ req'[r].link = k
      /\ req'[r].kind = req[r].kind /\ req'[r].email = req[r].email
      /\ \A q \in Reqs \ {r} : req'[q] = req[q]
  BY <1>1, <1>4 DEF IInv, TypeOK, Request
<1>6. TypeOK'
  <2>1. req' \in [Reqs -> Request]
    BY <1>1, <1>4 DEF IInv, TypeOK, Request, Steps
  <2> QED
    BY <1>1, <1>3, <1>5, <2>1 DEF IInv, TypeOK
<1>7. Grown
  BY <1>1 DEF Grown
<1>8. Locals'
  <2>1. LocalsOK(r)'
    BY <1>1, <1>5 DEF IInv, Locals, LocalsOK, Storing, Using
  <2>2. \A q \in Reqs : Storing(q) => req[q].link \notin mailed'
    BY <1>1 DEF IInv, Locals, LocalsOK
  <2> QED
    BY <1>5, <1>7, <2>1, <2>2, LocalsKept DEF Locals
<1> HIDE DEF k, d
<1>9. OneStores'
  BY <1>1, <1>5 DEF IInv, OneStores, Storing, k
<1>10. StoredDrawn'
  BY <1>1, <1>2, <1>3 DEF IInv, StoredDrawn, Exists, d
<1>11. /\ UsesMailed' /\ MailedLinksExpire' /\ OneUseUnlessRaced'
       /\ PasswordChosen' /\ VerifiedByOwner'
  BY <1>1, <1>2, <1>3 DEF IInv, TypeOK, UsesMailed, MailedLinksExpire, OneUseUnlessRaced,
                          PasswordChosen, VerifiedByOwner, Exists
<1>12. ASSUME NEW c \in Links \ reusable
       PROVE  OneUse(c)'
  <2>1. OneUse(c)
    BY DEF IInv, Unraced
  <2>2. \A q \in Reqs : Using(q)' => Using(q) /\ q # r /\ req'[q] = req[q]
    BY <1>5 DEF Using
  <2>3. CASE c = k
    <3>1. uses[c] = 0 /\ \A q \in Reqs : Using(q) => req[q].link # c
      BY <1>2, <2>3 DEF IInv, UsesMailed, Locals, LocalsOK
    <3> QED
      BY <1>1, <2>2, <3>1 DEF OneUse, Using
  <2>4. CASE c # k
    BY <1>1, <1>3, <2>1, <2>2, <2>4 DEF OneUse, Exists, Using
  <2> QED
    BY <2>3, <2>4
<1>13. Unraced'
  BY <1>1, <1>12 DEF Unraced
<1> QED
  BY <1>6, <1>8, <1>9, <1>10, <1>11, <1>13 DEF IInv

LEMMA MailStep ==
  ASSUME IInv, NEW r \in Reqs, MailLink(r)
  PROVE  IInv'
<1> DEFINE k == req[r].link
<1>1. /\ req[r].pc = "expire" /\ links' = Expire(links, k, 1)
      /\ mailed' \in {mailed, mailed \cup {k}}
      /\ req' = [req EXCEPT ![r] = Idle]
      /\ UNCHANGED <<rows, sessions, drawn, chosen, confirmed, uses, reusable>>
  BY DEF MailLink, Become
<1>2. k \in Links \ mailed /\ drawn[k] # Nil
  BY <1>1 DEF IInv, Locals, LocalsOK, Storing
<1>3. /\ links' \in [Links -> Entries(LinkData)]
      /\ \A c \in Links : links'[c].data = links[c].data
      /\ Exists(links, k) => links'[k].deadline = 1
      /\ \A c \in Links \ {k} : links'[c] = links[c]
  BY <1>1, <1>2, ExpireEffect DEF IInv, TypeOK
<1>4. req'[r] = Idle /\ \A q \in Reqs \ {r} : req'[q] = req[q]
  BY <1>1 DEF IInv, TypeOK
<1>5. \A q \in Reqs \ {r} : Storing(q) => req[q].link # k
  BY <1>1 DEF IInv, OneStores, Storing
<1> HIDE DEF k
<1>6. TypeOK'
  <2>1. req' \in [Reqs -> Request]
    BY <1>1 DEF IInv, TypeOK, Request, Idle, Steps
  <2> QED
    BY <1>1, <1>2, <1>3, <1>4, <2>1 DEF IInv, TypeOK, Idle
<1>7. Grown
  BY <1>1 DEF Grown
<1>8. Locals'
  <2>1. LocalsOK(r)'
    BY <1>4 DEF LocalsOK, Storing, Using, Idle
  <2>2. \A q \in Reqs \ {r} : Storing(q) => req[q].link \notin mailed'
    BY <1>1, <1>5 DEF IInv, Locals, LocalsOK
  <2> QED
    BY <1>4, <1>7, <2>1, <2>2, LocalsKept DEF Locals
<1>9. OneStores'
  BY <1>4 DEF IInv, OneStores, Storing, Idle
<1>10. StoredDrawn' /\ UsesMailed'
  BY <1>1, <1>2, <1>3 DEF IInv, StoredDrawn, UsesMailed, Exists
<1>11. MailedLinksExpire'
  BY <1>1, <1>2, <1>3 DEF IInv, TypeOK, MailedLinksExpire, Exists
<1>12. OneUseUnlessRaced' /\ PasswordChosen' /\ VerifiedByOwner'
  BY <1>1 DEF IInv, OneUseUnlessRaced, PasswordChosen, VerifiedByOwner
<1>13. Unraced'
  BY <1>1, <1>3, <1>4 DEF IInv, Unraced, OneUse, Using, Idle, Exists
<1> QED
  BY <1>6, <1>8, <1>9, <1>10, <1>11, <1>12, <1>13 DEF IInv

-----------------------------------------------------------------------------
(* Following a link. *)

\* A request starts to follow a mailed link, and its locals are l.
LEMMA FollowStep ==
  ASSUME IInv, NEW r \in Reqs, NEW k \in mailed, NEW l \in Request,
         l.pc = "read", l.link = k, req' = [req EXCEPT ![r] = l],
         drawn[k].kind = l.kind => Asked(l.kind, drawn[k].email, l.pw)',
         chosen' \in [Emails -> SUBSET Passwords], confirmed' \subseteq Emails,
         \A x \in Emails : chosen[x] \subseteq chosen'[x],
         confirmed \subseteq confirmed',
         UNCHANGED <<rows, links, sessions, mailed, drawn, uses, reusable>>
  PROVE  IInv'
<1>1. k \in Links
  BY DEF IInv, TypeOK
<1>2. /\ req'[r] = l
      /\ \A q \in Reqs \ {r} : req'[q] = req[q]
  BY DEF IInv, TypeOK, Idle
<1>3. TypeOK'
  <2>1. req' \in [Reqs -> Request]
    BY DEF IInv, TypeOK
  <2> QED
    BY <1>2, <2>1 DEF IInv, TypeOK
<1>4. Grown
  BY DEF Grown
<1>5. Locals'
  <2>1. LocalsOK(r)'
    BY <1>2 DEF LocalsOK, Storing, Using
  <2>2. \A q \in Reqs : Storing(q) => req[q].link \notin mailed'
    BY DEF IInv, Locals, LocalsOK
  <2> QED
    BY <1>2, <1>4, <2>1, <2>2, LocalsKept DEF Locals
<1>6. OneStores'
  BY <1>2 DEF IInv, OneStores, Storing
<1>7. /\ StoredDrawn' /\ UsesMailed' /\ MailedLinksExpire' /\ OneUseUnlessRaced'
  BY DEF IInv, StoredDrawn, UsesMailed, MailedLinksExpire, OneUseUnlessRaced, Exists
<1>8. PasswordChosen' /\ VerifiedByOwner'
  BY DEF IInv, PasswordChosen, VerifiedByOwner
<1>9. Unraced'
  BY <1>2 DEF IInv, Unraced, OneUse, Using, Exists
<1> QED
  BY <1>3, <1>5, <1>6, <1>7, <1>8, <1>9 DEF IInv

LEMMA VerifyStep ==
  ASSUME IInv, NEW r \in Reqs, NEW k \in mailed, Verify(r, k)
  PROVE  IInv'
<1> DEFINE l == [Idle EXCEPT !.pc = "read", !.kind = "signup", !.link = k]
<1>1. /\ req' = [req EXCEPT ![r] = l]
      /\ confirmed' = IF drawn[k].kind = "signup"
                       THEN confirmed \cup {drawn[k].email} ELSE confirmed
      /\ UNCHANGED <<rows, links, sessions, mailed, drawn, chosen, uses, reusable>>
  BY DEF Verify, Become
<1>2. drawn[k] \in LinkData
  BY DEF IInv, TypeOK, StoredDrawn
<1>3. l \in Request /\ l.pc = "read" /\ l.kind = "signup" /\ l.link = k
  BY DEF IInv, TypeOK, Request, Steps, Idle
<1> HIDE DEF l
<1>4. drawn[k].kind = l.kind => Asked(l.kind, drawn[k].email, l.pw)'
  BY <1>1, <1>3 DEF Asked
<1>5. /\ confirmed' \subseteq Emails /\ confirmed \subseteq confirmed'
      /\ chosen' \in [Emails -> SUBSET Passwords]
      /\ \A x \in Emails : chosen[x] \subseteq chosen'[x]
  BY <1>1, <1>2 DEF IInv, TypeOK, LinkData
<1> QED
  BY <1>1, <1>3, <1>4, <1>5, FollowStep

LEMMA ResetStep ==
  ASSUME IInv, NEW r \in Reqs, NEW k \in mailed, NEW p \in Passwords, Reset(r, k, p)
  PROVE  IInv'
<1> DEFINE l == [Idle EXCEPT !.pc = "read", !.kind = "reset", !.link = k, !.pw = p]
<1>1. /\ req' = [req EXCEPT ![r] = l]
      /\ chosen' = IF drawn[k].kind = "reset"
                    THEN [chosen EXCEPT ![drawn[k].email] = @ \cup {p}] ELSE chosen
      /\ UNCHANGED <<rows, links, sessions, mailed, drawn, confirmed, uses, reusable>>
  BY DEF Reset, Become
<1>2. drawn[k] \in LinkData /\ drawn[k].email \in Emails
  BY DEF IInv, TypeOK, StoredDrawn, LinkData
<1>3. l \in Request /\ l.pc = "read" /\ l.kind = "reset" /\ l.link = k /\ l.pw = p
  BY DEF IInv, TypeOK, Request, Steps, Idle
<1> HIDE DEF l
<1>4. drawn[k].kind = l.kind => Asked(l.kind, drawn[k].email, l.pw)'
  BY <1>1, <1>2, <1>3 DEF IInv, TypeOK, Asked
<1>5. /\ confirmed' \subseteq Emails /\ confirmed \subseteq confirmed'
      /\ chosen' \in [Emails -> SUBSET Passwords]
      /\ \A x \in Emails : chosen[x] \subseteq chosen'[x]
  BY <1>1, <1>2 DEF IInv, TypeOK
<1> QED
  BY <1>1, <1>3, <1>4, <1>5, FollowStep

LEMMA ReadStep ==
  ASSUME IInv, NEW r \in Reqs, ReadLink(r)
  PROVE  IInv'
<1> DEFINE k == req[r].link
           d == links[k].data
           l == [req[r] EXCEPT !.pc = "del", !.email = d.email]
<1>1. /\ req[r].pc = "read" /\ Exists(links, k) /\ d.kind = req[r].kind
      /\ req' = [req EXCEPT ![r] = l]
      /\ reusable' = IF Reads(k) = {} THEN reusable ELSE reusable \cup {k}
      /\ UNCHANGED <<rows, links, sessions, mailed, drawn, chosen, confirmed, uses>>
  BY DEF ReadLink, Become
<1>2. k \in mailed /\ k \in Links /\ req[r] \in Request
  BY <1>1 DEF IInv, TypeOK, Locals, LocalsOK
<1>3. d = drawn[k] /\ d \in LinkData /\ d.email \in Emails /\ rows[d.email] # Nil
  BY <1>1, <1>2 DEF IInv, TypeOK, StoredDrawn, LinkData
<1>4. Asked(req[r].kind, d.email, req[r].pw)
  BY <1>1, <1>3 DEF IInv, Locals, LocalsOK
<1>5. /\ l \in Request /\ l.pc = "del" /\ l.link = k /\ l.email = d.email
      /\ l.kind = req[r].kind /\ l.pw = req[r].pw
  BY <1>2, <1>3 DEF Request, Steps
<1>6. req'[r] = l /\ \A q \in Reqs \ {r} : req'[q] = req[q]
  BY <1>1 DEF IInv, TypeOK
<1> HIDE DEF k, d, l
<1>7. TypeOK'
  <2>1. req' \in [Reqs -> Request]
    BY <1>1, <1>5 DEF IInv, TypeOK
  <2> QED
    BY <1>1, <1>2, <1>5, <1>6, <2>1 DEF IInv, TypeOK
<1>8. Grown
  BY <1>1 DEF Grown
<1>9. Locals'
  <2>1. LocalsOK(r)'
    BY <1>1, <1>2, <1>3, <1>4, <1>5, <1>6 DEF LocalsOK, Storing, Using, Asked
  <2>2. \A q \in Reqs : Storing(q) => req[q].link \notin mailed'
    BY <1>1 DEF IInv, Locals, LocalsOK
  <2> QED
    BY <1>6, <1>8, <2>1, <2>2, LocalsKept DEF Locals
<1>10. OneStores'
  BY <1>5, <1>6 DEF IInv, OneStores, Storing
<1>11. /\ StoredDrawn' /\ UsesMailed' /\ MailedLinksExpire' /\ OneUseUnlessRaced'
       /\ PasswordChosen' /\ VerifiedByOwner'
  BY <1>1 DEF IInv, StoredDrawn, UsesMailed, MailedLinksExpire, OneUseUnlessRaced,
              PasswordChosen, VerifiedByOwner, Exists
<1>12. ASSUME NEW c \in Links \ reusable'
       PROVE  OneUse(c)'
  <2>1. OneUse(c)
    BY <1>1 DEF IInv, Unraced
  <2>2. CASE c = k
    <3>1. uses[c] = 0 /\ \A q \in Reqs : Using(q) => req[q].link # c
      BY <1>1, <2>1, <2>2 DEF OneUse, Reads, Using
    <3> QED
      BY <1>1, <1>5, <1>6, <3>1 DEF OneUse, Using
  <2>3. CASE c # k
    BY <1>1, <1>5, <1>6, <2>1, <2>3 DEF OneUse, Using, Exists
  <2> QED
    BY <2>2, <2>3
<1>13. Unraced'
  BY <1>12 DEF Unraced
<1> QED
  BY <1>7, <1>9, <1>10, <1>11, <1>13 DEF IInv

LEMMA DeleteStep ==
  ASSUME IInv, NEW r \in Reqs, DeleteLink(r)
  PROVE  IInv'
<1> DEFINE k == req[r].link
           l == [req[r] EXCEPT !.pc = "update"]
<1>1. /\ req[r].pc = "del"
      /\ \/ links' = Del(links, k) /\ reusable' = reusable
         \/ reusable' = reusable \cup {k} /\ links' = links
      /\ req' = [req EXCEPT ![r] = l]
      /\ UNCHANGED <<rows, sessions, mailed, drawn, chosen, confirmed, uses>>
  BY DEF DeleteLink, Become
<1>2. k \in Links /\ req[r] \in Request
  BY <1>1 DEF IInv, TypeOK, Locals, LocalsOK, Using
<1>3. /\ links' \in [Links -> Entries(LinkData)]
      /\ \A c \in Links : Exists(links', c) => links'[c] = links[c] /\ Exists(links, c)
      /\ Exists(links', k) => k \in reusable'
  BY <1>1, <1>2, DelEffect DEF IInv, TypeOK, Exists
<1>4. /\ l \in Request /\ l.pc = "update" /\ l.link = k /\ l.email = req[r].email
      /\ l.kind = req[r].kind /\ l.pw = req[r].pw
  BY <1>2 DEF Request, Steps
<1>5. req'[r] = l /\ \A q \in Reqs \ {r} : req'[q] = req[q]
  BY <1>1 DEF IInv, TypeOK
<1>6. LocalsOK(r)
  BY DEF IInv, Locals
<1> HIDE DEF k, l
<1>7. TypeOK'
  <2>1. req' \in [Reqs -> Request]
    BY <1>1, <1>4 DEF IInv, TypeOK
  <2> QED
    BY <1>1, <1>2, <1>3, <1>4, <1>5, <1>6, <2>1 DEF IInv, TypeOK, LocalsOK, Using
<1>8. Grown
  BY <1>1 DEF Grown
<1>9. Locals'
  <2>1. LocalsOK(r)'
    BY <1>1, <1>4, <1>5, <1>6 DEF LocalsOK, Storing, Using, Asked, k
  <2>2. \A q \in Reqs : Storing(q) => req[q].link \notin mailed'
    BY <1>1 DEF IInv, Locals, LocalsOK
  <2> QED
    BY <1>5, <1>8, <2>1, <2>2, LocalsKept DEF Locals
<1>10. OneStores'
  BY <1>4, <1>5 DEF IInv, OneStores, Storing
<1>11. StoredDrawn' /\ MailedLinksExpire'
  BY <1>1, <1>3 DEF IInv, TypeOK, StoredDrawn, MailedLinksExpire
<1>12. UsesMailed' /\ OneUseUnlessRaced' /\ PasswordChosen' /\ VerifiedByOwner'
  BY <1>1 DEF IInv, UsesMailed, OneUseUnlessRaced, PasswordChosen, VerifiedByOwner
<1>13. ASSUME NEW c \in Links \ reusable'
       PROVE  OneUse(c)'
  <2>1. OneUse(c) /\ (Exists(links', c) => Exists(links, c))
    BY <1>1, <1>3 DEF IInv, Unraced
  <2>2. c = k => ~Exists(links', c)
    BY <1>3
  <2>3. \A q \in Reqs : (Using(q)' <=> Using(q)) /\ req'[q].link = req[q].link
    BY <1>1, <1>4, <1>5 DEF Using, k
  <2>4. \A q \in Reqs : req'[q].pc = "update" /\ req[q].link = c => ~Exists(links', c)
    BY <1>5, <2>1, <2>2 DEF OneUse, k
  <2> QED
    BY <1>1, <2>1, <2>3, <2>4 DEF OneUse
<1>14. Unraced'
  BY <1>13 DEF Unraced
<1> QED
  BY <1>7, <1>9, <1>10, <1>11, <1>12, <1>14 DEF IInv

\* The row of a request that is about to write it gets w, and the request ends.
LEMMA WriteRow ==
  ASSUME IInv, NEW r \in Reqs, NEW w \in Row, req[r].pc \in {"update", "rehash"},
         rows' = [rows EXCEPT ![req[r].email] = w],
         w.hash.pw \in chosen[req[r].email],
         w.verified => req[r].email \in confirmed,
         req' = [req EXCEPT ![r] = Idle],
         UNCHANGED <<links, sessions, mailed, drawn, chosen, confirmed, reusable>>,
         \/ uses' = uses
         \/ req[r].pc = "update" /\ Used(req[r].link)
  PROVE  IInv'
<1> DEFINE e == req[r].email
           k == req[r].link
<1>1. e \in Emails /\ w # Nil
  BY NilAssumption DEF IInv, Locals, LocalsOK, Using
<1>2. /\ rows' \in [Emails -> Row \cup {Nil}] /\ rows'[e] = w
      /\ \A x \in Emails \ {e} : rows'[x] = rows[x]
  BY <1>1 DEF IInv, TypeOK
<1>3. req'[r] = Idle /\ \A q \in Reqs \ {r} : req'[q] = req[q]
  BY DEF IInv, TypeOK
<1>4. req[r].pc = "update" => k \in mailed /\ k \in Links
  BY DEF IInv, TypeOK, Locals, LocalsOK, Using
<1>5. /\ uses' \in [Links -> 0..2]
      /\ \A c \in Links : uses'[c] = uses[c] \/ (req[r].pc = "update" /\ c = k)
      /\ uses[k] = 0 /\ k \in Links => uses'[k] <= 1
  BY <1>4 DEF IInv, TypeOK, Used
<1> HIDE DEF e, k
<1>6. TypeOK'
  <2>1. req' \in [Reqs -> Request]
    BY DEF IInv, TypeOK, Request, Idle, Steps
  <2> QED
    BY <1>1, <1>2, <1>3, <1>5, <2>1 DEF IInv, TypeOK, Locals, LocalsOK, Using, Idle
<1>7. Grown
  BY <1>1, <1>2 DEF Grown
<1>8. Locals'
  <2>1. LocalsOK(r)'
    BY <1>3 DEF LocalsOK, Storing, Using, Idle
  <2>2. \A q \in Reqs : Storing(q) => req[q].link \notin mailed'
    BY DEF IInv, Locals, LocalsOK
  <2> QED
    BY <1>3, <1>7, <2>1, <2>2, LocalsKept DEF Locals
<1>9. OneStores'
  BY <1>3 DEF IInv, OneStores, Storing, Idle
<1>10. StoredDrawn'
  BY <1>7 DEF IInv, TypeOK, StoredDrawn, Grown, LinkData, Exists
<1>11. UsesMailed' /\ MailedLinksExpire'
  BY <1>4, <1>5 DEF IInv, UsesMailed, MailedLinksExpire, Exists
<1>12. PasswordChosen' /\ VerifiedByOwner'
  BY <1>1, <1>2 DEF IInv, PasswordChosen, VerifiedByOwner, e
<1>13. ASSUME NEW c \in Links \ reusable
       PROVE  OneUse(c)' /\ uses'[c] <= 1
  <2>1. OneUse(c) /\ uses[c] <= 1
    BY DEF IInv, Unraced, OneUseUnlessRaced
  <2>2. CASE req[r].pc = "update" /\ c = k
    <3>1. /\ uses[c] = 0 /\ ~Exists(links, c)
          /\ \A q \in Reqs \ {r} : Using(q) => req[q].link # c
      BY <2>1, <2>2 DEF OneUse, Using, k
    <3> QED
      BY <1>3, <1>5, <2>2, <3>1 DEF OneUse, Using, Idle, Exists
  <2>3. CASE ~(req[r].pc = "update" /\ c = k)
    BY <1>3, <1>5, <2>1, <2>3 DEF OneUse, Using, Idle, Exists
  <2> QED
    BY <2>2, <2>3
<1>14. Unraced' /\ OneUseUnlessRaced'
  BY <1>13 DEF Unraced, OneUseUnlessRaced
<1> QED
  BY <1>6, <1>8, <1>9, <1>10, <1>11, <1>12, <1>14 DEF IInv

LEMMA VerifyAccountStep ==
  ASSUME IInv, NEW r \in Reqs, VerifyAccount(r)
  PROVE  IInv'
<1> DEFINE e == req[r].email
           w == [rows[e] EXCEPT !.verified = TRUE]
<1>1. /\ req[r].pc = "update" /\ req[r].kind = "signup"
      /\ rows' = [rows EXCEPT ![e] = w] /\ Used(req[r].link)
      /\ req' = [req EXCEPT ![r] = Idle]
      /\ UNCHANGED <<links, sessions, mailed, drawn, chosen, confirmed, reusable>>
  BY DEF VerifyAccount, Become
<1>2. e \in Emails /\ rows[e] # Nil /\ e \in confirmed
  BY <1>1 DEF IInv, Locals, LocalsOK, Using, Asked
<1>3. rows[e] \in Row /\ rows[e].hash.pw \in chosen[e]
  BY <1>2 DEF IInv, TypeOK, PasswordChosen
<1>4. w \in Row /\ w.hash = rows[e].hash
  BY <1>3 DEF Row
<1> QED
  BY <1>1, <1>2, <1>3, <1>4, WriteRow

LEMMA NewPasswordStep ==
  ASSUME IInv, NEW r \in Reqs, ResetPassword(r) \/ Rehash(r)
  PROVE  IInv'
<1> DEFINE e == req[r].email
           w == [rows[e] EXCEPT !.hash = Argon2id(req[r].pw)]
<1>1. /\ req[r].pc \in {"update", "rehash"}
      /\ req[r].pc = "update" => req[r].kind = "reset"
      /\ rows' = [rows EXCEPT ![e] = w]
      /\ uses' = uses \/ (req[r].pc = "update" /\ Used(req[r].link))
      /\ req' = [req EXCEPT ![r] = Idle]
      /\ UNCHANGED <<links, sessions, mailed, drawn, chosen, confirmed, reusable>>
  BY DEF ResetPassword, Rehash, Become
<1>2. e \in Emails /\ rows[e] # Nil /\ req[r].pw \in chosen[e]
  BY <1>1 DEF IInv, Locals, LocalsOK, Using, Asked
<1>3. rows[e] \in Row /\ req[r].pw \in Passwords
  BY <1>2 DEF IInv, TypeOK
<1>4. w \in Row /\ w.hash.pw = req[r].pw /\ w.verified = rows[e].verified
  BY <1>3 DEF Row, Hash, Argon2id
<1>5. w.verified => e \in confirmed
  BY <1>2, <1>4 DEF IInv, VerifiedByOwner
<1> QED
  BY <1>1, <1>2, <1>4, <1>5, WriteRow

-----------------------------------------------------------------------------
(* Steps that touch no row, and time. *)

LEMMA LegacyStep ==
  ASSUME IInv, NEW r \in Reqs, NEW e \in Emails, NEW p \in Passwords,
         LoginLegacy(r, e, p)
  PROVE  IInv'
<1> DEFINE l == [Idle EXCEPT !.pc = "rehash", !.email = e, !.pw = p]
<1>1. /\ rows[e] # Nil /\ rows[e].hash = [scheme |-> "bcrypt", pw |-> p]
      /\ req' = [req EXCEPT ![r] = l]
      /\ UNCHANGED <<rows, links, sessions, mailed, drawn, chosen, confirmed,
                     uses, reusable>>
  BY DEF LoginLegacy, Become
<1>2. l \in Request /\ l.pc = "rehash" /\ l.email = e /\ l.pw = p
  BY DEF Request, Steps, Idle
<1>3. p \in chosen[e]
  BY <1>1 DEF IInv, PasswordChosen
<1>4. req'[r] = l /\ \A q \in Reqs \ {r} : req'[q] = req[q]
  BY <1>1 DEF IInv, TypeOK
<1> HIDE DEF l
<1>5. TypeOK'
  <2>1. req' \in [Reqs -> Request]
    BY <1>1, <1>2 DEF IInv, TypeOK
  <2> QED
    BY <1>1, <1>2, <1>4, <2>1 DEF IInv, TypeOK
<1>6. Grown
  BY <1>1 DEF Grown
<1>7. Locals'
  <2>1. LocalsOK(r)'
    BY <1>1, <1>2, <1>3, <1>4 DEF LocalsOK, Storing, Using
  <2>2. \A q \in Reqs : Storing(q) => req[q].link \notin mailed'
    BY <1>1 DEF IInv, Locals, LocalsOK
  <2> QED
    BY <1>4, <1>6, <2>1, <2>2, LocalsKept DEF Locals
<1>8. OneStores' /\ Unraced'
  BY <1>1, <1>2, <1>4 DEF IInv, OneStores, Storing, Unraced, OneUse, Using, Exists
<1>9. /\ StoredDrawn' /\ UsesMailed' /\ MailedLinksExpire' /\ OneUseUnlessRaced'
      /\ PasswordChosen' /\ VerifiedByOwner'
  BY <1>1 DEF IInv, StoredDrawn, UsesMailed, MailedLinksExpire, OneUseUnlessRaced,
              PasswordChosen, VerifiedByOwner, Exists
<1> QED
  BY <1>5, <1>7, <1>8, <1>9 DEF IInv

LEMMA FailStep ==
  ASSUME IInv, NEW r \in Reqs, Fail(r)
  PROVE  IInv'
<1>1. /\ req' = [req EXCEPT ![r] = Idle]
      /\ UNCHANGED <<rows, links, sessions, mailed, drawn, chosen, confirmed,
                     uses, reusable>>
  BY DEF Fail, Become
<1>2. req'[r] = Idle /\ \A q \in Reqs \ {r} : req'[q] = req[q]
  BY <1>1 DEF IInv, TypeOK
<1>3. TypeOK'
  BY <1>1 DEF IInv, TypeOK, Request, Idle, Steps
<1>4. Locals'
  BY <1>1, <1>2 DEF IInv, Locals, LocalsOK, Storing, Using, Idle, Asked
<1>5. OneStores' /\ Unraced'
  BY <1>1, <1>2 DEF IInv, OneStores, Storing, Unraced, OneUse, Using, Idle, Exists
<1>6. /\ StoredDrawn' /\ UsesMailed' /\ MailedLinksExpire' /\ OneUseUnlessRaced'
      /\ PasswordChosen' /\ VerifiedByOwner'
  BY <1>1 DEF IInv, StoredDrawn, UsesMailed, MailedLinksExpire, OneUseUnlessRaced,
              PasswordChosen, VerifiedByOwner, Exists
<1> QED
  BY <1>3, <1>4, <1>5, <1>6 DEF IInv

LEMMA LinkExpiresStep ==
  ASSUME IInv, NEW k \in Links, LinkExpires(k)
  PROVE  IInv'
<1>1. /\ links' = Del(links, k)
      /\ UNCHANGED <<rows, req, sessions, mailed, drawn, chosen, confirmed,
                     uses, reusable>>
  BY DEF LinkExpires
<1>2. /\ links' \in [Links -> Entries(LinkData)]
      /\ \A c \in Links : Exists(links', c) => links'[c] = links[c] /\ Exists(links, c)
  BY <1>1, DelEffect DEF IInv, TypeOK, Exists
<1>3. TypeOK' /\ Locals' /\ OneStores'
  BY <1>1, <1>2 DEF IInv, TypeOK, Locals, LocalsOK, OneStores, Storing, Using, Asked
<1>4. StoredDrawn' /\ MailedLinksExpire'
  BY <1>1, <1>2 DEF IInv, TypeOK, StoredDrawn, MailedLinksExpire
<1>5. UsesMailed' /\ OneUseUnlessRaced' /\ PasswordChosen' /\ VerifiedByOwner'
  BY <1>1 DEF IInv, UsesMailed, OneUseUnlessRaced, PasswordChosen, VerifiedByOwner
<1>6. Unraced'
  BY <1>1, <1>2 DEF IInv, Unraced, OneUse, Using
<1> QED
  BY <1>3, <1>4, <1>5, <1>6 DEF IInv

\* Sessions open and run out without anything else looking at them.
LEMMA SessionStep ==
  ASSUME IInv, sessions' \subseteq Emails,
         UNCHANGED <<rows, links, req, mailed, drawn, chosen, confirmed, uses, reusable>>
  PROVE  IInv'
  BY DEF IInv, TypeOK, Locals, LocalsOK, OneStores, Storing, Using, Asked,
         StoredDrawn, UsesMailed, PasswordChosen, VerifiedByOwner,
         MailedLinksExpire, Unraced, OneUse, OneUseUnlessRaced, Exists

LEMMA Invariant == Spec => []IInv
<1>1. ASSUME IInv, [Next]_vars PROVE IInv'
  <2>1. ASSUME NEW r \in Reqs, NEW e \in Emails, NEW p \in Passwords,
               Register(r, e, p) \/ Login(r, e, p) \/ LoginLegacy(r, e, p)
        PROVE  IInv'
    <3>1. CASE Login(r, e, p)
      BY <1>1, <3>1, SessionStep DEF Login, IInv, TypeOK
    <3> QED
      BY <1>1, <2>1, <3>1, RegisterStep, LegacyStep
  <2>2. ASSUME NEW r \in Reqs, NEW e \in Emails, LoginUnverified(r, e) \/ RequestReset(r, e)
        PROVE  IInv'
    BY <1>1, <2>2, MailAgainStep
  <2>3. ASSUME NEW r \in Reqs, NEW k \in mailed,
               Verify(r, k) \/ \E p \in Passwords : Reset(r, k, p)
        PROVE  IInv'
    BY <1>1, <2>3, VerifyStep, ResetStep
  <2>4. ASSUME NEW r \in Reqs,
               \/ StoreLink(r) \/ MailLink(r) \/ ReadLink(r) \/ DeleteLink(r)
               \/ VerifyAccount(r) \/ ResetPassword(r) \/ Rehash(r) \/ Fail(r)
        PROVE  IInv'
    BY <1>1, <2>4, StoreStep, MailStep, ReadStep, DeleteStep, VerifyAccountStep,
       NewPasswordStep, FailStep
  <2>5. ASSUME NEW k \in Links, LinkExpires(k) PROVE IInv'
    BY <1>1, <2>5, LinkExpiresStep
  <2>6. ASSUME NEW e \in Emails, SessionExpires(e) PROVE IInv'
    BY <1>1, <2>6, SessionStep DEF SessionExpires, IInv, TypeOK
  <2>7. CASE UNCHANGED vars
    BY <1>1, <2>7, SessionStep DEF vars, IInv, TypeOK
  <2> QED
    BY <1>1, <2>1, <2>2, <2>3, <2>4, <2>5, <2>6, <2>7 DEF Next
<1> QED
  BY InitInv, <1>1, PTL DEF Spec

-----------------------------------------------------------------------------
\* Rows, links and locals keep their shape, and no UPDATE misses its row.
THEOREM TypeCorrect == Spec => []TypeOK
<1>1. IInv => TypeOK
  BY DEF IInv
<1> QED
  BY Invariant, <1>1, PTL

\* An account has no password its owner did not ask for, however registrations,
\* resets and re-hashes interleave.
THEOREM OnlyChosenPasswords == Spec => []PasswordChosen
<1>1. IInv => PasswordChosen
  BY DEF IInv
<1> QED
  BY Invariant, <1>1, PTL

\* No account is verified without its owner having followed a link sent to verify it.
THEOREM OnlyOwnersVerify == Spec => []VerifiedByOwner
<1>1. IInv => VerifiedByOwner
  BY DEF IInv
<1> QED
  BY Invariant, <1>1, PTL

\* No link is mailed that stays in Redis for good.
THEOREM MailedLinksRunOut == Spec => []MailedLinksExpire
<1>1. IInv => MailedLinksExpire
  BY DEF IInv
<1> QED
  BY Invariant, <1>1, PTL

\* The gap between HGETALL and DEL, and a DEL that fails, are the only ways to
\* use a link twice.
THEOREM OneUseButForRaces == Spec => []OneUseUnlessRaced
<1>1. IInv => OneUseUnlessRaced
  BY DEF IInv
<1> QED
  BY Invariant, <1>1, PTL

=============================================================================
