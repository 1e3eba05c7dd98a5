-------------------------- MODULE AuthCodesProofs --------------------------
(***************************************************************************)
(* The safety properties of AuthCodes, for any number of users, clients,   *)
(* codes and concurrent requests.                                          *)
(***************************************************************************)
EXTENDS AuthCodes, TLAPS

Granted(c) == \E g \in grants : g.code = c

Storing(r) == req[r].pc \in {"hset", "expire"}
Redeeming(r) == req[r].pc \in {"del", "check"}

\* What the later steps of a handler rely on in its locals: a code that is
\* being stored is not out yet, one that was read is, and in both cases the
\* data is what was approved.
LocalsOK(r) ==
  /\ Storing(r) => /\ req[r].code \in Codes \ held
                   /\ req[r].data \in AuthData
                   /\ req[r].data = approved[req[r].code]
  /\ req[r].pc \in {"read", "del", "check"} =>
       req[r].code \in held /\ req[r].client \in Clients
  /\ Redeeming(r) => /\ req[r].data \in AuthData
                     /\ req[r].data = approved[req[r].code]

Locals == \A r \in Reqs : LocalsOK(r)

\* A code is stored by one request.
OneStores ==
  \A r, q \in Reqs : Storing(r) /\ Storing(q) /\ req[r].code = req[q].code => r = q

\* Redis holds what was approved, and nothing is out that was not approved.
StoredApproved ==
  /\ \A c \in Codes : Exists(codes, c) => codes[c].data = approved[c]
  /\ \A c \in held : approved[c] # Nil

GrantsHeld == \A g \in grants : g.code \in held

\* While nobody raced for a code and no DEL failed, at most one request has
\* read it, it is gone once that request deleted it, and stays so.
OneReads(c) ==
  /\ \A r, q \in Reqs :
       Redeeming(r) /\ Redeeming(q) /\ req[r].code = c /\ req[q].code = c => r = q
  /\ \A r \in Reqs : req[r].pc = "check" /\ req[r].code = c => ~Exists(codes, c)
  /\ Granted(c) => /\ ~Exists(codes, c)
                   /\ \A r \in Reqs : Redeeming(r) => req[r].code # c

Unraced == \A c \in Codes \ (raced \cup undeleted) : OneReads(c)

IInv ==
  /\ TypeOK /\ Locals /\ OneStores /\ StoredApproved /\ GrantsHeld
  /\ GrantsApproved /\ HeldCodesExpire /\ Unraced /\ SingleUseUnlessRaced

-----------------------------------------------------------------------------
LEMMA InitInv == Init => IInv
<1> SUFFICES ASSUME Init PROVE IInv
  OBVIOUS
<1>1. TypeOK
  BY BoundAssumption DEF Init, TypeOK, Entries, Missing, Request, Idle, Steps
<1>2. Locals /\ OneStores /\ GrantsHeld /\ GrantsApproved
  BY DEF Init, Locals, LocalsOK, OneStores, Storing, Redeeming, Idle,
         GrantsHeld, GrantsApproved
<1>3. StoredApproved /\ HeldCodesExpire /\ SingleUseUnlessRaced
  BY DEF Init, StoredApproved, HeldCodesExpire, SingleUseUnlessRaced, Exists, Missing
<1>4. Unraced
  BY DEF Init, Unraced, OneReads, Redeeming, Idle, Granted, Exists, Missing
<1> QED
  BY <1>1, <1>2, <1>3, <1>4 DEF IInv

\* What each command does to the keys, one key at a time.
LEMMA WriteEffect ==
  ASSUME codes \in [Codes -> Entries(AuthData)], NEW k \in Codes, NEW v \in AuthData
  PROVE  /\ Write(codes, k, v) \in [Codes -> Entries(AuthData)]
         /\ Write(codes, k, v)[k].data = v
         /\ \A c \in Codes \ {k} : Write(codes, k, v)[c] = codes[c]
  BY DEF Entries, Write

LEMMA ExpireEffect ==
  ASSUME codes \in [Codes -> Entries(AuthData)], NEW k \in Codes, NEW t \in Nat
  PROVE  /\ Expire(codes, k, t) \in [Codes -> Entries(AuthData)]
         /\ \A c \in Codes : Expire(codes, k, t)[c].data = codes[c].data
         /\ Exists(codes, k) => Expire(codes, k, t)[k].deadline = t
         /\ \A c \in Codes \ {k} : Expire(codes, k, t)[c] = codes[c]
  BY DEF Entries, Expire, Exists

LEMMA DelEffect ==
  ASSUME codes \in [Codes -> Entries(AuthData)], NEW k \in Codes
  PROVE  /\ Del(codes, k) \in [Codes -> Entries(AuthData)]
         /\ ~Exists(Del(codes, k), k)
         /\ \A c \in Codes \ {k} : Del(codes, k)[c] = codes[c]
  BY DEF Entries, Del, Exists, Missing

LEMMA EvictEffect ==
  ASSUME codes \in [Codes -> Entries(AuthData)], NEW t \in Nat
  PROVE  /\ Evict(codes, t) \in [Codes -> Entries(AuthData)]
         /\ \A c \in Codes :
              \/ Evict(codes, t)[c] = codes[c] /\ codes[c].deadline \notin 1..t
              \/ Evict(codes, t)[c] = Missing
  BY DEF Entries, Evict, Missing

-----------------------------------------------------------------------------
LEMMA AuthorizeStep ==
  ASSUME IInv, NEW r \in Reqs, NEW u \in Users, NEW cl \in Clients,
         NEW ch \in Verifiers, Authorize(r, u, cl, ch)
  PROVE  IInv'
<1> DEFINE d == [user |-> u, client |-> cl,
                 challenge |-> IF cl \in Public THEN ch ELSE Nil]
<1>1. PICK c \in Codes :
        /\ approved[c] = Nil
        /\ req' = [req EXCEPT ![r] = [Idle EXCEPT !.pc = "hset", !.code = c, !.data = d]]
        /\ approved' = [approved EXCEPT ![c] = d]
  BY DEF Authorize, Become
<1>2. d \in AuthData /\ d # Nil
  BY NilAssumption DEF AuthData
<1>3. UNCHANGED <<now, codes, held, grants, again, raced, undeleted>>
  BY DEF Authorize
<1> HIDE DEF d
<1>4. TypeOK'
  BY <1>1, <1>2, <1>3 DEF IInv, TypeOK, Request, Idle, Steps
<1>5. c \notin held /\ ~Exists(codes, c)
  BY <1>1, NilAssumption DEF IInv, StoredApproved, TypeOK, Entries, Exists
<1>6. \A q \in Reqs : Storing(q) \/ Redeeming(q) => req[q].code # c
  BY <1>1, <1>5, NilAssumption DEF IInv, Locals, LocalsOK, Storing, Redeeming
<1>7. Locals'
  BY <1>1, <1>2, <1>3, <1>5, <1>6
     DEF IInv, TypeOK, Locals, LocalsOK, Storing, Redeeming, Idle
<1>8. OneStores'
  BY <1>1, <1>6 DEF IInv, TypeOK, OneStores, Storing, Idle
<1>9. StoredApproved' /\ GrantsHeld'
  BY <1>1, <1>2, <1>3, <1>5 DEF IInv, TypeOK, StoredApproved, GrantsHeld, Exists
<1>10. GrantsApproved'
  BY <1>1, <1>3, <1>5 DEF IInv, TypeOK, GrantsApproved, GrantsHeld
<1>11. HeldCodesExpire' /\ SingleUseUnlessRaced'
  BY <1>3 DEF IInv, HeldCodesExpire, SingleUseUnlessRaced, Exists
<1>12. Unraced'
  BY <1>1, <1>3 DEF IInv, TypeOK, Unraced, OneReads, Redeeming, Granted, Exists, Idle
<1> QED
  BY <1>4, <1>7, <1>8, <1>9, <1>10, <1>11, <1>12 DEF IInv

LEMMA StoreStep ==
  ASSUME IInv, NEW r \in Reqs, StoreCode(r)
  PROVE  IInv'
<1> DEFINE k == req[r].code
           d == req[r].data
<1>1. /\ req[r].pc = "hset" /\ codes' = Write(codes, k, d)
      /\ req' = [req EXCEPT ![r] = [req[r] EXCEPT !.pc = "expire"]]
      /\ UNCHANGED <<now, held, approved, grants, again, raced, undeleted>>
  BY DEF StoreCode, Become
<1>2. k \in Codes \ held /\ d \in AuthData /\ d = approved[k]
  BY <1>1 DEF IInv, Locals, LocalsOK, Storing
<1>3. /\ codes' \in [Codes -> Entries(AuthData)]
      /\ codes'[k].data = d
      /\ \A c \in Codes \ {k} : codes'[c] = codes[c]
  BY <1>1, <1>2, WriteEffect DEF IInv, TypeOK
<1>4. req[r] \in Request
  BY DEF IInv, TypeOK
<1> HIDE DEF k, d
<1>5. TypeOK'
  BY <1>1, <1>3, <1>4 DEF IInv, TypeOK, Request, Steps
<1>6. Locals'
  BY <1>1, <1>2, <1>4 DEF IInv, TypeOK, Locals, LocalsOK, Storing, Redeeming, Request, k, d
<1>7. OneStores'
  BY <1>1, <1>4 DEF IInv, TypeOK, OneStores, Storing, Request
<1>8. StoredApproved' /\ GrantsHeld' /\ GrantsApproved' /\ SingleUseUnlessRaced'
  BY <1>1, <1>2, <1>3 DEF IInv, StoredApproved, GrantsHeld, GrantsApproved,
                          SingleUseUnlessRaced, Exists
<1>9. HeldCodesExpire'
  BY <1>1, <1>2, <1>3 DEF IInv, TypeOK, HeldCodesExpire, Exists
<1>10. ASSUME NEW c \in Codes \ (raced \cup undeleted)
       PROVE  OneReads(c)'
  <2>1. OneReads(c)
    BY DEF IInv, Unraced
  <2>2. \A q \in Reqs : /\ Redeeming(q)' <=> Redeeming(q)
                        /\ Redeeming(q) => req'[q] = req[q] /\ q # r
    BY <1>1, <1>4 DEF IInv, TypeOK, Redeeming, Request
  <2>3. CASE c = k
    <3>1. ~Granted(c) /\ \A q \in Reqs : Redeeming(q) => req[q].code # c
      BY <1>2, <2>3 DEF IInv, GrantsHeld, Granted, Locals, LocalsOK, Redeeming
    <3> QED
      BY <1>1, <2>1, <2>2, <3>1 DEF OneReads, Granted, Redeeming
  <2>4. CASE c # k
    BY <1>1, <1>3, <2>1, <2>2, <2>4 DEF OneReads, Granted, Exists, Redeeming
  <2> QED
    BY <2>3, <2>4
<1>11. Unraced'
  BY <1>1, <1>10 DEF Unraced
<1> QED
  BY <1>5, <1>6, <1>7, <1>8, <1>9, <1>11 DEF IInv

LEMMA ExpireStep ==
  ASSUME IInv, NEW r \in Reqs, ExpireCode(r)
  PROVE  IInv'
<1> DEFINE k == req[r].code
<1>1. /\ req[r].pc = "expire" /\ codes' = Expire(codes, k, now + CodeTTL)
      /\ held' \in {held, held \cup {k}}
      /\ req' = [req EXCEPT ![r] = Idle]
      /\ UNCHANGED <<now, approved, grants, again, raced, undeleted>>
  BY DEF ExpireCode, Become
<1>2. k \in Codes \ held /\ approved[k] # Nil
  BY <1>1, NilAssumption DEF IInv, Locals, LocalsOK, Storing
<1>3. now + CodeTTL \in Nat /\ now + CodeTTL \in (now + 1)..(now + CodeTTL)
  BY BoundAssumption DEF IInv, TypeOK
<1>4. /\ codes' \in [Codes -> Entries(AuthData)]
      /\ \A c \in Codes : codes'[c].data = codes[c].data
      /\ Exists(codes, k) => codes'[k].deadline = now + CodeTTL
      /\ \A c \in Codes \ {k} : codes'[c] = codes[c]
  BY <1>1, <1>2, <1>3, ExpireEffect DEF IInv, TypeOK
<1>5. \A q \in Reqs \ {r} : Storing(q) => req[q].code # k
  BY <1>1 DEF IInv, OneStores, Storing, k
<1> HIDE DEF k
<1>6. TypeOK'
  BY <1>1, <1>2, <1>4 DEF IInv, TypeOK, Request, Idle, Steps
<1>7. Locals'
  BY <1>1, <1>5 DEF IInv, TypeOK, Locals, LocalsOK, Storing, Redeeming, Idle
<1>8. OneStores'
  BY <1>1 DEF IInv, TypeOK, OneStores, Storing, Idle
<1>9. StoredApproved' /\ GrantsHeld' /\ GrantsApproved' /\ SingleUseUnlessRaced'
  BY <1>1, <1>2, <1>4 DEF IInv, StoredApproved, GrantsHeld, GrantsApproved,
                          SingleUseUnlessRaced, Exists
<1>10. HeldCodesExpire'
  BY <1>1, <1>2, <1>3, <1>4 DEF IInv, TypeOK, HeldCodesExpire, Exists
<1>11. Unraced'
  BY <1>1, <1>4 DEF IInv, TypeOK, Unraced, OneReads, Redeeming, Granted, Exists, Idle
<1> QED
  BY <1>6, <1>7, <1>8, <1>9, <1>10, <1>11 DEF IInv

LEMMA TokenStep ==
  ASSUME IInv, NEW r \in Reqs, NEW c \in held, NEW cl \in Clients,
         NEW v \in Verifiers, Token(r, c, cl, v)
  PROVE  IInv'
<1>1. /\ req[r].pc = "idle"
      /\ req' = [req EXCEPT ![r] =
                   [Idle EXCEPT !.pc = "read", !.code = c, !.client = cl,
                                !.verifier = IF cl \in Public THEN v ELSE Nil]]
      /\ UNCHANGED <<now, codes, held, approved, grants, again, raced, undeleted>>
  BY DEF Token, Become
<1>2. c \in Codes
  BY DEF IInv, TypeOK
<1>3. TypeOK'
  BY <1>1, <1>2 DEF IInv, TypeOK, Request, Idle, Steps
<1>4. Locals'
  BY <1>1 DEF IInv, TypeOK, Locals, LocalsOK, Storing, Redeeming, Idle
<1>5. OneStores'
  BY <1>1 DEF IInv, TypeOK, OneStores, Storing, Idle
<1>6. /\ StoredApproved' /\ GrantsHeld' /\ GrantsApproved'
      /\ HeldCodesExpire' /\ SingleUseUnlessRaced'
  BY <1>1 DEF IInv, StoredApproved, GrantsHeld, GrantsApproved, HeldCodesExpire,
              SingleUseUnlessRaced, Exists
<1>7. Unraced'
  BY <1>1 DEF IInv, TypeOK, Unraced, OneReads, Redeeming, Granted, Exists, Idle
<1> QED
  BY <1>3, <1>4, <1>5, <1>6, <1>7 DEF IInv

LEMMA ReadStep ==
  ASSUME IInv, NEW r \in Reqs, ReadCode(r)
  PROVE  IInv'
<1> DEFINE k == req[r].code
           d == codes[k].data
<1>1. /\ req[r].pc = "read" /\ Exists(codes, k)
      /\ req' = [req EXCEPT ![r] = [req[r] EXCEPT !.pc = "del", !.data = d]]
      /\ raced' = IF Reads(k) = {} THEN raced ELSE raced \cup {k}
      /\ UNCHANGED <<now, codes, held, approved, grants, again, undeleted>>
  BY DEF ReadCode, Become
<1>2. k \in held /\ k \in Codes /\ req[r].client \in Clients /\ req[r] \in Request
  BY <1>1 DEF IInv, TypeOK, Locals, LocalsOK
<1>3. d \in AuthData /\ d = approved[k]
  BY <1>1, <1>2 DEF IInv, TypeOK, StoredApproved, Exists, Entries
<1> HIDE DEF k, d
<1>4. TypeOK'
  BY <1>1, <1>2, <1>3, NilAssumption DEF IInv, TypeOK, Request, Steps
<1>5. Locals'
  BY <1>1, <1>2, <1>3 DEF IInv, TypeOK, Locals, LocalsOK, Storing, Redeeming, Request, k
<1>6. OneStores'
  BY <1>1, <1>2 DEF IInv, TypeOK, OneStores, Storing, Request
<1>7. /\ StoredApproved' /\ GrantsHeld' /\ GrantsApproved'
      /\ HeldCodesExpire' /\ SingleUseUnlessRaced'
  BY <1>1 DEF IInv, StoredApproved, GrantsHeld, GrantsApproved, HeldCodesExpire,
              SingleUseUnlessRaced, Exists
<1>8. ASSUME NEW c \in Codes \ (raced' \cup undeleted')
      PROVE  OneReads(c)'
  <2>1. OneReads(c)
    BY <1>1 DEF IInv, Unraced
  <2>2. CASE c = k
    <3>1. \A q \in Reqs : Redeeming(q) => req[q].code # k
      BY <1>1, <2>1, <2>2 DEF OneReads, Reads, Redeeming
    <3> QED
      BY <1>1, <1>2, <2>1, <2>2, <3>1
         DEF IInv, TypeOK, OneReads, Granted, Redeeming, Request
  <2>3. CASE c # k
    BY <1>1, <1>2, <2>1, <2>3
       DEF IInv, TypeOK, OneReads, Granted, Redeeming, Request, Exists, k
  <2> QED
    BY <2>2, <2>3
<1>9. Unraced'
  BY <1>8 DEF Unraced
<1> QED
  BY <1>4, <1>5, <1>6, <1>7, <1>9 DEF IInv

LEMMA DeleteStep ==
  ASSUME IInv, NEW r \in Reqs, DeleteCode(r)
  PROVE  IInv'
<1> DEFINE k == req[r].code
<1>1. /\ req[r].pc = "del"
      /\ \/ codes' = Del(codes, k) /\ undeleted' = undeleted
         \/ undeleted' = undeleted \cup {k} /\ codes' = codes
      /\ req' = [req EXCEPT ![r] = [req[r] EXCEPT !.pc = "check"]]
      /\ UNCHANGED <<now, held, approved, grants, again, raced>>
  BY DEF DeleteCode, Become
<1>2. k \in Codes /\ req[r] \in Request
  BY <1>1 DEF IInv, TypeOK, Locals, LocalsOK
<1>3. /\ codes' \in [Codes -> Entries(AuthData)]
      /\ \A c \in Codes \ {k} : codes'[c] = codes[c]
      /\ Exists(codes', k) => codes'[k] = codes[k] /\ k \in undeleted'
  BY <1>1, <1>2, DelEffect DEF IInv, TypeOK
<1>4. \A c \in Codes : Exists(codes', c) => codes'[c] = codes[c] /\ Exists(codes, c)
  BY <1>3 DEF Exists
<1> HIDE DEF k
<1>5. TypeOK'
  BY <1>1, <1>2, <1>3 DEF IInv, TypeOK, Request, Steps
<1>6. Locals'
  BY <1>1, <1>2 DEF IInv, TypeOK, Locals, LocalsOK, Storing, Redeeming, Request
<1>7. OneStores'
  BY <1>1, <1>2 DEF IInv, TypeOK, OneStores, Storing, Request
<1>8. StoredApproved' /\ GrantsHeld' /\ GrantsApproved' /\ SingleUseUnlessRaced'
  BY <1>1, <1>4 DEF IInv, TypeOK, StoredApproved, GrantsHeld, GrantsApproved,
                    SingleUseUnlessRaced, Exists
<1>9. HeldCodesExpire'
  BY <1>1, <1>4 DEF IInv, TypeOK, HeldCodesExpire, Exists
<1>10. ASSUME NEW c \in Codes \ (raced' \cup undeleted')
       PROVE  OneReads(c)'
  <2>1. OneReads(c) /\ (Exists(codes', c) => Exists(codes, c))
    BY <1>1, <1>4 DEF IInv, Unraced
  <2>2. c = k => ~Exists(codes', c)
    BY <1>3
  <2> QED
    BY <1>1, <1>2, <2>1, <2>2
       DEF IInv, TypeOK, OneReads, Granted, Redeeming, Request, Exists, k
<1>11. Unraced'
  BY <1>10 DEF Unraced
<1> QED
  BY <1>5, <1>6, <1>7, <1>8, <1>9, <1>11 DEF IInv

LEMMA GrantStep ==
  ASSUME IInv, NEW r \in Reqs, Grant(r)
  PROVE  IInv'
<1> DEFINE k == req[r].code
           g == [code |-> k, user |-> req[r].data.user,
                 aud |-> req[r].client, verifier |-> req[r].verifier]
<1>1. /\ req[r].pc = "check" /\ Matches(req[r])
      /\ grants' = grants \cup {g}
      /\ again' = IF Granted(k) THEN again \cup {k} ELSE again
      /\ req' = [req EXCEPT ![r] = Idle]
      /\ UNCHANGED <<now, codes, held, approved, raced, undeleted>>
  BY DEF Grant, Become, Granted
<1>2. /\ k \in held /\ k \in Codes /\ req[r].client \in Clients /\ req[r] \in Request
      /\ req[r].data \in AuthData /\ req[r].data = approved[k]
  BY <1>1 DEF IInv, TypeOK, Locals, LocalsOK, Redeeming
<1>3. g \in Grants
  BY <1>2 DEF Grants, Request, AuthData
<1>4. /\ approved[g.code] # Nil
      /\ g.user = approved[g.code].user /\ g.aud = approved[g.code].client
      /\ approved[g.code].client \in Public =>
           g.verifier = approved[g.code].challenge
  BY <1>1, <1>2, NilAssumption DEF Matches
<1>5. Granted(k) => k \in raced \cup undeleted
  BY <1>1, <1>2 DEF IInv, Unraced, OneReads, Redeeming
<1>6. g.code = k
  OBVIOUS
<1> HIDE DEF k, g
<1>7. TypeOK'
  BY <1>1, <1>2, <1>3 DEF IInv, TypeOK, Request, Idle, Steps
<1>8. Locals' /\ OneStores'
  BY <1>1 DEF IInv, TypeOK, Locals, LocalsOK, OneStores, Storing, Redeeming, Idle
<1>9. StoredApproved' /\ GrantsHeld' /\ HeldCodesExpire'
  BY <1>1, <1>2, <1>6 DEF IInv, StoredApproved, GrantsHeld, HeldCodesExpire, Exists
<1>10. GrantsApproved'
  BY <1>1, <1>4 DEF IInv, GrantsApproved
<1>11. SingleUseUnlessRaced'
  BY <1>1, <1>5 DEF IInv, SingleUseUnlessRaced
<1>12. ASSUME NEW c \in Codes \ (raced \cup undeleted)
       PROVE  OneReads(c)'
  <2>1. OneReads(c)
    BY DEF IInv, Unraced
  <2>2. CASE c = k
    <3>1. ~Exists(codes, c) /\ \A q \in Reqs \ {r} : Redeeming(q) => req[q].code # c
      BY <1>1, <2>1, <2>2 DEF OneReads, Redeeming, k
    <3> QED
      BY <1>1, <2>1, <3>1 DEF IInv, TypeOK, OneReads, Redeeming, Idle, Exists
  <2>3. CASE c # k
    <3>1. Granted(c)' => Granted(c)
      BY <1>1, <1>6, <2>3 DEF Granted
    <3> QED
      BY <1>1, <2>1, <3>1 DEF IInv, TypeOK, OneReads, Redeeming, Idle, Exists
  <2> QED
    BY <2>2, <2>3
<1>13. Unraced'
  BY <1>1, <1>12 DEF Unraced
<1> QED
  BY <1>7, <1>8, <1>9, <1>10, <1>11, <1>13 DEF IInv

LEMMA FailStep ==
  ASSUME IInv, NEW r \in Reqs, Fail(r)
  PROVE  IInv'
<1>1. /\ req' = [req EXCEPT ![r] = Idle]
      /\ UNCHANGED <<now, codes, held, approved, grants, again, raced, undeleted>>
  BY DEF Fail, Become
<1>2. TypeOK'
  BY <1>1 DEF IInv, TypeOK, Request, Idle, Steps
<1>3. Locals' /\ OneStores'
  BY <1>1 DEF IInv, TypeOK, Locals, LocalsOK, OneStores, Storing, Redeeming, Idle
<1>4. /\ StoredApproved' /\ GrantsHeld' /\ GrantsApproved'
      /\ HeldCodesExpire' /\ SingleUseUnlessRaced'
  BY <1>1 DEF IInv, StoredApproved, GrantsHeld, GrantsApproved, HeldCodesExpire,
              SingleUseUnlessRaced, Exists
<1>5. Unraced'
  BY <1>1 DEF IInv, TypeOK, Unraced, OneReads, Redeeming, Granted, Exists, Idle
<1> QED
  BY <1>2, <1>3, <1>4, <1>5 DEF IInv

LEMMA TickStep ==
  ASSUME IInv, Tick
  PROVE  IInv'
<1>1. /\ now' = now + 1 /\ now' \in Nat /\ codes' = Evict(codes, now')
      /\ UNCHANGED <<req, held, approved, grants, again, raced, undeleted>>
  BY DEF Tick, IInv, TypeOK
<1>2. /\ codes' \in [Codes -> Entries(AuthData)]
      /\ \A c \in Codes : Exists(codes', c) =>
           codes'[c] = codes[c] /\ Exists(codes, c) /\ codes[c].deadline \notin 1..now'
  BY <1>1, EvictEffect DEF IInv, TypeOK, Exists, Missing
<1>3. TypeOK'
  BY <1>1, <1>2 DEF IInv, TypeOK
<1>4. Locals' /\ OneStores'
  BY <1>1 DEF IInv, Locals, LocalsOK, OneStores, Storing, Redeeming
<1>5. StoredApproved' /\ GrantsHeld' /\ GrantsApproved' /\ SingleUseUnlessRaced'
  BY <1>1, <1>2 DEF IInv, TypeOK, StoredApproved, GrantsHeld, GrantsApproved,
                    SingleUseUnlessRaced, Exists
<1>6. HeldCodesExpire'
  <2> SUFFICES ASSUME NEW c \in held, Exists(codes', c)
               PROVE  codes'[c].deadline \in (now' + 1)..(now' + CodeTTL)
    BY <1>1 DEF HeldCodesExpire
  <2>1. /\ c \in Codes /\ codes'[c].deadline \in (now + 1)..(now + CodeTTL)
        /\ codes'[c].deadline \notin 1..(now + 1)
    BY <1>1, <1>2 DEF IInv, TypeOK, HeldCodesExpire
  <2> QED
    BY <1>1, <2>1, BoundAssumption DEF IInv, TypeOK
<1>7. Unraced'
  BY <1>1, <1>2 DEF IInv, Unraced, OneReads, Redeeming, Granted
<1> QED
  BY <1>3, <1>4, <1>5, <1>6, <1>7 DEF IInv

LEMMA StutterStep ==
  ASSUME IInv, UNCHANGED vars
  PROVE  IInv'
  BY DEF IInv, vars, TypeOK, Locals, LocalsOK, OneStores, Storing, Redeeming,
         StoredApproved, GrantsHeld, GrantsApproved, HeldCodesExpire, Unraced,
         OneReads, Granted, SingleUseUnlessRaced, Exists

LEMMA InvStep == IInv /\ [Next]_vars => IInv'
BY AuthorizeStep, StoreStep, ExpireStep, TokenStep, ReadStep, DeleteStep,
   GrantStep, FailStep, TickStep, StutterStep DEF Next

LEMMA Invariant == Spec => []IInv
BY InitInv, InvStep, PTL DEF Spec

-----------------------------------------------------------------------------
\* What is stored, read and handed on always has the shape the handlers take
\* it for.
THEOREM TypeCorrect == Spec => []TypeOK
<1>1. IInv => TypeOK
  BY DEF IInv
<1> QED
  BY Invariant, <1>1, PTL

\* Tokens only go to the client, for the user, and against the challenge that
\* were approved, whoever presents the code and however requests interleave.
THEOREM OnlyApprovedGrants == Spec => []GrantsApproved
<1>1. IInv => GrantsApproved
  BY DEF IInv
<1> QED
  BY Invariant, <1>1, PTL

\* No code that an app holds stays in Redis for more than the 60 seconds.
THEOREM HeldCodesRunOut == Spec => []HeldCodesExpire
<1>1. IInv => HeldCodesExpire
  BY DEF IInv
<1> QED
  BY Invariant, <1>1, PTL

\* The gap between HGETALL and DEL, and a DEL that fails, are the only ways to
\* get tokens twice for a code.
THEOREM SingleUseButForRaces == Spec => []SingleUseUnlessRaced
<1>1. IInv => SingleUseUnlessRaced
  BY DEF IInv
<1> QED
  BY Invariant, <1>1, PTL

=============================================================================
