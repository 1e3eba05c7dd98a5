--------------------------- MODULE SessionsProofs ---------------------------
(* Proofs about Sessions, for any users, clients, ids, requests and times. *)
EXTENDS SessionsInv, TLAPS

-----------------------------------------------------------------------------
(* What the pipelines do to the keyspace.                                  *)

\* HSET or ZADD, then EXPIRE, of one key: a fresh entry whatever was there.
LEMMA WriteExpire ==
  ASSUME NEW db, NEW k \in DOMAIN db, NEW v, v # Nil, NEW d
  PROVE  Expire(Write(db, k, v), k, d)
           = [db EXCEPT ![k] = [data |-> v, deadline |-> d]]
<1> DEFINE mid == Write(db, k, v)
<1>1. mid = [db EXCEPT ![k] = [data |-> v, deadline |-> db[k].deadline]]
  BY DEF Write
<1>2. mid[k].data = v
  BY <1>1
<1>3. Expire(mid, k, d) = [mid EXCEPT ![k] = [data |-> v, deadline |-> d]]
  BY <1>2 DEF Expire, Exists
<1> QED BY <1>1, <1>3

\* InsertSession's first half leaves one entry: the client, for SessionTTL.
LEMMA StoreSessionEffect ==
  ASSUME TypeOK, NEW t \in Token, NEW c \in Clients
  PROVE  /\ SessionKey(t) \in HashKeys
         /\ StoreSession(hashes, t, c)
              = [hashes EXCEPT ![SessionKey(t)] =
                          [data |-> c, deadline |-> now + SessionTTL]]
<1>1. SessionKey(t) \in HashKeys
  BY DEF SessionKey, HashKeys, Token
<1>2. c # Nil
  BY NilAssumption
<1>3. SessionKey(t) \in DOMAIN hashes
  BY <1>1 DEF TypeOK
<1> QED BY <1>1, <1>2, <1>3, WriteExpire DEF StoreSession

\* The scores of a user's index: all zero where there is no index.
Scores(k) == IF Exists(zsets, k) THEN zsets[k].data ELSE EmptyZset

\* Those scores once InsertSession has added t and trimmed the index.
Trimmed(t, stamp) ==
  [s \in Sids |->
     LET score == IF s = t.sid THEN stamp + SessionTTL ELSE Scores(IndexKey(t))[s]
     IN  IF score <= stamp THEN 0 ELSE score]

\* The second half leaves one entry too: the scores, for SessionTTL.
LEMMA IndexSessionEffect ==
  ASSUME TypeOK, NEW t \in Token, NEW stamp \in Nat
  PROVE  /\ IndexKey(t) \in ZsetKeys
         /\ Trimmed(t, stamp) \in [Sids -> Nat]
         /\ IndexSession(zsets, t, stamp)
              = [zsets EXCEPT ![IndexKey(t)] =
                   [data |-> Trimmed(t, stamp), deadline |-> now + SessionTTL]]
<1>1. IndexKey(t) \in ZsetKeys
  BY DEF IndexKey, ZsetKeys, Token
<1>2. Scores(IndexKey(t)) \in [Sids -> Nat]
  BY <1>1 DEF Scores, Exists, EmptyZset, TypeOK, Entries
<1>3. Trimmed(t, stamp) \in [Sids -> Nat]
  BY <1>2, TTLAssumption DEF Trimmed
<1>4. Trimmed(t, stamp) # Nil
  BY <1>3, NilAssumption
<1>5. \A s \in Sids : [Scores(IndexKey(t)) EXCEPT ![t.sid] = stamp + SessionTTL][s]
                        = IF s = t.sid THEN stamp + SessionTTL
                                       ELSE Scores(IndexKey(t))[s]
  BY <1>2
<1>6. IndexSession(zsets, t, stamp)
        = Expire(Write(zsets, IndexKey(t), Trimmed(t, stamp)),
                 IndexKey(t), now + SessionTTL)
  BY <1>5 DEF IndexSession, Trimmed, Scores
<1>7. IndexKey(t) \in DOMAIN zsets
  BY <1>1 DEF TypeOK
<1> QED BY <1>1, <1>3, <1>4, <1>6, <1>7, WriteExpire

\* ExtendSession moves the deadline of a session that is there.
LEMMA ExtendHashEffect ==
  ASSUME TypeOK, NEW t \in Token
  PROVE  /\ SessionKey(t) \in HashKeys
         /\ \/ ~HasSession(t) /\ ExtendHash(hashes, t) = hashes
            \/ /\ HasSession(t)
               /\ ExtendHash(hashes, t)
                    = [hashes EXCEPT ![SessionKey(t)] =
                         [data |-> hashes[SessionKey(t)].data,
                          deadline |-> now + SessionTTL]]
<1>1. SessionKey(t) \in HashKeys
  BY DEF SessionKey, HashKeys, Token
<1> QED BY <1>1 DEF ExtendHash, Expire, HasSession, TypeOK

\* Its second command leaves every index that InsertSession writes as it is.
LEMMA ExtendIndexEffect ==
  ASSUME TypeOK, NEW t \in Token
  PROVE  /\ ExtendIndex(zsets, t) \in [ZsetKeys -> Entries([Sids -> Nat])]
         /\ \A u \in Users : ExtendIndex(zsets, t)[<<"user:sessions:v2", u>>]
                               = zsets[<<"user:sessions:v2", u>>]
<1>1. OldIndexKey(t) \in ZsetKeys
  BY DEF OldIndexKey, ZsetKeys, Token
<1>2. zsets[OldIndexKey(t)].data \in [Sids -> Nat] \cup {Nil}
  BY <1>1 DEF TypeOK, Entries
<1>3. now + SessionTTL \in Nat
  BY TTLAssumption DEF TypeOK
<1>4. ExtendIndex(zsets, t) = zsets
        \/ ExtendIndex(zsets, t) = [zsets EXCEPT ![OldIndexKey(t)] =
              [data |-> zsets[OldIndexKey(t)].data, deadline |-> now + SessionTTL]]
  BY DEF ExtendIndex, Expire
<1>5. \A u \in Users : /\ <<"user:sessions:v2", u>> # OldIndexKey(t)
                         /\ <<"user:sessions:v2", u>> \in ZsetKeys
  BY DEF OldIndexKey, ZsetKeys
<1>6. [data |-> zsets[OldIndexKey(t)].data, deadline |-> now + SessionTTL]
        \in Entries([Sids -> Nat])
  BY <1>2, <1>3 DEF Entries
<1>7. zsets \in [ZsetKeys -> Entries([Sids -> Nat])]
  BY DEF TypeOK
<1>8. ExtendIndex(zsets, t) \in [ZsetKeys -> Entries([Sids -> Nat])]
  BY <1>1, <1>4, <1>6, <1>7
<1> QED BY <1>4, <1>5, <1>7, <1>8

\* A DEL of a bare session id leaves every session as it is.
LEMMA DeleteTokenEffect ==
  ASSUME TypeOK, NEW t \in Token
  PROVE  /\ DeleteToken(hashes, t) \in [HashKeys -> Entries(Clients)]
         /\ \A u \in Users, s \in Sids :
              DeleteToken(hashes, t)[<<"session", u, s>>] = hashes[<<"session", u, s>>]
<1>1. \A u \in Users, s \in Sids : /\ <<"session", u, s>> # BareKey(t)
                                    /\ <<"session", u, s>> \in HashKeys
  BY DEF BareKey, HashKeys
<1>2. Missing \in Entries(Clients)
  BY DEF Missing, Entries
<1>3. hashes \in [HashKeys -> Entries(Clients)]
  BY DEF TypeOK
<1>4. DeleteToken(hashes, t) = [hashes EXCEPT ![BareKey(t)] = Missing]
  BY DEF DeleteToken, Del
<1> QED BY <1>1, <1>2, <1>3, <1>4

\* The server drops entries, and changes none.
LEMMA EvictEffect ==
  ASSUME NEW K, NEW D, NEW db \in [K -> Entries(D)], NEW d \in Nat
  PROVE  /\ Evict(db, d) \in [K -> Entries(D)]
         /\ \A k \in K : \/ db[k].deadline <= d /\ ~Exists(Evict(db, d), k)
                         \/ Evict(db, d)[k] = db[k]
BY DEF Evict, Entries, Missing, Exists

-----------------------------------------------------------------------------
(* Type correctness. *)

\* A request that gets well-shaped locals keeps the requests well shaped.
LEMMA BecomeShape ==
  ASSUME TypeInv, NEW r \in Reqs, NEW loc \in Request, Shape(loc), Become(r, loc)
  PROVE  /\ req' \in [Reqs -> Request] /\ LocalsOK'
         /\ req'[r] = loc
         /\ \A q \in Reqs \ {r} : req'[q] = req[q]
<1>1. req \in [Reqs -> Request] /\ LocalsOK
  BY DEF TypeInv, TypeOK
<1>2. req' = [req EXCEPT ![r] = loc]
  BY DEF Become
<1>3. \A q \in Reqs : req'[q] = IF q = r THEN loc ELSE req[q]
  BY <1>1, <1>2
<1>4. \A q \in Reqs : Shape(req'[q])
  BY <1>1, <1>3 DEF LocalsOK
<1>5. LocalsOK'
  BY <1>4 DEF LocalsOK, Shape, Token
<1> QED BY <1>1, <1>2, <1>3, <1>5

LEMMA IdleShape == Idle \in Request /\ Shape(Idle)
BY DEF Idle, Request, Steps, Shape

\* Sending a response ends a request.
LEMMA RespondShape ==
  ASSUME TypeInv, NEW r \in Reqs, NEW toks \in SUBSET Token, Respond(r, toks)
  PROVE  /\ req' \in [Reqs -> Request] /\ LocalsOK'
         /\ issued' \subseteq Token /\ issued' \subseteq issued \cup toks
         /\ req'[r] = Idle
         /\ \A q \in Reqs \ {r} : req'[q] = req[q]
<1>1. issued \subseteq Token
  BY DEF TypeInv, TypeOK
<1>2. issued' \in {issued, issued \cup toks} /\ Become(r, Idle)
  BY DEF Respond
<1> QED BY <1>1, <1>2, IdleShape, BecomeShape

LEMMA SignType ==
  ASSUME TypeOK, NEW typ \in {"access", "refresh"}, NEW u \in Users,
         NEW s \in Sids, NEW c \in Clients, NEW i \in Infos
  PROVE  /\ Sign(typ, u, s, c, i) \in Token
         /\ Sign(typ, u, s, c, i) = [typ |-> typ, uid |-> u, sid |-> s, aud |-> c,
                                     info |-> i, iat |-> now]
BY DEF Sign, Token, TypeOK

LEMMA TypeInit == Init => TypeInv
<1> SUFFICES ASSUME Init PROVE TypeInv
  OBVIOUS
<1>1. hashes \in [HashKeys -> Entries(Clients)]
  BY DEF Init, Entries, Missing
<1>2. zsets \in [ZsetKeys -> Entries([Sids -> Nat])]
  BY DEF Init, Entries, Missing
<1> QED BY <1>1, <1>2, IdleShape DEF Init, TypeInv, TypeOK, LocalsOK

LEMMA TypeStep == TypeInv /\ [Next]_vars => TypeInv'
<1> SUFFICES ASSUME TypeInv, [Next]_vars PROVE TypeInv'
  OBVIOUS
<1> USE DEF TypeInv
<1>1. ASSUME NEW r \in Reqs, NEW u \in Users, NEW c \in Clients,
             IssuePair(r, u, c, c)
      PROVE  TypeInv'
  <2>1. PICK s \in Sids \ used :
          /\ Become(r, [Idle EXCEPT !.pc = "locate", !.client = c,
                                    !.new = Sign("refresh", u, s, c, profile[u])])
          /\ used' = used \cup {s}
    BY <1>1 DEF IssuePair
  <2> DEFINE t == Sign("refresh", u, s, c, profile[u])
             loc == [Idle EXCEPT !.pc = "locate", !.client = c, !.new = t]
  <2>2. t \in Token /\ t.typ = "refresh"
    <3>1. profile[u] \in Infos
      BY DEF TypeOK
    <3> QED BY <3>1, SignType
  <2> HIDE DEF t
  <2>3. loc \in Request /\ Shape(loc)
    BY <2>2 DEF Idle, Request, Steps, Shape
  <2>4. Become(r, loc)
    BY <2>1 DEF t
  <2> HIDE DEF loc
  <2>5. req' \in [Reqs -> Request] /\ LocalsOK'
    BY <2>3, <2>4, BecomeShape
  <2> QED BY <1>1, <2>1, <2>5 DEF IssuePair, TypeOK
<1>2. ASSUME NEW r \in Reqs, NEW t \in issued, Refresh(r, t)
      PROVE  TypeInv'
  <2> DEFINE loc == [Idle EXCEPT !.pc = "session", !.tok = t]
  <2>1. loc \in Request /\ Shape(loc)
    BY <1>2 DEF Refresh, Idle, Request, Steps, Shape, TypeOK
  <2>2. Become(r, loc)
    BY <1>2 DEF Refresh
  <2> HIDE DEF loc
  <2>3. req' \in [Reqs -> Request] /\ LocalsOK'
    BY <2>1, <2>2, BecomeShape
  <2> QED BY <1>2, <2>3 DEF Refresh, TypeOK
<1>3. ASSUME NEW r \in Reqs, Locate(r)
      PROVE  TypeInv'
  <2> DEFINE loc == [req[r] EXCEPT !.pc = "insert", !.stamp = now]
  <2>1. loc \in Request /\ Shape(loc)
    BY <1>3 DEF Locate, Request, Steps, Shape, TypeOK, LocalsOK
  <2>2. Become(r, loc)
    BY <1>3 DEF Locate
  <2> HIDE DEF loc
  <2>3. req' \in [Reqs -> Request] /\ LocalsOK'
    BY <2>1, <2>2, BecomeShape
  <2> QED BY <1>3, <2>3 DEF Locate, TypeOK
<1>4. ASSUME NEW r \in Reqs, InsertSession(r)
      PROVE  TypeInv'
  <2> DEFINE t == req[r].new
  <2>1. t \in Token /\ req[r].client \in Clients /\ req[r].stamp \in Nat
    BY <1>4 DEF InsertSession, Shape, LocalsOK, TypeOK, Request
  <2>2. AccessOf(t) \in Token
    BY <2>1 DEF AccessOf, Token
  <2>3. Respond(r, {t, AccessOf(t)})
    BY <1>4 DEF InsertSession
  <2>4. req' \in [Reqs -> Request] /\ LocalsOK' /\ issued' \subseteq Token
    BY <2>1, <2>2, <2>3, RespondShape
  <2>5. now + SessionTTL \in Nat
    BY TTLAssumption DEF TypeOK
  <2>6. StoreSession(hashes, t, req[r].client) \in [HashKeys -> Entries(Clients)]
    BY <2>1, <2>5, StoreSessionEffect DEF Entries, TypeOK
  <2>7. IndexSession(zsets, t, req[r].stamp)
          \in [ZsetKeys -> Entries([Sids -> Nat])]
    <3>1. [data |-> Trimmed(t, req[r].stamp), deadline |-> now + SessionTTL]
            \in Entries([Sids -> Nat])
      BY <2>1, <2>5, IndexSessionEffect DEF Entries
    <3>2. zsets \in [ZsetKeys -> Entries([Sids -> Nat])]
      BY DEF TypeOK
    <3> QED BY <2>1, <3>1, <3>2, IndexSessionEffect
  <2>8. t.sid \in Sids
    BY <2>1 DEF Token
  <2> QED BY <1>4, <2>4, <2>6, <2>7, <2>8 DEF InsertSession, TypeOK
<1>5. ASSUME NEW r \in Reqs, GetSessionByID(r)
      PROVE  TypeInv'
  <2> DEFINE loc == [req[r] EXCEPT !.pc = "account",
                                   !.client = hashes[SessionKey(req[r].tok)].data]
  <2>1. req[r].tok \in Token
    BY <1>5 DEF GetSessionByID, Shape, LocalsOK
  <2>2. hashes[SessionKey(req[r].tok)].data \in Clients
    BY <1>5, <2>1 DEF GetSessionByID, HasSession, Exists, SessionKey, HashKeys,
                     Token, TypeOK, Entries
  <2>3. loc \in Request /\ Shape(loc)
    BY <1>5, <2>2 DEF GetSessionByID, Request, Steps, Shape, TypeOK, LocalsOK
  <2>4. Become(r, loc)
    BY <1>5 DEF GetSessionByID
  <2> HIDE DEF loc
  <2>5. req' \in [Reqs -> Request] /\ LocalsOK'
    BY <2>3, <2>4, BecomeShape
  <2> QED BY <1>5, <2>5 DEF GetSessionByID, TypeOK
<1>6. ASSUME NEW r \in Reqs, SessionNotFound(r) \/ RefreshPanics(r) \/ Abort(r)
      PROVE  TypeInv'
  <2>1. req' \in [Reqs -> Request] /\ LocalsOK'
    BY <1>6, IdleShape, BecomeShape DEF SessionNotFound, RefreshPanics, Abort
  <2> QED BY <1>6, <2>1 DEF SessionNotFound, RefreshPanics, Abort, TypeOK
<1>7. ASSUME NEW r \in Reqs, NEW read \in BOOLEAN, SignAccess(r, read)
      PROVE  TypeInv'
  <2> DEFINE old == req[r].tok
             info == IF read THEN profile[old.uid] ELSE old.info
             t == Sign("access", old.uid, old.sid, old.aud, info)
             loc == [Idle EXCEPT !.pc = "extend", !.new = t]
  <2>1. old \in Token
    BY <1>7 DEF SignAccess, Shape, LocalsOK
  <2>2. info \in Infos
    BY <2>1 DEF Token, TypeOK
  <2>3. t \in Token /\ t.typ = "access"
    BY <2>1, <2>2, SignType DEF Token
  <2>4. Become(r, loc)
    BY <1>7 DEF SignAccess
  <2> HIDE DEF t
  <2>5. loc \in Request /\ Shape(loc)
    BY <2>3 DEF Idle, Request, Steps, Shape
  <2> HIDE DEF loc
  <2>6. req' \in [Reqs -> Request] /\ LocalsOK'
    BY <2>4, <2>5, BecomeShape
  <2> QED BY <1>7, <2>6 DEF SignAccess, TypeOK
<1>8. ASSUME NEW r \in Reqs, NEW read \in BOOLEAN, SignRotated(r, read)
      PROVE  TypeInv'
  <2> DEFINE old == req[r].tok
  <2>1. PICK s \in Sids \ used :
          /\ Become(r, [req[r] EXCEPT !.pc = "delete",
                          !.new = Sign("refresh", old.uid, s, old.aud, old.info)])
          /\ used' = used \cup {s}
    BY <1>8 DEF SignRotated
  <2> DEFINE t == Sign("refresh", old.uid, s, old.aud, old.info)
             loc == [req[r] EXCEPT !.pc = "delete", !.new = t]
  <2>2. old \in Token
    BY <1>8 DEF SignRotated, Shape, LocalsOK
  <2>3. t \in Token /\ t.typ = "refresh"
    BY <2>2, SignType DEF Token
  <2>4. Become(r, loc)
    BY <2>1
  <2> HIDE DEF t
  <2>5. loc \in Request /\ Shape(loc)
    BY <1>8, <2>3 DEF SignRotated, Request, Steps, Shape, TypeOK, LocalsOK
  <2> HIDE DEF loc
  <2>6. req' \in [Reqs -> Request] /\ LocalsOK'
    BY <2>4, <2>5, BecomeShape
  <2> QED BY <1>8, <2>1, <2>6 DEF SignRotated, TypeOK
<1>9. ASSUME NEW r \in Reqs, ExtendSession(r)
      PROVE  TypeInv'
  <2> DEFINE t == req[r].new
  <2>1. t \in Token
    BY <1>9 DEF ExtendSession, Shape, LocalsOK
  <2>2. Respond(r, {t})
    BY <1>9 DEF ExtendSession
  <2>3. req' \in [Reqs -> Request] /\ LocalsOK' /\ issued' \subseteq Token
    BY <2>1, <2>2, RespondShape
  <2>4. now + SessionTTL \in Nat
    BY TTLAssumption DEF TypeOK
  <2>5. ExtendHash(hashes, t) \in [HashKeys -> Entries(Clients)]
    BY <2>1, <2>4, ExtendHashEffect DEF Entries, TypeOK
  <2>6. ExtendIndex(zsets, t) \in [ZsetKeys -> Entries([Sids -> Nat])]
    BY <2>1, ExtendIndexEffect
  <2> QED BY <1>9, <2>3, <2>5, <2>6 DEF ExtendSession, TypeOK
<1>10. ASSUME NEW r \in Reqs, DeleteOld(r)
       PROVE  TypeInv'
  <2> DEFINE loc == [req[r] EXCEPT !.pc = "locate", !.tok = Nil]
  <2>1. req[r].tok \in Token
    BY <1>10 DEF DeleteOld, Shape, LocalsOK
  <2>2. loc \in Request /\ Shape(loc)
    BY <1>10 DEF DeleteOld, Request, Steps, Shape, TypeOK, LocalsOK
  <2>3. Become(r, loc)
    BY <1>10 DEF DeleteOld
  <2> HIDE DEF loc
  <2>4. req' \in [Reqs -> Request] /\ LocalsOK'
    BY <2>2, <2>3, BecomeShape
  <2>5. hashes' \in [HashKeys -> Entries(Clients)]
    BY <1>10, <2>1, DeleteTokenEffect DEF DeleteOld, TypeOK
  <2>6. req[r].tok.sid \in Sids
    BY <2>1 DEF Token
  <2> QED BY <1>10, <2>4, <2>5, <2>6 DEF DeleteOld, TypeOK
<1>11. ASSUME NEW t \in issued, Logout(t)
       PROVE  TypeInv'
  <2>1. t \in Token /\ t.sid \in Sids
    BY DEF TypeOK, Token
  <2>2. hashes' \in [HashKeys -> Entries(Clients)]
    BY <1>11, <2>1, DeleteTokenEffect DEF Logout, TypeOK
  <2>3. LocalsOK'
    BY <1>11 DEF Logout, LocalsOK
  <2> QED BY <1>11, <2>1, <2>2, <2>3 DEF Logout, TypeOK
<1>12. ASSUME NEW u \in Users, NEW i \in Infos, UpdateProfile(u, i)
       PROVE  TypeInv'
  BY <1>12 DEF UpdateProfile, TypeOK, LocalsOK
<1>13. CASE Tick
  <2>1. now' \in Nat
    BY <1>13 DEF Tick, TypeOK
  <2>2. hashes' \in [HashKeys -> Entries(Clients)]
    BY <1>13, <2>1, EvictEffect DEF Tick, TypeOK
  <2>3. zsets' \in [ZsetKeys -> Entries([Sids -> Nat])]
    BY <1>13, <2>1, EvictEffect DEF Tick, TypeOK
  <2>4. LocalsOK'
    BY <1>13 DEF Tick, LocalsOK
  <2> QED BY <1>13, <2>1, <2>2, <2>3, <2>4 DEF Tick, TypeOK
<1>14. CASE UNCHANGED vars
  BY <1>14 DEF vars, TypeOK, LocalsOK
<1> QED
  BY <1>1, <1>2, <1>3, <1>4, <1>5, <1>6, <1>7, <1>8, <1>9, <1>10, <1>11, <1>12,
     <1>13, <1>14 DEF Next, Login, RedeemCode

\* Whatever the constants, the state of the sessions keeps its shape.
THEOREM TypeCorrect == Spec => []TypeOK
<1>1. Spec => []TypeInv
  BY TypeInit, TypeStep, PTL DEF Spec
<1>2. TypeInv => TypeOK
  BY DEF TypeInv
<1> QED BY <1>1, <1>2, PTL

-----------------------------------------------------------------------------
(* The inductive invariant. *)

LEMMA HeldType == TypeInv => Held \subseteq Token
BY DEF TypeInv, TypeOK, LocalsOK, Shape, Held

\* The held tokens after a step of request r.
LEMMA HeldAfter ==
  ASSUME NEW r, \A q \in Reqs \ {r} : req'[q] = req[q], NEW n \in Held'
  PROVE  \/ n \in issued' \/ n \in Held
         \/ r \in Reqs /\ req'[r].pc \in {"session", "account"} /\ n = req'[r].tok
         \/ r \in Reqs /\ req'[r].pc = "extend" /\ n = req'[r].new
BY DEF Held

LEMMA InvInit == Init => IInv
<1> SUFFICES ASSUME Init PROVE IInv
  OBVIOUS
<1>1. TypeInv
  BY TypeInit
<1>2. \A r \in Reqs : req[r] = Idle
  BY DEF Init
<1>3. Held = {}
  BY <1>2 DEF Init, Held, Idle
<1>4. \A r \in Reqs : req[r].pc = "idle"
  BY <1>2 DEF Idle
<1>5. \A k \in HashKeys : ~Exists(hashes, k)
  BY DEF Init, Exists, Missing
<1>6. \A k \in ZsetKeys : ~Exists(zsets, k)
  BY DEF Init, Exists, Missing
<1>7. NotFuture
  BY <1>3, <1>4 DEF NotFuture, Pends
<1>8. Fresh
  BY <1>3, <1>4, <1>5 DEF Fresh, Pends, HashKeys
<1>9. Covered /\ Audience
  BY <1>3, <1>4 DEF Covered, Audience, Pends
<1>10. \A t \in [uid : Users, sid : Sids] : Score(t) = 0 /\ ~Exists(zsets, IndexKey(t))
  BY <1>6 DEF Score, IndexKey, ZsetKeys
<1>11. Indexed
  BY <1>3, <1>10, TTLAssumption DEF Indexed, Init
<1> QED BY <1>1, <1>7, <1>8, <1>9, <1>11 DEF IInv

-----------------------------------------------------------------------------
(* Most steps move one request, or only retire sessions; they leave the    *)
(* sessions, the index and the clock alone.                                *)

\* Token n stands for no more than token t.
Derived(n, t) == /\ n.uid = t.uid /\ n.sid = t.sid /\ n.aud = t.aud
                 /\ n.iat <= now /\ Expiry(n) <= Expiry(t)

\* What such a step may make of request r.
Advances(r) ==
  /\ req'[r].pc \in {"session", "account"} => req'[r].tok \in Held
  /\ req'[r].pc = "extend" => \E t \in Held : Derived(req'[r].new, t)
  /\ req'[r].pc = "account" => req'[r].client = req'[r].tok.aud
  /\ Pends(r)' => /\ req'[r].client = req'[r].new.aud
                  /\ \/ Pends(r) /\ req'[r].new = req[r].new
                     \/ /\ req'[r].new.sid \in used' \ used
                        /\ req'[r].new.iat = now
  /\ req'[r].pc = "insert" =>
       req'[r].new.iat <= req'[r].stamp /\ req'[r].stamp <= now

Local(r) ==
  /\ now' = now /\ lost' = lost /\ issued' = issued
  /\ retired \subseteq retired'
  /\ \A u \in Users, s \in Sids :
       hashes'[<<"session", u, s>>] = hashes[<<"session", u, s>>]
  /\ \A u \in Users :
       zsets'[<<"user:sessions:v2", u>>] = zsets[<<"user:sessions:v2", u>>]
  /\ \A q \in Reqs : req'[q] = req[q] \/ (q = r /\ Advances(r))
  /\ \/ used' = used
     \/ r \in Reqs /\ Pends(r)' /\ used' = used \cup {req'[r].new.sid}

\* No such step adds to what the held tokens stand for.
LEMMA HeldDerived ==
  ASSUME IInv, NEW r, Local(r), NEW n \in Held'
  PROVE  \E t \in Held : Derived(n, t)
<1>1. \A t \in Held : Derived(t, t)
  <2>1. \A t \in Token : Expiry(t) \in Nat
    BY TTLAssumption DEF Token, Expiry
  <2> QED BY HeldType, <2>1 DEF IInv, NotFuture, Derived
<1>2. n \in Held \/ \E t \in Held : Derived(n, t)
  BY DEF Held, Advances, Local
<1> QED BY <1>1, <1>2

LEMMA LocalStep ==
  ASSUME IInv, TypeInv', NEW r, Local(r)
  PROVE  IInv'
<1> USE DEF Local
<1>1. Held \subseteq Token /\ Held' \subseteq Token
  <2>1. Held' \subseteq Token
    BY DEF TypeInv, TypeOK, LocalsOK, Shape, Held
  <2> QED BY <2>1, HeldType DEF IInv
<1>2. \A n \in Held' : \E t \in Held : Derived(n, t)
  BY HeldDerived
<1>3. \A t \in Token : HasSession(t)' = HasSession(t)
                       /\ hashes'[SessionKey(t)] = hashes[SessionKey(t)]
  BY DEF HasSession, Exists, SessionKey, Token
<1>4. \A t \in [uid : Users, sid : Sids] :
        /\ HasSession(t)' = HasSession(t)
        /\ hashes'[SessionKey(t)] = hashes[SessionKey(t)]
        /\ zsets'[IndexKey(t)] = zsets[IndexKey(t)]
        /\ Score(t)' = Score(t)
  BY DEF HasSession, Exists, SessionKey, IndexKey, Score
<1>5. NotFuture'
  <2>1. \A t \in Held' : t.iat <= now'
    BY <1>2 DEF Derived
  <2>2. ASSUME NEW q \in Reqs
        PROVE  /\ Pends(q)' => req'[q].new.iat <= now'
               /\ req'[q].pc = "insert" =>
                    req'[q].new.iat <= req'[q].stamp /\ req'[q].stamp <= now'
    <3>1. CASE req'[q] = req[q]
      BY <3>1 DEF IInv, NotFuture, Pends
    <3>2. CASE q = r /\ Advances(r)
      <4>1. now \in Nat
        BY DEF IInv, TypeInv, TypeOK
      <4> QED BY <3>2, <4>1 DEF IInv, NotFuture, Advances
    <3> QED BY <3>1, <3>2
  <2> QED BY <2>1, <2>2 DEF NotFuture
<1>6. Fresh'
  <2>1. \A t \in Held' : t.sid \in used'
    BY <1>2 DEF Derived, IInv, Fresh
  <2>2. \A u \in Users, s \in Sids :
          Exists(hashes', <<"session", u, s>>) => s \in used'
    BY DEF IInv, Fresh, Exists
  <2>3. \A s \in Sids : Stored(s)' = Stored(s)
    BY DEF Stored, Exists
  <2>4. \A q \in Reqs : Pends(q)' => req'[q].new.sid \in Sids
    BY DEF TypeInv, LocalsOK, Shape, Pends, Token
  <2>5. \A q \in Reqs : Pends(q)' =>
          \/ Pends(q) /\ req'[q].new = req[q].new
          \/ q = r /\ req'[q].new.sid \in used' \ used
    BY DEF Advances, Pends
  <2>6. ASSUME NEW q \in Reqs, Pends(q)', NEW s \in Sids, s = req'[q].new.sid
        PROVE  /\ s \in used'
               /\ \A t \in Held' : t.sid # s
               /\ ~Stored(s)'
               /\ \A p \in Reqs \ {q} : Pends(p)' => req'[p].new.sid # s
    <3>1. CASE Pends(q) /\ req'[q].new = req[q].new
      <4>1. /\ s \in used /\ ~Stored(s)
            /\ \A t \in Held : t.sid # s
            /\ \A p \in Reqs \ {q} : Pends(p) => req[p].new.sid # s
        BY <2>6, <3>1 DEF IInv, Fresh
      <4>2. \A t \in Held' : t.sid # s
        BY <1>2, <4>1 DEF Derived
      <4>3. \A p \in Reqs \ {q} : Pends(p)' => req'[p].new.sid # s
        BY <2>5, <4>1
      <4> QED BY <2>3, <4>1, <4>2, <4>3
    <3>2. CASE q = r /\ s \in used' \ used
      <4>1. ~Stored(s)
        BY <3>2 DEF IInv, Fresh, Stored
      <4>2. \A t \in Held' : t.sid # s
        BY <1>2, <3>2 DEF Derived, IInv, Fresh
      <4>3. \A p \in Reqs \ {q} : Pends(p)' => req'[p].new.sid # s
        BY <2>5, <3>2 DEF IInv, Fresh
      <4> QED BY <2>3, <3>2, <4>1, <4>2, <4>3
    <3> QED BY <2>5, <2>6, <3>1, <3>2
  <2>7. \A q \in Reqs : Pends(q)' =>
          /\ req'[q].new.sid \in used'
          /\ \A t \in Held' : t.sid # req'[q].new.sid
          /\ ~ \E u \in Users : Exists(hashes', <<"session", u, req'[q].new.sid>>)
          /\ \A p \in Reqs \ {q} : Pends(p)' => req'[p].new.sid # req'[q].new.sid
    BY <2>4, <2>6 DEF Stored
  <2> QED BY <2>1, <2>2, <2>7 DEF Fresh, Stored
<1>7. Covered'
  <2> SUFFICES ASSUME NEW n \in Held', Valid(n)', n.sid \notin lost' \cup retired'
               PROVE  HasSession(n)' /\ Expiry(n) <= hashes'[SessionKey(n)].deadline
    BY DEF Covered, Expiry
  <2>1. PICK t \in Held : Derived(n, t)
    BY <1>2
  <2>2. Expiry(n) \in Nat /\ Expiry(t) \in Nat /\ now \in Nat
    BY <1>1, TTLAssumption DEF Token, Expiry, IInv, TypeInv, TypeOK
  <2>3. Valid(t) /\ t.sid \notin lost \cup retired
    BY <2>1, <2>2 DEF Valid, Derived, Expiry
  <2>4. HasSession(t) /\ Expiry(t) <= hashes[SessionKey(t)].deadline
    BY <2>3 DEF IInv, Covered
  <2>5. SessionKey(n) = SessionKey(t) /\ SessionKey(t) \in HashKeys
    BY <1>1, <2>1 DEF Derived, SessionKey, HashKeys, Token
  <2>6. hashes[SessionKey(t)].deadline \in Nat
    BY <2>5 DEF IInv, TypeInv, TypeOK, Entries
  <2> QED BY <1>1, <1>3, <2>1, <2>2, <2>4, <2>5, <2>6 DEF Derived, HasSession
<1>8. Audience'
  <2>1. \A n \in Held' : HasSession(n)' => hashes'[SessionKey(n)].data = n.aud
    <3> SUFFICES ASSUME NEW n \in Held', HasSession(n)'
                 PROVE  hashes'[SessionKey(n)].data = n.aud
      OBVIOUS
    <3>1. PICK t \in Held : Derived(n, t)
      BY <1>2
    <3>2. SessionKey(n) = SessionKey(t)
      BY <3>1 DEF Derived, SessionKey
    <3> QED BY <1>1, <1>3, <3>1, <3>2 DEF Derived, IInv, Audience, HasSession
  <2>2. ASSUME NEW q \in Reqs
        PROVE  /\ req'[q].pc = "account" => req'[q].client = req'[q].tok.aud
               /\ Pends(q)' => req'[q].client = req'[q].new.aud
    BY DEF IInv, Audience, Advances, Pends
  <2> QED BY <2>1, <2>2 DEF Audience
<1>9. Indexed'
  <2>1. \A t \in [uid : Users, sid : Sids] :
          /\ Score(t)' <= now' + SessionTTL
          /\ Exists(zsets, IndexKey(t))' => Score(t)' <= zsets'[IndexKey(t)].deadline
          /\ Score(t)' > now' =>
               HasSession(t)' /\ Score(t)' <= hashes'[SessionKey(t)].deadline
    BY <1>4 DEF IInv, Indexed, Exists
  <2>2. ASSUME NEW n \in Held', Valid(n)', n.sid \notin lost'
        PROVE  Expiry(n) <= Score(n)'
    <3>1. PICK t \in Held : Derived(n, t)
      BY <1>2
    <3>2. Expiry(n) \in Nat /\ Expiry(t) \in Nat /\ now \in Nat
      BY <1>1, TTLAssumption DEF Token, Expiry, IInv, TypeInv, TypeOK
    <3>3. Valid(t) /\ t.sid \notin lost
      BY <2>2, <3>1, <3>2 DEF Valid, Derived, Expiry
    <3>4. Expiry(t) <= Score(t)
      BY <3>3 DEF IInv, Indexed
    <3>5. Score(n)' = Score(t) /\ Score(t) \in Nat
      <4>1. n.uid = t.uid /\ n.sid = t.sid /\ t.uid \in Users /\ t.sid \in Sids
        BY <1>1, <3>1 DEF Derived, Token
      <4>2. IndexKey(n) = IndexKey(t) /\ IndexKey(t) \in ZsetKeys
        BY <4>1 DEF IndexKey, ZsetKeys
      <4>3. zsets'[IndexKey(t)] = zsets[IndexKey(t)]
        BY <4>1 DEF IndexKey
      <4>4. Score(n)' = Score(t)
        BY <4>1, <4>2, <4>3 DEF Score, Exists
      <4>5. Exists(zsets, IndexKey(t)) => zsets[IndexKey(t)].data \in [Sids -> Nat]
        BY <4>2 DEF IInv, TypeInv, TypeOK, Entries, Exists
      <4> QED BY <4>1, <4>4, <4>5 DEF Score
    <3> QED BY <3>1, <3>2, <3>4, <3>5 DEF Derived
  <2> QED BY <2>1, <2>2 DEF Indexed, Expiry
<1> QED BY <1>5, <1>6, <1>7, <1>8, <1>9 DEF IInv

-----------------------------------------------------------------------------
(* The steps that touch sessions, index or clock. *)

\* An entry of a session or of an index InsertSession writes.
LEMMA EntryType ==
  ASSUME TypeInv, NEW u \in Users, NEW s \in Sids
  PROVE  /\ <<"session", u, s>> \in HashKeys
         /\ hashes[<<"session", u, s>>] \in Entries(Clients)
         /\ <<"user:sessions:v2", u>> \in ZsetKeys
         /\ zsets[<<"user:sessions:v2", u>>] \in Entries([Sids -> Nat])
         /\ Scores(<<"user:sessions:v2", u>>) \in [Sids -> Nat]
<1>1. <<"session", u, s>> \in HashKeys /\ <<"user:sessions:v2", u>> \in ZsetKeys
  BY DEF HashKeys, ZsetKeys
<1>2. /\ hashes[<<"session", u, s>>] \in Entries(Clients)
      /\ zsets[<<"user:sessions:v2", u>>] \in Entries([Sids -> Nat])
  BY <1>1 DEF TypeInv, TypeOK
<1>3. Scores(<<"user:sessions:v2", u>>) \in [Sids -> Nat]
  BY <1>2 DEF Scores, EmptyZset, Exists, Entries
<1> QED BY <1>1, <1>2, <1>3

LEMMA InsertStep ==
  ASSUME IInv, TypeInv', NEW r \in Reqs, InsertSession(r)
  PROVE  IInv'
<1> DEFINE t == req[r].new
           c == req[r].client
           stamp == req[r].stamp
<1>1. /\ t \in Token /\ t.typ = "refresh" /\ Pends(r)
      /\ c \in Clients /\ c = t.aud
      /\ stamp \in Nat /\ now \in Nat /\ t.iat <= stamp /\ stamp <= now
  BY DEF InsertSession, Pends, IInv, TypeInv, TypeOK, LocalsOK, Shape, Request,
         Audience, NotFuture
<1>2. /\ Respond(r, {t, AccessOf(t)})
      /\ now' = now /\ used' = used /\ retired' = retired
  BY DEF InsertSession
<1>3. /\ AccessOf(t) \in Token
      /\ \A n \in {t, AccessOf(t)} :
           /\ n.uid = t.uid /\ n.sid = t.sid /\ n.aud = t.aud /\ n.iat = t.iat
           /\ Expiry(n) \in Nat /\ Expiry(n) <= t.iat + SessionTTL
  BY <1>1, TTLAssumption DEF AccessOf, Token, Expiry
<1>4. /\ req'[r] = Idle /\ \A q \in Reqs \ {r} : req'[q] = req[q]
      /\ issued' \subseteq issued \cup {t, AccessOf(t)}
  BY <1>1, <1>2, <1>3, RespondShape DEF IInv
<1>5. \A n \in Held' : n \in Held \cup {t, AccessOf(t)}
  <2>1. issued \subseteq Held
    BY DEF Held
  <2>2. Idle.pc = "idle"
    BY DEF Idle
  <2> QED BY <1>4, <2>1, <2>2, HeldAfter
<1>6. Held \subseteq Token
  BY HeldType DEF IInv
<1>7. \A n \in Held : n.sid # t.sid
  BY <1>1 DEF IInv, Fresh
<1>8. \A q \in Reqs : Pends(q)' => Pends(q) /\ req'[q] = req[q] /\ q # r
  BY <1>4 DEF Pends, Idle
<1>9. \A u \in Users : ~Exists(hashes, <<"session", u, t.sid>>)
  BY <1>1 DEF IInv, Fresh, Stored
<1>10. \/ /\ lost' = lost
          /\ hashes' = [hashes EXCEPT ![SessionKey(t)] =
                          [data |-> c, deadline |-> now + SessionTTL]]
          /\ zsets' = [zsets EXCEPT ![IndexKey(t)] =
                   [data |-> Trimmed(t, stamp), deadline |-> now + SessionTTL]]
       \/ lost' = lost \cup {t.sid} /\ hashes' = hashes /\ zsets' = zsets
  BY <1>1, StoreSessionEffect, IndexSessionEffect DEF InsertSession, IInv, TypeInv
<1>11. \A u \in Users, s \in Sids :
         u # t.uid \/ s # t.sid =>
           hashes'[<<"session", u, s>>] = hashes[<<"session", u, s>>]
  <2> SUFFICES ASSUME NEW u \in Users, NEW s \in Sids, u # t.uid \/ s # t.sid
               PROVE  hashes'[<<"session", u, s>>] = hashes[<<"session", u, s>>]
    OBVIOUS
  <2>1. <<"session", u, s>> # SessionKey(t)
    BY DEF SessionKey
  <2>2. <<"session", u, s>> \in DOMAIN hashes
    BY DEF HashKeys, IInv, TypeInv, TypeOK
  <2> QED BY <1>10, <2>1, <2>2
<1>12. \/ t.sid \in lost' /\ hashes' = hashes
       \/ hashes'[SessionKey(t)] = [data |-> c, deadline |-> now + SessionTTL]
  BY <1>1, <1>10, StoreSessionEffect DEF IInv, TypeInv, TypeOK
<1>13. c # Nil /\ lost \subseteq lost'
  BY <1>1, <1>10, NilAssumption
<1>14. \A n \in Held : /\ hashes'[SessionKey(n)] = hashes[SessionKey(n)]
                       /\ HasSession(n)' = HasSession(n)
  BY <1>6, <1>7, <1>11 DEF SessionKey, HasSession, Exists, Token
<1>15. NotFuture'
  BY <1>1, <1>2, <1>3, <1>4, <1>5, <1>8 DEF NotFuture, IInv, Idle
<1>16. Fresh'
  <2>1. t.sid \in used
    BY <1>1 DEF IInv, Fresh
  <2>2. \A n \in Held' : n.sid \in used'
    BY <1>2, <1>3, <1>5, <2>1 DEF IInv, Fresh
  <2>3. \A u \in Users, s \in Sids :
          Exists(hashes', <<"session", u, s>>) => s \in used'
    BY <1>2, <1>11, <2>1 DEF IInv, Fresh, Exists
  <2>4. ASSUME NEW q \in Reqs, Pends(q)'
        PROVE  /\ req'[q].new.sid \in used'
               /\ \A n \in Held' : n.sid # req'[q].new.sid
               /\ ~ \E u \in Users : Exists(hashes', <<"session", u, req'[q].new.sid>>)
               /\ \A p \in Reqs \ {q} : Pends(p)' => req'[p].new.sid # req'[q].new.sid
    <3>1. Pends(q) /\ req'[q] = req[q] /\ q # r
      BY <1>8, <2>4
    <3>2. req[q].new.sid # t.sid /\ req[q].new.sid \in used
      BY <1>1, <3>1 DEF IInv, Fresh
    <3>3. req[q].new.sid \in Sids
      BY <3>2 DEF IInv, TypeInv, TypeOK
    <3>4. \A n \in Held' : n.sid # req[q].new.sid
      BY <1>3, <1>5, <3>1, <3>2 DEF IInv, Fresh
    <3>5. \A u \in Users : ~Exists(hashes', <<"session", u, req[q].new.sid>>)
      BY <1>11, <3>1, <3>2, <3>3 DEF IInv, Fresh, Stored, Exists
    <3>6. \A p \in Reqs \ {q} : Pends(p)' => req'[p].new.sid # req[q].new.sid
      BY <1>8, <3>1 DEF IInv, Fresh
    <3> QED BY <1>2, <3>1, <3>2, <3>4, <3>5, <3>6
  <2> QED BY <2>2, <2>3, <2>4 DEF Fresh, Stored
<1>17. Covered'
  <2> SUFFICES ASSUME NEW n \in Held', Valid(n)', n.sid \notin lost' \cup retired'
               PROVE  HasSession(n)' /\ Expiry(n) <= hashes'[SessionKey(n)].deadline
    BY DEF Covered, Expiry
  <2>1. CASE n \in Held
    BY <1>2, <1>13, <1>14, <2>1 DEF IInv, Covered, Valid, Expiry
  <2>2. CASE n \in {t, AccessOf(t)}
    <3>1. SessionKey(n) = SessionKey(t) /\ n.sid = t.sid
      BY <1>3, <2>2 DEF SessionKey
    <3>2. hashes'[SessionKey(n)] = [data |-> c, deadline |-> now + SessionTTL]
      BY <1>12, <3>1
    <3>3. Expiry(n) <= now + SessionTTL
      BY <1>1, <1>3, <2>2, TTLAssumption DEF Token
    <3> QED BY <1>13, <3>2, <3>3 DEF HasSession, Exists
  <2> QED BY <1>5, <2>1, <2>2
<1>18. Audience'
  <2>1. ASSUME NEW n \in Held', HasSession(n)'
        PROVE  hashes'[SessionKey(n)].data = n.aud
    <3>1. CASE n \in Held
      BY <1>14, <2>1, <3>1 DEF IInv, Audience
    <3>2. CASE n \in {t, AccessOf(t)}
      <4>1. SessionKey(n) = SessionKey(t) /\ n.aud = t.aud /\ t.uid \in Users
        BY <1>1, <1>3, <3>2 DEF SessionKey, Token
      <4> QED BY <1>1, <1>9, <1>12, <2>1, <4>1 DEF HasSession, Exists, SessionKey
    <3> QED BY <1>5, <3>1, <3>2
  <2>2. ASSUME NEW q \in Reqs
        PROVE  /\ req'[q].pc = "account" => req'[q].client = req'[q].tok.aud
               /\ Pends(q)' => req'[q].client = req'[q].new.aud
    BY <1>4, <1>8 DEF IInv, Audience, Idle
  <2> QED BY <2>1, <2>2 DEF Audience
<1>19. Indexed'
  <2>1. CASE hashes' = hashes /\ zsets' = zsets /\ lost' = lost \cup {t.sid}
    <3>1. \A n \in Token \cup [uid : Users, sid : Sids] :
            Score(n)' = Score(n) /\ HasSession(n)' = HasSession(n)
      BY <2>1 DEF Score, HasSession, Exists
    <3>2. \A n \in [uid : Users, sid : Sids] :
            /\ Score(n)' <= now' + SessionTTL
            /\ Exists(zsets', IndexKey(n)) => Score(n)' <= zsets'[IndexKey(n)].deadline
            /\ Score(n)' > now' =>
                 HasSession(n)' /\ Score(n)' <= hashes'[SessionKey(n)].deadline
      BY <1>2, <2>1, <3>1 DEF IInv, Indexed
    <3>3. \A n \in Held' : Valid(n)' /\ n.sid \notin lost' => Expiry(n) <= Score(n)'
      BY <1>2, <1>3, <1>5, <1>6, <2>1, <3>1 DEF IInv, Indexed, Valid, Expiry
    <3> QED BY <3>2, <3>3 DEF Indexed, Expiry
  <2>2. CASE /\ lost' = lost
             /\ hashes' = [hashes EXCEPT ![SessionKey(t)] =
                          [data |-> c, deadline |-> now + SessionTTL]]
             /\ zsets' = [zsets EXCEPT ![IndexKey(t)] =
                   [data |-> Trimmed(t, stamp), deadline |-> now + SessionTTL]]
    <3>1. /\ SessionKey(t) \in HashKeys /\ IndexKey(t) \in ZsetKeys
          /\ t.uid \in Users /\ t.sid \in Sids
      BY <1>1 DEF SessionKey, IndexKey, HashKeys, ZsetKeys, Token
    <3>2. Trimmed(t, stamp) \in [Sids -> Nat] /\ Trimmed(t, stamp) # Nil
      BY <1>1, IndexSessionEffect, NilAssumption DEF IInv, TypeInv
    <3>3. /\ zsets'[IndexKey(t)] =
                [data |-> Trimmed(t, stamp), deadline |-> now + SessionTTL]
          /\ \A u \in Users \ {t.uid} :
               zsets'[<<"user:sessions:v2", u>>] = zsets[<<"user:sessions:v2", u>>]
      BY <2>2, <3>1, EntryType DEF IndexKey, IInv, TypeInv, TypeOK
    <3>4. \A n \in Token \cup [uid : Users, sid : Sids] :
            /\ n.uid # t.uid =>
                 Score(n)' = Score(n) /\ zsets'[IndexKey(n)] = zsets[IndexKey(n)]
            /\ n.uid = t.uid =>
                 /\ IndexKey(n) = IndexKey(t)
                 /\ Score(n)' = Trimmed(t, stamp)[n.sid]
                 /\ Score(n) = Scores(IndexKey(t))[n.sid]
      <4>1. \A n \in Token \cup [uid : Users, sid : Sids] : n.uid \in Users /\ n.sid \in Sids
        BY DEF Token
      <4>2. Exists(zsets', IndexKey(t)) /\ zsets'[IndexKey(t)].data = Trimmed(t, stamp)
        BY <3>2, <3>3 DEF Exists
      <4> QED BY <3>3, <4>1, <4>2 DEF Score, Scores, IndexKey, Exists, EmptyZset
    <3>5. ASSUME NEW n \in Token \cup [uid : Users, sid : Sids], n.uid = t.uid
          PROVE  /\ n.sid = t.sid => Score(n)' = stamp + SessionTTL
                 /\ n.sid # t.sid => \/ Score(n)' = Score(n)
                                     \/ Score(n)' = 0 /\ Score(n) <= stamp
                 /\ Score(n)' \in Nat /\ Score(n) \in Nat
      <4>1. n.sid \in Sids
        BY DEF Token
      <4>2. Scores(IndexKey(t)) \in [Sids -> Nat]
        BY <3>1, EntryType DEF IndexKey, IInv
      <4>3. Score(n)' = Trimmed(t, stamp)[n.sid] /\ Score(n) = Scores(IndexKey(t))[n.sid]
        BY <3>4, <3>5
      <4>4. Score(n)' \in Nat /\ Score(n) \in Nat
        BY <3>2, <4>1, <4>2, <4>3
      <4>5. n.sid = t.sid => Trimmed(t, stamp)[n.sid] = stamp + SessionTTL
        BY <1>1, <4>1, TTLAssumption DEF Trimmed
      <4>6. n.sid # t.sid => \/ Trimmed(t, stamp)[n.sid] = Scores(IndexKey(t))[n.sid]
                             \/ /\ Trimmed(t, stamp)[n.sid] = 0
                                /\ Scores(IndexKey(t))[n.sid] <= stamp
        BY <4>1 DEF Trimmed
      <4> QED BY <4>3, <4>4, <4>5, <4>6
    <3>6. ASSUME NEW n \in [uid : Users, sid : Sids]
          PROVE  /\ Score(n)' <= now' + SessionTTL
                 /\ Exists(zsets', IndexKey(n)) =>
                      Score(n)' <= zsets'[IndexKey(n)].deadline
                 /\ Score(n)' > now' =>
                      HasSession(n)' /\ Score(n)' <= hashes'[SessionKey(n)].deadline
      <4>1. /\ Score(n) <= now + SessionTTL
            /\ Exists(zsets, IndexKey(n)) => Score(n) <= zsets[IndexKey(n)].deadline
            /\ Score(n) > now =>
                 HasSession(n) /\ Score(n) <= hashes[SessionKey(n)].deadline
        BY DEF IInv, Indexed
      <4>2. CASE n.uid # t.uid
        <5>1. /\ hashes'[SessionKey(n)] = hashes[SessionKey(n)]
              /\ HasSession(n)' = HasSession(n)
          BY <1>11, <4>2 DEF SessionKey, HasSession, Exists
        <5> QED BY <1>2, <3>4, <4>1, <4>2, <5>1 DEF Exists
      <4>3. CASE n.uid = t.uid /\ n.sid # t.sid
        <5>1. /\ hashes'[SessionKey(n)] = hashes[SessionKey(n)]
              /\ HasSession(n)' = HasSession(n)
          BY <1>11, <4>3 DEF SessionKey, HasSession, Exists
        <5>2. Score(n)' = Score(n) \/ Score(n)' = 0
          BY <3>5, <4>3
        <5>3. zsets'[IndexKey(n)].deadline = now + SessionTTL
          BY <3>3, <3>4, <4>3
        <5> QED BY <1>1, <1>2, <4>1, <5>1, <5>2, <5>3, TTLAssumption
      <4>4. CASE n.uid = t.uid /\ n.sid = t.sid
        <5>1. SessionKey(n) = SessionKey(t) /\ IndexKey(n) = IndexKey(t)
          BY <4>4 DEF SessionKey, IndexKey
        <5>2. Score(n)' = stamp + SessionTTL
          BY <3>5, <4>4
        <5>3. hashes'[SessionKey(n)] = [data |-> c, deadline |-> now + SessionTTL]
          BY <2>2, <3>1, <5>1 DEF IInv, TypeInv, TypeOK
        <5>4. HasSession(n)'
          BY <1>13, <5>3 DEF HasSession, Exists
        <5> QED BY <1>1, <1>2, <3>3, <5>1, <5>2, <5>3, <5>4, TTLAssumption
      <4> QED BY <4>2, <4>3, <4>4
    <3>7. ASSUME NEW n \in Held', Valid(n)', n.sid \notin lost'
          PROVE  Expiry(n) <= Score(n)'
      <4>1. CASE n \in Held
        <5>1. Expiry(n) \in Nat /\ now < Expiry(n) /\ Expiry(n) <= Score(n)
          BY <1>2, <1>6, <2>2, <3>7, <4>1, TTLAssumption
             DEF Token, IInv, Indexed, Valid, Expiry
        <5>2. n \in Token /\ n.sid # t.sid
          BY <1>6, <1>7, <4>1
        <5> QED BY <1>1, <3>4, <3>5, <5>1, <5>2
      <4>2. CASE n \in {t, AccessOf(t)}
        <5>1. n \in Token /\ n.uid = t.uid /\ n.sid = t.sid
          BY <1>1, <1>3, <4>2
        <5>2. Score(n)' = stamp + SessionTTL
          BY <3>5, <5>1
        <5>3. t.iat \in Nat
          BY <1>1 DEF Token
        <5> QED BY <1>1, <1>3, <4>2, <5>2, <5>3, TTLAssumption
      <4> QED BY <1>5, <4>1, <4>2
    <3> QED BY <3>6, <3>7 DEF Indexed, Expiry
  <2> QED BY <1>10, <2>1, <2>2
<1> QED BY <1>15, <1>16, <1>17, <1>18, <1>19 DEF IInv

LEMMA ExtendStep ==
  ASSUME IInv, TypeInv', NEW r \in Reqs, ExtendSession(r)
  PROVE  IInv'
<1> DEFINE t == req[r].new
<1>1. t \in Token /\ t \in Held /\ now \in Nat
  BY DEF ExtendSession, IInv, TypeInv, TypeOK, LocalsOK, Shape, Held
<1>2. /\ Respond(r, {t})
      /\ now' = now /\ used' = used /\ lost' = lost /\ retired' = retired
  BY DEF ExtendSession
<1>3. /\ req'[r] = Idle /\ \A q \in Reqs \ {r} : req'[q] = req[q]
      /\ issued' \subseteq issued \cup {t}
  BY <1>1, <1>2, RespondShape DEF IInv
<1>4. \A n \in Held' : n \in Held
  <2>1. issued \subseteq Held
    BY DEF Held
  <2>2. Idle.pc = "idle"
    BY DEF Idle
  <2> QED BY <1>1, <1>3, <2>1, <2>2, HeldAfter
<1>5. Held \subseteq Token
  BY HeldType DEF IInv
<1>6. \A q \in Reqs : Pends(q)' => Pends(q) /\ req'[q] = req[q]
  BY <1>3 DEF Pends, Idle
<1>7. \A u \in Users, s \in Sids :
        LET old == hashes[<<"session", u, s>>]
            new == hashes'[<<"session", u, s>>]
        IN  /\ new.data = old.data
            /\ new.deadline = old.deadline \/ new.deadline = now + SessionTTL
  <2> SUFFICES ASSUME NEW u \in Users, NEW s \in Sids
               PROVE  LET old == hashes[<<"session", u, s>>]
                          new == hashes'[<<"session", u, s>>]
                      IN  /\ new.data = old.data
                          /\ \/ new.deadline = old.deadline
                             \/ new.deadline = now + SessionTTL
    OBVIOUS
  <2>1. <<"session", u, s>> \in DOMAIN hashes
    BY DEF HashKeys, IInv, TypeInv, TypeOK
  <2>2. \/ hashes' = hashes
        \/ hashes' = [hashes EXCEPT ![SessionKey(t)] =
                         [data |-> hashes[SessionKey(t)].data,
                          deadline |-> now + SessionTTL]]
    BY <1>1, ExtendHashEffect DEF ExtendSession, IInv, TypeInv
  <2> QED BY <2>1, <2>2
<1>8. \A u \in Users : zsets'[<<"user:sessions:v2", u>>] = zsets[<<"user:sessions:v2", u>>]
  BY <1>1, ExtendIndexEffect DEF ExtendSession, IInv, TypeInv
<1>9. \A n \in Token \cup [uid : Users, sid : Sids] :
        /\ HasSession(n)' = HasSession(n)
        /\ hashes'[SessionKey(n)].data = hashes[SessionKey(n)].data
        /\ \/ hashes'[SessionKey(n)].deadline = hashes[SessionKey(n)].deadline
           \/ hashes'[SessionKey(n)].deadline = now + SessionTTL
        /\ Score(n)' = Score(n) /\ zsets'[IndexKey(n)] = zsets[IndexKey(n)]
        /\ Exists(zsets', IndexKey(n)) = Exists(zsets, IndexKey(n))
  <2>1. \A n \in Token \cup [uid : Users, sid : Sids] : n.uid \in Users /\ n.sid \in Sids
    BY DEF Token
  <2> QED BY <1>7, <1>8, <2>1 DEF HasSession, Exists, SessionKey, IndexKey, Score
<1>10. NotFuture'
  BY <1>2, <1>3, <1>4, <1>6 DEF NotFuture, IInv, Idle
<1>11. Fresh'
  <2>1. \A u \in Users, s \in Sids :
          Exists(hashes', <<"session", u, s>>) = Exists(hashes, <<"session", u, s>>)
    BY <1>7 DEF Exists
  <2>2. \A q \in Reqs : Pends(q) => req[q].new.sid \in Sids
    BY DEF IInv, TypeInv, TypeOK, Fresh
  <2> QED BY <1>2, <1>4, <1>6, <2>1, <2>2 DEF Fresh, Stored, IInv
<1>12. Covered'
  <2> SUFFICES ASSUME NEW n \in Held', Valid(n)', n.sid \notin lost' \cup retired'
               PROVE  HasSession(n)' /\ Expiry(n) <= hashes'[SessionKey(n)].deadline
    BY DEF Covered, Expiry
  <2>1. n \in Held /\ n \in Token /\ Valid(n)
    BY <1>2, <1>4, <1>5 DEF Valid, Expiry
  <2>2. HasSession(n) /\ Expiry(n) <= hashes[SessionKey(n)].deadline
    BY <1>2, <2>1 DEF IInv, Covered
  <2>3. Expiry(n) <= now + SessionTTL
    BY <1>1, <2>1, TTLAssumption DEF Expiry, Token, IInv, NotFuture
  <2> QED BY <1>9, <2>1, <2>2, <2>3
<1>13. Audience'
  BY <1>3, <1>4, <1>5, <1>6, <1>9 DEF Audience, IInv, Idle
<1>14. Indexed'
  <2>1. ASSUME NEW n \in [uid : Users, sid : Sids]
        PROVE  /\ Score(n)' <= now' + SessionTTL
               /\ Exists(zsets', IndexKey(n)) =>
                    Score(n)' <= zsets'[IndexKey(n)].deadline
               /\ Score(n)' > now' =>
                    HasSession(n)' /\ Score(n)' <= hashes'[SessionKey(n)].deadline
    BY <1>2, <1>9 DEF IInv, Indexed
  <2>2. \A n \in Held' : Valid(n)' /\ n.sid \notin lost' => Expiry(n) <= Score(n)'
    BY <1>2, <1>4, <1>5, <1>9 DEF IInv, Indexed, Valid, Expiry
  <2> QED BY <2>1, <2>2 DEF Indexed, Expiry
<1> QED BY <1>10, <1>11, <1>12, <1>13, <1>14 DEF IInv

LEMMA TickStep ==
  ASSUME IInv, TypeInv', Tick
  PROVE  IInv'
<1>1. /\ now \in Nat /\ now' = now + 1
      /\ req' = req /\ used' = used /\ lost' = lost /\ retired' = retired
      /\ issued' \subseteq issued
  BY DEF Tick, IInv, TypeInv, TypeOK
<1>2. \A n \in Held' : n \in Held
  BY <1>1 DEF Held
<1>3. Held \subseteq Token
  BY HeldType DEF IInv
<1>4. \A q \in Reqs : Pends(q)' = Pends(q)
  BY <1>1 DEF Pends
<1>5. \A u \in Users, s \in Sids :
        \/ /\ hashes[<<"session", u, s>>].deadline <= now'
           /\ ~Exists(hashes', <<"session", u, s>>)
        \/ hashes'[<<"session", u, s>>] = hashes[<<"session", u, s>>]
  <2>1. \A u \in Users, s \in Sids : <<"session", u, s>> \in HashKeys
    BY DEF HashKeys
  <2>2. hashes \in [HashKeys -> Entries(Clients)] /\ now' \in Nat
    BY <1>1 DEF IInv, TypeInv, TypeOK
  <2>3. \A k \in HashKeys : \/ hashes[k].deadline <= now' /\ ~Exists(Evict(hashes, now'), k)
                        \/ Evict(hashes, now')[k] = hashes[k]
    BY <2>2, EvictEffect
  <2>4. hashes' = Evict(hashes, now')
    BY DEF Tick
  <2> QED BY <2>1, <2>3, <2>4 DEF Exists
<1>6. \A u \in Users :
        \/ /\ zsets[<<"user:sessions:v2", u>>].deadline <= now'
           /\ ~Exists(zsets', <<"user:sessions:v2", u>>)
        \/ zsets'[<<"user:sessions:v2", u>>] = zsets[<<"user:sessions:v2", u>>]
  <2>1. \A u \in Users : <<"user:sessions:v2", u>> \in ZsetKeys
    BY DEF ZsetKeys
  <2>2. zsets \in [ZsetKeys -> Entries([Sids -> Nat])] /\ now' \in Nat
    BY <1>1 DEF IInv, TypeInv, TypeOK
  <2>3. \A k \in ZsetKeys : \/ zsets[k].deadline <= now' /\ ~Exists(Evict(zsets, now'), k)
                        \/ Evict(zsets, now')[k] = zsets[k]
    BY <2>2, EvictEffect
  <2>4. zsets' = Evict(zsets, now')
    BY DEF Tick
  <2> QED BY <2>1, <2>3, <2>4 DEF Exists
<1>7. ASSUME NEW n \in Token \cup [uid : Users, sid : Sids]
      PROVE  /\ hashes[SessionKey(n)].deadline \in Nat
             /\ \/ /\ hashes[SessionKey(n)].deadline <= now'
                   /\ ~HasSession(n)'
                \/ /\ hashes'[SessionKey(n)] = hashes[SessionKey(n)]
                   /\ HasSession(n)' = HasSession(n)
             /\ Score(n) \in Nat
             /\ \/ /\ Exists(zsets, IndexKey(n)) => zsets[IndexKey(n)].deadline <= now'
                   /\ ~Exists(zsets', IndexKey(n)) /\ Score(n)' = 0
                \/ /\ zsets'[IndexKey(n)] = zsets[IndexKey(n)]
                   /\ Score(n)' = Score(n)
  <2>1. n.uid \in Users /\ n.sid \in Sids
    BY DEF Token
  <2>2. hashes[SessionKey(n)] \in Entries(Clients)
    BY <2>1, EntryType DEF SessionKey, IInv
  <2>3. Scores(IndexKey(n)) \in [Sids -> Nat]
    BY <2>1, EntryType DEF IndexKey, IInv
  <2>4. Score(n) \in Nat
    BY <2>1, <2>3 DEF Score, Scores, EmptyZset
  <2>5. \/ hashes[SessionKey(n)].deadline <= now' /\ ~HasSession(n)'
        \/ /\ hashes'[SessionKey(n)] = hashes[SessionKey(n)]
           /\ HasSession(n)' = HasSession(n)
    BY <1>5, <2>1 DEF SessionKey, HasSession, Exists
  <2>6. \/ /\ Exists(zsets, IndexKey(n)) => zsets[IndexKey(n)].deadline <= now'
           /\ ~Exists(zsets', IndexKey(n)) /\ Score(n)' = 0
        \/ /\ zsets'[IndexKey(n)] = zsets[IndexKey(n)]
           /\ Score(n)' = Score(n)
    BY <1>6, <2>1 DEF IndexKey, Score, Exists
  <2> QED BY <2>2, <2>4, <2>5, <2>6 DEF Entries
<1>8. NotFuture'
  <2>1. \A n \in Held' : n.iat <= now'
    BY <1>1, <1>2, <1>3 DEF NotFuture, IInv, Token
  <2>2. ASSUME NEW q \in Reqs
        PROVE  /\ Pends(q) => req[q].new.iat <= now'
               /\ req[q].pc = "insert" =>
                    req[q].new.iat <= req[q].stamp /\ req[q].stamp <= now'
    <3>1. /\ Pends(q) => req[q].new \in Token
          /\ req[q].stamp \in Nat
      BY DEF IInv, TypeInv, TypeOK, LocalsOK, Shape, Pends, Request
    <3> QED BY <1>1, <3>1 DEF NotFuture, IInv, Token
  <2> QED BY <1>1, <1>4, <2>1, <2>2 DEF NotFuture
<1>9. Fresh'
  <2>1. \A u \in Users, s \in Sids :
          Exists(hashes', <<"session", u, s>>) => Exists(hashes, <<"session", u, s>>)
    BY <1>5 DEF Exists
  <2>2. \A q \in Reqs : Pends(q) => req[q].new.sid \in Sids
    BY DEF IInv, TypeInv, TypeOK, Fresh
  <2> QED BY <1>1, <1>2, <1>4, <2>1, <2>2 DEF Fresh, Stored, IInv
<1>10. ASSUME NEW n \in Held', Valid(n)'
       PROVE  n \in Held /\ n \in Token /\ Valid(n) /\ now' < Expiry(n) /\ Expiry(n) \in Nat
  <2>1. n \in Held /\ n \in Token
    BY <1>2, <1>3
  <2>2. Expiry(n) \in Nat
    BY <2>1, TTLAssumption DEF Expiry, Token
  <2> QED BY <1>1, <1>10, <2>1, <2>2 DEF Valid, Expiry
<1>11. Covered'
  <2> SUFFICES ASSUME NEW n \in Held', Valid(n)', n.sid \notin lost' \cup retired'
               PROVE  HasSession(n)' /\ Expiry(n) <= hashes'[SessionKey(n)].deadline
    BY DEF Covered, Expiry
  <2>1. HasSession(n) /\ Expiry(n) <= hashes[SessionKey(n)].deadline
    BY <1>1, <1>10 DEF IInv, Covered
  <2> QED BY <1>1, <1>7, <1>10, <2>1
<1>12. Audience'
  <2>1. \A n \in Held' : HasSession(n)' => hashes'[SessionKey(n)].data = n.aud
    BY <1>2, <1>3, <1>7 DEF Audience, IInv
  <2> QED BY <1>1, <1>4, <2>1 DEF Audience, IInv
<1>13. Indexed'
  <2>1. ASSUME NEW n \in [uid : Users, sid : Sids]
        PROVE  /\ Score(n)' <= now' + SessionTTL
               /\ Exists(zsets', IndexKey(n)) =>
                    Score(n)' <= zsets'[IndexKey(n)].deadline
               /\ Score(n)' > now' =>
                    HasSession(n)' /\ Score(n)' <= hashes'[SessionKey(n)].deadline
    <3>1. /\ Score(n) <= now + SessionTTL
          /\ Exists(zsets, IndexKey(n)) => Score(n) <= zsets[IndexKey(n)].deadline
          /\ Score(n) > now =>
               HasSession(n) /\ Score(n) <= hashes[SessionKey(n)].deadline
      BY DEF IInv, Indexed
    <3> QED BY <1>1, <1>7, <3>1, TTLAssumption DEF Exists
  <2>2. ASSUME NEW n \in Held', Valid(n)', n.sid \notin lost'
        PROVE  Expiry(n) <= Score(n)'
    <3>1. Expiry(n) <= Score(n)
      BY <1>1, <1>10, <2>2 DEF IInv, Indexed
    <3>2. Exists(zsets, IndexKey(n)) => Score(n) <= zsets[IndexKey(n)].deadline
      <4>1. /\ [uid |-> n.uid, sid |-> n.sid] \in [uid : Users, sid : Sids]
            /\ IndexKey([uid |-> n.uid, sid |-> n.sid]) = IndexKey(n)
            /\ Score([uid |-> n.uid, sid |-> n.sid]) = Score(n)
        BY <1>10, <2>2 DEF Token, IndexKey, Score
      <4> QED BY <4>1 DEF IInv, Indexed
    <3>3. Exists(zsets, IndexKey(n)) /\ zsets[IndexKey(n)].deadline \in Nat
      <4>1. Score(n) > 0
        BY <1>1, <1>7, <1>10, <2>2, <3>1
      <4>2. zsets[IndexKey(n)] \in Entries([Sids -> Nat])
        BY <1>10, <2>2, EntryType DEF Token, IndexKey, IInv
      <4> QED BY <4>1, <4>2 DEF Score, Entries
    <3> QED BY <1>1, <1>7, <1>10, <2>2, <3>1, <3>2, <3>3
  <2> QED BY <2>1, <2>2 DEF Indexed, Expiry
<1> QED BY <1>8, <1>9, <1>11, <1>12, <1>13 DEF IInv

-----------------------------------------------------------------------------
(* Every step keeps the invariant: it is one of those above or local. *)

\* A local step that loses no session id a request has drawn.
Quiet(r) == /\ Local(r)
            /\ r \in Reqs /\ Pends(r) => Pends(r)' /\ req'[r].new = req[r].new

LEMMA StepKinds ==
  ASSUME IInv, [Next]_vars
  PROVE  \/ \E r : Quiet(r)
         \/ \E r \in Reqs : \/ Local(r) /\ Abort(r)
                            \/ InsertSession(r) \/ ExtendSession(r)
         \/ Tick
<1>2. req \in [Reqs -> Request]
  BY DEF IInv, TypeInv, TypeOK
<1>3. ASSUME NEW r \in Reqs, NEW u \in Users, NEW c \in Clients,
             IssuePair(r, u, c, c)
      PROVE  Quiet(r)
  <2>1. PICK s \in Sids \ used :
          /\ Become(r, [Idle EXCEPT !.pc = "locate", !.client = c,
                                    !.new = Sign("refresh", u, s, c, profile[u])])
          /\ used' = used \cup {s}
    BY <1>3 DEF IssuePair
  <2>2. Advances(r)
    BY <1>2, <2>1 DEF Become, Idle, Sign, Advances, Pends
  <2>3. \A q \in Reqs : req'[q] = req[q] \/ (q = r /\ Advances(r))
    BY <1>2, <2>1, <2>2 DEF Become
  <2>4. Pends(r)' /\ used' = used \cup {req'[r].new.sid} /\ ~Pends(r)
    BY <1>2, <1>3, <2>1 DEF IssuePair, Become, Idle, Sign, Pends
  <2> QED BY <1>3, <2>3, <2>4 DEF IssuePair, Local, Quiet
<1>4. ASSUME NEW r \in Reqs, NEW t \in issued, Refresh(r, t)
      PROVE  Quiet(r)
  <2>1. Advances(r)
    BY <1>2, <1>4 DEF Refresh, Become, Idle, Advances, Pends, Held
  <2>2. \A q \in Reqs : req'[q] = req[q] \/ (q = r /\ Advances(r))
    BY <1>2, <1>4, <2>1 DEF Refresh, Become
  <2> QED BY <1>4, <2>2 DEF Refresh, Local, Quiet, Pends
<1>5. ASSUME NEW r \in Reqs, Locate(r)
      PROVE  Quiet(r)
  <2>1. req'[r] = [req[r] EXCEPT !.pc = "insert", !.stamp = now]
    BY <1>2, <1>5 DEF Locate, Become
  <2>2. now \in Nat /\ Pends(r) /\ req[r].new.iat <= now /\ req[r].client = req[r].new.aud
    BY <1>5 DEF Locate, Pends, IInv, TypeInv, TypeOK, NotFuture, Audience
  <2>3. /\ req'[r].pc = "insert" /\ req'[r].stamp = now
        /\ req'[r].new = req[r].new /\ req'[r].client = req[r].client
    BY <1>2, <2>1 DEF Request
  <2>4. Advances(r)
    BY <2>2, <2>3 DEF Advances
  <2>5. \A q \in Reqs : req'[q] = req[q] \/ (q = r /\ Advances(r))
    BY <1>2, <1>5, <2>4 DEF Locate, Become
  <2>6. Pends(r)' /\ req'[r].new = req[r].new
    BY <2>3 DEF Pends
  <2> QED BY <1>5, <2>5, <2>6 DEF Locate, Local, Quiet
<1>6. ASSUME NEW r \in Reqs, GetSessionByID(r)
      PROVE  Quiet(r)
  <2> DEFINE t == req[r].tok
  <2>1. req'[r] = [req[r] EXCEPT !.pc = "account",
                                 !.client = hashes[SessionKey(t)].data]
    BY <1>2, <1>6 DEF GetSessionByID, Become
  <2>2. /\ req'[r].pc = "account" /\ req'[r].tok = t
        /\ req'[r].client = hashes[SessionKey(t)].data
    BY <1>2, <2>1 DEF Request
  <2>3. t \in Held /\ HasSession(t)
    BY <1>6 DEF GetSessionByID, Held
  <2>4. Advances(r)
    BY <2>2, <2>3 DEF Advances, Pends, IInv, Audience
  <2>5. \A q \in Reqs : req'[q] = req[q] \/ (q = r /\ Advances(r))
    BY <1>2, <1>6, <2>4 DEF GetSessionByID, Become
  <2> QED BY <1>6, <2>5 DEF GetSessionByID, Local, Quiet, Pends
<1>7. ASSUME NEW r \in Reqs, SessionNotFound(r) \/ RefreshPanics(r) \/ Abort(r)
      PROVE  Local(r) /\ (~Abort(r) => Quiet(r))
  <2>1. req' = [req EXCEPT ![r] = Idle]
    BY <1>7 DEF SessionNotFound, RefreshPanics, Abort, Become
  <2>2. Advances(r)
    BY <1>2, <2>1 DEF Idle, Advances, Pends
  <2>3. \A q \in Reqs : req'[q] = req[q] \/ (q = r /\ Advances(r))
    BY <1>2, <2>1, <2>2
  <2> QED BY <1>7, <2>3 DEF SessionNotFound, RefreshPanics, Abort, Local, Quiet, Pends
<1>8. ASSUME NEW r \in Reqs, NEW read \in BOOLEAN, SignAccess(r, read)
      PROVE  Quiet(r)
  <2> DEFINE old == req[r].tok
             t == Sign("access", old.uid, old.sid, old.aud,
                       IF read THEN profile[old.uid] ELSE old.info)
  <2>1. req'[r] = [Idle EXCEPT !.pc = "extend", !.new = t]
    BY <1>2, <1>8 DEF SignAccess, Become
  <2>2. req'[r].pc = "extend" /\ req'[r].new = t
    BY <2>1 DEF Idle
  <2>3. old \in Token /\ old \in Held /\ now \in Nat
    BY <1>8 DEF SignAccess, IInv, TypeInv, TypeOK, LocalsOK, Shape, Held
  <2>4. now + RotateBefore <= Expiry(old)
    BY <1>8, <2>3, TTLAssumption DEF SignAccess, Rotates, Expiry, Token
  <2>5. /\ t.uid = old.uid /\ t.sid = old.sid /\ t.aud = old.aud
        /\ t.iat = now /\ t.typ = "access"
    BY DEF Sign
  <2>6. Expiry(t) <= Expiry(old)
    <3>1. Expiry(old) \in Nat
      BY <2>3, TTLAssumption DEF Expiry, Token
    <3> QED BY <2>3, <2>4, <2>5, <3>1, TTLAssumption DEF Expiry
  <2>7. Derived(t, old)
    BY <2>3, <2>5, <2>6 DEF Derived
  <2>8. Advances(r)
    BY <2>2, <2>3, <2>7 DEF Advances, Pends
  <2>9. \A q \in Reqs : req'[q] = req[q] \/ (q = r /\ Advances(r))
    BY <1>2, <1>8, <2>8 DEF SignAccess, Become
  <2> QED BY <1>8, <2>9 DEF SignAccess, Local, Quiet, Pends
<1>9. ASSUME NEW r \in Reqs, NEW read \in BOOLEAN, SignRotated(r, read)
      PROVE  Quiet(r)
  <2> DEFINE old == req[r].tok
  <2>1. PICK s \in Sids \ used :
          /\ Become(r, [req[r] EXCEPT !.pc = "delete",
                          !.new = Sign("refresh", old.uid, s, old.aud, old.info)])
          /\ used' = used \cup {s}
    BY <1>9 DEF SignRotated
  <2>2. req'[r] = [req[r] EXCEPT !.pc = "delete",
                          !.new = Sign("refresh", old.uid, s, old.aud, old.info)]
    BY <1>2, <2>1 DEF Become
  <2>3. /\ req'[r].pc = "delete" /\ req'[r].client = req[r].client
        /\ req'[r].new.aud = old.aud /\ req'[r].new.sid = s /\ req'[r].new.iat = now
    BY <1>2, <2>2 DEF Request, Sign
  <2>4. req[r].client = old.aud
    BY <1>9 DEF SignRotated, IInv, Audience
  <2>5. Advances(r)
    BY <2>1, <2>3, <2>4 DEF Advances, Pends
  <2>6. \A q \in Reqs : req'[q] = req[q] \/ (q = r /\ Advances(r))
    BY <1>2, <2>1, <2>5 DEF Become
  <2>7. Pends(r)' /\ used' = used \cup {req'[r].new.sid} /\ ~Pends(r)
    BY <1>9, <2>1, <2>3 DEF SignRotated, Pends
  <2> QED BY <1>9, <2>6, <2>7 DEF SignRotated, Local, Quiet
<1>10. ASSUME NEW r \in Reqs, DeleteOld(r)
       PROVE  Quiet(r)
  <2>1. req'[r] = [req[r] EXCEPT !.pc = "locate", !.tok = Nil]
    BY <1>2, <1>10 DEF DeleteOld, Become
  <2>2. /\ req'[r].pc = "locate"
        /\ req'[r].new = req[r].new /\ req'[r].client = req[r].client
    BY <1>2, <2>1 DEF Request
  <2>3. Pends(r) /\ req[r].client = req[r].new.aud /\ req[r].tok \in Token
    BY <1>10 DEF DeleteOld, Pends, IInv, Audience, TypeInv, LocalsOK, Shape
  <2>4. Advances(r)
    BY <2>2, <2>3 DEF Advances
  <2>5. \A q \in Reqs : req'[q] = req[q] \/ (q = r /\ Advances(r))
    BY <1>2, <1>10, <2>4 DEF DeleteOld, Become
  <2>6. \A u \in Users, s \in Sids :
          hashes'[<<"session", u, s>>] = hashes[<<"session", u, s>>]
    BY <1>10, <2>3, DeleteTokenEffect DEF DeleteOld, IInv, TypeInv
  <2>7. Pends(r)' /\ req'[r].new = req[r].new
    BY <2>2 DEF Pends
  <2> QED BY <1>10, <2>5, <2>6, <2>7 DEF DeleteOld, Local, Quiet
<1>11. ASSUME NEW t \in issued, Logout(t)
       PROVE  Quiet(Nil)
  <2>1. t \in Token
    BY DEF IInv, TypeInv, TypeOK
  <2>2. \A u \in Users, s \in Sids :
          hashes'[<<"session", u, s>>] = hashes[<<"session", u, s>>]
    BY <1>11, <2>1, DeleteTokenEffect DEF Logout, IInv, TypeInv
  <2> QED BY <1>11, <2>2 DEF Logout, Local, Quiet, Pends
<1>12. ASSUME NEW u \in Users, NEW i \in Infos, UpdateProfile(u, i)
       PROVE  Quiet(Nil)
  BY <1>12 DEF UpdateProfile, Local, Quiet, Pends
<1>13. ASSUME UNCHANGED vars
       PROVE  Quiet(Nil)
  BY <1>13 DEF vars, Local, Quiet, Pends
<1> QED
  BY <1>3, <1>4, <1>5, <1>6, <1>7, <1>8, <1>9, <1>10, <1>11, <1>12, <1>13
     DEF Next, Login, RedeemCode

LEMMA InvStep == IInv /\ [Next]_vars => IInv'
<1> SUFFICES ASSUME IInv, [Next]_vars PROVE IInv'
  OBVIOUS
<1>1. TypeInv'
  BY TypeStep DEF IInv
<1> QED BY <1>1, StepKinds, LocalStep, InsertStep, ExtendStep, TickStep DEF Quiet

LEMMA Invariant == Spec => []IInv
BY InvInit, InvStep, PTL DEF Spec

-----------------------------------------------------------------------------
(* What the invariant gives. *)

\* A token in a client's hands works until it expires, unless its session was
\* never stored or somebody asked for its deletion.
THEOREM TokensWork == Spec => []HeldTokensWork
<1>1. IInv => HeldTokensWork
  <2> SUFFICES ASSUME IInv, NEW t \in issued, Valid(t), t.sid \notin lost \cup retired
               PROVE  Introspect(t) /\ (t.typ = "access" => UserInfo(t) = 200)
    BY DEF HeldTokensWork
  <2>1. HasSession(t)
    BY DEF IInv, Covered, Held
  <2> QED BY <2>1 DEF Introspect, UserInfo, JWTAuthMiddleware
<1> QED BY <1>1, Invariant, PTL

\* A session belongs to the client its tokens name, along every rotation.
THEOREM AudienceKept == Spec => []ClientIsAudience
<1>1. IInv => ClientIsAudience
  BY DEF IInv, Audience, Held, ClientIsAudience
<1> QED BY <1>1, Invariant, PTL

\* An unexpired index entry is a session.
THEOREM IndexIsSound == Spec => []IndexSound
<1>1. IInv => IndexSound
  BY DEF IInv, Indexed, IndexSound
<1> QED BY <1>1, Invariant, PTL

\* The index lists every session a client can still use.
THEOREM TokensIndexed == Spec => []HeldTokensIndexed
<1>1. IInv => HeldTokensIndexed
  <2> SUFFICES ASSUME IInv, NEW t \in issued, Valid(t), t.sid \notin lost
               PROVE  Score(t) >= Expiry(t)
    BY DEF HeldTokensIndexed
  <2>1. Expiry(t) <= Score(t) /\ t \in Token
    BY DEF IInv, Indexed, Held, TypeInv, TypeOK
  <2>2. Expiry(t) \in Nat
    BY <2>1, TTLAssumption DEF Expiry, Token
  <2>3. Score(t) \in Nat
    <3>1. t.uid \in Users /\ t.sid \in Sids
      BY <2>1 DEF Token
    <3>2. Scores(IndexKey(t)) \in [Sids -> Nat]
      BY <3>1, EntryType DEF IndexKey, IInv
    <3> QED BY <3>1, <3>2 DEF Score, Scores, EmptyZset
  <2> QED BY <2>1, <2>2, <2>3
<1> QED BY <1>1, Invariant, PTL

-----------------------------------------------------------------------------
(* Sessions implements SessionLease.                                       *)

\* LeaseOf, case by case.
LEMMA LeaseCases ==
  ASSUME NEW s \in Sids
  PROVE  /\ Stored(s) => LeaseOf[s] = "open"
         /\ ~Stored(s) /\ s \in used \ Pending => LeaseOf[s] = "closed"
         /\ ~Stored(s) /\ s \notin used \ Pending => LeaseOf[s] = "none"
BY DEF LeaseOf

\* Two states with the same sessions and the same ids given up have the same
\* leases.
LEMMA SameLease ==
  ASSUME NEW S \in SUBSET Sids,
         \A s \in Sids \ S : /\ Stored(s)' = Stored(s)
                             /\ s \in used' \ Pending' <=> s \in used \ Pending
  PROVE  \A s \in Sids \ S : LeaseOf'[s] = LeaseOf[s]
BY DEF LeaseOf

\* Every promised session is stored.
PromisesStored == \A s \in Promised : Stored(s) /\ s \in Sids

LEMMA PromisedStored == IInv => PromisesStored
<1> SUFFICES ASSUME IInv, NEW t \in Held, Valid(t), t.sid \notin lost \cup retired
             PROVE  Stored(t.sid) /\ t.sid \in Sids
  BY DEF PromisesStored, Promised
<1>1. t \in Token /\ HasSession(t)
  BY HeldType DEF IInv, Covered
<1> QED BY <1>1 DEF Token, HasSession, SessionKey, Stored

\* What the invariant says of the ids of pending requests and open sessions.
LEMMA PendingFacts ==
  ASSUME IInv
  PROVE  /\ Pending \subseteq used /\ used \subseteq Sids
         /\ \A s \in Pending : ~Stored(s)
         /\ \A s \in Sids : Stored(s) => s \in used
         /\ \A s \in Promised : Stored(s) /\ s \in Sids
         /\ \A s \in Pending, t \in Held : t.sid # s
<1>1. Pending \subseteq used /\ \A s \in Pending : ~Stored(s)
  BY DEF Pending, IInv, Fresh
<1>2. used \subseteq Sids
  BY DEF IInv, TypeInv, TypeOK
<1>3. \A s \in Sids : Stored(s) => s \in used
  BY DEF IInv, Fresh, Stored
<1>4. \A s \in Promised : Stored(s) /\ s \in Sids
  BY PromisedStored DEF PromisesStored
<1>5. \A s \in Pending, t \in Held : t.sid # s
  BY DEF Pending, IInv, Fresh
<1> QED BY <1>1, <1>2, <1>3, <1>4, <1>5

\* A step that stores nothing, gives up nothing and promises nothing new lets
\* sessions lapse.
LEMMA LapseStep ==
  ASSUME IInv, IInv',
         \A s \in Sids : Stored(s)' => Stored(s),
         used' \ Pending' = used \ Pending,
         Promised' \subseteq Promised
  PROVE  Lease!LeaseNext
<1> DEFINE P == Promised \ Promised'
           C == {s \in Sids : Stored(s) /\ ~Stored(s)'}
<1>1. Promised' = Promised \ P
  OBVIOUS
<1>2. C \cap Promised' = {}
  <2>1. PromisesStored'
    <3>1. IInv' => PromisesStored'
      BY PromisedStored, PTL
    <3> QED BY <3>1
  <2> QED BY <2>1 DEF PromisesStored
<1>3. \A s \in C : LeaseOf[s] = "open"
  BY LeaseCases
<1>4. LeaseOf' = [s \in Sids |-> IF s \in C THEN "closed" ELSE LeaseOf[s]]
  <2>1. \A s \in Sids : LeaseOf'[s] = IF s \in C THEN "closed" ELSE LeaseOf[s]
    BY PendingFacts DEF LeaseOf
  <2> QED BY <2>1 DEF LeaseOf
<1>5. Lease!Lapse(P, C)
  BY <1>1, <1>2, <1>3, <1>4 DEF Lease!Lapse
<1> QED BY <1>5 DEF Lease!LeaseNext

\* A request that has drawn an id ends before it stores the session.
LEMMA DiscardStep ==
  ASSUME IInv, NEW s \in Pending,
         \A x \in Sids : Stored(x)' = Stored(x),
         Pending' = Pending \ {s}, used' = used, Promised' = Promised
  PROVE  Lease!LeaseNext
<1>1. s \in Sids /\ s \in used /\ ~Stored(s)
  BY PendingFacts
<1>2. LeaseOf[s] = "none"
  BY <1>1, LeaseCases
<1>3. LeaseOf' = [LeaseOf EXCEPT ![s] = "closed"]
  BY <1>1 DEF LeaseOf
<1>4. Lease!Discard(s)
  BY <1>2, <1>3 DEF Lease!Discard
<1> QED BY <1>1, <1>4 DEF Lease!LeaseNext

\* A request stores the session it has drawn the id of.
LEMMA OpenStep ==
  ASSUME IInv, NEW s \in Pending, Stored(s)',
         \A x \in Sids \ {s} : Stored(x)' = Stored(x),
         Pending' = Pending \ {s}, used' = used,
         Promised' \in {Promised, Promised \cup {s}}
  PROVE  Lease!LeaseNext
<1>1. s \in Sids /\ s \in used /\ ~Stored(s)
  BY PendingFacts
<1>2. LeaseOf[s] = "none"
  BY <1>1, LeaseCases
<1>3. LeaseOf' = [LeaseOf EXCEPT ![s] = "open"]
  BY <1>1 DEF LeaseOf
<1>4. Lease!Open(s)
  BY <1>2, <1>3 DEF Lease!Open
<1> QED BY <1>1, <1>4 DEF Lease!LeaseNext

-----------------------------------------------------------------------------
(* Every step of a request is one of those three. *)

\* The ids of pending requests when request r stops being one of them.
LEMMA PendingAfter ==
  ASSUME IInv, NEW r \in Reqs, Pends(r), ~Pends(r)',
         \A q \in Reqs \ {r} : req'[q] = req[q]
  PROVE  req[r].new.sid \in Pending /\ Pending' = Pending \ {req[r].new.sid}
<1>1. \A q \in Reqs : Pends(q)' <=> Pends(q) /\ q # r
  BY DEF Pends
<1>2. \A q \in Reqs \ {r} : Pends(q) => req[q].new.sid # req[r].new.sid
  BY DEF IInv, Fresh
<1> QED BY <1>1, <1>2 DEF Pending

LEMMA QuietLease ==
  ASSUME IInv, IInv', NEW r, Quiet(r)
  PROVE  Lease!LeaseNext
<1>1. \A s \in Sids : Stored(s)' = Stored(s)
  BY DEF Quiet, Local, Stored, Exists
<1>2. used' \ Pending' = used \ Pending
  <2>1. \A q \in Reqs : Pends(q) => Pends(q)' /\ req'[q].new = req[q].new
    BY DEF Quiet, Local, Pends
  <2>2. Pending \subseteq Pending'
    BY <2>1 DEF Pending
  <2>3. \A q \in Reqs : Pends(q)' => \/ Pends(q) /\ req'[q].new = req[q].new
                                     \/ req'[q].new.sid \in used' \ used
    BY DEF Quiet, Local, Advances, Pends
  <2>4. Pending' \subseteq Pending \cup (used' \ used)
    BY <2>3 DEF Pending
  <2>5. used' = used \/ \E s \in Pending' : used' = used \cup {s}
    BY DEF Quiet, Local, Pending
  <2>6. Pending \subseteq used
    BY PendingFacts
  <2> QED BY <2>2, <2>4, <2>5, <2>6
<1>3. Promised' \subseteq Promised
  <2> SUFFICES ASSUME NEW n \in Held', Valid(n)', n.sid \notin lost' \cup retired'
               PROVE  n.sid \in Promised
    BY DEF Promised
  <2>1. PICK t \in Held : Derived(n, t)
    BY HeldDerived DEF Quiet
  <2>2. now \in Nat /\ Expiry(t) \in Nat /\ Expiry(n) \in Nat
    <3>1. t \in Token /\ n \in Token
      <4>1. Held' \subseteq Token
        BY DEF Held, IInv, TypeInv, TypeOK, LocalsOK, Shape
      <4> QED BY <4>1, HeldType DEF IInv
    <3> QED BY <3>1, TTLAssumption DEF Token, Expiry, IInv, TypeInv, TypeOK
  <2>3. Valid(t) /\ t.sid \notin lost \cup retired /\ t.sid = n.sid
    BY <2>1, <2>2 DEF Derived, Valid, Expiry, Quiet, Local
  <2> QED BY <2>3 DEF Promised
<1> QED BY <1>1, <1>2, <1>3, LapseStep

LEMMA AbortLease ==
  ASSUME IInv, IInv', NEW r \in Reqs, Local(r), Abort(r)
  PROVE  Lease!LeaseNext
<1>1. \A s \in Sids : Stored(s)' = Stored(s)
  BY DEF Local, Stored, Exists
<1>2. req'[r] = Idle /\ \A q \in Reqs \ {r} : req'[q] = req[q]
  BY DEF Abort, Become, IInv, TypeInv, TypeOK
<1>3. ~Pends(r)'
  BY <1>2 DEF Pends, Idle
<1>4. CASE Pends(r)
  <2>1. req[r].new.sid \in Pending /\ Pending' = Pending \ {req[r].new.sid}
    BY <1>2, <1>3, <1>4, PendingAfter
  <2>2. Held' = Held
    <3>1. req'[r].pc \notin {"session", "account", "extend"}
      BY <1>2 DEF Idle
    <3>2. req[r].pc \notin {"session", "account", "extend"}
      BY <1>4 DEF Pends
    <3> QED BY <1>2, <3>1, <3>2 DEF Held, Local
  <2>3. Promised' = Promised
    BY <2>2 DEF Promised, Valid, Expiry, Abort
  <2> QED BY <1>1, <2>1, <2>3, DiscardStep DEF Abort
<1>5. CASE ~Pends(r)
  BY <1>5, QuietLease DEF Quiet
<1> QED BY <1>4, <1>5

LEMMA InsertLease ==
  ASSUME IInv, IInv', NEW r \in Reqs, InsertSession(r)
  PROVE  Lease!LeaseNext
<1> DEFINE t == req[r].new
<1>1. t \in Token /\ Pends(r) /\ req[r].client \in Clients
  BY DEF InsertSession, Pends, IInv, TypeInv, LocalsOK, Shape
<1>2. /\ AccessOf(t) \in Token
      /\ \A n \in {t, AccessOf(t)} : n.sid = t.sid
  BY <1>1 DEF AccessOf, Token
<1>3. Respond(r, {t, AccessOf(t)}) /\ now' = now /\ used' = used /\ retired' = retired
  BY DEF InsertSession
<1>4. /\ req'[r] = Idle /\ \A q \in Reqs \ {r} : req'[q] = req[q]
      /\ issued' \in {issued, issued \cup {t, AccessOf(t)}}
  <2>1. issued' \in {issued, issued \cup {t, AccessOf(t)}}
    BY <1>3 DEF Respond
  <2> QED BY <1>1, <1>2, <1>3, <2>1, RespondShape DEF IInv
<1>5. t.sid \in Pending /\ Pending' = Pending \ {t.sid}
  BY <1>1, <1>4, PendingAfter DEF Pends, Idle
<1>6. Held' \in {Held, Held \cup {t, AccessOf(t)}}
  <2>1. req'[r].pc \notin {"session", "account", "extend"}
    BY <1>4 DEF Idle
  <2>2. req[r].pc \notin {"session", "account", "extend"}
    BY <1>1 DEF Pends
  <2> QED BY <1>4, <2>1, <2>2 DEF Held
<1>7. \A n \in Held : n.sid # t.sid
  BY <1>5, PendingFacts
<1>8. CASE hashes' = hashes /\ lost' = lost \cup {t.sid}
  <2>1. \A s \in Sids : Stored(s)' = Stored(s)
    BY <1>8 DEF Stored
  <2>2. Promised' = Promised
    BY <1>2, <1>3, <1>6, <1>7, <1>8 DEF Promised, Valid, Expiry
  <2> QED BY <1>3, <1>5, <2>1, <2>2, DiscardStep
<1>9. CASE hashes' = StoreSession(hashes, t, req[r].client) /\ lost' = lost
  <2>1. /\ SessionKey(t) \in HashKeys
        /\ hashes' = [hashes EXCEPT ![SessionKey(t)] =
                        [data |-> req[r].client, deadline |-> now + SessionTTL]]
    BY <1>1, <1>9, StoreSessionEffect DEF IInv, TypeInv
  <2>2. PICK s \in Sids : s = t.sid
    BY <1>1 DEF Token
  <2>3. Stored(s)'
    <3>1. hashes'[SessionKey(t)].data = req[r].client
      BY <2>1 DEF IInv, TypeInv, TypeOK
    <3>2. \E u \in Users : hashes'[<<"session", u, s>>].data # Nil
      BY <1>1, <2>2, <3>1, NilAssumption DEF SessionKey, Token
    <3> QED BY <3>2 DEF Stored, Exists
  <2>4. \A x \in Sids \ {s} : Stored(x)' = Stored(x)
    <3>1. \A u \in Users, x \in Sids \ {s} :
            hashes'[<<"session", u, x>>] = hashes[<<"session", u, x>>]
      BY <2>1, <2>2, EntryType DEF SessionKey, IInv, TypeInv, TypeOK
    <3> QED BY <3>1 DEF Stored, Exists
  <2>5. Promised' \in {Promised, Promised \cup {s}}
    BY <1>2, <1>3, <1>6, <1>9, <2>2 DEF Promised, Valid, Expiry
  <2> QED BY <1>3, <1>5, <2>2, <2>3, <2>4, <2>5, OpenStep
<1> QED BY <1>8, <1>9 DEF InsertSession

LEMMA ExtendLease ==
  ASSUME IInv, IInv', NEW r \in Reqs, ExtendSession(r)
  PROVE  Lease!LeaseNext
<1> DEFINE t == req[r].new
<1>1. t \in Token /\ t \in Held
  BY DEF ExtendSession, IInv, TypeInv, LocalsOK, Shape, Held
<1>2. /\ Respond(r, {t})
      /\ now' = now /\ used' = used /\ lost' = lost /\ retired' = retired
  BY DEF ExtendSession
<1>3. /\ req'[r] = Idle /\ \A q \in Reqs \ {r} : req'[q] = req[q]
      /\ issued' \subseteq issued \cup {t}
  BY <1>1, <1>2, RespondShape DEF IInv
<1>4. Held' \subseteq Held
  <2>1. issued \subseteq Held
    BY DEF Held
  <2>2. Idle.pc = "idle"
    BY DEF Idle
  <2> QED BY <1>1, <1>3, <2>1, <2>2, HeldAfter
<1>5. Promised' \subseteq Promised
  BY <1>2, <1>4 DEF Promised, Valid, Expiry
<1>6. \A s \in Sids : Stored(s)' => Stored(s)
  <2>1. \/ hashes' = hashes
        \/ hashes' = [hashes EXCEPT ![SessionKey(t)] =
                         [data |-> hashes[SessionKey(t)].data,
                          deadline |-> now + SessionTTL]]
    BY <1>1, ExtendHashEffect DEF ExtendSession, IInv, TypeInv
  <2>2. \A u \in Users, s \in Sids :
          hashes'[<<"session", u, s>>].data = hashes[<<"session", u, s>>].data
    <3>1. \A k \in DOMAIN hashes : hashes'[k].data = hashes[k].data
      BY <2>1
    <3>2. \A u \in Users, s \in Sids : <<"session", u, s>> \in DOMAIN hashes
      BY DEF HashKeys, IInv, TypeInv, TypeOK
    <3> QED BY <3>1, <3>2
  <2> QED BY <2>2 DEF Stored, Exists
<1>7. Pending' = Pending
  <2>1. \A q \in Reqs : Pends(q)' = Pends(q) /\ (Pends(q) => req'[q] = req[q])
    BY <1>3 DEF Pends, Idle, ExtendSession
  <2> QED BY <2>1 DEF Pending
<1> QED BY <1>2, <1>5, <1>6, <1>7, LapseStep

LEMMA TickLease ==
  ASSUME IInv, IInv', Tick
  PROVE  Lease!LeaseNext
<1>1. /\ now \in Nat /\ now' = now + 1
      /\ req' = req /\ used' = used /\ lost' = lost /\ retired' = retired
      /\ issued' \subseteq issued
  BY DEF Tick, IInv, TypeInv, TypeOK
<1>2. Held' \subseteq Held /\ Held \subseteq Token
  BY <1>1, HeldType DEF Held, IInv
<1>3. Promised' \subseteq Promised
  <2>1. \A n \in Held' : Valid(n)' => Valid(n)
    <3>1. \A n \in Held : Expiry(n) \in Nat
      BY <1>2, TTLAssumption DEF Expiry, Token
    <3> QED BY <1>1, <1>2, <3>1 DEF Valid, Expiry
  <2> QED BY <1>1, <1>2, <2>1 DEF Promised
<1>4. \A s \in Sids : Stored(s)' => Stored(s)
  <2>1. hashes' = Evict(hashes, now')
    BY DEF Tick
  <2>2. \A k \in HashKeys : Exists(hashes', k) => Exists(hashes, k)
    BY <2>1 DEF Evict, Exists, Missing, IInv, TypeInv, TypeOK
  <2> QED BY <2>2, EntryType DEF Stored, IInv
<1>5. Pending' = Pending
  BY <1>1 DEF Pending, Pends
<1> QED BY <1>1, <1>3, <1>4, <1>5, LapseStep

LEMMA LeaseInitially == Init => Lease!LeaseInit
<1> SUFFICES ASSUME Init PROVE Lease!LeaseInit
  OBVIOUS
<1>1. \A s \in Sids : ~Stored(s)
  BY DEF Init, Stored, Exists, Missing, HashKeys
<1>2. Held = {}
  <2>1. \A r \in Reqs : req[r].pc = "idle"
    BY DEF Init, Idle
  <2> QED BY <2>1 DEF Init, Held
<1> QED BY <1>1, <1>2 DEF Init, LeaseOf, Promised, Lease!LeaseInit

\* The sessions in Redis, seen through the tokens that are out, behave as
\* leases: opened once, kept while promised, closed for good.
THEOREM LeaseKept == Spec => KeepsLease
<1>1. IInv /\ IInv' /\ [Next]_vars => [Lease!LeaseNext]_(Lease!leaseVars)
  BY StepKinds, QuietLease, AbortLease, InsertLease, ExtendLease, TickLease
<1> QED BY <1>1, LeaseInitially, Invariant, PTL DEF Spec, KeepsLease, Lease!LeaseSpec

-----------------------------------------------------------------------------
(* What SessionLease promises, and so what Sessions does.                  *)

LEMMA LeaseInvariant == Lease!LeaseSpec => []Lease!LeaseInv
<1>1. Lease!LeaseInit => Lease!LeaseInv
  BY DEF Lease!LeaseInit, Lease!LeaseInv, Lease!LeaseType, Lease!PromiseKept
<1>2. Lease!LeaseInv /\ [Lease!LeaseNext]_(Lease!leaseVars) => Lease!LeaseInv'
  <2> SUFFICES ASSUME Lease!LeaseInv, [Lease!LeaseNext]_(Lease!leaseVars)
               PROVE  Lease!LeaseInv'
    OBVIOUS
  <2> USE DEF Lease!LeaseInv, Lease!LeaseType, Lease!PromiseKept
  <2>1. ASSUME NEW s \in Sids, Lease!Open(s) PROVE Lease!LeaseInv'
    BY <2>1 DEF Lease!Open
  <2>2. ASSUME NEW s \in Sids, Lease!Discard(s) PROVE Lease!LeaseInv'
    BY <2>2 DEF Lease!Discard
  <2>3. ASSUME NEW P, NEW C \in SUBSET Sids, Lease!Lapse(P, C) PROVE Lease!LeaseInv'
    BY <2>3 DEF Lease!Lapse
  <2>4. CASE UNCHANGED Lease!leaseVars
    BY <2>4 DEF Lease!leaseVars
  <2> QED BY <2>1, <2>2, <2>3, <2>4 DEF Lease!LeaseNext
<1> QED BY <1>1, <1>2, PTL DEF Lease!LeaseSpec

\* The session a client's token names is open for as long as the client relies
\* on the token.
THEOREM PromisesKept == Spec => []Lease!PromiseKept
<1>1. Lease!LeaseInv => Lease!PromiseKept
  BY DEF Lease!LeaseInv
<1> QED BY <1>1, LeaseKept, LeaseInvariant, PTL DEF KeepsLease

\* No step opens a closed session again: a session that timed out, or whose
\* request failed, is gone for good, whatever requests are still under way.
THEOREM ClosedForGood == Spec => Lease!NeverReopened
<1>1. Lease!LeaseInv /\ [Lease!LeaseNext]_(Lease!leaseVars) =>
        [\A s \in Sids : LeaseOf[s] = "closed" => LeaseOf'[s] = "closed"]_(Lease!leaseVars)
  <2> SUFFICES ASSUME Lease!LeaseInv, Lease!LeaseNext, NEW s \in Sids, LeaseOf[s] = "closed"
               PROVE  LeaseOf'[s] = "closed"
    OBVIOUS
  <2> USE DEF Lease!LeaseInv, Lease!LeaseType
  <2>1. ASSUME NEW x \in Sids, Lease!Open(x) \/ Lease!Discard(x) PROVE LeaseOf'[s] = "closed"
    BY <2>1 DEF Lease!Open, Lease!Discard
  <2>2. ASSUME NEW P, NEW C \in SUBSET Sids, Lease!Lapse(P, C) PROVE LeaseOf'[s] = "closed"
    BY <2>2 DEF Lease!Lapse
  <2> QED BY <2>1, <2>2 DEF Lease!LeaseNext
<1> QED
  BY <1>1, LeaseKept, LeaseInvariant, PTL DEF KeepsLease, Lease!LeaseSpec, Lease!NeverReopened

=============================================================================
