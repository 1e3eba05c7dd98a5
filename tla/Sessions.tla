------------------------------ MODULE Sessions ------------------------------
(***************************************************************************)
(* Sessions and the tokens that name them.  A session is a Redis hash with *)
(* an expiry; a refresh and an access token (JWTs) carry its id and expire *)
(* by themselves, whatever happens to the session.  The handlers of /login *)
(* and /token create a session, /refresh extends it or rotates to a new    *)
(* one, /logout asks Redis to delete it; /userinfo and /introspect read.   *)
(*                                                                         *)
(* Every request runs in a goroutine of its own and keeps what it has read *)
(* in locals, so each call to Redis, to Postgres or to the geolocation     *)
(* service is a step of its own, and time may pass before each of them.    *)
(***************************************************************************)
EXTENDS Redis

CONSTANTS
  Users, Clients,
  Infos,         \* the profile fields a token copies: e-mail and names
  NoLastName,    \* those of them with a NULL last_name
  Sids,          \* session ids, 32 random bytes each: never drawn twice
  Reqs,          \* requests in flight at the same time
  AccessTTL,     \* 15 minutes
  RotateBefore,  \* 2 days: a refresh token this close to its end is rotated
  SessionTTL,    \* 14 days: of refresh tokens, sessions and indexes alike
  MaxTime        \* bound of the model: the clock stops here

ASSUME NilAssumption ==
  Nil \notin Users \cup Clients \cup Infos \cup Sids \cup [Sids -> Nat]
ASSUME TTLAssumption ==
  /\ AccessTTL \in Nat \ {0} /\ RotateBefore \in Nat /\ SessionTTL \in Nat
  /\ AccessTTL <= RotateBefore /\ RotateBefore < SessionTTL
ASSUME BoundAssumption == NoLastName \subseteq Infos /\ MaxTime \in Nat

VARIABLES
  now,       \* the clock of the server and of Redis
  hashes,    \* Redis database 0: the hashes, a session's value is its client
  zsets,     \* Redis database 0: the sorted sets that index a user's sessions
  profile,   \* accounts.users: the fields a token copies, per user
  req,       \* the requests in flight, with their locals
  issued,    \* the tokens clients hold
  used,      \* session ids drawn so far
  lost,      \* ids of sessions whose InsertSession failed
  retired    \* ids of sessions that a logout or a rotation asked to delete

vars == <<now, hashes, zsets, profile, req, issued, used, lost, retired>>

-----------------------------------------------------------------------------
(* Tokens.                                                                 *)

Token == [typ : {"access", "refresh"}, uid : Users, sid : Sids,
          aud : Clients, info : Infos, iat : Nat]

Sign(typ, u, s, c, i) ==
  [typ |-> typ, uid |-> u, sid |-> s, aud |-> c, info |-> i, iat |-> now]

\* Mutant: the access token is signed with the type of another purpose.
AccessOfOtherType(t) == [t EXCEPT !.typ = "setup"]

\* The access token signed together with refresh token t.
AccessOf(t) == [t EXCEPT !.typ = "access"]

Expiry(t) == t.iat + (IF t.typ = "access" THEN AccessTTL ELSE SessionTTL)

Valid(t) == now < Expiry(t)

Rotates(t) == Expiry(t) < now + RotateBefore

-----------------------------------------------------------------------------
(* What TokenRepo keeps in Redis.  A session lives under session:uid:sid;  *)
(* the bare session id is a key too, one that nothing ever writes.         *)

SessionKey(t) == <<"session", t.uid, t.sid>>
BareKey(t)    == <<"bare", Nil, t.sid>>
IndexKey(t)    == <<"user:sessions:v2", t.uid>>
OldIndexKey(t) == <<"user:sessions", t.uid>>

HashKeys == ({"session"} \X Users \X Sids) \cup ({"bare"} \X {Nil} \X Sids)
ZsetKeys == {"user:sessions:v2", "user:sessions"} \X Users

\* A sorted set gives every member a positive score; 0 is not a member.
EmptyZset == [s \in Sids |-> 0]

HasSession(t) == Exists(hashes, SessionKey(t))
Score(t) == IF Exists(zsets, IndexKey(t)) THEN zsets[IndexKey(t)].data[t.sid]
                                          ELSE 0

\* The hash half of InsertSession's pipeline: HSET, then EXPIRE.
StoreSession(db, t, client) ==
  Expire(Write(db, SessionKey(t), client), SessionKey(t), now + SessionTTL)

\* Mutant: the score is the time a session was opened, not that of its end.
IndexByOpening(db, t, stamp) ==
  LET old == IF Exists(db, IndexKey(t)) THEN db[IndexKey(t)].data ELSE EmptyZset
  IN  Expire(Write(db, IndexKey(t), [old EXCEPT ![t.sid] = stamp]),
             IndexKey(t), now + SessionTTL)

\* The index half: ZADD, ZREMRANGEBYSCORE and EXPIRE, with the time the
\* handler read before it sent the pipeline.
IndexSession(db, t, stamp) ==
  LET old  == IF Exists(db, IndexKey(t)) THEN db[IndexKey(t)].data ELSE EmptyZset
      add  == [old EXCEPT ![t.sid] = stamp + SessionTTL]
      trim == [s \in Sids |-> IF add[s] <= stamp THEN 0 ELSE add[s]]
  IN  Expire(Write(db, IndexKey(t), trim), IndexKey(t), now + SessionTTL)

\* Mutants: a session is extended by the lifetime of the access token; it is
\* extended by writing it again.
ExtendForAccess(db, t)   == Expire(db, SessionKey(t), now + AccessTTL)
ExtendByRewriting(db, t) == StoreSession(db, t, t.aud)

\* ExtendSession's pipeline; its second command names the index by a key of
\* an older version.
ExtendHash(db, t)  == Expire(db, SessionKey(t), now + SessionTTL)
ExtendIndex(db, t) == Expire(db, OldIndexKey(t), now + SessionTTL)

\* Mutant: the session goes, its index entry stays.
DeleteOnlyHash(db, t) == Del(db, SessionKey(t))

\* DeleteToken, as both its callers use it: with the bare session id.
DeleteToken(db, t) == Del(db, BareKey(t))

-----------------------------------------------------------------------------
(* Requests in flight.  "session": about to read the session; "account":   *)
(* about to read the account and sign; "extend", "delete", "locate",       *)
(* "insert": about to make that call.                                      *)

Steps == {"idle", "session", "account", "extend", "delete", "locate", "insert"}

Idle == [pc |-> "idle", tok |-> Nil, client |-> Nil, new |-> Nil, stamp |-> 0]

Request == [pc : Steps,
            tok : Token \cup {Nil},       \* the refresh token presented
            client : Clients \cup {Nil},  \* client_id of the session
            new : Token \cup {Nil},       \* the token signed and not yet sent
            stamp : Nat]                  \* the time InsertSession has read

Become(r, loc) == req' = [req EXCEPT ![r] = loc]

\* The response is sent: the client gets the tokens, or is gone by now.
Respond(r, toks) ==
  /\ Become(r, Idle)
  /\ issued' \in {issued, issued \cup toks}

Init ==
  /\ now = 0
  /\ hashes = [k \in HashKeys |-> Missing]
  /\ zsets = [k \in ZsetKeys |-> Missing]
  /\ profile \in [Users -> Infos]
  /\ req = [r \in Reqs |-> Idle]
  /\ issued = {} /\ used = {} /\ lost = {} /\ retired = {}

-----------------------------------------------------------------------------
(* Creating a session: both tokens are signed before the session is        *)
(* stored, and the geolocation request between the two has no timeout.     *)

\* The session is for client c, the tokens name audience a.
IssuePair(r, u, c, a) ==
  /\ req[r].pc = "idle"
  /\ \E s \in Sids \ used :
       /\ Become(r, [Idle EXCEPT !.pc = "locate", !.client = c,
                                 !.new = Sign("refresh", u, s, a, profile[u])])
       /\ used' = used \cup {s}
  /\ UNCHANGED <<now, hashes, zsets, profile, issued, lost, retired>>

\* POST /login, for a registered client, a verified account and its password.
\* The branches that mail a new link to an unverified account and that replace
\* a bcrypt hash end without tokens, and touch nothing of what is kept here.
Login(r, u, c) == IssuePair(r, u, c, c)

\* POST /token, once the authorization code is redeemed for user u: the session
\* is for the client the code says, the tokens are for the one that asks.
RedeemCode(r, u, c, a) == IssuePair(r, u, c, a)

\* GetIPLocation has returned; InsertSession reads the clock.
Locate(r) ==
  /\ req[r].pc = "locate"
  /\ Become(r, [req[r] EXCEPT !.pc = "insert", !.stamp = now])
  /\ UNCHANGED <<now, hashes, zsets, profile, issued, used, lost, retired>>

\* The pipeline runs or does not; the handlers send the tokens either way.
InsertSession(r) ==
  LET t == req[r].new IN
  /\ req[r].pc = "insert"
  /\ \/ /\ hashes' = StoreSession(hashes, t, req[r].client)
        /\ zsets' = IndexSession(zsets, t, req[r].stamp)
        /\ UNCHANGED lost
     \/ /\ lost' = lost \cup {t.sid}
        /\ UNCHANGED <<hashes, zsets>>
  /\ Respond(r, {t, AccessOf(t)})
  /\ UNCHANGED <<now, profile, used, retired>>

-----------------------------------------------------------------------------
(* POST /refresh *)

Refresh(r, t) ==
  /\ req[r].pc = "idle"
  /\ t.typ = "refresh" /\ Valid(t)
  /\ Become(r, [Idle EXCEPT !.pc = "session", !.tok = t])
  /\ UNCHANGED <<now, hashes, zsets, profile, issued, used, lost, retired>>

GetSessionByID(r) ==
  LET t == req[r].tok IN
  /\ req[r].pc = "session" /\ HasSession(t)
  /\ Become(r, [req[r] EXCEPT !.pc = "account",
                              !.client = hashes[SessionKey(t)].data])
  /\ UNCHANGED <<now, hashes, zsets, profile, issued, used, lost, retired>>

\* The session is missing, or Redis does not answer: 401.
SessionNotFound(r) ==
  /\ req[r].pc = "session"
  /\ Become(r, Idle)
  /\ UNCHANGED <<now, hashes, zsets, profile, issued, used, lost, retired>>

\* With update_info the handler reads the account again, and a NULL last
\* name makes it panic.  Below, read is whether it did and Postgres answered.
RefreshPanics(r) ==
  /\ req[r].pc = "account"
  /\ profile[req[r].tok.uid] \in NoLastName
  /\ Become(r, Idle)
  /\ UNCHANGED <<now, hashes, zsets, profile, issued, used, lost, retired>>

\* A refresh token with days to go: a new access token, the session extended.
SignAccess(r, read) ==
  LET t    == req[r].tok
      info == IF read THEN profile[t.uid] ELSE t.info
  IN
  /\ req[r].pc = "account" /\ ~Rotates(t)
  /\ read => profile[t.uid] \notin NoLastName
  /\ Become(r, [Idle EXCEPT !.pc = "extend",
                            !.new = Sign("access", t.uid, t.sid, t.aud, info)])
  /\ UNCHANGED <<now, hashes, zsets, profile, issued, used, lost, retired>>

\* One near its end: new tokens for a new session, from the old claims.
SignRotated(r, read) ==
  LET t == req[r].tok IN
  /\ req[r].pc = "account" /\ Rotates(t)
  /\ read => profile[t.uid] \notin NoLastName
  /\ \E s \in Sids \ used :
       /\ Become(r, [req[r] EXCEPT !.pc = "delete",
                       !.new = Sign("refresh", t.uid, s, t.aud, t.info)])
       /\ used' = used \cup {s}
  /\ UNCHANGED <<now, hashes, zsets, profile, issued, lost, retired>>

ExtendSession(r) ==
  LET t == req[r].new IN
  /\ req[r].pc = "extend"
  /\ \/ /\ hashes' = ExtendHash(hashes, t)
        /\ zsets' = ExtendIndex(zsets, t)
     \/ UNCHANGED <<hashes, zsets>>          \* the error is dropped
  /\ Respond(r, {t})
  /\ UNCHANGED <<now, profile, used, lost, retired>>

\* A rotation deletes the old session (and drops any error) before it stores
\* the new one.
DeleteOld(r) ==
  LET t == req[r].tok IN
  /\ req[r].pc = "delete"
  /\ hashes' \in {hashes, DeleteToken(hashes, t)}
  /\ retired' = retired \cup {t.sid}
  /\ Become(r, [req[r] EXCEPT !.pc = "locate", !.tok = Nil])
  /\ UNCHANGED <<now, zsets, profile, issued, used, lost>>

-----------------------------------------------------------------------------
(* POST /logout: one call to Redis, whose error is dropped. *)

Logout(t) ==
  /\ t.typ = "refresh" /\ Valid(t)
  /\ hashes' \in {hashes, DeleteToken(hashes, t)}
  /\ retired' = retired \cup {t.sid}
  /\ UNCHANGED <<now, zsets, profile, req, issued, used, lost>>

(* PUT /update changes the names of the account; it cannot make one NULL. *)
UpdateProfile(u, i) ==
  /\ i \in NoLastName => profile[u] \in NoLastName
  /\ profile' = [profile EXCEPT ![u] = i]
  /\ UNCHANGED <<now, hashes, zsets, req, issued, used, lost, retired>>

\* The goroutine of a request ends early: the process is stopped or replaced.
Abort(r) ==
  /\ req[r].pc # "idle"
  /\ Become(r, Idle)
  /\ UNCHANGED <<now, hashes, zsets, profile, issued, used, lost, retired>>

\* Time passes: Redis drops what has expired, and clients forget the tokens
\* that no handler would accept any more.
Tick ==
  /\ now < MaxTime
  /\ now' = now + 1
  /\ hashes' = Evict(hashes, now')
  /\ zsets' = Evict(zsets, now')
  /\ issued' = {t \in issued : Valid(t)'}
  /\ UNCHANGED <<profile, req, used, lost, retired>>

Next ==
  \/ \E r \in Reqs, u \in Users, c \in Clients : Login(r, u, c) \/ RedeemCode(r, u, c, c)
  \/ \E r \in Reqs, t \in issued : Refresh(r, t)
  \/ \E r \in Reqs : \/ Locate(r) \/ InsertSession(r)
                     \/ GetSessionByID(r) \/ SessionNotFound(r) \/ RefreshPanics(r)
                     \/ ExtendSession(r) \/ DeleteOld(r) \/ Abort(r)
  \/ \E r \in Reqs, read \in BOOLEAN : SignAccess(r, read) \/ SignRotated(r, read)
  \/ \E t \in issued : Logout(t)
  \/ \E u \in Users, i \in Infos : UpdateProfile(u, i)
  \/ Tick

Spec == Init /\ [][Next]_vars

-----------------------------------------------------------------------------
(* The handlers that only read. *)

\* JWTAuthMiddleware lets the token pass; it does not look for the session.
JWTAuthMiddleware(t) == t.typ = "access" /\ Valid(t)

\* The status of POST /userinfo, which does.
UserInfo(t) == IF ~JWTAuthMiddleware(t) THEN 401
               ELSE IF ~HasSession(t) THEN 404 ELSE 200

\* POST /introspect answers "active".
Introspect(t) == Valid(t) /\ HasSession(t)

-----------------------------------------------------------------------------
(* Type correctness: tokens, requests and Redis entries have the shape the *)
(* handlers rely on.                                                       *)
TypeOK ==
  /\ now \in Nat
  /\ hashes \in [HashKeys -> Entries(Clients)]
  /\ zsets \in [ZsetKeys -> Entries([Sids -> Nat])]
  /\ profile \in [Users -> Infos]
  /\ req \in [Reqs -> Request]
  /\ issued \subseteq Token
  /\ used \subseteq Sids /\ lost \subseteq Sids /\ retired \subseteq Sids

\* A token in a client's hands works until it expires: unless its session
\* failed to be stored, or somebody logged out of it or rotated it, the
\* session is there as long as the token is valid, however late an
\* InsertSession or an ExtendSession ran.
HeldTokensWork ==
  \A t \in issued :
    Valid(t) /\ t.sid \notin lost \cup retired =>
      /\ Introspect(t)
      /\ t.typ = "access" => UserInfo(t) = 200

\* A session was opened for the client its tokens name as their audience,
\* whichever of /login, /token and a chain of rotations opened it: /token and
\* a rotation take the two from different places.
ClientIsAudience ==
  \A t \in issued : HasSession(t) => hashes[SessionKey(t)].data = t.aud

\* An unexpired entry of a user's session index is a session in Redis.
IndexSound ==
  \A t \in [uid : Users, sid : Sids] : Score(t) > now => HasSession(t)

\* The index lists every session a client can still use, until the last of its
\* tokens expires: although ExtendSession leaves the index alone, neither the
\* trim of a later InsertSession nor the expiry of the index drops it early.
HeldTokensIndexed ==
  \A t \in issued : Valid(t) /\ t.sid \notin lost => Score(t) >= Expiry(t)

-----------------------------------------------------------------------------
(* The life of a session id, as SessionLease has it. *)

\* The requests that have drawn a session id and not stored the session yet.
Pends(r) == req[r].pc \in {"delete", "locate", "insert"}

Pending == {req[r].new.sid : r \in {q \in Reqs : Pends(q)}}

\* The tokens that are out, and those a request may yet act on or hand out.
Held == issued
        \cup {req[r].tok : r \in {q \in Reqs : req[q].pc \in {"session", "account"}}}
        \cup {req[r].new : r \in {q \in Reqs : req[q].pc = "extend"}}

Stored(s) == \E u \in Users : Exists(hashes, <<"session", u, s>>)

LeaseOf == [s \in Sids |-> IF Stored(s) THEN "open"
                           ELSE IF s \in used \ Pending THEN "closed"
                           ELSE "none"]

Promised == {t.sid : t \in {h \in Held : Valid(h)}} \ (lost \cup retired)

Lease == INSTANCE SessionLease WITH lease <- LeaseOf, promised <- Promised

\* A session is opened at most once, is there while a client or a request holds
\* a valid token for it, and is never brought back: not by a late
\* ExtendSession, nor by a rotation, nor by an InsertSession that waited for
\* the geolocation service.
KeepsLease == Lease!LeaseSpec

-----------------------------------------------------------------------------
(* What the comments of the code say, and the code does not do. *)

\* TokenRepo.go, above DeleteToken: "Deletes a refresh token from Redis (used
\* during rotation)".  When the DEL has run the session is gone.
TokenIsDeleted ==
  [][\A t \in issued :
       hashes' = DeleteToken(hashes, t)
         /\ (Logout(t) \/ \E r \in Reqs : DeleteOld(r) /\ req[r].tok = t)
       => ~HasSession(t)']_vars

=============================================================================
