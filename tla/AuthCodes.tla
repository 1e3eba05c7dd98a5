----------------------------- MODULE AuthCodes -----------------------------
(***************************************************************************)
(* Authorization codes.  GET /authorize stores what a user who is signed in*)
(* approved under a fresh code (HSET, then EXPIRE) and redirects to the    *)
(* app with it; POST /token reads the code (HGETALL), deletes it (DEL), and*)
(* only then looks whether the request may have it.  Redis runs other      *)
(* requests' commands between each of these, and a code is a bearer value: *)
(* any client, and any number of requests, may present it.                 *)
(*                                                                         *)
(* A client has one registered redirect URI, which both handlers compare   *)
(* with the request's, so a client stands for its URI as well.  A code     *)
(* challenge is named by the verifier whose SHA-256 it is.                 *)
(***************************************************************************)
EXTENDS Redis

CONSTANTS
  Users, Clients,
  Public,      \* the clients without a secret, which use PKCE
  Verifiers,   \* PKCE code verifiers
  Codes,       \* codes, 32 random bytes each: never drawn twice
  Reqs,        \* requests in flight at the same time
  CodeTTL,     \* 60 seconds
  MaxTime      \* bound of the model: the clock stops here

\* What a user approves for an app.
AuthData == [user : Users, client : Clients, challenge : Verifiers \cup {Nil}]

ASSUME NilAssumption == Nil \notin Verifiers \cup AuthData
ASSUME BoundAssumption ==
  Public \subseteq Clients /\ CodeTTL \in Nat \ {0} /\ MaxTime \in Nat

VARIABLES
  now,        \* the clock of Redis
  codes,      \* Redis: the hashes auth_code:..., by code
  req,        \* the requests in flight, with their locals
  held,       \* the codes that apps were redirected with
  approved,   \* history: for each code drawn, what was approved under it
  grants,     \* history: the token responses of /token
  again,      \* history: codes that got a second token response
  raced,      \* history: codes read while another reader had not deleted yet
  undeleted   \* history: codes whose DEL failed

vars == <<now, codes, req, held, approved, grants, again, raced, undeleted>>

\* A token response: its audience and user, and the verifier that was shown.
Grants == [code : Codes, user : Users, aud : Clients,
           verifier : Verifiers \cup {Nil}]

\* "hset", "expire": /authorize about to make that call.  "read", "del": /token
\* about to make that call.  "check": /token with the data of a code it deleted.
Steps == {"idle", "hset", "expire", "read", "del", "check"}

Idle == [pc |-> "idle", code |-> Nil, data |-> Nil, client |-> Nil, verifier |-> Nil]

Reads(c) == {r \in Reqs : req[r].pc = "del" /\ req[r].code = c}

Become(r, loc) == req' = [req EXCEPT ![r] = loc]

Init ==
  /\ now = 0
  /\ codes = [c \in Codes |-> Missing]
  /\ req = [r \in Reqs |-> Idle]
  /\ held = {} /\ approved = [c \in Codes |-> Nil]
  /\ grants = {} /\ again = {} /\ raced = {} /\ undeleted = {}

-----------------------------------------------------------------------------
(* GET /authorize *)

\* User u's access cookie is valid.  A public client must send a challenge;
\* that of another client is not kept.
Authorize(r, u, cl, ch) ==
  LET d == [user |-> u, client |-> cl,
            challenge |-> IF cl \in Public THEN ch ELSE Nil] IN
  /\ req[r].pc = "idle"
  /\ \E c \in {x \in Codes : approved[x] = Nil} :
       /\ Become(r, [Idle EXCEPT !.pc = "hset", !.code = c, !.data = d])
       /\ approved' = [approved EXCEPT ![c] = d]
  /\ UNCHANGED <<now, codes, held, grants, again, raced, undeleted>>

StoreCode(r) ==
  /\ req[r].pc = "hset"
  /\ codes' = Write(codes, req[r].code, req[r].data)
  /\ Become(r, [req[r] EXCEPT !.pc = "expire"])
  /\ UNCHANGED <<now, held, approved, grants, again, raced, undeleted>>

\* Mutant: the error of EXPIRE is dropped.
ExpireUnchecked(r) ==
  /\ req[r].pc = "expire"
  /\ codes' \in {codes, Expire(codes, req[r].code, now + CodeTTL)}
  /\ held' = held \cup {req[r].code}
  /\ Become(r, Idle)
  /\ UNCHANGED <<now, approved, grants, again, raced, undeleted>>

\* EXPIRE, then the redirect, unless the browser is gone.
ExpireCode(r) ==
  /\ req[r].pc = "expire"
  /\ codes' = Expire(codes, req[r].code, now + CodeTTL)
  /\ held' \in {held, held \cup {req[r].code}}
  /\ Become(r, Idle)
  /\ UNCHANGED <<now, approved, grants, again, raced, undeleted>>

-----------------------------------------------------------------------------
(* POST /token *)

\* A public client sends a verifier, any other has shown its secret.
Token(r, c, cl, v) ==
  /\ req[r].pc = "idle"
  /\ Become(r, [Idle EXCEPT !.pc = "read", !.code = c, !.client = cl,
                            !.verifier = IF cl \in Public THEN v ELSE Nil])
  /\ UNCHANGED <<now, codes, held, approved, grants, again, raced, undeleted>>

\* Mutant: an empty answer of HGETALL is taken for a code.
ReadUnchecked(r) ==
  LET c == req[r].code IN
  /\ req[r].pc = "read"
  /\ Become(r, [req[r] EXCEPT !.pc = "del", !.data = codes[c].data])
  /\ raced' = IF Reads(c) = {} THEN raced ELSE raced \cup {c}
  /\ UNCHANGED <<now, codes, held, approved, grants, again, undeleted>>

\* Mutant: a code is remembered after it is gone from Redis.
ReadRemembered(r) ==
  LET c == req[r].code IN
  /\ req[r].pc = "read"
  /\ Become(r, [req[r] EXCEPT !.pc = "del", !.data = approved[c]])
  /\ raced' = IF Reads(c) = {} THEN raced ELSE raced \cup {c}
  /\ UNCHANGED <<now, codes, held, approved, grants, again, undeleted>>

\* The first half of GetAuthCode: HGETALL.
ReadCode(r) ==
  LET c == req[r].code IN
  /\ req[r].pc = "read" /\ Exists(codes, c)
  /\ Become(r, [req[r] EXCEPT !.pc = "del", !.data = codes[c].data])
  /\ raced' = IF Reads(c) = {} THEN raced ELSE raced \cup {c}
  /\ UNCHANGED <<now, codes, held, approved, grants, again, undeleted>>

\* Mutant: DEL is given a key without its prefix.
DeleteOtherKey(r) ==
  /\ req[r].pc = "del"
  /\ Become(r, [req[r] EXCEPT !.pc = "check"])
  /\ UNCHANGED <<now, codes, held, approved, grants, again, raced, undeleted>>

\* The second half: DEL, whose error is dropped.
DeleteCode(r) ==
  LET c == req[r].code IN
  /\ req[r].pc = "del"
  /\ \/ codes' = Del(codes, c) /\ UNCHANGED undeleted
     \/ undeleted' = undeleted \cup {c} /\ UNCHANGED codes
  /\ Become(r, [req[r] EXCEPT !.pc = "check"])
  /\ UNCHANGED <<now, held, approved, grants, again, raced>>

\* Mutant: the code may have been approved for another client.
MatchesAnyClient(l) == l.client \in Public => l.verifier = l.data.challenge

\* The code was approved for this client, and the verifier fits its challenge.
Matches(l) ==
  /\ l.data.client = l.client
  /\ l.client \in Public => l.verifier = l.data.challenge

\* The request may have the code, and its account is there: tokens.
Grant(r) ==
  LET l == req[r] IN
  /\ l.pc = "check" /\ Matches(l)
  /\ grants' = grants \cup {[code |-> l.code, user |-> l.data.user,
                             aud |-> l.client, verifier |-> l.verifier]}
  /\ again' = IF \E g \in grants : g.code = l.code THEN again \cup {l.code}
                                                   ELSE again
  /\ Become(r, Idle)
  /\ UNCHANGED <<now, codes, held, approved, raced, undeleted>>

-----------------------------------------------------------------------------
\* A request ends without a result: a call to Redis or Postgres fails, the code
\* or the account is not there, the code is not for this request, or the
\* process is stopped.
Fail(r) ==
  /\ req[r].pc # "idle"
  /\ Become(r, Idle)
  /\ UNCHANGED <<now, codes, held, approved, grants, again, raced, undeleted>>

\* Time passes, and Redis drops the codes that have expired.
Tick ==
  /\ now < MaxTime
  /\ now' = now + 1
  /\ codes' = Evict(codes, now')
  /\ UNCHANGED <<req, held, approved, grants, again, raced, undeleted>>

Next ==
  \/ \E r \in Reqs, u \in Users, cl \in Clients, ch \in Verifiers : Authorize(r, u, cl, ch)
  \/ \E r \in Reqs, c \in held, cl \in Clients, v \in Verifiers : Token(r, c, cl, v)
  \/ \E r \in Reqs : \/ StoreCode(r) \/ ExpireCode(r)
                     \/ ReadCode(r) \/ DeleteCode(r) \/ Grant(r) \/ Fail(r)
  \/ Tick

Spec == Init /\ [][Next]_vars

-----------------------------------------------------------------------------
Request == [pc : Steps, code : Codes \cup {Nil}, data : AuthData \cup {Nil},
            client : Clients \cup {Nil}, verifier : Verifiers \cup {Nil}]

\* Type correctness: what is in Redis and in a request's locals is what the
\* later steps of the handlers take it for.
TypeOK ==
  /\ now \in Nat
  /\ codes \in [Codes -> Entries(AuthData)]
  /\ req \in [Reqs -> Request]
  /\ \A r \in Reqs : req[r].pc \in {"del", "check"} => req[r].data # Nil
  /\ held \subseteq Codes
  /\ approved \in [Codes -> AuthData \cup {Nil}]
  /\ grants \subseteq Grants
  /\ again \subseteq Codes /\ raced \subseteq Codes /\ undeleted \subseteq Codes

\* Tokens go to the client the user approved, for that user, and when the
\* client is public to the app that started the authorization: whoever
\* presented the code, and whatever other requests did with it meanwhile.
GrantsApproved ==
  \A g \in grants :
    LET d == approved[g.code] IN
    /\ d # Nil /\ g.user = d.user /\ g.aud = d.client
    /\ d.client \in Public => g.verifier = d.challenge

\* A code in an app's hands is on its way out: though it is stored before it
\* gets its expiry, the app only hears of it afterwards.
HeldCodesExpire ==
  \A c \in held : Exists(codes, c) => codes[c].deadline \in (now + 1)..(now + CodeTTL)

\* A code buys tokens twice only if two requests read it before either deleted
\* it, or Redis refused to delete it: nothing else brings a redeemed code back,
\* no retry, no expiry that comes late, no request that failed half way.
SingleUseUnlessRaced == again \subseteq raced \cup undeleted

=============================================================================
