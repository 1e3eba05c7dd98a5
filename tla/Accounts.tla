------------------------------ MODULE Accounts ------------------------------
(***************************************************************************)
(* Accounts: registration, the links that are mailed to verify an address  *)
(* or to reset a password, and what /login does to an account besides      *)
(* opening a session.  The rows are in Postgres, the links in Redis; every *)
(* call to either is a step of its own, and hashing a password takes long  *)
(* enough for other requests to get between a read and the UPDATE.         *)
(*                                                                         *)
(* Links run out after a day or two and a half hours.  No property here    *)
(* depends on how long, so there is no clock: a deadline is 1 or none, and *)
(* a link that has one may be dropped at any time.                         *)
(***************************************************************************)
EXTENDS Redis

CONSTANTS
  Emails, Passwords,
  Links,       \* tokens of links, 32 random bytes each: never drawn twice
  Reqs         \* requests in flight at the same time

Hash == [scheme : {"bcrypt", "argon2id"}, pw : Passwords]
Row == [verified : BOOLEAN, hash : Hash]
LinkData == [kind : {"signup", "reset"}, email : Emails]

ASSUME NilAssumption == Nil \notin Passwords \cup Row \cup LinkData

VARIABLES
  rows,       \* accounts.users, by e-mail
  links,      \* Redis: the hashes signup:... and reset:..., by token
  req,        \* the requests in flight, with their locals
  sessions,   \* the e-mails of accounts with a session in Redis
  mailed,     \* the links that were mailed
  drawn,      \* history: for each link drawn, what it is for
  chosen,     \* history: the passwords the owner of an address asked for
  confirmed,  \* history: the addresses whose owner followed a link
  uses,       \* history: how often a link changed a row; 2 is twice or more
  reusable    \* history: links read by two at once, or whose DEL failed

vars == <<rows, links, req, sessions, mailed, drawn, chosen, confirmed, uses, reusable>>

\* "hset", "expire": about to store a link.  "read", "del", "update": about to
\* make that call for a link.  "rehash": about to replace a bcrypt hash.
Steps == {"idle", "hset", "expire", "read", "del", "update", "rehash"}

Idle == [pc |-> "idle", kind |-> Nil, link |-> Nil, email |-> Nil, pw |-> Nil]

Argon2id(p) == [scheme |-> "argon2id", pw |-> p]

Reads(k) == {r \in Reqs : req[r].pc = "del" /\ req[r].link = k}

Become(r, loc) == req' = [req EXCEPT ![r] = loc]

\* Accounts may date from before this program: with a bcrypt hash, verified or not.
Init ==
  /\ rows \in [Emails -> {Nil} \cup {w \in Row : w.hash.scheme = "bcrypt"}]
  /\ links = [k \in Links |-> Missing]
  /\ req = [r \in Reqs |-> Idle]
  /\ sessions = {} /\ mailed = {} /\ reusable = {}
  /\ drawn = [k \in Links |-> Nil]
  /\ chosen = [e \in Emails |-> IF rows[e] = Nil THEN {} ELSE {rows[e].hash.pw}]
  /\ confirmed = {e \in Emails : rows[e] # Nil /\ rows[e].verified}
  /\ uses = [k \in Links |-> 0]

-----------------------------------------------------------------------------
(* Mailing a link: SignUpInsert and ResetInsert, then the mail. *)

NewLink(r, kind, e) ==
  \E k \in {x \in Links : drawn[x] = Nil} :
    /\ Become(r, [Idle EXCEPT !.pc = "hset", !.kind = kind, !.link = k, !.email = e])
    /\ drawn' = [drawn EXCEPT ![k] = [kind |-> kind, email |-> e]]

\* POST /register: INSERT, which a row with the same e-mail makes fail.
Register(r, e, p) ==
  /\ req[r].pc = "idle" /\ rows[e] = Nil
  /\ rows' = [rows EXCEPT ![e] = [verified |-> FALSE, hash |-> Argon2id(p)]]
  /\ chosen' = [chosen EXCEPT ![e] = @ \cup {p}]
  /\ NewLink(r, "signup", e)
  /\ UNCHANGED <<links, sessions, mailed, confirmed, uses, reusable>>

\* POST /login of an account that is not verified, whatever the password.
LoginUnverified(r, e) ==
  /\ req[r].pc = "idle" /\ rows[e] # Nil /\ ~rows[e].verified
  /\ NewLink(r, "signup", e)
  /\ UNCHANGED <<rows, links, sessions, mailed, chosen, confirmed, uses, reusable>>

\* Mutant: a link is stored for an address without an account.
RequestUnchecked(r, e) ==
  /\ req[r].pc = "idle"
  /\ NewLink(r, "reset", e)
  /\ UNCHANGED <<rows, links, sessions, mailed, chosen, confirmed, uses, reusable>>

\* GET /requestReset
RequestReset(r, e) ==
  /\ req[r].pc = "idle" /\ rows[e] # Nil
  /\ NewLink(r, "reset", e)
  /\ UNCHANGED <<rows, links, sessions, mailed, chosen, confirmed, uses, reusable>>

StoreLink(r) ==
  LET l == req[r] IN
  /\ l.pc = "hset"
  /\ links' = Write(links, l.link, [kind |-> l.kind, email |-> l.email])
  /\ Become(r, [l EXCEPT !.pc = "expire"])
  /\ UNCHANGED <<rows, sessions, mailed, drawn, chosen, confirmed, uses, reusable>>

\* Mutant: the error of EXPIRE is dropped.
MailUnchecked(r) ==
  /\ req[r].pc = "expire"
  /\ links' \in {links, Expire(links, req[r].link, 1)}
  /\ mailed' = mailed \cup {req[r].link}
  /\ Become(r, Idle)
  /\ UNCHANGED <<rows, sessions, drawn, chosen, confirmed, uses, reusable>>

\* EXPIRE, then the mail, which may be lost.
MailLink(r) ==
  /\ req[r].pc = "expire"
  /\ links' = Expire(links, req[r].link, 1)
  /\ mailed' \in {mailed, mailed \cup {req[r].link}}
  /\ Become(r, Idle)
  /\ UNCHANGED <<rows, sessions, drawn, chosen, confirmed, uses, reusable>>

-----------------------------------------------------------------------------
(* Following a link: GET /verify and POST /reset. *)

Verify(r, k) ==
  /\ req[r].pc = "idle"
  /\ Become(r, [Idle EXCEPT !.pc = "read", !.kind = "signup", !.link = k])
  /\ confirmed' = IF drawn[k].kind = "signup" THEN confirmed \cup {drawn[k].email}
                                              ELSE confirmed
  /\ UNCHANGED <<rows, links, sessions, mailed, drawn, chosen, uses, reusable>>

Reset(r, k, p) ==
  /\ req[r].pc = "idle"
  /\ Become(r, [Idle EXCEPT !.pc = "read", !.kind = "reset", !.link = k, !.pw = p])
  /\ chosen' = IF drawn[k].kind = "reset"
               THEN [chosen EXCEPT ![drawn[k].email] = @ \cup {p}] ELSE chosen
  /\ UNCHANGED <<rows, links, sessions, mailed, drawn, confirmed, uses, reusable>>

\* Mutant: the two kinds of link share a prefix.
ReadAnyLink(r) ==
  LET k == req[r].link IN
  /\ req[r].pc = "read" /\ Exists(links, k)
  /\ Become(r, [req[r] EXCEPT !.pc = "del", !.email = links[k].data.email])
  /\ reusable' = IF Reads(k) = {} THEN reusable ELSE reusable \cup {k}
  /\ UNCHANGED <<rows, links, sessions, mailed, drawn, chosen, confirmed, uses>>

\* HGETALL of VerifySignup or VerifyReset: the prefix of the key is the kind.
ReadLink(r) ==
  LET k == req[r].link IN
  /\ req[r].pc = "read" /\ Exists(links, k) /\ links[k].data.kind = req[r].kind
  /\ Become(r, [req[r] EXCEPT !.pc = "del", !.email = links[k].data.email])
  /\ reusable' = IF Reads(k) = {} THEN reusable ELSE reusable \cup {k}
  /\ UNCHANGED <<rows, links, sessions, mailed, drawn, chosen, confirmed, uses>>

\* Mutant: DEL is given the token without the prefix.
DeleteBareToken(r) ==
  /\ req[r].pc = "del"
  /\ Become(r, [req[r] EXCEPT !.pc = "update"])
  /\ UNCHANGED <<rows, links, sessions, mailed, drawn, chosen, confirmed, uses, reusable>>

\* DEL, whose error is dropped.
DeleteLink(r) ==
  LET k == req[r].link IN
  /\ req[r].pc = "del"
  /\ \/ links' = Del(links, k) /\ UNCHANGED reusable
     \/ reusable' = reusable \cup {k} /\ UNCHANGED links
  /\ Become(r, [req[r] EXCEPT !.pc = "update"])
  /\ UNCHANGED <<rows, sessions, mailed, drawn, chosen, confirmed, uses>>

Used(k) == uses' = [uses EXCEPT ![k] = IF @ = 0 THEN 1 ELSE 2]

VerifyAccount(r) ==
  /\ req[r].pc = "update" /\ req[r].kind = "signup"
  /\ rows' = [rows EXCEPT ![req[r].email].verified = TRUE]
  /\ Used(req[r].link)
  /\ Become(r, Idle)
  /\ UNCHANGED <<links, sessions, mailed, drawn, chosen, confirmed, reusable>>

\* The password of the row is replaced; the sessions stay.
ResetPassword(r) ==
  /\ req[r].pc = "update" /\ req[r].kind = "reset"
  /\ rows' = [rows EXCEPT ![req[r].email].hash = Argon2id(req[r].pw)]
  /\ Used(req[r].link)
  /\ Become(r, Idle)
  /\ UNCHANGED <<links, sessions, mailed, drawn, chosen, confirmed, reusable>>

-----------------------------------------------------------------------------
(* POST /login of a verified account. *)

\* The hash is argon2id and the password fits: a session.
Login(r, e, p) ==
  /\ req[r].pc = "idle"
  /\ rows[e] # Nil /\ rows[e].verified /\ rows[e].hash = Argon2id(p)
  /\ sessions' = sessions \cup {e}
  /\ UNCHANGED <<rows, links, req, mailed, drawn, chosen, confirmed, uses, reusable>>

\* Mutant: the password is not compared with a bcrypt hash.
LoginUnchecked(r, e, p) ==
  /\ req[r].pc = "idle"
  /\ rows[e] # Nil /\ rows[e].verified /\ rows[e].hash.scheme = "bcrypt"
  /\ Become(r, [Idle EXCEPT !.pc = "rehash", !.email = e, !.pw = p])
  /\ UNCHANGED <<rows, links, sessions, mailed, drawn, chosen, confirmed, uses, reusable>>

\* It is bcrypt and fits: the same password is hashed anew, and stored next.
LoginLegacy(r, e, p) ==
  /\ req[r].pc = "idle"
  /\ rows[e] # Nil /\ rows[e].verified
  /\ rows[e].hash = [scheme |-> "bcrypt", pw |-> p]
  /\ Become(r, [Idle EXCEPT !.pc = "rehash", !.email = e, !.pw = p])
  /\ UNCHANGED <<rows, links, sessions, mailed, drawn, chosen, confirmed, uses, reusable>>

\* The UPDATE replaces whatever hash the row has by now.  No session is opened.
Rehash(r) ==
  /\ req[r].pc = "rehash"
  /\ rows' = [rows EXCEPT ![req[r].email].hash = Argon2id(req[r].pw)]
  /\ Become(r, Idle)
  /\ UNCHANGED <<links, sessions, mailed, drawn, chosen, confirmed, uses, reusable>>

-----------------------------------------------------------------------------
\* A request ends early: a call fails, a link is not there, the process stops.
Fail(r) ==
  /\ req[r].pc # "idle"
  /\ Become(r, Idle)
  /\ UNCHANGED <<rows, links, sessions, mailed, drawn, chosen, confirmed, uses, reusable>>

\* A link, or the last session of an account, runs out.
LinkExpires(k) ==
  /\ links[k].deadline # 0
  /\ links' = Del(links, k)
  /\ UNCHANGED <<rows, req, sessions, mailed, drawn, chosen, confirmed, uses, reusable>>

SessionExpires(e) ==
  /\ e \in sessions
  /\ sessions' = sessions \ {e}
  /\ UNCHANGED <<rows, links, req, mailed, drawn, chosen, confirmed, uses, reusable>>

Next ==
  \/ \E r \in Reqs, e \in Emails, p \in Passwords :
       Register(r, e, p) \/ Login(r, e, p) \/ LoginLegacy(r, e, p)
  \/ \E r \in Reqs, e \in Emails : LoginUnverified(r, e) \/ RequestReset(r, e)
  \/ \E r \in Reqs, k \in mailed : Verify(r, k)
  \/ \E r \in Reqs, k \in mailed, p \in Passwords : Reset(r, k, p)
  \/ \E r \in Reqs : \/ StoreLink(r) \/ MailLink(r) \/ ReadLink(r) \/ DeleteLink(r)
                     \/ VerifyAccount(r) \/ ResetPassword(r) \/ Rehash(r) \/ Fail(r)
  \/ \E k \in Links : LinkExpires(k)
  \/ \E e \in Emails : SessionExpires(e)

Spec == Init /\ [][Next]_vars

-----------------------------------------------------------------------------
Request == [pc : Steps, kind : {"signup", "reset", Nil}, link : Links \cup {Nil},
            email : Emails \cup {Nil}, pw : Passwords \cup {Nil}]

\* Type correctness; a request that is about to UPDATE a row names one that
\* exists, and where it writes a password has one.
TypeOK ==
  /\ rows \in [Emails -> Row \cup {Nil}]
  /\ links \in [Links -> Entries(LinkData)]
  /\ req \in [Reqs -> Request]
  /\ \A r \in Reqs : req[r].pc \in {"update", "rehash"} => rows[req[r].email] # Nil
  /\ sessions \subseteq Emails /\ confirmed \subseteq Emails
  /\ mailed \subseteq Links /\ reusable \subseteq Links
  /\ drawn \in [Links -> LinkData \cup {Nil}]
  /\ chosen \in [Emails -> SUBSET Passwords]
  /\ uses \in [Links -> 0..2]

\* The password of an account is one its owner asked for: at registration, with
\* a reset link mailed to the address, or it is the one the account came with,
\* whichever requests follow which links at the same time.
PasswordChosen ==
  \A e \in Emails : rows[e] # Nil => rows[e].hash.pw \in chosen[e]

\* An account is verified only when somebody followed a verification link that
\* was mailed to its address; a reset link does not do.
VerifiedByOwner ==
  \A e \in Emails : rows[e] # Nil /\ rows[e].verified => e \in confirmed

\* A link that was mailed is on its way out, or gone.
MailedLinksExpire ==
  \A k \in mailed : Exists(links, k) => links[k].deadline # 0

\* A link changes a row twice only if two requests read it before either
\* deleted it, or Redis refused to delete it.
OneUseUnlessRaced == \A k \in Links \ reusable : uses[k] <= 1

-----------------------------------------------------------------------------
(* What the comments of the code say, and the code does not do. *)

\* routes.go, in handleLogin: the re-hash is "for users who are still on the old
\* bcrypt system".  A row that has left bcrypt in the meantime keeps its password,
\* which its owner may just have reset.
RehashKeepsPassword ==
  [][\A r \in Reqs :
       Rehash(r) /\ rows[req[r].email].hash.scheme # "bcrypt" => rows' = rows]_vars

=============================================================================
