----------------------------- MODULE AuthServer -----------------------------
(***************************************************************************)
(* The server: the sessions and tokens of Sessions, the authorization codes*)
(* of AuthCodes and the table of client apps, on one clock.  A browser that*)
(* holds an access token of a session gets codes at GET /authorize; the    *)
(* app it is sent back to turns a code into a session and tokens of its    *)
(* own at POST /token.  Apps are taken off the table by hand: nothing in   *)
(* the program writes it.                                                  *)
(***************************************************************************)
EXTENDS Sessions

CONSTANTS
  Public, Verifiers, Codes, CodeTTL,  \* as in AuthCodes
  Sites,       \* bounds of the model: the apps people log in at, and
  Withdrawable, \*   those that may be withdrawn
  CodeReqs     \* requests of /authorize and /token that deal with a code

ASSUME CodesAssumption ==
  /\ Nil \notin Verifiers \cup [user : Users, client : Clients,
                                challenge : Verifiers \cup {Nil}]
  /\ Public \subseteq Clients /\ CodeTTL \in Nat \ {0}
ASSUME SitesAssumption == Sites \cup Withdrawable \subseteq Clients

VARIABLES
  codes, creq, held, approved, grants, again, raced, undeleted,  \* of AuthCodes
  apps,        \* accounts.apps: the clients that are on the table
  logins       \* history: who logged in, at which client

codeVars == <<codes, creq, held, approved, grants, again, raced, undeleted>>
serverVars == <<vars, codeVars, apps, logins>>

AC == INSTANCE AuthCodes WITH req <- creq, Reqs <- CodeReqs

ServerInit ==
  /\ Init /\ AC!Init
  /\ apps = Clients
  /\ logins = {}

\* What a step changes is said for the parts it concerns.
SessionsOnly == UNCHANGED <<codeVars, apps, logins>>
CodesOnly == UNCHANGED <<vars, apps, logins>>

-----------------------------------------------------------------------------
(* Client apps. *)

\* GetClientByID finds the row.  Its column "active" is read and not looked at,
\* so an app that is set inactive is an app like any other.
GetClientByID(c) == c \in apps

\* Whoever runs the server deletes the row.
Withdraw(c) ==
  /\ c \in apps
  /\ apps' = apps \ {c}
  /\ UNCHANGED <<vars, codeVars, logins>>

-----------------------------------------------------------------------------
(* POST /login *)

SignIn(r, u, c) ==
  /\ GetClientByID(c)
  /\ Login(r, u, c)
  /\ logins' = logins \cup {<<u, c>>}
  /\ UNCHANGED <<codeVars, apps>>

-----------------------------------------------------------------------------
(* GET /authorize, with the cookies of a browser. *)

\* The access token is valid; its session and its audience do not matter.  With
\* a refresh token alone the browser is sent to log in, whatever the token is
\* worth: GetTokenInfo looks for it where only InsertToken, which no handler
\* calls, would have stored it.
AuthorizeByAccess(r, t, cl, ch) ==
  /\ GetClientByID(cl)
  /\ t.typ = "access" /\ Valid(t)
  /\ AC!Authorize(r, t.uid, cl, ch)
  /\ CodesOnly

-----------------------------------------------------------------------------
(* POST /token *)

\* Mutant: what was once looked up is not looked up again.
TokenRequestCached(r, c, cl, v) ==
  /\ AC!Token(r, c, cl, v)
  /\ CodesOnly

TokenRequest(r, c, cl, v) ==
  /\ GetClientByID(cl)
  /\ AC!Token(r, c, cl, v)
  /\ CodesOnly

\* Mutants: the session is opened for any client; it gets the id of a session
\* that is open; the code is not checked.
RedeemForAny(r, q) ==
  /\ AC!Grant(r)
  /\ \E c \in Clients : RedeemCode(q, creq[r].data.user, c, c)
  /\ UNCHANGED <<apps, logins>>

RedeemIntoOpen(r, q) ==
  /\ AC!Grant(r)
  /\ req[q].pc = "idle"
  /\ \E t \in issued : Become(q, [Idle EXCEPT !.pc = "locate", !.client = t.aud, !.new = t])
  /\ UNCHANGED <<now, hashes, zsets, profile, issued, used, lost, retired>>
  /\ UNCHANGED <<apps, logins>>

RedeemUnchecked(r, q) ==
  LET l == creq[r] IN
  /\ l.pc = "check"
  /\ grants' = grants \cup {[code |-> l.code, user |-> l.data.user,
                             aud |-> l.client, verifier |-> l.verifier]}
  /\ again' = IF \E g \in grants : g.code = l.code THEN again \cup {l.code} ELSE again
  /\ creq' = [creq EXCEPT ![r] = AC!Idle]
  /\ RedeemCode(q, l.data.user, l.data.client, l.client)
  /\ UNCHANGED <<codes, held, approved, raced, undeleted, apps, logins>>

\* The code is this request's: the second half of the handler opens a session.
Redeem(r, q) ==
  /\ AC!Grant(r)
  /\ RedeemCode(q, creq[r].data.user, creq[r].data.client, creq[r].client)
  /\ UNCHANGED <<apps, logins>>

-----------------------------------------------------------------------------
\* The steps of the two components that concern nothing of the other.
SessionStep ==
  /\ \/ \E r \in Reqs, t \in issued : Refresh(r, t)
     \/ \E r \in Reqs : \/ Locate(r) \/ InsertSession(r)
                        \/ GetSessionByID(r) \/ SessionNotFound(r) \/ RefreshPanics(r)
                        \/ ExtendSession(r) \/ DeleteOld(r) \/ Abort(r)
     \/ \E r \in Reqs, read \in BOOLEAN : SignAccess(r, read) \/ SignRotated(r, read)
     \/ \E t \in issued : Logout(t)
     \/ \E u \in Users, i \in Infos : UpdateProfile(u, i)
  /\ SessionsOnly

CodeStep ==
  /\ \E r \in CodeReqs : \/ AC!StoreCode(r) \/ AC!ExpireCode(r)
                         \/ AC!ReadCode(r) \/ AC!DeleteCode(r) \/ AC!Fail(r)
  /\ CodesOnly

ServerTick == Tick /\ AC!Tick /\ UNCHANGED <<apps, logins>>

ServerNext ==
  \/ \E c \in Withdrawable : Withdraw(c)
  \/ \E r \in Reqs, u \in Users, c \in Sites : SignIn(r, u, c)
  \/ \E r \in CodeReqs, t \in issued, cl \in Clients, ch \in Verifiers :
       AuthorizeByAccess(r, t, cl, ch)
  \/ \E r \in CodeReqs, c \in held, cl \in Clients, v \in Verifiers :
       TokenRequest(r, c, cl, v)
  \/ \E r \in CodeReqs, q \in Reqs : Redeem(r, q)
  \/ SessionStep \/ CodeStep \/ ServerTick

ServerSpec == ServerInit /\ [][ServerNext]_serverVars

-----------------------------------------------------------------------------
\* Type correctness of the two components and of what is added here.
ServerTypeOK ==
  /\ TypeOK /\ AC!TypeOK
  /\ apps \subseteq Clients
  /\ logins \subseteq Users \X Clients

\* The tokens that are out, and those requests hold.
Everywhere == Held \cup {req[r].tok : r \in {q \in Reqs : req[q].pc = "delete"}}
                   \cup {req[r].new : r \in {q \in Reqs : Pends(q)}}

\* A token lets its audience act for its user: because the user logged in at
\* that app, or had a code drawn for it, however many refreshes and rotations
\* lie between, and whoever presented the code.
TokensEntitled ==
  \A t \in Everywhere :
    \/ <<t.uid, t.aud>> \in logins
    \/ \E c \in Codes : /\ approved[c] # Nil
                        /\ approved[c].user = t.uid /\ approved[c].client = t.aud

\* Nobody has a token of user u, no request works on one, and no code of u's is
\* in Redis or in a request.
SignedOut(u) ==
  /\ \A t \in Everywhere : t.uid # u
  /\ \A r \in CodeReqs : creq[r].data # Nil => creq[r].data.user # u
  /\ \A c \in Codes : Exists(codes, c) => codes[c].data.user # u

\* A user who is signed out everywhere stays so until the next login: no code,
\* cookie or session that is left over from before brings a token back.
StaysSignedOut ==
  [][\A u \in Users : SignedOut(u) /\ ~SignedOut(u)'
       => \E r \in Reqs, c \in Clients : SignIn(r, u, c)]_serverVars

\* App c is off the table, and no request that found it there is under way.
OffTheTable(c) ==
  /\ c \notin apps
  /\ \A r \in CodeReqs : /\ creq[r].client # c
                         /\ creq[r].pc \in {"hset", "expire"} => creq[r].data.client # c

\* From then on it gets no code, no tokens for the codes it has, and no user it
\* had not.  /refresh does not look for the client, so the app keeps the users
\* it has tokens of, for as long as it refreshes and rotates those.
WithdrawnGainsNobody ==
  [][\A c \in Clients : OffTheTable(c) =>
       /\ OffTheTable(c)'
       /\ \A g \in grants' \ grants : g.aud # c
       /\ \A k \in Codes : approved'[k] # approved[k] => approved'[k].client # c
       /\ \A n \in Everywhere' : n.aud = c =>
            \E t \in Everywhere : t.uid = n.uid /\ t.aud = c]_serverVars

\* With codes and apps around them, sessions do what Sessions lets them do (so
\* all that is proved of Sessions holds of the server) ...
KeepsSessions == Spec

\* ... and codes what AuthCodes lets them do, although /authorize only knows
\* users by their tokens and /token goes on to open a session.
KeepsCodes == AC!Spec

=============================================================================
