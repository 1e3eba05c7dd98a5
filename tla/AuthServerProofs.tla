-------------------------- MODULE AuthServerProofs --------------------------
(***************************************************************************)
(* The server implements its two components, so what is proved of each of  *)
(* them holds of the server; and what a token entitles its holder to.      *)
(***************************************************************************)
EXTENDS AuthServer, SessionsProofs

ACP == INSTANCE AuthCodesProofs WITH req <- creq, Reqs <- CodeReqs

\* The inductive invariants of the two, together.
BothInv == IInv /\ ACP!IInv

\* What a request that has deleted a code knows.
LEMMA Checking ==
  ASSUME ACP!IInv, NEW r \in CodeReqs, creq[r].pc = "check"
  PROVE  /\ creq[r].data.user \in Users /\ creq[r].client \in Clients
         /\ creq[r].code \in Codes /\ creq[r].data # Nil
         /\ creq[r].data = approved[creq[r].code]
<1>1. ACP!LocalsOK(r) /\ ACP!TypeOK
  BY DEF ACP!IInv, ACP!Locals
<1>2. creq[r].data \in ACP!AuthData /\ creq[r].data = approved[creq[r].code]
      /\ creq[r].code \in held /\ creq[r].client \in Clients
  BY <1>1 DEF ACP!LocalsOK, ACP!Redeeming
<1>3. held \subseteq Codes /\ creq[r].data # Nil
  BY <1>1 DEF ACP!TypeOK
<1> QED BY <1>2, <1>3 DEF ACP!AuthData

-----------------------------------------------------------------------------
(* What each step is for the sessions.                                     *)

LEMMA Opens ==
  ASSUME NEW r \in Reqs, NEW u \in Users, NEW c \in Clients,
         Login(r, u, c) \/ RedeemCode(r, u, c, c)
  PROVE  Next
BY DEF Next

LEMMA StepOfSessions == BothInv /\ [ServerNext]_serverVars => [Next]_vars
<1> SUFFICES ASSUME BothInv, [ServerNext]_serverVars PROVE [Next]_vars
  OBVIOUS
<1>1. CASE UNCHANGED serverVars
  BY <1>1 DEF serverVars
<1>2. CASE \E c \in Withdrawable : Withdraw(c)
  BY <1>2 DEF Withdraw
<1>3. CASE \E r \in Reqs, u \in Users, c \in Sites : SignIn(r, u, c)
  BY <1>3, SitesAssumption, Opens DEF SignIn
<1>4. CASE \E r \in CodeReqs, t \in issued, cl \in Clients, ch \in Verifiers :
             AuthorizeByAccess(r, t, cl, ch)
  BY <1>4 DEF AuthorizeByAccess, CodesOnly
<1>5. CASE \E r \in CodeReqs, c \in held, cl \in Clients, v \in Verifiers :
             TokenRequest(r, c, cl, v)
  BY <1>5 DEF TokenRequest, CodesOnly
<1>6. CASE \E r \in CodeReqs, q \in Reqs : Redeem(r, q)
  <2>1. PICK r \in CodeReqs, q \in Reqs : Redeem(r, q)
    BY <1>6
  <2>2. /\ creq[r].pc = "check"
        /\ RedeemCode(q, creq[r].data.user, creq[r].client, creq[r].client)
    BY <2>1 DEF Redeem, AC!Grant, AC!Matches
  <2> QED BY <2>2, Checking, Opens DEF BothInv
<1>7. CASE SessionStep
  BY <1>7 DEF SessionStep, Next
<1>8. CASE CodeStep
  BY <1>8 DEF CodeStep, CodesOnly
<1>9. CASE ServerTick
  BY <1>9 DEF ServerTick, Next
<1> QED
  BY <1>1, <1>2, <1>3, <1>4, <1>5, <1>6, <1>7, <1>8, <1>9 DEF ServerNext

-----------------------------------------------------------------------------
(* What each step is for the codes.                                        *)

LEMMA SessionStepTime == SessionStep => UNCHANGED <<now, codeVars>>
BY DEF SessionStep, SessionsOnly, Refresh, Locate, InsertSession, GetSessionByID,
       SessionNotFound, RefreshPanics, ExtendSession, DeleteOld, Abort, SignAccess,
       SignRotated, Logout, UpdateProfile

LEMMA StepOfCodes == BothInv /\ [ServerNext]_serverVars => [AC!Next]_(AC!vars)
<1> SUFFICES ASSUME BothInv, [ServerNext]_serverVars PROVE [AC!Next]_(AC!vars)
  OBVIOUS
<1>0. UNCHANGED <<now, codeVars>> => UNCHANGED AC!vars
  BY DEF codeVars, AC!vars
<1>1. CASE UNCHANGED serverVars
  BY <1>0, <1>1 DEF serverVars, vars
<1>2. CASE \E c \in Withdrawable : Withdraw(c)
  BY <1>0, <1>2 DEF Withdraw, vars
<1>3. CASE \E r \in Reqs, u \in Users, c \in Sites : SignIn(r, u, c)
  BY <1>0, <1>3 DEF SignIn, Login, IssuePair
<1>4. CASE \E r \in CodeReqs, t \in issued, cl \in Clients, ch \in Verifiers :
             AuthorizeByAccess(r, t, cl, ch)
  <2>1. PICK r \in CodeReqs, t \in issued, cl \in Clients, ch \in Verifiers :
               AC!Authorize(r, t.uid, cl, ch)
    BY <1>4 DEF AuthorizeByAccess
  <2>2. t.uid \in Users
    BY <2>1 DEF BothInv, IInv, TypeInv, TypeOK, Token
  <2> QED BY <2>1, <2>2 DEF AC!Next
<1>5. CASE \E r \in CodeReqs, c \in held, cl \in Clients, v \in Verifiers :
             TokenRequest(r, c, cl, v)
  BY <1>5 DEF TokenRequest, AC!Next
<1>6. CASE \E r \in CodeReqs, q \in Reqs : Redeem(r, q)
  BY <1>6 DEF Redeem, AC!Next
<1>7. CASE SessionStep
  BY <1>0, <1>7, SessionStepTime
<1>8. CASE CodeStep
  BY <1>8 DEF CodeStep, AC!Next
<1>9. CASE ServerTick
  BY <1>9 DEF ServerTick, AC!Next
<1> QED
  BY <1>1, <1>2, <1>3, <1>4, <1>5, <1>6, <1>7, <1>8, <1>9 DEF ServerNext

-----------------------------------------------------------------------------
(* AuthCodes is the same specification whether it is reached from the      *)
(* server or from the module of its proofs.                                *)

LEMMA SameInit == AC!Init <=> ACP!Init
BY DEF AC!Init, ACP!Init, AC!Idle, ACP!Idle, AC!Missing, ACP!Missing

LEMMA SameNext == AC!Next <=> ACP!Next
<1>1. \A r \in CodeReqs, u \in Users, cl \in Clients, ch \in Verifiers :
        AC!Authorize(r, u, cl, ch) <=> ACP!Authorize(r, u, cl, ch)
  BY DEF AC!Authorize, ACP!Authorize, AC!Become, ACP!Become, AC!Idle, ACP!Idle
<1>2. \A r \in CodeReqs, c \in held, cl \in Clients, v \in Verifiers :
        AC!Token(r, c, cl, v) <=> ACP!Token(r, c, cl, v)
  BY DEF AC!Token, ACP!Token, AC!Become, ACP!Become, AC!Idle, ACP!Idle
<1>3. \A r \in CodeReqs : AC!StoreCode(r) <=> ACP!StoreCode(r)
  BY DEF AC!StoreCode, ACP!StoreCode, AC!Become, ACP!Become, AC!Write, ACP!Write
<1>4. \A r \in CodeReqs : AC!ExpireCode(r) <=> ACP!ExpireCode(r)
  BY DEF AC!ExpireCode, ACP!ExpireCode, AC!Become, ACP!Become, AC!Idle, ACP!Idle,
         AC!Expire, ACP!Expire, AC!Exists, ACP!Exists
<1>5. \A r \in CodeReqs : AC!ReadCode(r) <=> ACP!ReadCode(r)
  BY DEF AC!ReadCode, ACP!ReadCode, AC!Become, ACP!Become, AC!Reads, ACP!Reads,
         AC!Exists, ACP!Exists
<1>6. \A r \in CodeReqs : AC!DeleteCode(r) <=> ACP!DeleteCode(r)
  BY DEF AC!DeleteCode, ACP!DeleteCode, AC!Become, ACP!Become, AC!Del, ACP!Del,
         AC!Missing, ACP!Missing
<1>7. \A r \in CodeReqs : AC!Grant(r) <=> ACP!Grant(r)
  BY DEF AC!Grant, ACP!Grant, AC!Become, ACP!Become, AC!Matches, ACP!Matches,
         AC!Idle, ACP!Idle
<1>8. \A r \in CodeReqs : AC!Fail(r) <=> ACP!Fail(r)
  BY DEF AC!Fail, ACP!Fail, AC!Become, ACP!Become, AC!Idle, ACP!Idle
<1>9. AC!Tick <=> ACP!Tick
  BY DEF AC!Tick, ACP!Tick, AC!Evict, ACP!Evict, AC!Missing, ACP!Missing
<1> QED
  BY <1>1, <1>2, <1>3, <1>4, <1>5, <1>6, <1>7, <1>8, <1>9 DEF AC!Next, ACP!Next

-----------------------------------------------------------------------------
(* The two components keep their invariants and their specifications.      *)

LEMMA BothInit == ServerInit => BothInv
BY InvInit, SameInit, ACP!InitInv, CodesAssumption, BoundAssumption
   DEF ServerInit, BothInv, ACP!AuthData

LEMMA BothStep == BothInv /\ [ServerNext]_serverVars => BothInv'
<1> SUFFICES ASSUME BothInv, [ServerNext]_serverVars PROVE BothInv'
  OBVIOUS
<1>1. IInv'
  BY StepOfSessions, InvStep DEF BothInv
<1>2. [ACP!Next]_(ACP!vars)
  BY StepOfCodes, SameNext DEF AC!vars, ACP!vars
<1>3. ACP!IInv'
  BY <1>2, ACP!InvStep, CodesAssumption, BoundAssumption DEF BothInv, ACP!AuthData
<1> QED BY <1>1, <1>3 DEF BothInv

LEMMA BothInvariant == ServerSpec => []BothInv
BY BothInit, BothStep, PTL DEF ServerSpec

\* With codes and apps around them, sessions do what Sessions lets them do:
\* every theorem about Sessions is one about the server.
THEOREM ServerKeepsSessions == ServerSpec => KeepsSessions
<1>1. ServerInit => Init
  BY DEF ServerInit
<1> QED
  BY <1>1, BothInvariant, StepOfSessions, PTL DEF ServerSpec, KeepsSessions, Spec

\* Codes do what AuthCodes lets them do, with users known by their tokens only
\* and with sessions opened for them.
THEOREM ServerKeepsCodes == ServerSpec => KeepsCodes
<1>1. ServerInit => AC!Init
  BY DEF ServerInit
<1> QED
  BY <1>1, BothInvariant, StepOfCodes, PTL DEF ServerSpec, KeepsCodes, AC!Spec

\* What the components are proved to do, they do together: on the server every
\* valid token works, the index is exact, and a session that closed stays closed,
\* whichever endpoint opened it.
THEOREM ServerSessions ==
  ServerSpec => /\ [](HeldTokensWork /\ ClientIsAudience /\ IndexSound /\ HeldTokensIndexed)
                /\ KeepsLease /\ Lease!NeverReopened
BY ServerKeepsSessions, TokensWork, AudienceKept, IndexIsSound, TokensIndexed, LeaseKept,
   ClosedForGood, PTL DEF KeepsSessions

\* And a code buys what was approved, once but for the race, with sessions opened
\* by the redemption and apps withdrawn meanwhile.
THEOREM ServerCodes ==
  ServerSpec => [](AC!GrantsApproved /\ AC!HeldCodesExpire /\ AC!SingleUseUnlessRaced)
<1>1. BothInv => ACP!GrantsApproved /\ ACP!HeldCodesExpire /\ ACP!SingleUseUnlessRaced
  BY DEF BothInv, ACP!IInv
<1>2. /\ ACP!GrantsApproved => AC!GrantsApproved
      /\ ACP!HeldCodesExpire => AC!HeldCodesExpire
      /\ ACP!SingleUseUnlessRaced => AC!SingleUseUnlessRaced
  BY DEF ACP!GrantsApproved, AC!GrantsApproved, ACP!HeldCodesExpire, AC!HeldCodesExpire,
         ACP!Exists, AC!Exists, ACP!SingleUseUnlessRaced, AC!SingleUseUnlessRaced
<1> QED BY <1>1, <1>2, BothInvariant, PTL

-----------------------------------------------------------------------------
(* What a token entitles its holder to.                                    *)

\* Token n acts for the user, and for the app, that t does.
Like(n, t) == n.uid = t.uid /\ n.aud = t.aud

\* Locals that hold no tokens but such as there are.
Familiar(l) ==
  /\ l.pc \in {"session", "account", "delete"} =>
       \E t \in Everywhere : Like(l.tok, t)
  /\ l.pc \in {"extend", "delete", "locate", "insert"} =>
       \E t \in Everywhere : Like(l.new, t)

\* A step that gives request r such locals makes no token of another kind.
LEMMA FamiliarStep ==
  ASSUME NEW r \in Reqs, NEW l, req \in [Reqs -> Request],
         Become(r, l), Familiar(l),
         \A m \in issued' : \E t \in Everywhere : Like(m, t),
         NEW n \in Everywhere'
  PROVE  \E t \in Everywhere : Like(n, t)
<1>1. req'[r] = l /\ \A q \in Reqs \ {r} : req'[q] = req[q]
  BY DEF Become
<1>2. \/ n \in issued' \/ n \in Everywhere
      \/ l.pc \in {"session", "account", "delete"} /\ n = l.tok
      \/ l.pc \in {"extend", "delete", "locate", "insert"} /\ n = l.new
  BY <1>1 DEF Everywhere, Held, Pends
<1> QED BY <1>2 DEF Familiar, Like

\* No step of the sessions but the opening of one makes any.
LEMMA SessionStepLike ==
  ASSUME TypeInv, SessionStep \/ Tick, NEW n \in Everywhere'
  PROVE  \E t \in Everywhere : Like(n, t)
<1>0. /\ req \in [Reqs -> Request]
      /\ \A t \in issued : \E m \in Everywhere : Like(t, m)
      /\ \A t \in Everywhere : \E m \in Everywhere : Like(t, m)
      /\ \A r \in Reqs : Familiar(req[r])
  BY DEF TypeInv, TypeOK, Everywhere, Held, Pends, Familiar, Like
<1>1. CASE \E r \in Reqs, t \in issued : Refresh(r, t)
  <2>1. PICK r \in Reqs, t \in issued : Refresh(r, t)
    BY <1>1
  <2> DEFINE l == [Idle EXCEPT !.pc = "session", !.tok = t]
  <2>2. Become(r, l) /\ issued' = issued
    BY <2>1 DEF Refresh
  <2>3. l.pc = "session" /\ l.tok = t
    BY DEF Idle
  <2> HIDE DEF l
  <2>4. Familiar(l)
    BY <1>0, <2>3 DEF Familiar
  <2> QED BY <1>0, <2>2, <2>4, FamiliarStep
<1>2. ASSUME NEW r \in Reqs,
             SessionNotFound(r) \/ RefreshPanics(r) \/ Abort(r)
      PROVE  \E t \in Everywhere : Like(n, t)
  <2>1. Become(r, Idle) /\ issued' = issued
    BY <1>2 DEF SessionNotFound, RefreshPanics, Abort
  <2>2. Familiar(Idle)
    BY DEF Familiar, Idle
  <2> QED BY <1>0, <2>1, <2>2, FamiliarStep
<1>3. ASSUME NEW r \in Reqs, Locate(r) \/ GetSessionByID(r) \/ DeleteOld(r)
      PROVE  \E t \in Everywhere : Like(n, t)
  <2> DEFINE l == req'[r]
  <2>1. /\ Become(r, l) /\ issued' = issued
        /\ l.new = req[r].new
        /\ l.pc = "account" => req[r].pc = "session" /\ l.tok = req[r].tok
        /\ l.pc \in {"insert", "locate"} => req[r].pc \in {"delete", "locate"}
        /\ l.pc \in {"insert", "locate", "account"}
    <3>1. CASE Locate(r)
      BY <1>0, <3>1 DEF Locate, Become, Request
    <3>2. CASE GetSessionByID(r)
      BY <1>0, <3>2 DEF GetSessionByID, Become, Request
    <3>3. CASE DeleteOld(r)
      BY <1>0, <3>3 DEF DeleteOld, Become, Request
    <3> QED BY <1>3, <3>1, <3>2, <3>3
  <2> HIDE DEF l
  <2>2. Familiar(l)
    BY <1>0, <2>1 DEF Familiar
  <2> QED BY <1>0, <2>1, <2>2, FamiliarStep
<1>4. ASSUME NEW r \in Reqs, InsertSession(r)
      PROVE  \E t \in Everywhere : Like(n, t)
  <2> DEFINE new == req[r].new
  <2>1. /\ Become(r, Idle) /\ req[r].pc = "insert"
        /\ issued' \subseteq issued \cup {new, AccessOf(new)}
    BY <1>4 DEF InsertSession, Respond
  <2>2. new \in Token
    BY <2>1 DEF TypeInv, LocalsOK, Shape
  <2>3. PICK t \in Everywhere : Like(new, t) /\ Like(AccessOf(new), t)
    BY <1>0, <2>1, <2>2 DEF Familiar, Like, AccessOf, Token
  <2>4. Familiar(Idle)
    BY DEF Familiar, Idle
  <2> HIDE DEF new
  <2> QED BY <1>0, <2>1, <2>3, <2>4, FamiliarStep
<1>5. ASSUME NEW r \in Reqs, ExtendSession(r)
      PROVE  \E t \in Everywhere : Like(n, t)
  <2>1. /\ Become(r, Idle) /\ req[r].pc = "extend"
        /\ issued' \subseteq issued \cup {req[r].new}
    BY <1>5 DEF ExtendSession, Respond
  <2>2. Familiar(Idle) /\ Familiar(req[r])
    BY <1>0 DEF Familiar, Idle
  <2>3. \A m \in issued' : \E t \in Everywhere : Like(m, t)
    BY <1>0, <2>1, <2>2 DEF Familiar
  <2> QED BY <1>0, <2>1, <2>2, <2>3, FamiliarStep
<1>6. ASSUME NEW r \in Reqs, NEW read \in BOOLEAN, SignAccess(r, read)
      PROVE  \E t \in Everywhere : Like(n, t)
  <2>1. PICK i : Become(r, [Idle EXCEPT !.pc = "extend",
                   !.new = Sign("access", req[r].tok.uid, req[r].tok.sid,
                                req[r].tok.aud, i)])
    BY <1>6 DEF SignAccess
  <2> DEFINE l == [Idle EXCEPT !.pc = "extend",
                     !.new = Sign("access", req[r].tok.uid, req[r].tok.sid,
                                  req[r].tok.aud, i)]
  <2>2. issued' = issued /\ req[r].pc = "account"
    BY <1>6 DEF SignAccess
  <2>3. l.pc = "extend" /\ Like(l.new, req[r].tok)
    BY DEF Idle, Sign, Like
  <2>4. Become(r, l)
    BY <2>1
  <2> HIDE DEF l
  <2>5. Familiar(l)
    BY <1>0, <2>2, <2>3 DEF Familiar, Like
  <2> QED BY <1>0, <2>2, <2>4, <2>5, FamiliarStep
<1>7. ASSUME NEW r \in Reqs, NEW read \in BOOLEAN, SignRotated(r, read)
      PROVE  \E t \in Everywhere : Like(n, t)
  <2>1. PICK s \in Sids : Become(r, [req[r] EXCEPT !.pc = "delete",
                   !.new = Sign("refresh", req[r].tok.uid, s,
                                req[r].tok.aud, req[r].tok.info)])
    BY <1>7 DEF SignRotated
  <2> DEFINE l == [req[r] EXCEPT !.pc = "delete",
                     !.new = Sign("refresh", req[r].tok.uid, s,
                                  req[r].tok.aud, req[r].tok.info)]
  <2>2. issued' = issued /\ req[r].pc = "account"
    BY <1>7 DEF SignRotated
  <2>3. l.pc = "delete" /\ l.tok = req[r].tok /\ Like(l.new, req[r].tok)
    BY <1>0 DEF Request, Sign, Like
  <2>4. Become(r, l)
    BY <2>1
  <2> HIDE DEF l
  <2>5. Familiar(l)
    BY <1>0, <2>2, <2>3 DEF Familiar, Like
  <2> QED BY <1>0, <2>2, <2>4, <2>5, FamiliarStep
<1>8. CASE \/ \E t \in issued : Logout(t)
           \/ \E u \in Users, i \in Infos : UpdateProfile(u, i)
           \/ Tick
  <2>1. req' = req /\ issued' \subseteq issued
    BY <1>8 DEF Logout, UpdateProfile, Tick
  <2>2. n \in Everywhere
    BY <2>1 DEF Everywhere, Held, Pends
  <2> QED BY <1>0, <2>2
<1> QED
  BY <1>1, <1>2, <1>3, <1>4, <1>5, <1>6, <1>7, <1>8 DEF SessionStep

\* The opening of a session for user u and client c makes tokens for those.
LEMMA OpenLike ==
  ASSUME TypeInv, NEW r \in Reqs, NEW u, NEW c,
         Login(r, u, c) \/ RedeemCode(r, u, c, c), NEW n \in Everywhere'
  PROVE  n \in Everywhere \/ (n.uid = u /\ n.aud = c)
<1>1. PICK s \in Sids :
        Become(r, [Idle EXCEPT !.pc = "locate", !.client = c,
                               !.new = Sign("refresh", u, s, c, profile[u])])
  BY DEF Login, RedeemCode, IssuePair
<1> DEFINE new == Sign("refresh", u, s, c, profile[u])
           l == [Idle EXCEPT !.pc = "locate", !.client = c, !.new = new]
<1>2. l.pc = "locate" /\ l.new = new /\ new.uid = u /\ new.aud = c
  BY DEF Idle, Sign
<1>3. /\ req \in [Reqs -> Request] /\ issued' = issued /\ Become(r, l)
  BY <1>1 DEF Login, RedeemCode, IssuePair, TypeInv, TypeOK
<1> HIDE DEF l, new
<1>4. req'[r] = l /\ \A q \in Reqs \ {r} : req'[q] = req[q]
  BY <1>3 DEF Become
<1>5. n \in Everywhere \/ n = new
  BY <1>2, <1>3, <1>4 DEF Everywhere, Held, Pends
<1> QED BY <1>2, <1>5

\* What was approved under a code stays.
LEMMA ApprovedStays ==
  ASSUME ACP!TypeOK, [AC!Next]_(AC!vars), NEW c \in Codes, approved[c] # Nil
  PROVE  approved'[c] = approved[c]
BY DEF ACP!TypeOK, AC!Next, AC!vars, AC!Authorize, AC!Token, AC!StoreCode,
       AC!ExpireCode, AC!ReadCode, AC!DeleteCode, AC!Grant, AC!Fail, AC!Tick

\* A token acts for its user at its audience because the user logged in there,
\* or had a code drawn for that app: it survives each refresh and rotation.
Entitled(n) ==
  \/ <<n.uid, n.aud>> \in logins
  \/ \E c \in Codes : /\ approved[c] # Nil
                      /\ approved[c].user = n.uid /\ approved[c].client = n.aud

LEMMA EntitledStep ==
  ASSUME BothInv, TokensEntitled, [ServerNext]_serverVars
  PROVE  TokensEntitled'
<1>1. TypeInv /\ ACP!TypeOK
  BY DEF BothInv, IInv, ACP!IInv
<1>2. \A c \in Codes : approved[c] # Nil => approved'[c] = approved[c]
  BY <1>1, StepOfCodes, ApprovedStays
<1>3. ASSUME logins \subseteq logins', NEW n, NEW t \in Everywhere, Like(n, t)
      PROVE  Entitled(n)'
  BY <1>2, <1>3 DEF TokensEntitled, Entitled, Like
<1>4. SUFFICES ASSUME NEW n \in Everywhere' PROVE Entitled(n)'
  BY DEF TokensEntitled, Entitled
<1>5. CASE UNCHANGED <<req, issued, logins>>
  <2>1. n \in Everywhere
    BY <1>5 DEF Everywhere, Held, Pends
  <2> QED BY <1>3, <1>5, <2>1 DEF Like
<1>6. CASE SessionStep \/ ServerTick
  <2>1. (SessionStep \/ Tick) /\ logins' = logins
    BY <1>6 DEF ServerTick, SessionStep, SessionsOnly
  <2> QED BY <1>1, <1>3, <2>1, SessionStepLike
<1>7. CASE \E r \in Reqs, u \in Users, c \in Sites : SignIn(r, u, c)
  <2>1. PICK r \in Reqs, u \in Users, c \in Sites : SignIn(r, u, c)
    BY <1>7
  <2>2. Login(r, u, c) /\ logins' = logins \cup {<<u, c>>}
    BY <2>1 DEF SignIn
  <2>3. n \in Everywhere \/ (n.uid = u /\ n.aud = c)
    BY <1>1, <2>2, OpenLike
  <2> QED BY <1>3, <2>2, <2>3 DEF Like, Entitled
<1>8. CASE \E r \in CodeReqs, q \in Reqs : Redeem(r, q)
  <2>1. PICK r \in CodeReqs, q \in Reqs : Redeem(r, q)
    BY <1>8
  <2>2. /\ creq[r].pc = "check" /\ creq[r].data.client = creq[r].client
        /\ RedeemCode(q, creq[r].data.user, creq[r].client, creq[r].client)
        /\ logins' = logins
    BY <2>1 DEF Redeem, AC!Grant, AC!Matches
  <2>3. n \in Everywhere \/ (n.uid = creq[r].data.user /\ n.aud = creq[r].client)
    BY <1>1, <2>2, OpenLike
  <2>4. /\ creq[r].code \in Codes /\ creq[r].data # Nil
        /\ creq[r].data = approved[creq[r].code]
    BY <2>2, Checking DEF BothInv
  <2>5. approved'[creq[r].code] = approved[creq[r].code]
    BY <1>2, <2>4
  <2> QED BY <1>3, <2>2, <2>3, <2>4, <2>5 DEF Like, Entitled
<1> QED
  BY <1>5, <1>6, <1>7, <1>8
     DEF ServerNext, serverVars, vars, Withdraw, AuthorizeByAccess, TokenRequest,
         CodeStep, CodesOnly

LEMMA EntitledInit == ServerInit => TokensEntitled
BY DEF ServerInit, Init, TokensEntitled, Everywhere, Held, Pends, Idle

\* Every token there is was obtained by a login at its app, or by a code its
\* user approved for that app.
THEOREM OnlyEntitledTokens == ServerSpec => []TokensEntitled
<1>1. TokensEntitled /\ BothInv /\ [ServerNext]_serverVars => TokensEntitled'
  BY EntitledStep
<1> QED
  BY <1>1, EntitledInit, BothInvariant, PTL DEF ServerSpec

-----------------------------------------------------------------------------
(* What is over stays over.                                                *)

\* No code of user u is in Redis or in a request.
NoCodes(u) ==
  /\ \A r \in CodeReqs : creq[r].data # Nil => creq[r].data.user # u
  /\ \A c \in Codes : Exists(codes, c) => codes[c].data.user # u

\* Only u's own authorization changes that.
LEMMA NoCodesStep ==
  ASSUME ACP!IInv, NEW u, NoCodes(u),
         \/ \E r \in CodeReqs, w \in Users, cl \in Clients, ch \in Verifiers :
              w # u /\ AC!Authorize(r, w, cl, ch)
         \/ \E r \in CodeReqs, c \in held, cl \in Clients, v \in Verifiers :
              AC!Token(r, c, cl, v)
         \/ \E r \in CodeReqs :
              \/ AC!StoreCode(r) \/ AC!ExpireCode(r) \/ AC!ReadCode(r)
              \/ AC!DeleteCode(r) \/ AC!Grant(r) \/ AC!Fail(r)
         \/ AC!Tick
  PROVE  NoCodes(u)'
<1>0. /\ creq \in [CodeReqs -> ACP!Request] /\ codes \in [Codes -> ACP!Entries(ACP!AuthData)]
      /\ Nil \notin ACP!AuthData /\ held \subseteq Codes
      /\ \A r \in CodeReqs : creq[r].pc \in {"hset", "expire"} =>
           creq[r].code \in Codes /\ creq[r].data \in ACP!AuthData
      /\ \A r \in CodeReqs : creq[r].pc \in {"read", "del"} => creq[r].code \in Codes
  BY CodesAssumption
     DEF ACP!IInv, ACP!TypeOK, ACP!Locals, ACP!LocalsOK, ACP!Storing, ACP!AuthData
<1>1. CASE \E r \in CodeReqs, w \in Users, cl \in Clients, ch \in Verifiers :
             w # u /\ AC!Authorize(r, w, cl, ch)
  <2>1. PICK r \in CodeReqs, w \in Users, cl \in Clients, ch \in Verifiers :
               w # u /\ AC!Authorize(r, w, cl, ch)
    BY <1>1
  <2> DEFINE d == [user |-> w, client |-> cl,
                   challenge |-> IF cl \in Public THEN ch ELSE Nil]
  <2>2. codes' = codes
        /\ \E c \in Codes :
             creq' = [creq EXCEPT ![r] = [AC!Idle EXCEPT !.pc = "hset", !.code = c, !.data = d]]
    BY <2>1 DEF AC!Authorize, AC!Become
  <2>3. d.user = w
    OBVIOUS
  <2> HIDE DEF d
  <2>4. creq'[r].data.user = w /\ \A q \in CodeReqs \ {r} : creq'[q] = creq[q]
    BY <1>0, <2>2, <2>3 DEF AC!Idle
  <2> QED BY <2>1, <2>2, <2>4 DEF NoCodes, Exists
<1>2. ASSUME NEW r \in CodeReqs, NEW l, AC!Become(r, l),
             l.data # Nil => l.data.user # u,
             \A c \in Codes : Exists(codes', c) => codes'[c].data.user # u
      PROVE  NoCodes(u)'
  BY <1>0, <1>2 DEF AC!Become, NoCodes
<1>3. ASSUME NEW r \in CodeReqs, NEW l, AC!Become(r, l),
             l.data \in {creq[r].data, Nil},
             \A c \in Codes : Exists(codes', c) => codes'[c].data.user # u
      PROVE  NoCodes(u)'
  BY <1>2, <1>3 DEF NoCodes
<1>4. codes' = codes =>
        \A c \in Codes : Exists(codes', c) => codes'[c].data.user # u
  BY DEF NoCodes, Exists
<1>5. CASE \E r \in CodeReqs, c \in held, cl \in Clients, v \in Verifiers :
             AC!Token(r, c, cl, v)
  <2>1. PICK r \in CodeReqs, c \in held, cl \in Clients, v \in Verifiers :
               AC!Token(r, c, cl, v)
    BY <1>5
  <2>2. creq'[r].data = Nil /\ AC!Become(r, creq'[r]) /\ codes' = codes
    BY <1>0, <2>1 DEF AC!Token, AC!Become, AC!Idle
  <2> QED BY <1>3, <1>4, <2>2
<1>6. ASSUME NEW r \in CodeReqs, AC!StoreCode(r)
      PROVE  NoCodes(u)'
  <2>1. /\ creq'[r].data = creq[r].data /\ AC!Become(r, creq'[r])
        /\ codes' = AC!Write(codes, creq[r].code, creq[r].data)
        /\ creq[r].pc = "hset"
    BY <1>0, <1>6 DEF AC!StoreCode, AC!Become, ACP!Request
  <2>2. creq[r].data # Nil /\ creq[r].data.user # u /\ creq[r].code \in Codes
    BY <1>0, <2>1 DEF NoCodes
  <2>3. ASSUME NEW c \in Codes, Exists(codes', c)
        PROVE  codes'[c].data.user # u
    BY <1>0, <2>1, <2>2, <2>3 DEF AC!Write, Exists, NoCodes, ACP!Entries
  <2> QED BY <1>3, <2>1, <2>3
<1>7. ASSUME NEW r \in CodeReqs, AC!ExpireCode(r)
      PROVE  NoCodes(u)'
  <2>1. /\ creq'[r].data = Nil /\ AC!Become(r, creq'[r])
        /\ codes' = AC!Expire(codes, creq[r].code, now + CodeTTL)
        /\ creq[r].pc = "expire"
    BY <1>0, <1>7 DEF AC!ExpireCode, AC!Become, AC!Idle
  <2>2. creq[r].code \in Codes
    BY <1>0, <2>1
  <2>3. ASSUME NEW c \in Codes, Exists(codes', c)
        PROVE  codes'[c].data.user # u
    BY <1>0, <2>1, <2>2, <2>3 DEF AC!Expire, AC!Exists, Exists, NoCodes, ACP!Entries
  <2> QED BY <1>3, <2>1, <2>3
<1>8. ASSUME NEW r \in CodeReqs, AC!ReadCode(r)
      PROVE  NoCodes(u)'
  <2>1. /\ creq'[r].data = codes[creq[r].code].data /\ AC!Become(r, creq'[r])
        /\ codes' = codes /\ creq[r].pc = "read" /\ Exists(codes, creq[r].code)
    BY <1>0, <1>8 DEF AC!ReadCode, AC!Become, ACP!Request, AC!Exists, Exists
  <2>2. codes[creq[r].code].data.user # u
    BY <1>0, <2>1 DEF NoCodes
  <2> QED BY <1>2, <1>4, <2>1, <2>2
<1>9. ASSUME NEW r \in CodeReqs, AC!DeleteCode(r)
      PROVE  NoCodes(u)'
  <2>1. /\ creq'[r].data = creq[r].data /\ AC!Become(r, creq'[r])
        /\ codes' = AC!Del(codes, creq[r].code) \/ codes' = codes
    BY <1>0, <1>9 DEF AC!DeleteCode, AC!Become, ACP!Request
  <2>2. ASSUME NEW c \in Codes, Exists(codes', c)
        PROVE  codes'[c].data.user # u
    BY <1>0, <2>1, <2>2 DEF AC!Del, AC!Missing, Exists, NoCodes, ACP!Entries
  <2> QED BY <1>3, <2>1, <2>2
<1>10. ASSUME NEW r \in CodeReqs, AC!Grant(r) \/ AC!Fail(r)
       PROVE  NoCodes(u)'
  <2>1. creq'[r].data = Nil /\ AC!Become(r, creq'[r]) /\ codes' = codes
    BY <1>0, <1>10 DEF AC!Grant, AC!Fail, AC!Become, AC!Idle
  <2> QED BY <1>3, <1>4, <2>1
<1>11. CASE AC!Tick
  <2>1. creq' = creq /\ codes' = AC!Evict(codes, now')
    BY <1>11 DEF AC!Tick
  <2>2. ASSUME NEW c \in Codes, Exists(codes', c)
        PROVE  codes'[c].data.user # u
    BY <1>0, <2>1, <2>2 DEF AC!Evict, AC!Missing, Exists, NoCodes, ACP!Entries
  <2> QED BY <2>1, <2>2 DEF NoCodes
<1> QED BY <1>1, <1>5, <1>6, <1>7, <1>8, <1>9, <1>10, <1>11

\* A user who is signed out stays so until the next login: whatever codes,
\* cookies and sessions other requests still work on.
THEOREM SignedOutStays == ServerSpec => StaysSignedOut
<1>1. ASSUME BothInv, [ServerNext]_serverVars, NEW u \in Users, SignedOut(u),
             ~ \E r \in Reqs, c \in Clients : SignIn(r, u, c)
      PROVE  SignedOut(u)'
  <2>0. /\ TypeInv /\ ACP!IInv /\ NoCodes(u)
        /\ \A t \in Everywhere : t.uid # u
    BY <1>1 DEF BothInv, IInv, SignedOut, NoCodes
  <2>1. SUFFICES NoCodes(u)' /\ \A n \in Everywhere' : n.uid # u
    BY DEF SignedOut, NoCodes
  <2>2. UNCHANGED <<codes, creq>> => NoCodes(u)'
    BY <2>0 DEF NoCodes, Exists
  <2>3. UNCHANGED <<req, issued>> => \A n \in Everywhere' : n.uid # u
    BY <2>0 DEF Everywhere, Held, Pends
  <2>4. CASE UNCHANGED <<req, issued, codes, creq>>
    BY <2>2, <2>3, <2>4
  <2>5. CASE SessionStep \/ ServerTick
    <3>1. \A n \in Everywhere' : n.uid # u
      BY <2>0, <2>5, SessionStepLike DEF ServerTick, Like
    <3>2. NoCodes(u)'
      BY <2>0, <2>2, <2>5, NoCodesStep DEF SessionStep, SessionsOnly, codeVars, ServerTick
    <3> QED BY <3>1, <3>2
  <2>6. CASE \E r \in Reqs, w \in Users, c \in Sites : SignIn(r, w, c)
    <3>1. PICK r \in Reqs, w \in Users, c \in Sites : SignIn(r, w, c)
      BY <2>6
    <3>2. w # u
      BY <1>1, <3>1, SitesAssumption
    <3>3. Login(r, w, c) /\ UNCHANGED <<codes, creq>>
      BY <3>1 DEF SignIn, codeVars
    <3>4. \A n \in Everywhere' : n.uid # u
      BY <2>0, <3>2, <3>3, OpenLike
    <3> QED BY <2>2, <3>3, <3>4
  <2>7. CASE \E r \in CodeReqs, t \in issued, cl \in Clients, ch \in Verifiers :
               AuthorizeByAccess(r, t, cl, ch)
    <3>1. PICK r \in CodeReqs, t \in issued, cl \in Clients, ch \in Verifiers :
                 AC!Authorize(r, t.uid, cl, ch) /\ UNCHANGED <<req, issued>>
      BY <2>7 DEF AuthorizeByAccess, CodesOnly, vars
    <3>2. t.uid # u /\ t.uid \in Users
      BY <2>0 DEF Everywhere, Held, TypeInv, TypeOK, Token
    <3>3. NoCodes(u)'
      BY <2>0, <3>1, <3>2, NoCodesStep
    <3> QED BY <2>3, <3>1, <3>3
  <2>8. CASE \E r \in CodeReqs, q \in Reqs : Redeem(r, q)
    <3>1. PICK r \in CodeReqs, q \in Reqs : Redeem(r, q)
      BY <2>8
    <3>2. /\ AC!Grant(r) /\ creq[r].pc = "check"
          /\ RedeemCode(q, creq[r].data.user, creq[r].client, creq[r].client)
      BY <3>1 DEF Redeem, AC!Grant, AC!Matches
    <3>3. creq[r].data.user # u
      BY <2>0, <3>2, Checking DEF NoCodes
    <3>4. \A n \in Everywhere' : n.uid # u
      BY <2>0, <3>2, <3>3, OpenLike
    <3>5. NoCodes(u)'
      BY <2>0, <3>2, NoCodesStep
    <3> QED BY <3>4, <3>5
  <2>9. CASE \E r \in CodeReqs, c \in held, cl \in Clients, v \in Verifiers :
               TokenRequest(r, c, cl, v)
    BY <2>0, <2>3, <2>9, NoCodesStep DEF TokenRequest, CodesOnly, vars
  <2>10. CASE CodeStep
    BY <2>0, <2>3, <2>10, NoCodesStep DEF CodeStep, CodesOnly, vars
  <2> QED
    BY <1>1, <2>4, <2>5, <2>6, <2>7, <2>8, <2>9, <2>10
       DEF ServerNext, serverVars, vars, codeVars, Withdraw
<1>2. BothInv /\ [ServerNext]_serverVars =>
        [\A u \in Users : SignedOut(u) /\ ~SignedOut(u)'
           => \E r \in Reqs, c \in Clients : SignIn(r, u, c)]_serverVars
  BY <1>1
<1> QED
  BY <1>2, BothInvariant, PTL DEF ServerSpec, StaysSignedOut

\* What keeps app c off the table, when request r is given locals l.
LEMMA StaysOff ==
  ASSUME NEW c \in Clients, OffTheTable(c), apps' = apps,
         creq \in [CodeReqs -> ACP!Request],
         NEW r \in CodeReqs, NEW l, creq' = [creq EXCEPT ![r] = l],
         l.client # c, l.pc \in {"hset", "expire"} => l.data.client # c
  PROVE  OffTheTable(c)'
BY DEF OffTheTable

\* No tokens of a new user for an app that is off the table: /refresh, which
\* serves it, makes tokens like those there are.
LEMMA NoNewUser ==
  ASSUME BothInv, [ServerNext]_serverVars, NEW c \in Clients, OffTheTable(c),
         NEW n \in Everywhere', n.aud = c
  PROVE  \E t \in Everywhere : t.uid = n.uid /\ t.aud = c
<1>0. TypeInv
  BY DEF BothInv, IInv
<1>1. n \in Everywhere => \E t \in Everywhere : t.uid = n.uid /\ t.aud = c
  OBVIOUS
<1>2. CASE UNCHANGED <<req, issued>>
  <2>1. n \in Everywhere
    BY <1>2 DEF Everywhere, Held, Pends
  <2> QED BY <1>1, <2>1
<1>3. CASE SessionStep \/ ServerTick
  <2>1. PICK t \in Everywhere : Like(n, t)
    BY <1>0, <1>3, SessionStepLike DEF ServerTick
  <2> QED BY <2>1 DEF Like
<1>4. CASE \E r \in Reqs, u \in Users, d \in Sites : SignIn(r, u, d)
  <2>1. PICK r \in Reqs, u \in Users, d \in Sites : d # c /\ Login(r, u, d)
    BY <1>4 DEF SignIn, GetClientByID, OffTheTable
  <2> QED BY <1>0, <1>1, <2>1, OpenLike
<1>5. CASE \E r \in CodeReqs, q \in Reqs : Redeem(r, q)
  <2>1. PICK r \in CodeReqs, q \in Reqs :
               RedeemCode(q, creq[r].data.user, creq[r].client, creq[r].client)
    BY <1>5 DEF Redeem, AC!Grant, AC!Matches
  <2>2. creq[r].client # c
    BY DEF OffTheTable
  <2> QED BY <1>0, <1>1, <2>1, <2>2, OpenLike
<1> QED
  BY <1>2, <1>3, <1>4, <1>5
     DEF ServerNext, serverVars, vars, Withdraw, AuthorizeByAccess, TokenRequest,
         CodeStep, CodesOnly

\* An app that was deleted gets no more codes, no tokens for those it has and no
\* user it had no token of, once the requests that had looked it up are done.
THEOREM WithdrawnIsOut == ServerSpec => WithdrawnGainsNobody
<1>1. ASSUME BothInv, [ServerNext]_serverVars, NEW c \in Clients, OffTheTable(c)
      PROVE  /\ OffTheTable(c)'
             /\ \A g \in grants' \ grants : g.aud # c
             /\ \A k \in Codes : approved'[k] # approved[k] => approved'[k].client # c
  <2>0. /\ creq \in [CodeReqs -> ACP!Request] /\ approved \in [Codes -> ACP!AuthData \cup {Nil}]
        /\ c # Nil /\ c \notin apps
        /\ \A r \in CodeReqs : /\ creq[r].client # c
                               /\ creq[r].pc \in {"hset", "expire"} => creq[r].data.client # c
    BY <1>1, NilAssumption DEF BothInv, ACP!IInv, ACP!TypeOK, OffTheTable
  <2>1. CASE UNCHANGED <<apps, creq, grants, approved>>
    BY <1>1, <2>1 DEF OffTheTable
  <2>2. CASE \E d \in Withdrawable : Withdraw(d)
    <3>1. UNCHANGED <<creq, grants, approved>> /\ c \notin apps'
      BY <2>0, <2>2 DEF Withdraw, codeVars
    <3> QED BY <2>0, <3>1 DEF OffTheTable
  <2>3. CASE \E r \in CodeReqs, t \in issued, cl \in Clients, ch \in Verifiers :
               AuthorizeByAccess(r, t, cl, ch)
    <3>1. PICK r \in CodeReqs, t \in issued, cl \in Clients, ch \in Verifiers :
                 GetClientByID(cl) /\ AC!Authorize(r, t.uid, cl, ch) /\ apps' = apps
      BY <2>3 DEF AuthorizeByAccess, CodesOnly
    <3>2. cl # c
      BY <2>0, <3>1 DEF GetClientByID
    <3> DEFINE d == [user |-> t.uid, client |-> cl,
                     challenge |-> IF cl \in Public THEN ch ELSE Nil]
    <3>3. PICK k \in Codes :
            /\ creq' = [creq EXCEPT ![r] = [AC!Idle EXCEPT !.pc = "hset", !.code = k, !.data = d]]
            /\ approved' = [approved EXCEPT ![k] = d]
            /\ grants' = grants
      BY <3>1 DEF AC!Authorize, AC!Become
    <3>4. d.client = cl
      OBVIOUS
    <3> DEFINE l == [AC!Idle EXCEPT !.pc = "hset", !.code = k, !.data = d]
    <3>5. l.client = Nil /\ l.data = d /\ creq' = [creq EXCEPT ![r] = l]
      BY <3>3 DEF AC!Idle
    <3> HIDE DEF d, l
    <3>6. OffTheTable(c)'
      BY <1>1, <2>0, <3>1, <3>2, <3>4, <3>5, StaysOff
    <3> QED BY <2>0, <3>2, <3>3, <3>4, <3>6
  <2>4. CASE \E r \in CodeReqs, k \in held, cl \in Clients, v \in Verifiers :
               TokenRequest(r, k, cl, v)
    <3>1. PICK r \in CodeReqs, k \in held, cl \in Clients, v \in Verifiers :
                 GetClientByID(cl) /\ AC!Token(r, k, cl, v) /\ apps' = apps
      BY <2>4 DEF TokenRequest, CodesOnly
    <3>2. cl # c
      BY <2>0, <3>1 DEF GetClientByID
    <3> DEFINE l == [AC!Idle EXCEPT !.pc = "read", !.code = k, !.client = cl,
                                    !.verifier = IF cl \in Public THEN v ELSE Nil]
    <3>3. creq' = [creq EXCEPT ![r] = l] /\ grants' = grants /\ approved' = approved
      BY <3>1 DEF AC!Token, AC!Become
    <3>4. l.client = cl /\ l.pc = "read"
      BY DEF AC!Idle
    <3> HIDE DEF l
    <3>5. OffTheTable(c)'
      BY <1>1, <2>0, <3>1, <3>2, <3>3, <3>4, StaysOff
    <3> QED BY <3>3, <3>5
  <2>5. CASE \E r \in CodeReqs, q \in Reqs : Redeem(r, q)
    <3>1. PICK r \in CodeReqs : AC!Grant(r) /\ apps' = apps
      BY <2>5 DEF Redeem
    <3>2. /\ approved' = approved /\ creq' = [creq EXCEPT ![r] = AC!Idle]
          /\ \A g \in grants' \ grants : g.aud = creq[r].client
      BY <3>1 DEF AC!Grant, AC!Become
    <3>3. AC!Idle.client = Nil /\ AC!Idle.pc = "idle"
      BY DEF AC!Idle
    <3>4. OffTheTable(c)'
      BY <1>1, <2>0, <3>1, <3>2, <3>3, StaysOff
    <3> QED BY <2>0, <3>2, <3>4
  <2>6. CASE CodeStep
    <3>1. PICK r \in CodeReqs : /\ \/ AC!StoreCode(r) \/ AC!ExpireCode(r) \/ AC!ReadCode(r)
                                   \/ AC!DeleteCode(r) \/ AC!Fail(r)
                                /\ apps' = apps
      BY <2>6 DEF CodeStep, CodesOnly
    <3>2. /\ grants' = grants /\ approved' = approved
          /\ creq' = [creq EXCEPT ![r] = creq'[r]]
          /\ creq'[r].client \in {creq[r].client, Nil}
          /\ creq'[r].pc \in {"hset", "expire"} =>
               creq[r].pc \in {"hset", "expire"} /\ creq'[r].data = creq[r].data
      <4>1. CASE AC!StoreCode(r)
        BY <2>0, <4>1 DEF AC!StoreCode, AC!Become, ACP!Request
      <4>2. CASE AC!ExpireCode(r) \/ AC!Fail(r)
        BY <2>0, <4>2 DEF AC!ExpireCode, AC!Fail, AC!Become, AC!Idle
      <4>3. CASE AC!ReadCode(r) \/ AC!DeleteCode(r)
        BY <2>0, <4>3 DEF AC!ReadCode, AC!DeleteCode, AC!Become, ACP!Request
      <4> QED BY <3>1, <4>1, <4>2, <4>3
    <3>3. OffTheTable(c)'
      BY <1>1, <2>0, <3>1, <3>2, StaysOff
    <3> QED BY <3>2, <3>3
  <2>7. CASE ServerTick
    <3>1. UNCHANGED <<apps, creq, grants, approved>>
      BY <2>7 DEF ServerTick, AC!Tick
    <3> QED BY <2>1, <3>1
  <2> QED
    BY <1>1, <2>1, <2>2, <2>3, <2>4, <2>5, <2>6, <2>7
       DEF ServerNext, serverVars, vars, codeVars, SignIn, SessionStep, SessionsOnly
<1>2. BothInv /\ [ServerNext]_serverVars =>
        [\A c \in Clients : OffTheTable(c) =>
           /\ OffTheTable(c)'
           /\ \A g \in grants' \ grants : g.aud # c
           /\ \A k \in Codes : approved'[k] # approved[k] => approved'[k].client # c
           /\ \A n \in Everywhere' : n.aud = c =>
                \E t \in Everywhere : t.uid = n.uid /\ t.aud = c]_serverVars
  BY <1>1, NoNewUser
<1> QED
  BY <1>2, BothInvariant, PTL DEF ServerSpec, WithdrawnGainsNobody

-----------------------------------------------------------------------------
LEMMA SameTypes == ACP!TypeOK => AC!TypeOK
BY DEF ACP!TypeOK, AC!TypeOK, ACP!Entries, AC!Entries, ACP!Request, AC!Request,
       ACP!Steps, AC!Steps, ACP!AuthData, AC!AuthData, ACP!Grants, AC!Grants

\* Type correctness of the composition.
THEOREM ServerTypes == ServerSpec => []ServerTypeOK
<1> DEFINE Table == /\ apps \subseteq Clients
                    /\ logins \subseteq Users \X Clients
<1>1. ServerInit => Table
  BY DEF ServerInit
<1>2. Table /\ [ServerNext]_serverVars => Table'
  BY SitesAssumption
     DEF ServerNext, serverVars, Withdraw, SignIn, AuthorizeByAccess, TokenRequest,
         Redeem, SessionStep, CodeStep, ServerTick, SessionsOnly, CodesOnly
<1>3. BothInv /\ Table => ServerTypeOK
  BY SameTypes DEF BothInv, IInv, TypeInv, ACP!IInv, ServerTypeOK
<1> QED
  BY <1>1, <1>2, <1>3, BothInvariant, PTL DEF ServerSpec

=============================================================================
