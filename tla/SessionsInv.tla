---------------------------- MODULE SessionsInv ----------------------------
(* The inductive invariant behind the safety properties of Sessions.       *)
EXTENDS Sessions

\* Which locals a request has set, by the step it is about to take.
Shape(q) ==
  /\ q.pc \in {"session", "account", "delete"} =>
       q.tok \in Token /\ q.tok.typ = "refresh"
  /\ q.pc \in {"account", "delete", "locate", "insert"} => q.client \in Clients
  /\ q.pc \in {"extend", "delete", "locate", "insert"} => q.new \in Token
  /\ q.pc = "extend" => q.new.typ = "access"
  /\ q.pc \in {"delete", "locate", "insert"} => q.new.typ = "refresh"

LocalsOK == \A r \in Reqs : Shape(req[r])

TypeInv == TypeOK /\ LocalsOK

-----------------------------------------------------------------------------
\* Nothing was signed, and no clock was read, in the future.
NotFuture ==
  /\ \A t \in Held : t.iat <= now
  /\ \A r \in Reqs : /\ Pends(r) => req[r].new.iat <= now
                     /\ req[r].pc = "insert" =>
                          req[r].new.iat <= req[r].stamp /\ req[r].stamp <= now

\* A session id belongs to the request that drew it until it is stored.
Fresh ==
  /\ \A t \in Held : t.sid \in used
  /\ \A u \in Users, s \in Sids : Exists(hashes, <<"session", u, s>>) => s \in used
  /\ \A r \in Reqs : Pends(r) =>
       /\ req[r].new.sid \in used
       /\ \A t \in Held : t.sid # req[r].new.sid
       /\ ~Stored(req[r].new.sid)
       /\ \A q \in Reqs \ {r} : Pends(q) => req[q].new.sid # req[r].new.sid

\* The session of a held token lasts as long as the token.
Covered ==
  \A t \in Held : Valid(t) /\ t.sid \notin lost \cup retired =>
    HasSession(t) /\ Expiry(t) <= hashes[SessionKey(t)].deadline

\* The client of a session, in Redis and on its way there.
Audience ==
  /\ \A t \in Held : HasSession(t) => hashes[SessionKey(t)].data = t.aud
  /\ \A r \in Reqs : /\ req[r].pc = "account" => req[r].client = req[r].tok.aud
                     /\ Pends(r) => req[r].client = req[r].new.aud

\* The index is neither ahead of the sessions nor behind the tokens.
Indexed ==
  /\ \A t \in [uid : Users, sid : Sids] :
       /\ Score(t) <= now + SessionTTL
       /\ Exists(zsets, IndexKey(t)) => Score(t) <= zsets[IndexKey(t)].deadline
       /\ Score(t) > now => HasSession(t) /\ Score(t) <= hashes[SessionKey(t)].deadline
  /\ \A t \in Held : Valid(t) /\ t.sid \notin lost => Expiry(t) <= Score(t)

IInv == TypeInv /\ NotFuture /\ Fresh /\ Covered /\ Audience /\ Indexed

=============================================================================
