----------------------------- MODULE RateLimit -----------------------------
(***************************************************************************)
(* The RateLimiting middleware in front of /login, /register, /verify,     *)
(* /requestReset and /reset.  Every address has a counter in Redis         *)
(* database 1.  A request reads it (GET), counts itself (INCR) and, when   *)
(* it is the first of a window, gives the counter an expiry (EXPIRE): three*)
(* calls, with other requests in between.  They run under the context of   *)
(* the request, which is cancelled when the client hangs up, so any of     *)
(* them may fail, or not be sent at all.                                   *)
(*                                                                         *)
(* Time is relative here: a counter holds what is left of its window, so   *)
(* that time never stops and liveness can be stated.                       *)
(***************************************************************************)
EXTENDS Naturals, FiniteSets

CONSTANTS
  Addresses,   \* client addresses, none of them whitelisted
  Reqs,        \* requests in flight at the same time
  Limit,       \* 15 requests ...
  Window       \* ... in 15 minutes

ASSUME LimitAssumption == Limit \in Nat \ {0} /\ Window \in Nat \ {0}
ASSUME ReqsAssumption == IsFiniteSet(Reqs)

VARIABLES
  count,    \* the counters; 0 is a key that is not there
  ttl,      \* what is left of the window; 0 is a key without an expiry
  req       \* the requests in the middleware: the call to make, the address

vars == <<count, ttl, req>>

Idle == [pc |-> "idle"]
At(pc, a) == [pc |-> pc, addr |-> a]

Requests(pc, a) == {r \in Reqs : req[r] = At(pc, a)}

Init ==
  /\ count = [a \in Addresses |-> 0]
  /\ ttl = [a \in Addresses |-> 0]
  /\ req = [r \in Reqs |-> Idle]

-----------------------------------------------------------------------------
\* Mutant: the limit is off by one.
CheckInclusive(r, a) ==
  /\ req[r] = Idle /\ count[a] <= Limit
  /\ req' = [req EXCEPT ![r] = At("incr", a)]
  /\ UNCHANGED <<count, ttl>>

\* CheckLimit finds room: the request goes on to count itself.
Check(r, a) ==
  /\ req[r] = Idle /\ count[a] < Limit
  /\ req' = [req EXCEPT ![r] = At("incr", a)]
  /\ UNCHANGED <<count, ttl>>

\* Mutant: a request that is denied starts the window anew.
DenyAndRestart(r, a) ==
  /\ req[r] = Idle
  /\ ttl' = [ttl EXCEPT ![a] = IF count[a] < Limit THEN @ ELSE Window]
  /\ UNCHANGED <<count, req>>

\* It finds none, or Redis does not answer: 429.
Deny(r, a) ==
  /\ req[r] = Idle
  /\ UNCHANGED vars

\* Mutant: every count is given an expiry, not only the first.
IncrementAndExpire(r, a) ==
  /\ req[r] = At("incr", a)
  /\ count' = [count EXCEPT ![a] = @ + 1]
  /\ req' = [req EXCEPT ![r] = At("expire", a)]
  /\ UNCHANGED ttl

\* INCR; a first count is given an expiry next, any other admits the request.
Increment(r, a) ==
  /\ req[r] = At("incr", a)
  /\ count' = [count EXCEPT ![a] = @ + 1]
  /\ req' = [req EXCEPT ![r] = IF count[a] = 0 THEN At("expire", a) ELSE Idle]
  /\ UNCHANGED ttl

\* INCR fails: the error is dropped and the request is admitted uncounted.
IncrementFails(r, a) ==
  /\ req[r] = At("incr", a)
  /\ req' = [req EXCEPT ![r] = Idle]
  /\ UNCHANGED <<count, ttl>>

\* Mutant: the window is given in the wrong unit.
ExpireInSeconds(r, a) ==
  /\ req[r] = At("expire", a)
  /\ ttl' = [ttl EXCEPT ![a] = 60 * Window]
  /\ req' = [req EXCEPT ![r] = Idle]
  /\ UNCHANGED count

\* EXPIRE of the window's first request.
Expire(r, a) ==
  /\ req[r] = At("expire", a)
  /\ ttl' = [ttl EXCEPT ![a] = IF count[a] = 0 THEN 0 ELSE Window]
  /\ req' = [req EXCEPT ![r] = Idle]
  /\ UNCHANGED count

\* It fails, or the client has hung up: the error is dropped.
ExpireFails(r, a) ==
  /\ req[r] = At("expire", a)
  /\ req' = [req EXCEPT ![r] = Idle]
  /\ UNCHANGED <<count, ttl>>

\* Time passes; Redis drops the counters whose window is over.
Tick ==
  /\ ttl' = [a \in Addresses |-> IF ttl[a] = 0 THEN 0 ELSE ttl[a] - 1]
  /\ count' = [a \in Addresses |-> IF ttl[a] = 1 THEN 0 ELSE count[a]]
  /\ UNCHANGED req

Next ==
  \/ \E r \in Reqs, a \in Addresses :
       \/ Check(r, a) \/ Deny(r, a)
       \/ Increment(r, a) \/ IncrementFails(r, a)
       \/ Expire(r, a) \/ ExpireFails(r, a)
  \/ Tick

\* Time passes whatever the requests do.
Spec == Init /\ [][Next]_vars /\ WF_vars(Tick)

-----------------------------------------------------------------------------
\* Counters stay within what the bound below allows them, windows within Window.
TypeOK ==
  /\ count \in [Addresses -> Nat]
  /\ ttl \in [Addresses -> 0..Window]
  /\ req \in [Reqs -> {Idle} \cup [pc : {"incr", "expire"}, addr : Addresses]]

\* Between the check and the count other requests get in, but no more than are
\* in flight: a window never counts more than Limit and the concurrent rest.
OvershootBounded ==
  \A a \in Addresses :
    count[a] + Cardinality(Requests("incr", a)) <= Limit - 1 + Cardinality(Reqs)

\* RatelimitRepo.go: "so the window doesn't reset on every request".  The end
\* of a window is set once, however late the EXPIRE of its first request is.
WindowNotReset ==
  [][\A a \in Addresses :
       ttl[a] > 0 => ttl'[a] = ttl[a] \/ ttl'[a] = ttl[a] - 1]_vars

\* A window ends: a blocked address with an expiry is let in again, whatever it
\* and others keep sending meanwhile.
BlockEnds ==
  \A a \in Addresses : count[a] >= Limit /\ ttl[a] > 0 ~> count[a] < Limit

-----------------------------------------------------------------------------
(* What a comment of the code says, and the code does not do. *)

\* RatelimitRepo.go, in Increment: "Set expiry only on the first attempt (count
\* == 1)".  A counter has an expiry, or its first request is about to set one.
CountersExpire ==
  \A a \in Addresses :
    count[a] > 0 => ttl[a] > 0 \/ Requests("expire", a) # {}

=============================================================================
