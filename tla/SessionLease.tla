---------------------------- MODULE SessionLease ----------------------------
(***************************************************************************)
(* What the session store promises, without clocks, keys or requests.  A   *)
(* session is opened at most once; while it is promised (a client holds a  *)
(* token that names it) it stays open; once closed it never opens again.   *)
(***************************************************************************)
CONSTANT Sids

VARIABLES
  lease,     \* the life of every session: "none", then "open" or "closed"
  promised   \* the sessions a client relies on

leaseVars == <<lease, promised>>

LeaseType ==
  /\ lease \in [Sids -> {"none", "open", "closed"}]
  /\ promised \subseteq Sids

LeaseInit ==
  /\ lease = [s \in Sids |-> "none"]
  /\ promised = {}

\* The session is stored; its tokens reach the client, or do not.
Open(s) ==
  /\ lease[s] = "none"
  /\ lease' = [lease EXCEPT ![s] = "open"]
  /\ promised' \in {promised, promised \cup {s}}

\* A session id is given up before a session was stored under it.
Discard(s) ==
  /\ lease[s] = "none"
  /\ lease' = [lease EXCEPT ![s] = "closed"]
  /\ UNCHANGED promised

\* Promises P end, by time or by the client's wish, and sessions C close: none
\* of them is promised any more.
Lapse(P, C) ==
  /\ promised' = promised \ P
  /\ C \cap promised' = {}
  /\ \A s \in C : lease[s] = "open"
  /\ lease' = [s \in Sids |-> IF s \in C THEN "closed" ELSE lease[s]]

LeaseNext ==
  \/ \E s \in Sids : Open(s) \/ Discard(s)
  \/ \E P \in SUBSET promised, C \in SUBSET Sids : Lapse(P, C)

LeaseSpec == LeaseInit /\ [][LeaseNext]_leaseVars

-----------------------------------------------------------------------------
\* Sessions a client relies on are open.
PromiseKept == \A s \in promised : lease[s] = "open"

\* A closed session stays closed.
NeverReopened ==
  [][\A s \in Sids : lease[s] = "closed" => lease'[s] = "closed"]_leaseVars

LeaseInv == LeaseType /\ PromiseKept

=============================================================================
