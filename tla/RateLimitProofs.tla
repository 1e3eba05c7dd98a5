-------------------------- MODULE RateLimitProofs --------------------------
(***************************************************************************)
(* The safety properties of RateLimit, for any limit, window and number of *)
(* addresses and concurrent requests.                                      *)
(***************************************************************************)
EXTENDS RateLimit, FiniteSetTheorems, TLAPS

\* Whoever is about to give a counter its expiry is alone in that, and the
\* counter has none yet; a counter with an expiry counts something.
OneStarts ==
  \A a \in Addresses :
    /\ ttl[a] > 0 => count[a] > 0
    /\ \A r \in Reqs : req[r] = At("expire", a) =>
         /\ count[a] > 0 /\ ttl[a] = 0
         /\ \A q \in Reqs : req[q] = At("expire", a) => q = r

IInv == TypeOK /\ OvershootBounded /\ OneStarts

LEMMA Distinct ==
  /\ \A pc, a : Idle # At(pc, a)
  /\ \A p, q, a, b : At(p, a) = At(q, b) <=> p = q /\ a = b
<1>1. \A pc, a : Idle # At(pc, a)
  <2> SUFFICES ASSUME NEW pc, NEW a, Idle = At(pc, a) PROVE FALSE
    OBVIOUS
  <2>1. DOMAIN Idle = {"pc"} /\ DOMAIN At(pc, a) = {"pc", "addr"}
    BY DEF Idle, At
  <2> QED
    BY <2>1
<1>2. \A p, q, a, b : At(p, a) = At(q, b) <=> p = q /\ a = b
  BY DEF At
<1> QED
  BY <1>1, <1>2

LEMMA TypeStep == TypeOK /\ [Next]_vars => TypeOK'
<1> SUFFICES ASSUME TypeOK, [Next]_vars PROVE TypeOK'
  OBVIOUS
<1> USE LimitAssumption
<1>1. ASSUME NEW r \in Reqs, NEW a \in Addresses, Check(r, a) PROVE TypeOK'
  BY <1>1 DEF Check, TypeOK, At
<1>2. ASSUME NEW r \in Reqs, NEW a \in Addresses, Increment(r, a) PROVE TypeOK'
  BY <1>2 DEF Increment, TypeOK, At
<1>3. ASSUME NEW r \in Reqs, NEW a \in Addresses,
             IncrementFails(r, a) \/ ExpireFails(r, a) PROVE TypeOK'
  BY <1>3 DEF IncrementFails, ExpireFails, TypeOK
<1>4. ASSUME NEW r \in Reqs, NEW a \in Addresses, Expire(r, a) PROVE TypeOK'
  BY <1>4 DEF Expire, TypeOK
<1>5. ASSUME Tick PROVE TypeOK'
  BY <1>5 DEF Tick, TypeOK
<1>6. ASSUME UNCHANGED vars PROVE TypeOK'
  BY <1>6 DEF vars, TypeOK
<1> QED
  BY <1>1, <1>2, <1>3, <1>4, <1>5, <1>6 DEF Next, Deny

-----------------------------------------------------------------------------
(* The sets of requests that are about to count themselves. *)

LEMMA RequestsFinite ==
  ASSUME NEW pc, NEW a
  PROVE  /\ IsFiniteSet(Requests(pc, a)) /\ Cardinality(Requests(pc, a)) \in Nat
         /\ IsFiniteSet(Reqs) /\ Cardinality(Reqs) \in Nat
         /\ Cardinality(Requests(pc, a)) <= Cardinality(Reqs)
<1>1. Requests(pc, a) \subseteq Reqs
  BY DEF Requests
<1> QED
  BY <1>1, ReqsAssumption, FS_Subset, FS_CardinalityType

\* A request that turns to something else than counting itself for a.
LEMMA Leaves ==
  ASSUME TypeOK, NEW r \in Reqs, NEW l, req' = [req EXCEPT ![r] = l],
         NEW a \in Addresses, l # At("incr", a)
  PROVE  Requests("incr", a)' = Requests("incr", a) \ {r}
  BY DEF Requests, TypeOK

LEMMA FewerRequests ==
  ASSUME NEW r, NEW a
  PROVE  /\ Cardinality(Requests("incr", a) \ {r}) <= Cardinality(Requests("incr", a))
         /\ r \in Requests("incr", a) =>
              Cardinality(Requests("incr", a) \ {r}) = Cardinality(Requests("incr", a)) - 1
<1>1. IsFiniteSet(Requests("incr", a)) /\ Cardinality(Requests("incr", a)) \in Nat
  BY RequestsFinite
<1> QED
  BY <1>1, FS_RemoveElement

LEMMA OvershootStep ==
  ASSUME TypeOK, OvershootBounded, [Next]_vars
  PROVE  OvershootBounded'
<1> DEFINE N(b) == Cardinality(Requests("incr", b))
<1> SUFFICES ASSUME NEW b \in Addresses
             PROVE  count'[b] + N(b)' <= Limit - 1 + Cardinality(Reqs)
  BY DEF OvershootBounded
<1>1. /\ N(b) \in Nat /\ N(b)' \in Nat /\ Cardinality(Reqs) \in Nat
      /\ count[b] \in Nat /\ Limit \in Nat
      /\ count[b] + N(b) <= Limit - 1 + Cardinality(Reqs)
  <2>1. N(b) \in Nat /\ Cardinality(Reqs) \in Nat
    BY RequestsFinite
  <2>2. N(b)' \in Nat
    <3>1. Requests("incr", b)' \subseteq Reqs
      BY DEF Requests
    <3> QED
      BY <3>1, ReqsAssumption, FS_Subset, FS_CardinalityType
  <2> QED
    BY <2>1, <2>2, LimitAssumption DEF TypeOK, OvershootBounded
<1>2. ASSUME NEW r \in Reqs, NEW a \in Addresses, Check(r, a)
      PROVE  count'[b] + N(b)' <= Limit - 1 + Cardinality(Reqs)
  <2>1. CASE b = a
    <3>1. r \notin Requests("incr", a) /\ count[a] < Limit /\ count' = count
      BY <1>2, Distinct DEF Check, Requests
    <3>2. Requests("incr", a)' = Requests("incr", a) \cup {r}
      BY <1>2 DEF Check, Requests, TypeOK
    <3>3. N(a)' = N(a) + 1
      BY <3>1, <3>2, RequestsFinite, FS_AddElement
    <3>4. N(a)' <= Cardinality(Reqs)
      <4>1. Requests("incr", a)' \subseteq Reqs
        BY DEF Requests
      <4> QED
        BY <4>1, ReqsAssumption, FS_Subset
    <3> QED
      BY <1>1, <2>1, <3>1, <3>4
  <2>2. CASE b # a
    <3>1. Requests("incr", b)' \subseteq Requests("incr", b) /\ count' = count
      BY <1>2, <2>2, Distinct DEF Check, Requests, TypeOK
    <3>2. N(b)' <= N(b)
      BY <3>1, RequestsFinite, FS_Subset
    <3> QED
      BY <1>1, <3>1, <3>2
  <2> QED
    BY <2>1, <2>2
<1>3. ASSUME NEW r \in Reqs, NEW a \in Addresses, Increment(r, a)
      PROVE  count'[b] + N(b)' <= Limit - 1 + Cardinality(Reqs)
  <2> DEFINE l == IF count[a] = 0 THEN At("expire", a) ELSE Idle
  <2>1. l # At("incr", b) /\ req' = [req EXCEPT ![r] = l]
    BY <1>3, Distinct DEF Increment
  <2>2. /\ N(b)' <= N(b)
        /\ r \in Requests("incr", b) => N(b)' = N(b) - 1
    <3>1. Requests("incr", b)' = Requests("incr", b) \ {r}
      BY <2>1, Leaves
    <3> QED
      BY <1>1, <3>1, FewerRequests
  <2>3. count'[b] = IF b = a THEN count[b] + 1 ELSE count[b]
    BY <1>3 DEF Increment, TypeOK
  <2>4. b = a => r \in Requests("incr", b)
    BY <1>3 DEF Increment, Requests
  <2> QED
    BY <1>1, <2>2, <2>3, <2>4
<1>4. ASSUME NEW r \in Reqs, NEW a \in Addresses,
             IncrementFails(r, a) \/ Expire(r, a) \/ ExpireFails(r, a)
      PROVE  count'[b] + N(b)' <= Limit - 1 + Cardinality(Reqs)
  <2>1. count' = count /\ req' = [req EXCEPT ![r] = Idle] /\ Idle # At("incr", b)
    BY <1>4, Distinct DEF IncrementFails, Expire, ExpireFails
  <2>2. N(b)' <= N(b)
    <3>1. Requests("incr", b)' = Requests("incr", b) \ {r}
      BY <2>1, Leaves
    <3> QED
      BY <1>1, <3>1, FewerRequests
  <2> QED
    BY <1>1, <2>1, <2>2
<1>5. ASSUME Tick PROVE count'[b] + N(b)' <= Limit - 1 + Cardinality(Reqs)
  BY <1>1, <1>5 DEF Tick, Requests
<1>6. ASSUME UNCHANGED vars PROVE count'[b] + N(b)' <= Limit - 1 + Cardinality(Reqs)
  BY <1>1, <1>6 DEF vars, Requests
<1> QED
  BY <1>2, <1>3, <1>4, <1>5, <1>6 DEF Next, Deny

LEMMA StartsStep ==
  ASSUME TypeOK, OneStarts, [Next]_vars
  PROVE  OneStarts'
<1>1. ASSUME NEW r \in Reqs, NEW a \in Addresses, Check(r, a) PROVE OneStarts'
  BY <1>1, Distinct DEF Check, TypeOK, OneStarts
<1>2. ASSUME NEW r \in Reqs, NEW a \in Addresses, Increment(r, a) PROVE OneStarts'
  BY <1>2, Distinct DEF Increment, TypeOK, OneStarts
<1>3. ASSUME NEW r \in Reqs, NEW a \in Addresses,
             IncrementFails(r, a) \/ ExpireFails(r, a) PROVE OneStarts'
  BY <1>3, Distinct DEF IncrementFails, ExpireFails, TypeOK, OneStarts
<1>4. ASSUME NEW r \in Reqs, NEW a \in Addresses, Expire(r, a) PROVE OneStarts'
  BY <1>4, Distinct, LimitAssumption DEF Expire, TypeOK, OneStarts
<1>5. ASSUME Tick PROVE OneStarts'
  BY <1>5, LimitAssumption DEF Tick, TypeOK, OneStarts
<1>6. ASSUME UNCHANGED vars PROVE OneStarts'
  BY <1>6 DEF vars, OneStarts
<1> QED
  BY <1>1, <1>2, <1>3, <1>4, <1>5, <1>6 DEF Next, Deny

LEMMA InitInv == Init => IInv
<1> SUFFICES ASSUME Init PROVE IInv
  OBVIOUS
<1>1. TypeOK
  BY LimitAssumption DEF Init, TypeOK
<1>2. OvershootBounded
  <2> SUFFICES ASSUME NEW a \in Addresses
               PROVE  count[a] + Cardinality(Requests("incr", a))
                        <= Limit - 1 + Cardinality(Reqs)
    BY DEF OvershootBounded
  <2>1. Requests("incr", a) = {}
    BY Distinct DEF Init, Requests
  <2> QED
    BY <2>1, FS_EmptySet, RequestsFinite, LimitAssumption DEF Init
<1>3. OneStarts
  BY Distinct DEF Init, OneStarts
<1> QED
  BY <1>1, <1>2, <1>3 DEF IInv

LEMMA Invariant == Spec => []IInv
<1>1. IInv /\ [Next]_vars => IInv'
  BY TypeStep, OvershootStep, StartsStep DEF IInv
<1> QED
  BY InitInv, <1>1, PTL DEF Spec

-----------------------------------------------------------------------------
\* Counters and windows stay in range.
THEOREM TypeCorrect == Spec => []TypeOK
<1>1. IInv => TypeOK
  BY DEF IInv
<1> QED
  BY Invariant, <1>1, PTL

\* A window counts fewer than Limit requests plus those in flight at once.
THEOREM Overshoot == Spec => []OvershootBounded
<1>1. IInv => OvershootBounded
  BY DEF IInv
<1> QED
  BY Invariant, <1>1, PTL

\* Nothing but the passing of time moves the end of a window.
THEOREM WindowKept == Spec => WindowNotReset
<1> DEFINE Kept == \A a \in Addresses :
                     ttl[a] > 0 => ttl'[a] = ttl[a] \/ ttl'[a] = ttl[a] - 1
<1>1. ASSUME IInv, [Next]_vars PROVE Kept
  <2>1. ASSUME NEW r \in Reqs, NEW a \in Addresses, Expire(r, a) PROVE Kept
    BY <1>1, <2>1 DEF IInv, OneStarts, Expire, TypeOK
  <2>2. ASSUME Tick PROVE Kept
    BY <1>1, <2>2 DEF IInv, Tick, TypeOK
  <2>3. ASSUME ttl' = ttl PROVE Kept
    BY <2>3
  <2> QED
    BY <1>1, <2>1, <2>2, <2>3
       DEF Next, vars, Check, Deny, Increment, IncrementFails, ExpireFails
<1>2. IInv /\ [Next]_vars => [Kept]_vars
  BY <1>1
<1> QED
  BY Invariant, <1>2, PTL DEF Spec, WindowNotReset

=============================================================================
