---------------------------- MODULE DeployProofs ----------------------------
(***************************************************************************)
(* A deployment that runs alone is blue/green, for any number of           *)
(* deployments before and after it, wherever those were cut.  The process  *)
(* in a container serves with its tables, for any tables it finds.         *)
(***************************************************************************)
EXTENDS Deploy, Startup, TLAPS

DepRecord == [pc : Steps, seen : SUBSET Ids, colour : Colours \cup {Nil},
              made : Ids \cup {Nil}, alone : BOOLEAN, failed : SUBSET Steps]

Lone(d) == Active(d) /\ dep[d].alone

\* The container of colour c is the one deployment d made.
Own(d, c) == box[c] # Nil /\ box[c].id = dep[d].made

\* docker rm failed, and what it left under the colour of deployment d does not run
\* unless the deployment was misled.
Left(d) == "remove" \in dep[d].failed /\ (Misled(d) \/ ~Running(dep[d].colour))

LoneIsAlone == \A d, e \in Deploys : Lone(d) /\ Active(e) => d = e

\* What a deployment saw was there before the container it made.
SeenBefore ==
  \A d \in Deploys : dep[d].seen \subseteq drawn /\ dep[d].made \in (drawn \cup {Nil}) \ dep[d].seen

\* Where a deployment that runs alone has got to.  Up to the choice nothing runs
\* that it did not see; the colour it chose is not that of a container that runs;
\* from its own docker run on, that colour is its own.  Each with its exceptions.
LoneOK(d) ==
  /\ dep[d].pc = "choose" /\ ~Misled(d) =>
       \A c \in Colours : Running(c) => box[c].id \in dep[d].seen
  /\ dep[d].pc = "remove" /\ ~Misled(d) => ~Running(dep[d].colour)
  /\ dep[d].pc = "run" => box[dep[d].colour] = Nil \/ Left(d)
  /\ dep[d].pc \in {"check", "probe", "giveup"} =>
       box[dep[d].colour] = Nil \/ Own(d, dep[d].colour) \/ Left(d)
  /\ dep[d].pc \in {"conf", "reload", "stop", "rm"} =>
       \/ Own(d, dep[d].colour) /\ box[dep[d].colour].state # "starting"
       \/ Misled(d) /\ "remove" \in dep[d].failed
  /\ dep[d].pc = "reload" => conf = dep[d].colour \/ SwitchFailed(d)
  /\ dep[d].pc \in {"stop", "rm"} => live = dep[d].colour \/ SwitchFailed(d)

AllLoneOK == \A d \in Deploys : Lone(d) => LoneOK(d)

IInv == TypeOK /\ LoneIsAlone /\ SeenBefore /\ AllLoneOK

-----------------------------------------------------------------------------
LEMMA InitInv == Init => IInv
<1> SUFFICES ASSUME Init PROVE IInv
  OBVIOUS
<1>1. dep \in [Deploys -> DepRecord] /\ \A d \in Deploys : dep[d] = New
  BY DEF Init, New, DepRecord, Steps
<1>2. TypeOK
  BY <1>1 DEF Init, New, TypeOK, DepRecord
<1>3. LoneIsAlone /\ AllLoneOK
  BY <1>1 DEF LoneIsAlone, AllLoneOK, Lone, Active, New
<1>4. SeenBefore
  BY <1>1 DEF Init, SeenBefore, New
<1> QED
  BY <1>2, <1>3, <1>4 DEF IInv

LEMMA ExitedBox ==
  ASSUME NEW b \in Container
  PROVE  Exited(b) \in Container /\ Exited(b).id = b.id /\ Exited(b).state = "exited"
  BY DEF Container, Exited, States

\* The ids of the containers stay what they are when some of them exit.
LEMMA IdsKept ==
  ASSUME IInv, box' \in [Colours -> Container \cup {Nil}], drawn \subseteq drawn',
         \A c \in Colours : box'[c] # Nil => box[c] # Nil /\ box'[c].id = box[c].id
  PROVE  /\ \A c \in Colours : box'[c] # Nil => box'[c].id \in drawn'
         /\ \A c, k \in Colours : box'[c] # Nil /\ box'[k] # Nil /\ box'[c].id = box'[k].id => c = k
  BY DEF IInv, TypeOK

\* A step of the script changes no other deployment, and leaves the deployment
\* as alone as it was.
Moves(d, step) ==
  /\ dep' \in [Deploys -> DepRecord]
  /\ dep'[d].pc = step /\ (step # "done" => dep'[d].alone = dep[d].alone)
  /\ \A e \in Deploys \ {d} : dep'[e] = dep[e]

\* Most steps change nothing else of the deployment.
Keeps(d) ==
  /\ dep'[d].seen = dep[d].seen /\ dep'[d].colour = dep[d].colour
  /\ dep'[d].made = dep[d].made /\ dep'[d].failed = dep[d].failed

LEMMA GotoMoves ==
  ASSUME TypeOK, NEW d \in Deploys, NEW step \in Steps, Goto(d, step)
  PROVE  Moves(d, step) /\ Keeps(d)
<1>1. dep \in [Deploys -> DepRecord]
  BY DEF TypeOK, DepRecord
<1> QED
  BY <1>1 DEF Goto, Moves, Keeps, DepRecord

LEMMA EndMoves ==
  ASSUME TypeOK, NEW d \in Deploys, End(d)
  PROVE  Moves(d, "done") /\ dep'[d].seen = {} /\ dep'[d].made = Nil
<1>1. dep \in [Deploys -> DepRecord]
  BY DEF TypeOK, DepRecord
<1>2. [New EXCEPT !.pc = "done"] \in DepRecord
  BY DEF New, DepRecord, Steps
<1> QED
  BY <1>1, <1>2 DEF End, New, Moves

\* For a step of d while d is active, no deployment but d runs alone.
LEMMA OthersStay ==
  ASSUME IInv, NEW d \in Deploys, NEW step \in Steps, Active(d), Moves(d, step),
         dep'[d].pc # "done" /\ Lone(d) => LoneOK(d)'
  PROVE  LoneIsAlone' /\ AllLoneOK'
<1>1. \A e \in Deploys : Active(e)' => Active(e)
  BY DEF Moves, Active
<1>2. \A e \in Deploys : Lone(e)' => Lone(e)
  BY <1>1 DEF Moves, Lone, Active
<1>3. LoneIsAlone'
  BY <1>1, <1>2 DEF IInv, LoneIsAlone
<1>4. \A e \in Deploys : Lone(e) => e = d
  BY DEF IInv, LoneIsAlone
<1>5. Active(d)' => dep'[d].pc # "done"
  BY DEF Active
<1> QED
  BY <1>2, <1>3, <1>4, <1>5 DEF AllLoneOK, Lone

LEMMA RemoveKeeps ==
  ASSUME IInv, NEW d \in Deploys, Remove(d)
  PROVE  IInv'
<1>1. Active(d) /\ Moves(d, "run") /\ Keeps(d)
  BY GotoMoves DEF Remove, IInv, Active, Steps
<1>2. TypeOK'
  BY <1>1 DEF Remove, IInv, TypeOK, Moves, Keeps, DepRecord
<1>3. SeenBefore'
  BY <1>1 DEF Remove, IInv, SeenBefore, Moves, Keeps
<1>4. ASSUME Lone(d) PROVE LoneOK(d)'
  <2>1. LoneOK(d)
    BY <1>4 DEF IInv, AllLoneOK
  <2> QED
    BY <1>1, <2>1 DEF Remove, IInv, TypeOK, LoneOK, Own, Moves, Keeps, Left, Misled,
       SwitchFailed, Running
<1> QED
  BY <1>1, <1>2, <1>3, <1>4, OthersStay DEF IInv, Steps

LEMMA CommandFailsKeeps ==
  ASSUME IInv, NEW d \in Deploys, CommandFails(d)
  PROVE  IInv'
<1> DEFINE step == dep[d].pc
<1>1. /\ step \in {"remove", "run", "giveup", "conf", "reload", "stop", "rm"}
      /\ UNCHANGED <<box, conf, live, drawn>>
      /\ dep \in [Deploys -> DepRecord]
  BY DEF CommandFails, After, IInv, TypeOK, DepRecord
<1>2. CASE End(d)
  <2>1. Active(d) /\ Moves(d, "done") /\ dep'[d].seen = {} /\ dep'[d].made = Nil
    BY <1>1, <1>2, EndMoves DEF IInv, Active
  <2>2. TypeOK'
    BY <1>1, <2>1 DEF IInv, TypeOK, Moves, DepRecord
  <2>3. SeenBefore'
    BY <1>1, <2>1 DEF IInv, SeenBefore, Moves
  <2>4. dep'[d].pc = "done"
    BY <2>1 DEF Moves
  <2> QED
    BY <2>1, <2>2, <2>3, <2>4, OthersStay DEF IInv, Steps
<1>3. CASE ~End(d)
  <2> DEFINE next == After[step]
  <2>1. /\ dep' = [dep EXCEPT ![d].pc = next, ![d].failed = Failing(d)]
        /\ next # "done"
    BY <1>3 DEF CommandFails
  <2>2. \/ step = "remove" /\ next = "run"
        \/ step = "run" /\ next = "check"
        \/ step = "conf" /\ next = "reload"
        \/ step = "reload" /\ next = "stop"
        \/ step = "stop" /\ next = "rm"
    BY <1>1, <2>1 DEF After
  <2>3. Failing(d) \in SUBSET Steps
    BY <1>1 DEF Failing, DepRecord
  <2>4. /\ Active(d) /\ Moves(d, next) /\ next \in Steps
        /\ dep'[d].seen = dep[d].seen /\ dep'[d].colour = dep[d].colour
        /\ dep'[d].made = dep[d].made /\ dep'[d].failed = Failing(d)
    <3>1. Active(d) /\ next \in Steps
      BY <2>2 DEF Active, Steps
    <3> DEFINE new == [dep[d] EXCEPT !.pc = next, !.failed = Failing(d)]
    <3>2. new \in DepRecord
      BY <1>1, <2>3, <3>1 DEF DepRecord
    <3>3. /\ new.pc = next /\ new.failed = Failing(d) /\ new.alone = dep[d].alone
          /\ new.seen = dep[d].seen /\ new.colour = dep[d].colour /\ new.made = dep[d].made
      BY <1>1 DEF DepRecord
    <3>4. dep' = [dep EXCEPT ![d] = new]
      BY <2>1
    <3> HIDE DEF new, next
    <3>5. dep' \in [Deploys -> DepRecord] /\ dep'[d] = new
          /\ \A e \in Deploys \ {d} : dep'[e] = dep[e]
      BY <1>1, <3>2, <3>4
    <3> QED
      BY <3>1, <3>3, <3>5 DEF Moves
  <2>5. TypeOK'
    BY <1>1, <2>2, <2>4 DEF IInv, TypeOK, Moves, DepRecord
  <2>6. SeenBefore'
    BY <1>1, <2>4 DEF IInv, SeenBefore, Moves
  <2>7. ASSUME Lone(d) PROVE LoneOK(d)'
    <3>1. LoneOK(d) /\ dep'[d].failed = dep[d].failed \cup {step} /\ dep'[d].pc = next
      BY <2>4, <2>7 DEF IInv, AllLoneOK, Lone, Failing, Moves
    <3>2. Misled(d)' <=> Misled(d)
      BY <2>2, <2>4, <3>1 DEF Misled
    <3>3. SwitchFailed(d) => SwitchFailed(d)'
      BY <3>1 DEF SwitchFailed
    <3>4. step \in {"conf", "reload"} => SwitchFailed(d)'
      BY <3>1 DEF SwitchFailed
    <3>5. Left(d) => Left(d)'
      BY <1>1, <2>4, <3>1, <3>2 DEF Left, Running
    <3>6. step = "remove" => Left(d)'
      BY <1>1, <2>4, <3>1, <3>2 DEF Left, Running, LoneOK
    <3>7. "remove" \in dep[d].failed => "remove" \in dep'[d].failed
      BY <3>1
    <3>8. Own(d, dep[d].colour)' <=> Own(d, dep[d].colour)
      BY <1>1, <2>4 DEF Own
    <3> QED
      BY <1>1, <2>2, <2>4, <3>1, <3>2, <3>3, <3>4, <3>5, <3>6, <3>7, <3>8 DEF LoneOK, Own
  <2> QED
    BY <2>1, <2>4, <2>5, <2>6, <2>7, OthersStay DEF IInv
<1> QED
  BY <1>2, <1>3

LEMMA ChooseFailsKeeps ==
  ASSUME IInv, NEW d \in Deploys, ChooseFails(d)
  PROVE  IInv'
<1>1. dep \in [Deploys -> DepRecord] /\ Failing(d) \in SUBSET Steps
  BY DEF IInv, TypeOK, DepRecord, Failing
<1>2. /\ Active(d) /\ Moves(d, "remove") /\ dep'[d].colour = "blue"
      /\ dep'[d].seen = dep[d].seen /\ dep'[d].made = dep[d].made
      /\ dep'[d].failed = Failing(d)
  BY <1>1 DEF ChooseFails, Active, Moves, DepRecord, Steps, Colours
<1>3. TypeOK'
  BY <1>2 DEF ChooseFails, IInv, TypeOK, Moves, DepRecord, Colours
<1>4. SeenBefore'
  BY <1>2 DEF ChooseFails, IInv, SeenBefore, Moves
<1>5. ASSUME Lone(d) PROVE LoneOK(d)'
  BY <1>2, <1>5 DEF ChooseFails, LoneOK, Lone, Moves, Misled, Failing
<1> QED
  BY <1>2, <1>3, <1>4, <1>5, OthersStay DEF IInv, Steps

LEMMA CheckKeeps ==
  ASSUME IInv, NEW d \in Deploys, Check(d)
  PROVE  IInv'
<1>1. Active(d) /\ Moves(d, "probe") /\ Keeps(d)
  BY GotoMoves DEF Check, IInv, Active, Steps
<1>2. TypeOK'
  BY <1>1 DEF Check, IInv, TypeOK, Moves, Keeps, DepRecord
<1>3. SeenBefore'
  BY <1>1 DEF Check, IInv, SeenBefore, Moves, Keeps
<1>4. ASSUME Lone(d) PROVE LoneOK(d)'
  <2>1. LoneOK(d)
    BY <1>4 DEF IInv, AllLoneOK
  <2> QED
    BY <1>1, <2>1 DEF Check, IInv, LoneOK, Own, Moves, Keeps, Left, Misled,
       SwitchFailed, Running
<1> QED
  BY <1>1, <1>2, <1>3, <1>4, OthersStay DEF IInv, Steps

LEMMA ProbeKeeps ==
  ASSUME IInv, NEW d \in Deploys, Probe(d)
  PROVE  IInv'
<1>1. Active(d) /\ Moves(d, "conf") /\ Keeps(d)
  BY GotoMoves DEF Probe, IInv, Active, Steps
<1>2. TypeOK'
  BY <1>1 DEF Probe, IInv, TypeOK, Moves, Keeps, DepRecord
<1>3. SeenBefore'
  BY <1>1 DEF Probe, IInv, SeenBefore, Moves, Keeps
<1>4. ASSUME Lone(d) PROVE LoneOK(d)'
  <2>1. LoneOK(d)
    BY <1>4 DEF IInv, AllLoneOK
  <2> QED
    BY <1>1, <2>1 DEF Probe, IInv, LoneOK, Own, Moves, Keeps, Left, Misled,
       SwitchFailed, Running, Serving
<1> QED
  BY <1>1, <1>2, <1>3, <1>4, OthersStay DEF IInv, Steps

LEMMA ProbeFailsKeeps ==
  ASSUME IInv, NEW d \in Deploys, ProbeFails(d)
  PROVE  IInv'
<1>1. Active(d) /\ Moves(d, "giveup") /\ Keeps(d)
  BY GotoMoves DEF ProbeFails, IInv, Active, Steps
<1>2. TypeOK'
  BY <1>1 DEF ProbeFails, IInv, TypeOK, Moves, Keeps, DepRecord
<1>3. SeenBefore'
  BY <1>1 DEF ProbeFails, IInv, SeenBefore, Moves, Keeps
<1>4. ASSUME Lone(d) PROVE LoneOK(d)'
  <2>1. LoneOK(d)
    BY <1>4 DEF IInv, AllLoneOK
  <2> QED
    BY <1>1, <2>1 DEF ProbeFails, IInv, LoneOK, Own, Moves, Keeps, Left, Misled,
       SwitchFailed, Running
<1> QED
  BY <1>1, <1>2, <1>3, <1>4, OthersStay DEF IInv, Steps

LEMMA GiveUpKeeps ==
  ASSUME IInv, NEW d \in Deploys, GiveUp(d)
  PROVE  IInv'
<1>1. Active(d) /\ Moves(d, "done") /\ dep'[d].seen = {} /\ dep'[d].made = Nil
  BY EndMoves DEF GiveUp, IInv, Active, Steps
<1>2. TypeOK'
  <2>1. \A c \in Colours : box'[c] = box[c] \/ (box[c] # Nil /\ box'[c] = Exited(box[c]))
    BY <1>1 DEF GiveUp, IInv, Running
  <2>2. /\ \A c \in Colours : box'[c] \in Container \cup {Nil}
        /\ \A c \in Colours : box'[c] # Nil => box[c] # Nil /\ box'[c].id = box[c].id
    BY <2>1, ExitedBox, NilAssumption DEF IInv, TypeOK
  <2>3. box' \in [Colours -> Container \cup {Nil}]
    <3>1. \E e \in Container \cup {Nil} : box' = [box EXCEPT ![dep[d].colour] = e] \/ box' = box
      BY ExitedBox DEF GiveUp, IInv, TypeOK, Running
    <3> QED
      BY <3>1 DEF IInv, TypeOK
  <2> QED
    <3>1. dep' \in [Deploys -> DepRecord] /\ UNCHANGED <<conf, live, drawn>>
      BY <1>1 DEF GiveUp, Moves
    <3>2. \A e \in Deploys : dep'[e].pc \notin {"new", "choose", "done"} => dep'[e].colour \in Colours
      BY <1>1 DEF GiveUp, IInv, TypeOK, Moves
    <3>3. /\ \A c \in Colours : box'[c] # Nil => box'[c].id \in drawn'
          /\ \A c, k \in Colours : box'[c] # Nil /\ box'[k] # Nil /\ box'[c].id = box'[k].id => c = k
      BY <2>2, <2>3, <3>1, IdsKept
    <3>4. conf' \in Colours /\ live' \in Colours /\ drawn' \subseteq Ids
      BY <3>1 DEF IInv, TypeOK
    <3> QED
      BY <2>3, <3>1, <3>2, <3>3, <3>4 DEF TypeOK, DepRecord
<1>3. SeenBefore'
  BY <1>1 DEF GiveUp, IInv, SeenBefore, Moves, Keeps
<1>4. dep'[d].pc = "done"
  BY <1>1 DEF Moves
<1> QED
  BY <1>1, <1>2, <1>3, <1>4, OthersStay DEF IInv, Steps

LEMMA ConfigureKeeps ==
  ASSUME IInv, NEW d \in Deploys, Configure(d)
  PROVE  IInv'
<1>1. Active(d) /\ Moves(d, "reload") /\ Keeps(d)
  BY GotoMoves DEF Configure, IInv, Active, Steps
<1>2. TypeOK'
  BY <1>1 DEF Configure, IInv, TypeOK, Moves, Keeps, DepRecord
<1>3. SeenBefore'
  BY <1>1 DEF Configure, IInv, SeenBefore, Moves, Keeps
<1>4. ASSUME Lone(d) PROVE LoneOK(d)'
  <2>1. LoneOK(d)
    BY <1>4 DEF IInv, AllLoneOK
  <2> QED
    BY <1>1, <2>1 DEF Configure, IInv, LoneOK, Own, Moves, Keeps, Left, Misled,
       SwitchFailed, Running
<1> QED
  BY <1>1, <1>2, <1>3, <1>4, OthersStay DEF IInv, Steps

LEMMA ReloadKeeps ==
  ASSUME IInv, NEW d \in Deploys, Reload(d)
  PROVE  IInv'
<1>1. Active(d) /\ Moves(d, "stop") /\ Keeps(d)
  BY GotoMoves DEF Reload, IInv, Active, Steps
<1>2. TypeOK'
  BY <1>1 DEF Reload, IInv, TypeOK, Moves, Keeps, DepRecord
<1>3. SeenBefore'
  BY <1>1 DEF Reload, IInv, SeenBefore, Moves, Keeps
<1>4. ASSUME Lone(d) PROVE LoneOK(d)'
  <2>1. LoneOK(d)
    BY <1>4 DEF IInv, AllLoneOK
  <2> QED
    BY <1>1, <2>1 DEF Reload, IInv, LoneOK, Own, Moves, Keeps, Left, Misled,
       SwitchFailed, Running
<1> QED
  BY <1>1, <1>2, <1>3, <1>4, OthersStay DEF IInv, Steps

LEMMA StopOldKeeps ==
  ASSUME IInv, NEW d \in Deploys, StopOld(d)
  PROVE  IInv'
<1>1. Active(d) /\ Moves(d, "rm") /\ Keeps(d)
  BY GotoMoves DEF StopOld, IInv, Active, Steps
<1>2. TypeOK'
  <2>1. \A c \in Colours : box'[c] = box[c] \/ (box[c] # Nil /\ box'[c] = Exited(box[c]))
    BY DEF StopOld, Running
  <2>2. /\ \A c \in Colours : box'[c] \in Container \cup {Nil}
        /\ \A c \in Colours : box'[c] # Nil => box[c] # Nil /\ box'[c].id = box[c].id
    BY <2>1, ExitedBox, NilAssumption DEF IInv, TypeOK
  <2>3. box' \in [Colours -> Container \cup {Nil}]
    <3>1. box' = [c \in Colours |-> box'[c]]
      BY DEF StopOld
    <3> QED
      BY <2>2, <3>1
  <2> QED
    <3>1. dep' \in [Deploys -> DepRecord] /\ UNCHANGED <<conf, live, drawn>>
      BY <1>1 DEF StopOld, Moves
    <3>2. \A e \in Deploys : dep'[e].pc \notin {"new", "choose", "done"} => dep'[e].colour \in Colours
      BY <1>1 DEF StopOld, IInv, TypeOK, Moves, Keeps
    <3>3. /\ \A c \in Colours : box'[c] # Nil => box'[c].id \in drawn'
          /\ \A c, k \in Colours : box'[c] # Nil /\ box'[k] # Nil /\ box'[c].id = box'[k].id => c = k
      BY <2>2, <2>3, <3>1, IdsKept
    <3>4. conf' \in Colours /\ live' \in Colours /\ drawn' \subseteq Ids
      BY <3>1 DEF IInv, TypeOK
    <3> QED
      BY <2>3, <3>1, <3>2, <3>3, <3>4 DEF TypeOK, DepRecord
<1>3. SeenBefore'
  BY <1>1 DEF StopOld, IInv, SeenBefore, Moves, Keeps
<1>4. ASSUME Lone(d) PROVE LoneOK(d)'
  <2>1. LoneOK(d)
    BY <1>4 DEF IInv, AllLoneOK
  <2> QED
    BY <1>1, <2>1 DEF StopOld, IInv, TypeOK, SeenBefore,
       LoneOK, Own, Moves, Keeps, Left, Misled,
       SwitchFailed, Running
<1> QED
  BY <1>1, <1>2, <1>3, <1>4, OthersStay DEF IInv, Steps

LEMMA RemoveOldKeeps ==
  ASSUME IInv, NEW d \in Deploys, RemoveOld(d)
  PROVE  IInv'
<1>1. Active(d) /\ Moves(d, "done") /\ dep'[d].seen = {} /\ dep'[d].made = Nil
  BY EndMoves DEF RemoveOld, IInv, Active, Steps
<1>2. TypeOK'
  BY <1>1 DEF RemoveOld, IInv, TypeOK, Moves, Keeps, DepRecord
<1>3. SeenBefore'
  BY <1>1 DEF RemoveOld, IInv, SeenBefore, Moves, Keeps
<1>4. dep'[d].pc = "done"
  BY <1>1 DEF Moves
<1> QED
  BY <1>1, <1>2, <1>3, <1>4, OthersStay DEF IInv, Steps

LEMMA CutKeeps ==
  ASSUME IInv, NEW d \in Deploys, Cut(d)
  PROVE  IInv'
<1>1. Active(d) /\ Moves(d, "done") /\ dep'[d].seen = {} /\ dep'[d].made = Nil
  BY EndMoves DEF Cut, IInv, Active, Steps
<1>2. TypeOK'
  BY <1>1 DEF Cut, IInv, TypeOK, Moves, Keeps, DepRecord
<1>3. SeenBefore'
  BY <1>1 DEF Cut, IInv, SeenBefore, Moves, Keeps
<1>4. dep'[d].pc = "done"
  BY <1>1 DEF Moves
<1> QED
  BY <1>1, <1>2, <1>3, <1>4, OthersStay DEF IInv, Steps

LEMMA ChooseKeeps ==
  ASSUME IInv, NEW d \in Deploys, Choose(d)
  PROVE  IInv'
<1>1. PICK c \in Colours :
        /\ c = "green" <=> Running("blue") /\ dep[d].seen = {box["blue"].id}
        /\ dep' = [dep EXCEPT ![d].colour = c, ![d].pc = "remove"]
  BY DEF Choose
<1>2. dep \in [Deploys -> DepRecord]
  BY DEF IInv, TypeOK, DepRecord
<1>3. Active(d) /\ Moves(d, "remove") /\ dep'[d].colour = c /\ dep'[d].seen = dep[d].seen
      /\ dep'[d].made = dep[d].made /\ dep'[d].failed = dep[d].failed
  BY <1>1, <1>2 DEF Choose, Active, Moves, DepRecord, Steps
<1>4. TypeOK'
  BY <1>3 DEF Choose, IInv, TypeOK, Moves, DepRecord
<1>5. SeenBefore'
  BY <1>3 DEF Choose, IInv, SeenBefore, Moves, Keeps
<1>6. ASSUME Lone(d), ~Misled(d) PROVE ~Running(c)
  <2>1. \A k \in Colours : Running(k) => box[k].id \in dep[d].seen
    BY <1>6 DEF Choose, IInv, AllLoneOK, LoneOK
  <2>2. CASE Running("blue")
    <3>1. dep[d].seen = {box["blue"].id}
      BY <1>6, <2>1, <2>2 DEF Misled, Colours
    <3>2. c = "green"
      BY <1>1, <2>2, <3>1
    <3>3. Running("green") => box["green"].id = box["blue"].id
      BY <2>1, <3>1 DEF Colours
    <3> QED
      BY <2>2, <3>2, <3>3 DEF IInv, TypeOK, Running, Colours
  <2>3. CASE ~Running("blue")
    BY <1>1, <2>3 DEF Colours
  <2> QED
    BY <2>2, <2>3
<1>7. ASSUME Lone(d) PROVE LoneOK(d)'
  BY <1>3, <1>6, <1>7 DEF Choose, LoneOK, Moves, Misled, Running
<1> QED
  BY <1>3, <1>4, <1>5, <1>7, OthersStay DEF IInv, Steps

LEMMA RunKeeps ==
  ASSUME IInv, NEW d \in Deploys, Run(d)
  PROVE  IInv'
<1> DEFINE c == dep[d].colour
<1>1. PICK i \in Ids \ drawn :
        /\ box' = [box EXCEPT ![c] = [id |-> i, state |-> "starting"]]
        /\ drawn' = drawn \cup {i}
        /\ dep' = [dep EXCEPT ![d].made = i, ![d].pc = "check"]
  BY DEF Run
<1>2. dep \in [Deploys -> DepRecord] /\ c \in Colours
  BY DEF Run, IInv, TypeOK
<1>3. Active(d) /\ Moves(d, "check") /\ dep'[d].colour = c /\ dep'[d].made = i
      /\ dep'[d].seen = dep[d].seen
  BY <1>1, <1>2 DEF Run, Active, Moves, DepRecord, Steps
<1>4. /\ box'[c] = [id |-> i, state |-> "starting"]
      /\ \A k \in Colours \ {c} : box'[k] = box[k]
  BY <1>1, <1>2 DEF IInv, TypeOK
<1>5. TypeOK'
  <2>1. [id |-> i, state |-> "starting"] \in Container
    BY DEF Container, States
  <2>2. box' \in [Colours -> Container \cup {Nil}]
    BY <1>1, <1>2, <2>1 DEF IInv, TypeOK
  <2> QED
    BY <1>1, <1>2, <1>3, <1>4, <2>2 DEF Run, IInv, DepRecord
<1>6. SeenBefore'
  BY <1>1, <1>3 DEF IInv, SeenBefore, Moves, Keeps
<1>7. LoneOK(d)'
  BY <1>3, <1>4 DEF LoneOK, Own, Moves
<1> QED
  BY <1>3, <1>5, <1>6, <1>7, OthersStay DEF IInv, Steps

LEMMA StartsKeeps ==
  ASSUME IInv, NEW d \in Deploys, NEW ids \in SUBSET drawn, NEW failed \in SUBSET Steps,
         Starts(d, ids, failed), UNCHANGED <<box, conf, live, drawn>>,
         "new" \in failed \/ \A c \in Colours : Running(c) => box[c].id \in ids
  PROVE  IInv'
<1> DEFINE alone == \A x \in Deploys : ~Active(x)
           mine == IF alone THEN failed ELSE {}
<1>1. /\ dep'[d] = [New EXCEPT !.pc = "choose", !.seen = ids, !.alone = alone,
                               !.failed = mine]
      /\ \A e \in Deploys \ {d} :
           dep'[e] = IF Active(e) THEN [dep[e] EXCEPT !.alone = FALSE, !.failed = {}]
                                  ELSE dep[e]
  BY DEF Starts
<1>2. alone \in BOOLEAN /\ mine \in SUBSET Steps /\ ids \in SUBSET Ids
  BY DEF IInv, TypeOK
<1>3. dep' \in [Deploys -> DepRecord]
  <2>1. \A e \in Deploys : dep[e] \in DepRecord
    BY DEF IInv, TypeOK, DepRecord
  <2>2. \A e \in Deploys \ {d} : dep'[e] \in DepRecord
    <3>1. TAKE e \in Deploys \ {d}
    <3>2. CASE Active(e)
      BY <1>1, <2>1, <3>2 DEF DepRecord
    <3>3. CASE ~Active(e)
      BY <1>1, <2>1, <3>3
    <3> QED
      BY <3>2, <3>3
  <2>4. dep'[d] \in DepRecord
    BY <1>1, <1>2 DEF DepRecord, New, Steps
  <2> QED
    BY <2>2, <2>4 DEF Starts
<1>4. /\ dep'[d].pc = "choose" /\ dep'[d].seen = ids /\ dep'[d].made = Nil
      /\ dep'[d].alone = alone /\ dep'[d].failed = mine
  BY <1>1 DEF New
<1>5. \A e \in Deploys \ {d} :
        /\ dep'[e].pc = dep[e].pc /\ dep'[e].seen = dep[e].seen
        /\ dep'[e].colour = dep[e].colour /\ dep'[e].made = dep[e].made
        /\ ~Lone(e)'
  <2>1. TAKE e \in Deploys \ {d}
  <2>2. dep[e] \in DepRecord
    BY DEF IInv, TypeOK, DepRecord
  <2>3. CASE Active(e)
    BY <1>1, <2>2, <2>3 DEF DepRecord, Lone
  <2>4. CASE ~Active(e)
    BY <1>1, <2>2, <2>4 DEF Lone, Active
  <2> QED
    BY <2>3, <2>4
<1>6. TypeOK'
  <2>1. \A e \in Deploys : dep'[e].pc \notin {"new", "choose", "done"} => dep'[e].colour \in Colours
    BY <1>4, <1>5 DEF IInv, TypeOK
  <2> QED
    BY <1>3, <2>1 DEF IInv, TypeOK, DepRecord
<1>7. SeenBefore'
  BY <1>2, <1>4, <1>5, NilAssumption DEF IInv, TypeOK, SeenBefore
<1>8. LoneIsAlone' /\ AllLoneOK'
  <2>1. Lone(d)' => LoneOK(d)'
    BY <1>4 DEF Lone, LoneOK, Misled, Running
  <2>2. \A e \in Deploys : Lone(d)' /\ Active(e)' => d = e
    BY <1>4, <1>5 DEF Lone, Active
  <2> QED
    BY <1>5, <2>1, <2>2 DEF LoneIsAlone, AllLoneOK
<1> QED
  BY <1>6, <1>7, <1>8 DEF IInv

LEMMA LookKeeps ==
  ASSUME IInv, NEW d \in Deploys, Look(d) \/ LookFails(d)
  PROVE  IInv'
<1>1. RunningIds \subseteq drawn /\ \A c \in Colours : Running(c) => box[c].id \in RunningIds
  BY DEF IInv, TypeOK, Running, RunningIds
<1>2. CASE Look(d)
  BY <1>1, <1>2, StartsKeeps DEF Look
<1>3. CASE LookFails(d)
  <2>1. {} \subseteq drawn /\ {"new"} \in SUBSET Steps
    BY DEF Steps
  <2> QED
    BY <1>3, <2>1, StartsKeeps DEF LookFails
<1> QED
  BY <1>2, <1>3

LEMMA ContainerKeeps ==
  ASSUME IInv, NEW c \in Colours, ContainerStep(c)
  PROVE  IInv'
<1>1. box[c] # Nil /\ box[c] \in Container
  BY DEF ContainerStep, IInv, TypeOK
<1>2. PICK s \in States : box' = [box EXCEPT ![c].state = s]
  BY DEF ContainerStep
<1>3. /\ box'[c] = [box[c] EXCEPT !.state = s]
      /\ \A k \in Colours \ {c} : box'[k] = box[k]
  BY <1>2 DEF IInv, TypeOK
<1>4. box'[c] \in Container /\ box'[c].id = box[c].id /\ box'[c].state = s
  BY <1>1, <1>3 DEF Container
<1>5. /\ box[c].state \in {"starting", "serving"}
      /\ s \in {"serving", "exited"}
  BY <1>4 DEF ContainerStep, Box!Next, Box!Serve, Box!Exit
<1>6. TypeOK'
  <2>1. box' \in [Colours -> Container \cup {Nil}]
    BY <1>2, <1>3, <1>4 DEF IInv, TypeOK
  <2>2. \A k \in Colours : box'[k] # Nil => box[k] # Nil /\ box'[k].id = box[k].id
    BY <1>1, <1>3, <1>4
  <2> QED
    BY <2>1, <2>2, IdsKept DEF ContainerStep, IInv, TypeOK
<1>7. SeenBefore' /\ LoneIsAlone'
  BY DEF ContainerStep, IInv, SeenBefore, LoneIsAlone, Lone, Active
<1>8. AllLoneOK'
  <2>1. SUFFICES ASSUME NEW d \in Deploys, Lone(d)' PROVE LoneOK(d)'
    BY DEF AllLoneOK
  <2>2. UNCHANGED <<conf, live, dep, drawn>> /\ LoneOK(d)
    BY <2>1 DEF ContainerStep, IInv, AllLoneOK, Lone, Active
  <2>3. /\ \A k \in Colours : box[k] # Nil => box'[k] # Nil /\ box'[k].id = box[k].id
        /\ \A k \in Colours : box[k] = Nil => box'[k] = Nil
    BY <1>1, <1>3, <1>4, NilAssumption
  <2>4. \A k \in Colours : Running(k)' => Running(k)
    BY <1>1, <1>3, <1>4, <1>5 DEF Running
  <2>5. \A k \in Colours : box[k] # Nil /\ box[k].state # "starting" => box'[k].state # "starting"
    BY <1>3, <1>4, <1>5
  <2>6. dep[d].pc \notin {"new", "choose", "done"} => dep[d].colour \in Colours
    BY DEF IInv, TypeOK
  <2>7. LoneOK(d)
    BY <2>2
  <2>8. dep[d].pc = "choose" /\ ~Misled(d) => \A k \in Colours : Running(k)' => box'[k].id \in dep[d].seen
    BY <2>2, <2>3, <2>4, <2>7 DEF LoneOK
  <2>9. dep[d].pc \in {"check", "probe", "giveup", "conf", "reload", "stop", "rm"} =>
          (box[dep[d].colour] # Nil => (Own(d, dep[d].colour)' <=> Own(d, dep[d].colour)))
    BY <2>2, <2>3, <2>6 DEF Own
  <2>10. \A k \in Colours : box[k] = Nil => box'[k] = Nil
    BY <2>3
  <2> QED
    BY <2>2, <2>3, <2>4, <2>5, <2>6, <2>7, <2>8, <2>9, <2>10 DEF LoneOK, Own, Misled,
       SwitchFailed, Left
<1> QED
  BY <1>6, <1>7, <1>8 DEF IInv

-----------------------------------------------------------------------------
LEMMA InductiveStep == IInv /\ [Next]_vars => IInv'
<1> SUFFICES ASSUME IInv, [Next]_vars PROVE IInv'
  OBVIOUS
<1>1. ASSUME NEW d \in Deploys, Script(d) PROVE IInv'
  BY <1>1, LookKeeps, ChooseKeeps, RemoveKeeps, RunKeeps, CommandFailsKeeps, ChooseFailsKeeps,
     CheckKeeps,
     ProbeKeeps,
     ProbeFailsKeeps, GiveUpKeeps, ConfigureKeeps, ReloadKeeps, StopOldKeeps, RemoveOldKeeps
     DEF Script
<1>2. ASSUME NEW d \in Deploys, Cut(d) PROVE IInv'
  BY <1>2, CutKeeps
<1>3. ASSUME NEW c \in Colours, ContainerStep(c) PROVE IInv'
  BY <1>3, ContainerKeeps
<1>4. CASE UNCHANGED vars
  BY <1>4 DEF vars, IInv, TypeOK, LoneIsAlone, SeenBefore, AllLoneOK, LoneOK, Lone,
     Active,
              Own, Misled, SwitchFailed, Left, Running
<1> QED
  BY <1>1, <1>2, <1>3, <1>4 DEF Next

LEMMA Invariance == Spec => []IInv
<1>1. Init => IInv
  BY InitInv
<1>2. IInv /\ [Next]_vars => IInv'
  BY InductiveStep
<1> QED
  BY <1>1, <1>2, PTL DEF Spec

\* The shell variables are set when a command needs them, and no two containers
\* share an id.
THEOREM TypeCorrect == Spec => []TypeOK
<1>1. IInv => TypeOK
  BY DEF IInv
<1> QED
  BY <1>1, Invariance, PTL

\* A deployment that runs alone sends requests to the container it started.
THEOREM OwnContainer == Spec => []SwitchesToItsOwn
<1>1. IInv => SwitchesToItsOwn
  <2>1. SUFFICES ASSUME IInv, NEW d \in Deploys, dep[d].alone,
                        dep[d].pc \in {"conf", "reload", "stop", "rm"}
                 PROVE  \/ Own(d, dep[d].colour) /\ box[dep[d].colour].state # "starting"
                        \/ Misled(d) /\ "remove" \in dep[d].failed
    BY DEF SwitchesToItsOwn, Own
  <2>2. LoneOK(d)
    BY <2>1 DEF IInv, AllLoneOK, Lone, Active
  <2> QED
    BY <2>1, <2>2 DEF LoneOK
<1> QED
  BY <1>1, Invariance, PTL

-----------------------------------------------------------------------------
\* The commands that stop or remove containers, for a deployment that runs alone
\* and found one container at most.
LEMMA LoneTakesDown ==
  ASSUME IInv, NEW d \in Deploys, Script(d), TakesDown(d), dep[d].alone, ~Misled(d),
         ~SwitchFailed(d)
  PROVE  dep[d].pc = "giveup" /\ box[live].id = dep[d].made
<1>1. box' # box /\ Serving(live) /\ live \in Colours
  BY DEF TakesDown, IInv, TypeOK
<1>2. Active(d) => LoneOK(d)
  BY DEF IInv, AllLoneOK, Lone
<1>3. CASE Remove(d)
  <2>1. ~Running(dep[d].colour)
    BY <1>2, <1>3 DEF Remove, LoneOK, Active
  <2>2. live # dep[d].colour
    BY <1>1, <2>1 DEF Serving, Running
  <2>3. box'[live] = box[live]
    BY <1>1, <1>3, <2>2 DEF Remove, IInv
  <2> QED
    BY <2>3 DEF TakesDown
<1>4. CASE Run(d)
  <2>1. box[dep[d].colour] = Nil
    BY <1>4 DEF Run
  <2>2. box'[live] = box[live]
    BY <1>1, <1>4, <2>1 DEF Run, IInv, TypeOK
  <2> QED
    BY <2>2 DEF TakesDown
<1>5. CASE GiveUp(d)
  <2>1. live = dep[d].colour
    BY <1>1, <1>5 DEF GiveUp, TakesDown, IInv
  <2> QED
    BY <1>1, <1>2, <1>5, <2>1 DEF GiveUp, LoneOK, Own, Active, Serving,
         Running, Left
<1>6. CASE StopOld(d)
  <2>1. live = dep[d].colour /\ Own(d, live)
    BY <1>2, <1>6 DEF StopOld, LoneOK, Active
  <2>2. box[live].id \notin dep[d].seen
    BY <2>1 DEF IInv, SeenBefore, Own
  <2>3. box'[live] = box[live]
    BY <1>1, <1>6, <2>2 DEF StopOld
  <2> QED
    BY <2>3 DEF TakesDown
<1>7. CASE RemoveOld(d)
  <2>1. box'[live] = box[live]
    BY <1>1, <1>7 DEF RemoveOld, Serving, Running
  <2> QED
    BY <2>1 DEF TakesDown
<1>8. CASE Look(d) \/ Choose(d) \/ ChooseFails(d) \/ Check(d) \/ Probe(d)
           \/ ProbeFails(d) \/ LookFails(d) \/ CommandFails(d)
           \/ Configure(d) \/ Reload(d)
  BY <1>1, <1>8 DEF Look, LookFails, Choose, ChooseFails, CommandFails, Check, Probe,
     ProbeFails, Configure, Reload
<1> QED
  BY <1>3, <1>4, <1>5, <1>6, <1>7, <1>8 DEF Script

\* No deployment that runs alone, was told what runs, found at most one container and
\* switched nginx without an error takes down the container that nginx uses, whichever
\* other commands failed, but for its own when it gives up on it.
THEOREM BlueGreen == Spec => TakesDownLiveOnlyIf
<1>1. ASSUME IInv, [Next]_vars, NEW d \in Deploys, TakesDown(d), dep[d].alone, ~Misled(d),
         ~SwitchFailed(d)
      PROVE  dep[d].pc = "giveup" /\ box[live].id = dep[d].made
  <2>1. CASE Script(d)
    BY <1>1, <2>1, LoneTakesDown
  <2>2. CASE Cut(d)
    BY <1>1, <2>2 DEF Cut, TakesDown
  <2>3. ASSUME NEW e \in Deploys, e # d, Script(e) \/ Cut(e) PROVE FALSE
    <3>1. CASE Look(e) \/ LookFails(e)
      BY <1>1, <3>1 DEF Look, LookFails, TakesDown
    <3>2. CASE ~(Look(e) \/ LookFails(e))
      <4>1. dep'[d] = dep[d]
        BY <1>1, <2>3, <3>2 DEF Script, Cut, Choose, ChooseFails, Remove, CommandFails, Run,
           Check, Probe, ProbeFails, GiveUp, Configure, Reload, StopOld, RemoveOld, Goto, End,
           IInv, TypeOK
      <4> QED
        BY <1>1, <4>1 DEF TakesDown
    <3> QED
      BY <3>1, <3>2
  <2>4. ASSUME NEW c \in Colours, ContainerStep(c) PROVE FALSE
    BY <1>1, <2>4 DEF ContainerStep, TakesDown
  <2>5. CASE UNCHANGED vars
    BY <1>1, <2>5 DEF vars, TakesDown
  <2> QED
    BY <1>1, <2>1, <2>2, <2>3, <2>4, <2>5 DEF Next
<1>2. IInv /\ [Next]_vars =>
        \A d \in Deploys : TakesDown(d) =>
          \/ ~dep[d].alone
          \/ Misled(d)
          \/ SwitchFailed(d)
          \/ dep[d].pc = "giveup" /\ box[live].id = dep[d].made
  BY <1>1
<1> QED
  BY <1>2, Invariance, PTL DEF Spec, TakesDownLiveOnlyIf

-----------------------------------------------------------------------------
(***************************************************************************)
(* The process inside one container: what main has made sure of by the     *)
(* time it serves, whatever tables an earlier version left and however     *)
(* often Postgres goes away, and that it is one container's life, as the   *)
(* deployment above takes it to be.                                        *)
(***************************************************************************)
\* Where main is.
MainAt == {"init", "sleep", "redis", "serving", "exited"}

\* The statements main has behind it in this pass: it only pings Redis after
\* the last of them.
Behind == IF pc \in {"redis", "serving"} THEN 1..11
          ELSE IF pc = "init" THEN 1..(at - 1) ELSE {}

\* What such a statement adds is there, or it was an ALTER whose error was dropped.
PassOK ==
  \A i \in Behind : Statements[i] \in db \cup {"ping"}
                    \/ (dropped /\ Statements[i] \notin Checked)

\* db never shrinks, so what a pass has added is there at its end.
StartInv ==
  /\ pc \in MainAt
  /\ at \in 1..11
  /\ db \subseteq Elements
  /\ PassOK

\* The list of statements, spelt out.
LEMMA List ==
  /\ Len(Statements) = 11
  /\ Statements[1] = "ping" /\ Statements[2] = "schema" /\ Statements[3] = "users"
  /\ Statements[4] = "is_verified" /\ Statements[5] = "countrycode"
  /\ Statements[6] = "profilepicture" /\ Statements[7] = "middle_name"
  /\ Statements[8] = "names" /\ Statements[9] = "apps"
  /\ Statements[10] = "is_public" /\ Statements[11] = "company_icon"
BY DEF Statements

\* Every element is the work of a statement, and every statement but the ping
\* adds an element.
LEMMA Covered ==
  /\ \A e \in Elements : \E i \in 1..11 : Statements[i] = e
  /\ \A i \in 1..11 : Statements[i] \in Elements \cup {"ping"}
<1>1. \A e \in Elements : \E i \in 1..11 : Statements[i] = e
  BY List DEF Elements, UserColumns, AppColumns
<1>2. \A i \in 1..11 : Statements[i] \in Elements \cup {"ping"}
  BY List DEF Elements, UserColumns, AppColumns
<1> QED BY <1>1, <1>2

LEMMA AddedIs ==
  ASSUME NEW s \in Elements \cup {"ping"}
  PROVE  Added(s) \subseteq Elements /\ (s # "ping" => s \in Added(s))
BY DEF Added, Elements, UserColumns, AppColumns

LEMMA StartsRight == StartInit => StartInv
<1>1. StartInit => PassOK
  BY DEF StartInit, PassOK, Behind
<1> QED BY <1>1 DEF StartInit, StartInv, MainAt

\* The statement at hand joins those behind, and the rest of the pass stays.
LEMMA NextBehind ==
  ASSUME StartInv, pc = "init", NextStatement, db \subseteq db', dropped => dropped',
         \/ Statements[at] \in db' \cup {"ping"}
         \/ dropped' /\ Statements[at] \notin Checked
  PROVE  PassOK' /\ pc' \in MainAt /\ at' \in 1..11
<1>1. at \in 1..11 /\ Len(Statements) = 11
  BY List DEF StartInv
<1>2. pc' \in {"init", "redis"} /\ at' \in 1..11
  BY <1>1 DEF NextStatement
<1>3. Behind = 1..(at - 1)
  BY DEF Behind
<1>4. Behind' = 1..at
  <2>1. CASE at = 11
    BY <1>1, <2>1 DEF NextStatement, Behind
  <2>2. CASE at # 11
    BY <1>1, <2>2 DEF NextStatement, Behind
  <2> QED BY <2>1, <2>2
<1>5. \A i \in 1..at : i \in 1..(at - 1) \/ i = at
  BY <1>1
<1>6. PassOK'
  BY <1>3, <1>4, <1>5 DEF StartInv, PassOK
<1> QED BY <1>2, <1>6 DEF MainAt

LEMMA StartStep == StartInv /\ [StartNext]_startVars => StartInv'
<1> SUFFICES ASSUME StartInv, [StartNext]_startVars PROVE StartInv'
  OBVIOUS
<1> USE DEF StartInv
<1>1. CASE Exec
  <2>1. Statements[at] \in Elements \cup {"ping"}
    BY Covered
  <2>2. /\ db' \subseteq Elements /\ db \subseteq db'
        /\ Statements[at] \in db' \cup {"ping"}
    BY <1>1, <2>1, AddedIs DEF Exec
  <2> QED BY <1>1, <2>2, NextBehind DEF Exec
<1>2. CASE DroppedFails
  BY <1>2, NextBehind DEF DroppedFails
<1>3. CASE CheckedFails
  BY <1>3 DEF CheckedFails, PassOK, Behind, MainAt
<1>4. CASE Retry
  <2>1. /\ pc' = "init" /\ at' = 1 /\ db' = db
        /\ Behind' = {}
    BY <1>4 DEF Retry, Behind
  <2> QED BY <2>1 DEF PassOK, MainAt
<1>5. CASE PingRedis
  BY <1>5 DEF PingRedis, PassOK, Behind, MainAt
<1>6. CASE Crash
  BY <1>6 DEF Crash, PassOK, Behind, MainAt
<1>7. CASE Servers \/ UNCHANGED startVars
  BY <1>7 DEF Servers, startVars, PassOK, Behind
<1> QED BY <1>1, <1>2, <1>3, <1>4, <1>5, <1>6, <1>7 DEF StartNext, Main

LEMMA StartInvariant == StartSpec => []StartInv
BY StartsRight, StartStep, PTL DEF StartSpec

\* main has its tables when it pings Redis and when it serves, wherever in the list
\* Postgres went away.
THEOREM TablesServe == StartSpec => []ServingHasTables
<1>1. ASSUME StartInv, pc \in {"redis", "serving"}
      PROVE  {"schema", "users", "apps"} \subseteq db
  <2>1. \A i \in {2, 3, 9} : Statements[i] \in db
    BY <1>1, List DEF StartInv, PassOK, Behind, Checked
  <2> QED BY <2>1, List
<1>2. StartInv => ServingHasTables
  BY <1>1 DEF ServingHasTables
<1> QED BY <1>2, StartInvariant, PTL

\* It has every column too, unless the error of an ALTER was dropped in the pass.
THEOREM ColumnsServe == StartSpec => []CompleteUnlessDropped
<1>1. ASSUME StartInv, pc = "serving", ~dropped
      PROVE  db = Elements
  <2>1. \A i \in 1..11 : Statements[i] \in db \cup {"ping"}
    BY <1>1 DEF StartInv, PassOK, Behind
  <2>2. "ping" \notin Elements
    BY DEF Elements, UserColumns, AppColumns
  <2> QED BY <1>1, <2>1, <2>2, Covered DEF StartInv
<1>2. StartInv => CompleteUnlessDropped
  BY <1>1 DEF CompleteUnlessDropped
<1> QED BY <1>2, StartInvariant, PTL

\* main, its retries and its end are the life of one container: it starts, may
\* serve, may exit, and never comes back.
THEOREM ProcessIsContainer == StartSpec => RunsAsContainer
<1> DEFINE st == IF pc \in {"serving", "exited"} THEN pc ELSE "starting"
<1>1. StartInit => C!Init
  BY DEF StartInit, C!Init
<1>2. StartInv /\ [StartNext]_startVars => [C!Next]_st
  <2> SUFFICES ASSUME StartInv, [StartNext]_startVars PROVE [C!Next]_st
    OBVIOUS
  <2>1. CASE Exec \/ DroppedFails
    BY <2>1 DEF Exec, DroppedFails, NextStatement
  <2>2. CASE CheckedFails \/ Retry \/ Servers \/ UNCHANGED startVars
    BY <2>2 DEF CheckedFails, Retry, Servers, startVars
  <2>3. CASE PingRedis
    BY <2>3 DEF PingRedis, C!Next, C!Serve, C!Exit
  <2>4. CASE Crash
    BY <2>4 DEF Crash, C!Next, C!Exit
  <2> QED BY <2>1, <2>2, <2>3, <2>4 DEF StartNext, Main
<1> QED BY <1>1, <1>2, StartInvariant, PTL DEF StartSpec, RunsAsContainer, C!Spec

=============================================================================
