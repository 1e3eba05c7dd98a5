------------------------------- MODULE Deploy -------------------------------
(***************************************************************************)
(* The blue/green script of the deployment workflow: one container of each *)
(* colour at most, blue on port 3000 and green on 3002, and an nginx that  *)
(* sends requests to one of the two ports.  A step is a command of the     *)
(* script.  Any command may fail, and no command's failure stops the       *)
(* script, which only ends early where it says exit.  Workflows are not    *)
(* serialized: two tags pushed one after the other deploy at the same      *)
(* time, and a workflow may be stopped between any two commands.           *)
(***************************************************************************)
EXTENDS Naturals

CONSTANTS
  Deploys,   \* runs of the workflow
  Ids,       \* container ids, never drawn twice
  Nil

Colours == {"blue", "green"}

States == {"starting", "serving", "exited"}

Container == [id : Ids, state : States]

ASSUME NilAssumption == Nil \notin Ids \cup Colours \cup Container

VARIABLES
  box,     \* the container of each name, running or exited
  conf,    \* the colour nginx is configured for
  live,    \* the colour nginx sends requests to
  dep,     \* the deployments, with their shell variables
  drawn    \* history: the ids of containers

vars == <<box, conf, live, dep, drawn>>

Box(c) == INSTANCE Container WITH state <- box[c].state

Running(c) == box[c] # Nil /\ box[c].state # "exited"
Serving(c) == box[c] # Nil /\ box[c].state = "serving"

RunningIds == {box[c].id : c \in {k \in Colours : Running(k)}}

Active(d) == dep[d].pc \notin {"new", "done"}

\* seen: CURRENT_CONTAINER.  colour: NEW_COLOR, which NEW_PORT goes with.
\* made, alone, failed: history: the container it started, whether no other
\* deployment ran at any time since it started, and, of one that is alone, its
\* commands that failed.
New == [pc |-> "new", seen |-> {}, colour |-> Nil, made |-> Nil, alone |-> TRUE,
        failed |-> {}]

Steps == {"new", "choose", "remove", "run", "check", "probe", "giveup",
          "conf", "reload", "stop", "rm", "done"}

\* The commands that change something, and where the script goes after each.
After == [remove |-> "run", run |-> "check", giveup |-> "done", conf |-> "reload",
          reload |-> "stop", stop |-> "rm", rm |-> "done"]

Goto(d, step) == dep' = [dep EXCEPT ![d].pc = step]

\* The script ends, and with it its variables.
End(d) == dep' = [dep EXCEPT ![d] = [New EXCEPT !.pc = "done"]]

\* A container whose process has exited.
Exited(b) == [id |-> b.id, state |-> "exited"]

Init ==
  /\ box = [c \in Colours |-> Nil]
  /\ conf \in Colours /\ live = conf
  /\ dep = [d \in Deploys |-> New]
  /\ drawn = {}

-----------------------------------------------------------------------------
\* The deployments when d starts with the ids it was told of.
Starts(d, ids, failed) ==
  LET alone == \A x \in Deploys : ~Active(x) IN
  dep' = [e \in Deploys |->
    IF e = d THEN [New EXCEPT !.pc = "choose", !.seen = ids, !.alone = alone,
                              !.failed = IF alone THEN failed ELSE {}]
    ELSE IF Active(e) THEN [dep[e] EXCEPT !.alone = FALSE, !.failed = {}] ELSE dep[e]]

\* docker ps -q: the ids of the containers that run.
Look(d) ==
  /\ dep[d].pc = "new"
  /\ Starts(d, RunningIds, {})
  /\ UNCHANGED <<box, conf, live, drawn>>

\* Without an answer of docker there is nothing to replace.
LookFails(d) ==
  /\ dep[d].pc = "new"
  /\ Starts(d, {}, {"new"})
  /\ UNCHANGED <<box, conf, live, drawn>>

\* The commands that failed, with the one at hand.
Failing(d) == IF dep[d].alone THEN dep[d].failed \cup {dep[d].pc} ELSE dep[d].failed

\* Mutant: no colour is chosen when docker port fails.
ChooseIfPort(d) ==
  /\ dep[d].pc = "choose"
  /\ \E c \in Colours \cup {Nil} :
       /\ c = "green" <=> Running("blue") /\ dep[d].seen = {box["blue"].id}
       /\ c = "blue" <=> Running("green") /\ dep[d].seen = {box["green"].id}
       /\ dep' = [dep EXCEPT ![d].colour = c, ![d].pc = "remove"]
  /\ UNCHANGED <<box, conf, live, drawn>>

\* docker port of the container seen: green if it has port 3000, and blue if it
\* has the other, if there was none, and if the command fails, as it always does
\* for two containers and for one that is gone.
Choose(d) ==
  /\ dep[d].pc = "choose"
  /\ \E c \in Colours :
       /\ c = "green" <=> Running("blue") /\ dep[d].seen = {box["blue"].id}
       /\ dep' = [dep EXCEPT ![d].colour = c, ![d].pc = "remove"]
  /\ UNCHANGED <<box, conf, live, drawn>>

\* docker port fails for a container that is there.
ChooseFails(d) ==
  /\ dep[d].pc = "choose" /\ dep[d].seen # {}
  /\ dep' = [dep EXCEPT ![d].colour = "blue", ![d].pc = "remove", ![d].failed = Failing(d)]
  /\ UNCHANGED <<box, conf, live, drawn>>

\* A command that fails has changed nothing, and the script goes on: docker cannot
\* stop or remove a container, the name for docker run is taken or there is no image,
\* sudo refuses to write nginx's configuration, nginx refuses what it is to load.
CommandFails(d) ==
  LET step == dep[d].pc IN
  /\ step \in DOMAIN After
  /\ IF After[step] = "done" THEN End(d)
     ELSE dep' = [dep EXCEPT ![d].pc = After[step], ![d].failed = Failing(d)]
  /\ UNCHANGED <<box, conf, live, drawn>>

\* docker rm -f of the colour, whatever is there.
Remove(d) ==
  /\ dep[d].pc = "remove"
  /\ box' = [box EXCEPT ![dep[d].colour] = Nil]
  /\ Goto(d, "run")
  /\ UNCHANGED <<conf, live, drawn>>

Run(d) ==
  /\ dep[d].pc = "run" /\ box[dep[d].colour] = Nil
  /\ \E i \in Ids \ drawn :
       /\ box' = [box EXCEPT ![dep[d].colour] = [id |-> i, state |-> "starting"]]
       /\ drawn' = drawn \cup {i}
       /\ dep' = [dep EXCEPT ![d].made = i, ![d].pc = "check"]
  /\ UNCHANGED <<conf, live>>

\* docker ps succeeds whether or not it lists a container.  Only when docker does
\* not answer does the script exit here, which is what Cut does.
Check(d) ==
  /\ dep[d].pc = "check"
  /\ Goto(d, "probe")
  /\ UNCHANGED <<box, conf, live, drawn>>

\* Mutant: the probe takes a container that is up for one that answers.
ProbeRunning(d) ==
  /\ dep[d].pc = "probe" /\ Running(dep[d].colour)
  /\ Goto(d, "conf")
  /\ UNCHANGED <<box, conf, live, drawn>>

\* curl of /about on the new port, by whatever container answers there.
Probe(d) ==
  /\ dep[d].pc = "probe" /\ Serving(dep[d].colour)
  /\ Goto(d, "conf")
  /\ UNCHANGED <<box, conf, live, drawn>>

\* curl fails thirty times, one second apart.
ProbeFails(d) ==
  /\ dep[d].pc = "probe"
  /\ Goto(d, "giveup")
  /\ UNCHANGED <<box, conf, live, drawn>>

\* docker stop by name, and exit 1.
GiveUp(d) ==
  LET c == dep[d].colour IN
  /\ dep[d].pc = "giveup"
  /\ box' = IF Running(c) THEN [box EXCEPT ![c] = Exited(box[c])] ELSE box
  /\ End(d)
  /\ UNCHANGED <<conf, live, drawn>>

\* tee of nginx's configuration.
Configure(d) ==
  /\ dep[d].pc = "conf"
  /\ conf' = dep[d].colour
  /\ Goto(d, "reload")
  /\ UNCHANGED <<box, live, drawn>>

\* systemctl reload nginx.
Reload(d) ==
  /\ dep[d].pc = "reload"
  /\ live' = conf
  /\ Goto(d, "stop")
  /\ UNCHANGED <<box, conf, drawn>>

\* Mutant: the containers are looked for again.
StopRunning(d) ==
  /\ dep[d].pc = "stop"
  /\ box' = [c \in Colours |-> IF Running(c) THEN Exited(box[c]) ELSE box[c]]
  /\ Goto(d, "rm")
  /\ UNCHANGED <<conf, live, drawn>>

\* docker stop of the ids that were seen.
StopOld(d) ==
  /\ dep[d].pc = "stop"
  /\ box' = [c \in Colours |->
               IF Running(c) /\ box[c].id \in dep[d].seen THEN Exited(box[c]) ELSE box[c]]
  /\ Goto(d, "rm")
  /\ UNCHANGED <<conf, live, drawn>>

\* docker rm of the ids that were seen: it takes what does not run.
RemoveOld(d) ==
  /\ dep[d].pc = "rm"
  /\ box' = [c \in Colours |->
               IF box[c] # Nil /\ ~Running(c) /\ box[c].id \in dep[d].seen THEN Nil ELSE box[c]]
  /\ End(d)
  /\ UNCHANGED <<conf, live, drawn>>

\* The workflow is cancelled, or the connection to the host is lost.
Cut(d) ==
  /\ Active(d)
  /\ End(d)
  /\ UNCHANGED <<box, conf, live, drawn>>

\* A container gets ready, or its process exits.
ContainerStep(c) ==
  /\ box[c] # Nil
  /\ \E s \in States : box' = [box EXCEPT ![c].state = s]
  /\ Box(c)!Next
  /\ UNCHANGED <<conf, live, dep, drawn>>

-----------------------------------------------------------------------------
Script(d) ==
  \/ Look(d) \/ LookFails(d) \/ Choose(d) \/ ChooseFails(d) \/ Remove(d)
  \/ Run(d) \/ Check(d) \/ CommandFails(d)
  \/ Probe(d) \/ ProbeFails(d) \/ GiveUp(d)
  \/ Configure(d) \/ Reload(d)
  \/ StopOld(d) \/ RemoveOld(d)

Next ==
  \/ \E d \in Deploys : Script(d) \/ Cut(d)
  \/ \E c \in Colours : ContainerStep(c)

Spec == Init /\ [][Next]_vars

-----------------------------------------------------------------------------
(* Properties *)

\* The script's variables are set when it needs them, and ids are unique.
TypeOK ==
  /\ box \in [Colours -> Container \cup {Nil}]
  /\ conf \in Colours /\ live \in Colours
  /\ drawn \subseteq Ids
  /\ dep \in [Deploys -> [pc : Steps, seen : SUBSET Ids, colour : Colours \cup {Nil},
                          made : Ids \cup {Nil}, alone : BOOLEAN,
                          failed : SUBSET Steps]]
  /\ \A d \in Deploys : dep[d].pc \notin {"new", "choose", "done"} => dep[d].colour \in Colours
  /\ \A c \in Colours : box[c] # Nil => box[c].id \in drawn
  /\ \A c, k \in Colours : box[c] # Nil /\ box[k] # Nil /\ box[c].id = box[k].id => c = k

\* Deployment d stops or removes the container that answers nginx's requests.
TakesDown(d) ==
  /\ dep'[d] # dep[d]
  /\ Serving(live) /\ box'[live] # box[live]

\* The deployment chose a colour that a container may run under: it found two of
\* them running, as a deployment leaves them that was cut or could not stop the old
\* one, or docker did not tell it what runs.
Misled(d) ==
  \/ \E i, j \in dep[d].seen : i # j
  \/ {"new", "choose"} \cap dep[d].failed # {}

\* nginx was not told of the new container, and the script goes on.
SwitchFailed(d) == {"conf", "reload"} \cap dep[d].failed # {}

\* It only does so if another deployment ran meanwhile, if it was misled, if it could
\* not configure or reload nginx and stops what nginx still uses, or if it gives up on
\* its own container and nginx uses that port already.  A failing docker rm, run or
\* stop is no such cause.
TakesDownLiveOnlyIf ==
  [][\A d \in Deploys : TakesDown(d) =>
       \/ ~dep[d].alone
       \/ Misled(d)
       \/ SwitchFailed(d)
       \/ dep[d].pc = "giveup" /\ box[live].id = dep[d].made]_vars

\* A deployment that ran alone moves nginx to a port where its own container
\* answered: what is there is that container, unless it was misled and could not
\* remove what was there.
SwitchesToItsOwn ==
  \A d \in Deploys : dep[d].pc \in {"conf", "reload", "stop", "rm"} /\ dep[d].alone =>
    \/ /\ box[dep[d].colour] # Nil
       /\ box[dep[d].colour].id = dep[d].made
       /\ box[dep[d].colour].state # "starting"
    \/ Misled(d) /\ "remove" \in dep[d].failed

=============================================================================
