------------------------------ MODULE RunGroup ------------------------------
(***************************************************************************)
(* The group of actors of wrapper/run.go on top of the shutdown handler.   *)
(* Group.Add counts the actor as work of level 1 and Group.Run adds one    *)
(* more actor, the watcher, that waits for the stop channel and whose      *)
(* interrupt is a SafeStop. What run.Group.Run does with the actors is     *)
(* that of github.com/oklog/run: execute all of them, take the first       *)
(* result, interrupt all of them in order, wait for the other results.     *)
(***************************************************************************)
EXTENDS Signals, Sequences

CONSTANTS
  Actor,     \* actors given to Group.Add, each a unit of work
  Watcher,   \* the actor Group.Run adds
  Runner     \* the goroutine that calls Group.Run

GroupLevel == 1

ASSUME RunGroupAssumption ==
  /\ Actor \subseteq Worker
  /\ Watcher \notin Actor
  /\ Runner \in Caller
  /\ LevelMax >= GroupLevel

VARIABLES
  actors,    \* the actors in the order they were added
  exec,      \* execute function of each actor
  run,       \* where Run is
  next,      \* index of the next actor to interrupt
  accepted   \* history: actors added while the stop channel was open

groupVars == << actors, exec, run, next, accepted >>

Members == {actors[i] : i \in DOMAIN actors}

\* The interrupt function of the actor has returned.
Interrupted(a) == \E i \in DOMAIN actors : actors[i] = a /\ i < next

----------------------------------------------------------------------------
GroupInit ==
  /\ Init
  /\ actors = << >>
  /\ exec = [a \in Actor \cup {Watcher} |-> "new"]
  /\ run = "idle"
  /\ next = 1
  /\ accepted = {}

\* Mutant: the actor is not counted as work.
AddUncounted(a) ==
  /\ Running
  /\ stopHandler
  /\ run = "idle"
  /\ a \notin Members
  /\ stopCh => LateAdd
  /\ actors' = Append(actors, a)
  /\ accepted' = IF stopCh THEN accepted ELSE accepted \cup {a}
  /\ UNCHANGED << exec, run, next, vars >>

\* Group.Add: count the actor in the wait group of level 1, append it.
Add(a) ==
  /\ run = "idle"
  /\ AddFor(a, GroupLevel)
  /\ actors' = Append(actors, a)
  /\ accepted' = IF stopCh THEN accepted ELSE accepted \cup {a}
  /\ UNCHANGED << exec, run, next >>

\* Mutant: the watcher is the first actor, so that SafeStop is called before
\* the other actors are interrupted.
RunWatcherFirst ==
  /\ Running
  /\ stopHandler
  /\ run = "idle"
  /\ actors' = << Watcher >> \o actors
  /\ exec' = [a \in Actor \cup {Watcher} |->
                IF a \in Members \cup {Watcher} THEN "running" ELSE "new"]
  /\ run' = "waiting"
  /\ UNCHANGED << next, accepted, vars >>

\* Group.Run: add the watcher and start one goroutine for each actor.
Run ==
  /\ Running
  /\ stopHandler
  /\ run = "idle"
  /\ actors' = Append(actors, Watcher)
  /\ exec' = [a \in Actor \cup {Watcher} |->
                IF a \in Members \cup {Watcher} THEN "running" ELSE "new"]
  /\ run' = "waiting"
  /\ UNCHANGED << next, accepted, vars >>

\* An actor returns, by itself or because it was interrupted; the watcher
\* returns when the stop channel is closed.
ExecuteReturns(a) ==
  /\ Running
  /\ exec[a] = "running"
  /\ a = Watcher => stopCh
  /\ exec' = [exec EXCEPT ![a] = "returned"]
  /\ UNCHANGED << actors, run, next, accepted, vars >>

\* Mutant: the interrupts are counted from zero.
FirstResultFromZero ==
  /\ Running
  /\ run = "waiting"
  /\ \E a \in Members : exec[a] = "returned"
  /\ run' = "interrupting"
  /\ next' = 0
  /\ UNCHANGED << actors, exec, accepted, vars >>

\* Run receives the first result.
FirstResult ==
  /\ Running
  /\ run = "waiting"
  /\ \E a \in Members : exec[a] = "returned"
  /\ run' = "interrupting"
  /\ UNCHANGED << actors, exec, next, accepted, vars >>

\* The interrupt of an actor: the caller's function, then DoneFor(1).
Interrupt(a) ==
  /\ run = "interrupting"
  /\ actors[next] = a
  /\ DoneFor(a)
  /\ next' = next + 1
  /\ UNCHANGED << actors, exec, run, accepted >>

\* The interrupt of the watcher: SafeStop in the goroutine of Run.
InterruptWatcher ==
  /\ run = "interrupting"
  /\ actors[next] = Watcher
  /\ SafeStop(Runner)
  /\ run' = "stopping"
  /\ UNCHANGED << actors, exec, next, accepted >>

\* SafeStop returns, which it does only when the exit function did.
StopReturns ==
  /\ Running
  /\ run = "stopping"
  /\ pc[Runner] = "returned"
  /\ next' = next + 1
  /\ run' = "joining"
  /\ UNCHANGED << actors, exec, accepted, vars >>

\* Mutant: Run returns the first result and leaves the others.
RunReturnsFirst ==
  /\ Running
  /\ run = "joining"
  /\ run' = "returned"
  /\ UNCHANGED << actors, exec, next, accepted, vars >>

\* Run has the results of all actors and returns.
RunReturns ==
  /\ Running
  /\ run = "joining"
  /\ \A a \in Members : exec[a] = "returned"
  /\ run' = "returned"
  /\ UNCHANGED << actors, exec, next, accepted, vars >>

\* Steps of the group, of the handler alone, and of the handler's other users.
GroupStep ==
  \/ \E a \in Actor : Add(a) \/ Interrupt(a)
  \/ \E a \in Actor \cup {Watcher} : ExecuteReturns(a)
  \/ Run
  \/ FirstResult
  \/ InterruptWatcher
  \/ StopReturns
  \/ RunReturns

HandlerStep ==
  /\ \/ SetupSignalHandler
     \/ Signal
     \/ \E x \in Registrar, l \in Level, f \in Func : PreStopCall(x, l, f)
     \/ \E f \in Func : PreStop(f) \/ StopFuncReturns(f)
     \/ \E w \in Worker \ Actor, l \in Level : AddFor(w, l)
     \/ \E w \in Worker \ Actor : DoneFor(w)
     \/ \E p \in Stopper \ {Runner} : SafeStop(p)
     \/ \E p \in Stopper : StopStep(p) \/ Timeout(p)
     \/ Ended
  /\ UNCHANGED groupVars

GroupNext == GroupStep \/ HandlerStep

allVars == << vars, groupVars >>

GroupSpec == GroupInit /\ [][GroupNext]_allVars

\* The goroutines of the two packages run; interrupts return, an interrupted
\* actor returns, stop functions and work end, all before any timer is due.
GroupPromptSpec ==
  /\ GroupInit
  /\ [][GroupNext /\ \A p \in Stopper : timer'[p] # "fired"]_allVars
  /\ \A p \in Stopper : WF_allVars(StopStep(p) /\ UNCHANGED groupVars)
  /\ WF_allVars(SafeStop(Sig) /\ UNCHANGED groupVars)
  /\ \A f \in Func :
       /\ WF_allVars(StopFuncReturns(f) /\ UNCHANGED groupVars)
       /\ WF_allVars(PreStop(f) /\ UNCHANGED groupVars)
  /\ \A w \in Worker \ Actor : WF_allVars(DoneFor(w) /\ UNCHANGED groupVars)
  /\ WF_allVars(FirstResult)
  /\ \A a \in Actor : WF_allVars(Interrupt(a))
  /\ \A a \in Actor : WF_allVars(Interrupted(a) /\ ExecuteReturns(a))
  /\ WF_allVars(ExecuteReturns(Watcher))
  /\ WF_allVars(InterruptWatcher)
  /\ WF_allVars(StopReturns)
  /\ WF_allVars(RunReturns)

----------------------------------------------------------------------------
(* Properties.                                                             *)

\* Every variable of the group has its type.
GroupTypeOK ==
  /\ actors \in Seq(Actor \cup {Watcher})
  /\ exec \in [Actor \cup {Watcher} -> {"new", "running", "returned"}]
  /\ run \in {"idle", "waiting", "interrupting", "stopping", "joining", "returned"}
  /\ next \in 1 .. Len(actors) + 1
  /\ accepted \in SUBSET Actor

\* The functions of LevelRoot, the last to run, run only when every actor
\* accepted before the stop has been interrupted, whether the stop comes from
\* an actor that returned, from a signal, or from a SafeStop elsewhere.
InterruptedBeforeRoot ==
  \A f \in Func, a \in accepted :
    func[f] = "running" /\ flevel[f] = 0 => Interrupted(a)

\* A process that stops by itself has interrupted every actor it accepted.
InterruptedBeforeExit ==
  status = "stopped" => \A a \in accepted : Interrupted(a)

\* Run returns to its caller only after the shutdown it started is complete
\* and no actor executes any more.
RunReturnsLast ==
  run = "returned" =>
    /\ \A a \in Members : exec[a] = "returned"
    /\ \A f \in Func : func[f] # "running"
    /\ \A w \in early : wpc[w] = "done"

\* When Run is executing, the return of one actor, a signal or a stop called
\* elsewhere ends the process through the whole shutdown, with no help of a
\* timer: the stop that waits for the actors at level 1 and the one that waits
\* for the mutex in the watcher's interrupt do not wait for each other.
GroupStops ==
  run = "waiting" /\ (stopCh \/ \E a \in Members : exec[a] = "returned")
    ~> status = "stopped"

============================================================================
