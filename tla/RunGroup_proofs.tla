--------------------------- MODULE RunGroup_proofs ---------------------------
(***************************************************************************)
(* Proofs about RunGroup, for every number of actors, other work, stop     *)
(* functions and stoppers. The group only drives the handler of Signals,   *)
(* so what is proved of the handler holds in the group; the invariant of   *)
(* the group itself ties the handler's count of work to the interrupts.    *)
(***************************************************************************)
EXTENDS RunGroup, Signals_proofs, SequenceTheorems

----------------------------------------------------------------------------
(* The group is one of the users the handler allows.                       *)

LEMMA GroupConstants ==
  /\ Actor \subseteq Worker
  /\ Watcher \notin Actor
  /\ Runner \in Stopper
  /\ GroupLevel \in Level
BY RunGroupAssumption, SignalsAssumption DEF Stopper, Level, GroupLevel

\* A step of the group is a step of the handler or changes nothing in it.
LEMMA GroupStepIsHandlerStep == [GroupNext]_allVars => [Next]_vars
<1> SUFFICES ASSUME GroupNext PROVE [Next]_vars
  BY DEF allVars
<1>1. CASE HandlerStep
  BY <1>1 DEF HandlerStep, Next
<1>2. ASSUME NEW a \in Actor, Add(a) \/ Interrupt(a) PROVE Next
  BY <1>2, GroupConstants DEF Add, Interrupt, Next
<1>3. CASE InterruptWatcher
  BY <1>3, GroupConstants DEF InterruptWatcher, Next
<1>4. ASSUME \/ \E a \in Actor \cup {Watcher} : ExecuteReturns(a)
             \/ Run \/ FirstResult \/ StopReturns \/ RunReturns
      PROVE  UNCHANGED vars
  BY <1>4 DEF ExecuteReturns, Run, FirstResult, StopReturns, RunReturns
<1> QED
  BY <1>1, <1>2, <1>3, <1>4 DEF GroupNext, GroupStep

\* The handler inside the group behaves as Signals describes: whatever is
\* proved of Spec holds of the group of actors.
THEOREM GroupImplementsHandler == GroupSpec => Spec
<1>1. GroupInit => Init
  BY DEF GroupInit
<1> QED
  BY <1>1, GroupStepIsHandlerStep, PTL DEF GroupSpec, Spec

----------------------------------------------------------------------------
(* Type correctness.                                                       *)

LEMMA GroupInitTypeOK == GroupInit => GroupTypeOK
BY EmptySeq DEF GroupInit, GroupTypeOK

\* Before Run, no interrupt is due; from Run to the watcher's SafeStop, the
\* watcher is the last actor and the next interrupt is that of an actor.
OrderInv ==
  /\ run \in {"idle", "waiting"} => next = 1
  /\ run \in {"waiting", "interrupting", "stopping"} =>
       next <= Len(actors) /\ actors[Len(actors)] = Watcher

LEMMA NextGroupTypeOK ==
  ASSUME GroupTypeOK, OrderInv, [GroupNext]_allVars
  PROVE  GroupTypeOK' /\ OrderInv'
<1> DEFINE Everyone == Actor \cup {Watcher}
<1> USE DEF GroupTypeOK
<1>1. Len(actors) \in Nat /\ DOMAIN actors = 1 .. Len(actors) /\ next \in Int
  BY LenProperties
<1>2. CASE UNCHANGED groupVars
  BY <1>2 DEF groupVars, OrderInv
<1>3. ASSUME NEW a \in Actor, Add(a) PROVE GroupTypeOK' /\ OrderInv'
  <2>1. /\ actors' \in Seq(Everyone)
        /\ Len(actors') = Len(actors) + 1
    BY <1>3, AppendProperties DEF Add
  <2> QED
    BY <1>1, <1>3, <2>1 DEF Add, OrderInv
<1>4. CASE Run
  <2>1. /\ actors' \in Seq(Everyone)
        /\ Len(actors') = Len(actors) + 1
        /\ actors'[Len(actors) + 1] = Watcher
    BY <1>4, AppendProperties DEF Run
  <2>2. exec' \in [Everyone -> {"new", "running", "returned"}]
    BY <1>4 DEF Run
  <2> QED
    BY <1>1, <1>4, <2>1, <2>2 DEF Run, OrderInv
<1>5. ASSUME NEW a \in Everyone, ExecuteReturns(a) PROVE GroupTypeOK' /\ OrderInv'
  BY <1>5 DEF ExecuteReturns, OrderInv
<1>6. CASE FirstResult
  BY <1>6 DEF FirstResult, OrderInv
<1>7. ASSUME NEW a \in Actor, Interrupt(a) PROVE GroupTypeOK' /\ OrderInv'
  <2>1. next # Len(actors)
    BY <1>7, GroupConstants DEF Interrupt, OrderInv
  <2>2. next' = next + 1 /\ actors' = actors /\ next <= Len(actors) /\ 1 <= next
    BY <1>1, <1>7 DEF Interrupt, OrderInv
  <2>3. UNCHANGED << actors, exec, run, accepted >> /\ run = "interrupting"
    BY <1>7 DEF Interrupt
  <2>4. next + 1 \in 1 .. Len(actors) + 1 /\ next + 1 <= Len(actors)
    <3>1. next \in Int /\ Len(actors) \in Int /\ 1 <= next /\ next <= Len(actors)
      BY <1>1, <2>2
    <3> QED
      BY <2>1, <3>1
  <2>5. next' \in 1 .. Len(actors') + 1 /\ next' <= Len(actors')
    BY <2>2, <2>4, Zenon
  <2> QED
    BY <2>2, <2>3, <2>5 DEF OrderInv
<1>8. CASE InterruptWatcher
  BY <1>8 DEF InterruptWatcher, OrderInv
<1>9. CASE StopReturns
  BY <1>1, <1>9 DEF StopReturns, OrderInv
<1>10. CASE RunReturns
  BY <1>10 DEF RunReturns, OrderInv
<1> QED
  BY <1>2, <1>3, <1>4, <1>5, <1>6, <1>7, <1>8, <1>9, <1>10
  DEF GroupNext, GroupStep, HandlerStep, allVars, groupVars

\* Every variable of the group keeps its type, and the index of the next
\* interrupt never leaves the list of actors.
THEOREM GroupTypeCorrect == GroupSpec => []GroupTypeOK
<1>1. GroupInit => GroupTypeOK /\ OrderInv
  BY GroupInitTypeOK DEF GroupInit, OrderInv
<1> QED
  BY <1>1, NextGroupTypeOK, PTL DEF GroupSpec

----------------------------------------------------------------------------
(* Interrupts and the handler's count of work.                             *)

\* An accepted actor is work of level 1 counted before the stop, and work of
\* an actor ends in its interrupt and nowhere else.
ActorInv ==
  /\ \A a \in accepted : a \in early /\ wpc[a] # "idle" /\ wlevel[a] = GroupLevel
  /\ \A a \in Actor : wpc[a] = "done" => Interrupted(a)

GroupInv == GroupTypeOK /\ OrderInv /\ ActorInv

\* An interrupt that has returned stays so: actors are only appended and
\* the index only grows.
LEMMA StaysInterrupted ==
  ASSUME GroupTypeOK, GroupTypeOK', next' >= next,
         actors' = actors \/ \E a \in Actor \cup {Watcher} : actors' = Append(actors, a)
  PROVE  \A a : Interrupted(a) => Interrupted(a)'
<1> SUFFICES ASSUME NEW a, NEW i \in DOMAIN actors, actors[i] = a, i < next
             PROVE  Interrupted(a)'
  BY DEF Interrupted
<1>1. Len(actors) \in Nat /\ DOMAIN actors = 1 .. Len(actors)
  BY LenProperties DEF GroupTypeOK
<1>2. DOMAIN actors' = 1 .. Len(actors') /\ Len(actors') \in Nat
  BY LenProperties DEF GroupTypeOK
<1>3. i \in DOMAIN actors' /\ actors'[i] = a
  <2>1. CASE actors' = actors
    BY <2>1
  <2>2. ASSUME NEW b \in Actor \cup {Watcher}, actors' = Append(actors, b)
        PROVE  i \in DOMAIN actors' /\ actors'[i] = a
    <3> DEFINE Everyone == Actor \cup {Watcher}
    <3>0. actors \in Seq(Everyone) /\ b \in Everyone
      BY <2>2 DEF GroupTypeOK
    <3> HIDE DEF Everyone
    <3>1. /\ Len(Append(actors, b)) = Len(actors) + 1
          /\ \A j \in 1 .. Len(actors) : Append(actors, b)[j] = actors[j]
      BY <3>0, AppendProperties
    <3>2. i \in 1 .. Len(actors)
      BY <1>1
    <3> QED
      <4>1. i \in 1 .. Len(actors) + 1
        BY <1>1, <3>2
      <4>2. i \in DOMAIN actors'
        BY <1>2, <2>2, <3>1, <4>1, Zenon
      <4>3. actors'[i] = a
        BY <2>2, <3>1, <3>2, Zenon
      <4> QED
        BY <4>2, <4>3
  <2> QED
    BY <2>1, <2>2
<1>4. i < next'
  BY <1>1 DEF GroupTypeOK
<1> QED
  BY <1>3, <1>4 DEF Interrupted

LEMMA NextActorInv ==
  ASSUME TypeOK, GroupInv, GroupTypeOK', [GroupNext]_allVars
  PROVE  ActorInv'
<1> USE GroupConstants DEF GroupInv
<1>1. next \in Int /\ next' \in Int
  BY LenProperties DEF GroupTypeOK
\* Steps that leave the actors' work alone.
<1>2. ASSUME UNCHANGED << actors, accepted >>, next' >= next, wlevel' = wlevel,
             early \subseteq early', \A a \in Actor : wpc'[a] = wpc[a]
      PROVE  ActorInv'
  <2>1. \A a : Interrupted(a) => Interrupted(a)'
    BY <1>2, StaysInterrupted
  <2> QED
    BY <1>2, <2>1 DEF ActorInv, GroupTypeOK
<1>3. ASSUME NEW a \in Actor, Add(a) PROVE ActorInv'
  <2>1. \A b : Interrupted(b) => Interrupted(b)'
    BY <1>3, <1>1, StaysInterrupted DEF Add
  <2>2. /\ wpc[a] = "idle" /\ wpc'[a] = "working" /\ wlevel'[a] = GroupLevel
        /\ \A b \in Worker : b # a => wpc'[b] = wpc[b] /\ wlevel'[b] = wlevel[b]
    BY <1>3 DEF Add, AddFor, TypeOK
  <2>3. \A b \in accepted : b # a /\ b \in early'
    BY <1>3, <2>2 DEF Add, AddFor, ActorInv
  <2>4. accepted' \subseteq accepted \cup {a} /\ (a \in accepted' => a \in early')
    BY <1>3, <2>3 DEF Add, AddFor
  <2>5. \A b \in accepted' : b \in early' /\ wpc'[b] # "idle" /\ wlevel'[b] = GroupLevel
    BY <2>2, <2>3, <2>4 DEF ActorInv, GroupTypeOK
  <2>6. \A b \in Actor : wpc'[b] = "done" => Interrupted(b)'
    BY <2>1, <2>2 DEF ActorInv
  <2> QED
    BY <2>5, <2>6 DEF ActorInv
<1>4. ASSUME NEW a \in Actor, Interrupt(a) PROVE ActorInv'
  <2>1. next' = next + 1 /\ actors' = actors /\ actors[next] = a
    BY <1>4 DEF Interrupt
  <2>2. \A b : Interrupted(b) => Interrupted(b)'
    BY <1>1, <2>1, StaysInterrupted
  <2>3. next \in DOMAIN actors
    BY <1>1, <1>4, LenProperties DEF Interrupt, OrderInv, GroupTypeOK
  <2>4. Interrupted(a)'
    BY <1>1, <2>1, <2>3 DEF Interrupted
  <2>5. /\ wpc'[a] = "done"
        /\ \A b \in Worker : b # a => wpc'[b] = wpc[b]
        /\ UNCHANGED << wlevel, early, accepted >>
    BY <1>4 DEF Interrupt, DoneFor, TypeOK
  <2> QED
    BY <2>2, <2>4, <2>5 DEF ActorInv, GroupTypeOK
<1>5. CASE Run
  <2>1. \A b : Interrupted(b) => Interrupted(b)'
    BY <1>1, <1>5, StaysInterrupted DEF Run
  <2> QED
    BY <1>5, <2>1 DEF Run, vars, workVars, ActorInv
<1>6. ASSUME \/ \E a \in Actor \cup {Watcher} : ExecuteReturns(a)
             \/ FirstResult \/ StopReturns \/ RunReturns
      PROVE  ActorInv'
  BY <1>1, <1>2, <1>6
  DEF ExecuteReturns, FirstResult, StopReturns, RunReturns, vars, workVars
<1>7. CASE InterruptWatcher
  BY <1>1, <1>2, <1>7 DEF InterruptWatcher, SafeStop, workVars
<1>8. CASE HandlerStep
  <2>1. ASSUME NEW w \in Worker \ Actor, NEW l \in Level, AddFor(w, l) PROVE ActorInv'
    <3>1. /\ \A a \in Actor : wpc'[a] = wpc[a] /\ wlevel'[a] = wlevel[a]
          /\ early \subseteq early'
      BY <2>1 DEF AddFor, TypeOK
    <3>2. \A a : Interrupted(a) => Interrupted(a)'
      BY <1>8 DEF HandlerStep, groupVars, Interrupted
    <3> QED
      BY <1>8, <3>1, <3>2 DEF HandlerStep, groupVars, ActorInv, GroupTypeOK
  <2>2. ASSUME NEW w \in Worker \ Actor, DoneFor(w) PROVE ActorInv'
    BY <1>1, <1>2, <1>8, <2>2 DEF DoneFor, TypeOK, HandlerStep, groupVars
  <2>3. CASE UNCHANGED workVars
    BY <1>1, <1>2, <1>8, <2>3 DEF workVars, HandlerStep, groupVars
  <2> QED
    BY <1>8, <2>1, <2>2, <2>3
    DEF HandlerStep, SetupSignalHandler, Signal, PreStopCall, PreStop,
        StopFuncReturns, SafeStop, StopStep, CloseStopCh, StartLevel, JoinLevel,
        WaitFor, WaitReturns, Exit, Timeout, Ended, vars, workVars
<1>9. CASE UNCHANGED allVars
  BY <1>1, <1>2, <1>9 DEF allVars, vars, workVars, groupVars
<1> QED
  BY <1>3, <1>4, <1>5, <1>6, <1>7, <1>8, <1>9 DEF GroupNext, GroupStep

LEMMA GroupInvariant == GroupSpec => [](HandlerInv /\ GroupInv)
<1>1. GroupInit => GroupInv
  <2> SUFFICES ASSUME GroupInit PROVE GroupInv
    OBVIOUS
  <2>1. accepted = {} /\ \A a \in Actor : wpc[a] # "done"
    BY GroupConstants DEF GroupInit, Init
  <2> QED
    BY <2>1, GroupInitTypeOK DEF GroupInit, GroupInv, OrderInv, ActorInv
<1>2. HandlerInv /\ GroupInv /\ [GroupNext]_allVars => GroupInv'
  BY NextGroupTypeOK, NextActorInv DEF GroupInv, HandlerInv
<1> QED
  BY <1>1, <1>2, GroupImplementsHandler, HandlerInvariant, PTL DEF GroupSpec

\* The functions of LevelRoot run only when every actor accepted before the
\* stop has been interrupted, for any mix of stops and returns.
THEOREM InterruptedBeforeRootHolds == GroupSpec => []InterruptedBeforeRoot
<1>1. WorkDrained /\ GroupInv => InterruptedBeforeRoot
  <2> SUFFICES ASSUME WorkDrained, GroupInv, NEW f \in Func, NEW a \in accepted,
                      func[f] = "running", flevel[f] = 0
               PROVE  Interrupted(a)
    BY DEF InterruptedBeforeRoot
  <2>1. a \in early /\ wlevel[a] = GroupLevel /\ a \in Actor
    BY DEF GroupInv, ActorInv, GroupTypeOK
  <2>2. wpc[a] = "done"
    BY <2>1 DEF WorkDrained, GroupLevel
  <2> QED
    BY <2>1, <2>2 DEF GroupInv, ActorInv
<1> QED
  BY <1>1, GroupInvariant, GroupImplementsHandler, WorkDrainedHolds, PTL

\* A process that stops by itself has interrupted every actor it accepted,
\* whoever stopped it.
THEOREM InterruptedBeforeExitHolds == GroupSpec => []InterruptedBeforeExit
<1>1. GracefulExitComplete /\ GroupInv => InterruptedBeforeExit
  BY DEF GracefulExitComplete, GroupInv, ActorInv, GroupTypeOK, InterruptedBeforeExit
<1> QED
  BY <1>1, GroupInvariant, GroupImplementsHandler, GracefulExitHolds, PTL

----------------------------------------------------------------------------
(* The end of Run. When the exit function returns, SafeStop returns to the *)
(* watcher's interrupt, and nothing of the shutdown is left to happen.     *)

\* After a SafeStop that returned no stop is in the loop, no stop function
\* runs and none will, and the work counted before the stop is over.
ReturnedInv ==
  \A p \in Stopper : pc[p] = "returned" =>
    /\ stopCh
    /\ \A q \in Stopper : ~InsideLoop(q)
    /\ \A f \in Func : func[f] # "running"
    /\ \A w \in early : wpc[w] = "done"

LEMMA NextReturnedInv ==
  ASSUME HandlerInv, ReturnedInv, [Next]_vars
  PROVE  /\ ReturnedInv'
         /\ \A p \in Stopper : pc[p] = "returned" => pc'[p] = "returned"
<1> DEFINE Goal == /\ ReturnedInv'
                   /\ \A p \in Stopper : pc[p] = "returned" => pc'[p] = "returned"
<1> USE DEF HandlerInv
\* Nobody enters the loop or returns, no function starts, work only ends.
<1>1. ASSUME \A p \in Stopper : /\ pc'[p] = "returned" <=> pc[p] = "returned"
                                /\ InsideLoop(p)' => InsideLoop(p),
             stopCh => stopCh' /\ early' = early,
             \A f \in Func : func'[f] = "running" => func[f] = "running",
             \A w \in early : wpc[w] = "done" => wpc'[w] = "done"
      PROVE  Goal
  BY <1>1 DEF ReturnedInv
<1>2. ASSUME UNCHANGED << pc, stopCh, func, wpc, early >> PROVE Goal
  BY <1>1, <1>2 DEF InsideLoop
<1>3. ASSUME NEW x \in Registrar, NEW l \in Level, NEW f \in Func, PreStopCall(x, l, f)
      PROVE  Goal
  BY <1>1, <1>3 DEF PreStopCall, TypeOK, workVars, InsideLoop
<1>4. ASSUME NEW f \in Func, PreStop(f) \/ StopFuncReturns(f) PROVE Goal
  BY <1>1, <1>4 DEF PreStop, StopFuncReturns, TypeOK, workVars, InsideLoop
<1>5. ASSUME NEW w \in Worker, NEW l \in Level, AddFor(w, l) PROVE Goal
  BY <1>1, <1>5 DEF AddFor, TypeOK, EarlyInv, funcVars, InsideLoop
<1>6. ASSUME NEW w \in Worker, DoneFor(w) PROVE Goal
  BY <1>1, <1>6 DEF DoneFor, TypeOK, funcVars, InsideLoop, InLoop
<1>7. ASSUME NEW p \in Stopper, SafeStop(p) PROVE Goal
  BY <1>1, <1>7 DEF SafeStop, TypeOK, funcVars, workVars, InsideLoop, InLoop
\* A stop that is or gets in the loop: no SafeStop has returned.
<1>8. ASSUME NEW p \in Stopper, \A q \in Stopper : pc'[q] # "returned",
             InsideLoop(p) \/ ~stopCh
      PROVE  Goal
  BY <1>8 DEF ReturnedInv
<1>9. ASSUME NEW p \in Stopper, CloseStopCh(p) PROVE Goal
  <2>1. CASE stopCh
    BY <1>2, <1>9, <2>1 DEF CloseStopCh, funcVars, workVars
  <2>2. CASE ~stopCh
    <3>1. \A q \in Stopper : pc'[q] # "returned"
      BY <1>9, <2>2 DEF CloseStopCh, TypeOK, ReturnedInv
    <3> QED
      BY <1>8, <2>2, <3>1
  <2> QED
    BY <2>1, <2>2
<1>10. ASSUME NEW p \in Stopper,
              StartLevel(p) \/ JoinLevel(p) \/ WaitFor(p) \/ WaitReturns(p)
       PROVE  Goal
  <2>1. InsideLoop(p)
    BY <1>10 DEF StartLevel, JoinLevel, WaitFor, WaitReturns, InsideLoop, InLoop
  <2>2. \A q \in Stopper : pc[q] # "returned"
    BY <2>1 DEF ReturnedInv
  <2>3. pc' = pc \/ \E x \in {"join", "drain", "parked", "start", "exit"} :
                     pc' = [pc EXCEPT ![p] = x]
    BY <1>10 DEF StartLevel, JoinLevel, WaitFor, WaitReturns, NextLevel
  <2>4. \A q \in Stopper : pc'[q] # "returned"
    BY <2>2, <2>3 DEF TypeOK
  <2> QED
    BY <1>8, <2>1, <2>4
<1>11. ASSUME NEW p \in Stopper, Exit(p) PROVE Goal
  <2>1. CASE ~HookReturns(p)
    BY <1>2, <1>11, <2>1 DEF Exit, funcVars, workVars
  <2>2. CASE HookReturns(p)
    <3>1. /\ pc[p] = "exit" /\ pc'[p] = "returned"
          /\ \A q \in Stopper : q # p => pc'[q] = pc[q]
          /\ UNCHANGED << stopCh, func, wpc, early >>
      BY <1>11, <2>2 DEF Exit, TypeOK, funcVars, workVars
    <3>2. InsideLoop(p) /\ stopCh /\ \A q \in Stopper : InsideLoop(q) => q = p
      BY <3>1 DEF InsideLoop, InLoop, LoopInv, OneStopper
    <3>3. \A q \in Stopper : ~InsideLoop(q)'
      BY <3>1, <3>2 DEF InsideLoop, InLoop
    <3>4. /\ \A f \in Func : func[f] # "running"
          /\ \A w \in early : wpc[w] = "done"
      BY <3>1, LoopComplete DEF Registered
    <3> QED
      BY <3>1, <3>2, <3>3, <3>4 DEF ReturnedInv
  <2> QED
    BY <2>1, <2>2
<1>12. ASSUME \/ SetupSignalHandler \/ Signal \/ Ended \/ UNCHANGED vars
              \/ \E p \in Stopper : Timeout(p)
       PROVE  Goal
  BY <1>2, <1>12 DEF SetupSignalHandler, Signal, Ended, Timeout, vars, funcVars, workVars
<1> QED
  BY <1>3, <1>4, <1>5, <1>6, <1>7, <1>9, <1>10, <1>11, <1>12 DEF Next, StopStep

\* Run joins the actors only after its SafeStop returned.
JoinInv ==
  /\ run \in {"joining", "returned"} => pc[Runner] = "returned"
  /\ run = "returned" => \A a \in Members : exec[a] = "returned"

LEMMA NextJoinInv ==
  ASSUME HandlerInv, ReturnedInv, GroupTypeOK, JoinInv, [GroupNext]_allVars
  PROVE  JoinInv'
<1>1. pc[Runner] = "returned" => pc'[Runner] = "returned"
  BY GroupStepIsHandlerStep, NextReturnedInv, GroupConstants
<1>2. CASE UNCHANGED groupVars
  BY <1>1, <1>2 DEF groupVars, JoinInv, Members
<1>3. ASSUME NEW a \in Actor, Add(a) \/ Interrupt(a) PROVE JoinInv'
  BY <1>3 DEF Add, Interrupt, JoinInv
<1>4. ASSUME NEW a \in Actor \cup {Watcher}, ExecuteReturns(a) PROVE JoinInv'
  <2>1. \A b \in Members : exec[b] = "returned" => exec'[b] = "returned"
    BY <1>4 DEF ExecuteReturns, GroupTypeOK
  <2> QED
    BY <1>1, <1>4, <2>1 DEF ExecuteReturns, JoinInv, Members
<1>5. CASE Run \/ FirstResult \/ InterruptWatcher
  BY <1>5 DEF Run, FirstResult, InterruptWatcher, JoinInv
<1>6. CASE StopReturns \/ RunReturns
  BY <1>1, <1>6 DEF StopReturns, RunReturns, JoinInv, Members
<1> QED
  BY <1>2, <1>3, <1>4, <1>5, <1>6
  DEF GroupNext, GroupStep, HandlerStep, allVars, groupVars

\* Run returns only after the shutdown it started is complete and all of its
\* actors have returned.
THEOREM RunReturnsLastHolds == GroupSpec => []RunReturnsLast
<1>1. GroupInit => ReturnedInv /\ JoinInv
  BY DEF GroupInit, Init, ReturnedInv, JoinInv
<1>2. HandlerInv /\ GroupInv /\ ReturnedInv /\ JoinInv /\ [GroupNext]_allVars
        => (ReturnedInv /\ JoinInv)'
  BY GroupStepIsHandlerStep, NextReturnedInv, NextJoinInv DEF GroupInv
<1>3. ReturnedInv /\ JoinInv => RunReturnsLast
  BY GroupConstants DEF ReturnedInv, JoinInv, RunReturnsLast
<1> QED
  BY <1>1, <1>2, <1>3, GroupInvariant, PTL DEF GroupSpec

----------------------------------------------------------------------------
(* What a stop waits for when the group is running: the stop that drains   *)
(* the level of the actors, and Run, whose interrupt of the watcher is a   *)
(* stop that may wait for the first one's mutex.                           *)

\* The watcher is the last actor; an actor that counts as work has its
\* interrupt to come, and none does once Run has called SafeStop.
AwaitedInv ==
  /\ \A i \in DOMAIN actors : actors[i] = Watcher => i = Len(actors) /\ run # "idle"
  /\ \A a \in Actor : wpc[a] = "working" =>
       /\ run \in {"idle", "waiting", "interrupting"}
       /\ \E i \in DOMAIN actors : actors[i] = a /\ next <= i

\* A parked stop waits for work that is no actor's, or for an actor whose
\* interrupt Run has still to call, before it calls SafeStop itself.
StopAwaitsInterrupts ==
  \A p \in Stopper : pc[p] = "parked" =>
    \/ \E w \in Working(lvl) : w \notin Actor
    \/ /\ run \in {"idle", "waiting", "interrupting"}
       /\ \E i \in DOMAIN actors : next <= i /\ actors[i] \in Working(lvl) \cap Actor

LEMMA NextAwaitedInv ==
  ASSUME TypeOK, GroupInv, GroupTypeOK', AwaitedInv, [GroupNext]_allVars
  PROVE  AwaitedInv'
<1> USE GroupConstants DEF GroupInv
<1>1. /\ next \in Int /\ next' \in Int /\ Len(actors) \in Nat
      /\ DOMAIN actors = 1 .. Len(actors)
  BY LenProperties DEF GroupTypeOK
\* Steps that leave the interrupts and the actors' work alone.
<1>2. ASSUME UNCHANGED << actors, run, next >>, \A a \in Actor : wpc'[a] = wpc[a]
      PROVE  AwaitedInv'
  BY <1>2 DEF AwaitedInv
<1>3. ASSUME NEW a \in Actor, Add(a) PROVE AwaitedInv'
  <2>1. /\ run = "idle" /\ run' = run /\ next' = next /\ actors' = Append(actors, a)
        /\ \A b \in Actor : b # a => wpc'[b] = wpc[b]
    BY <1>3 DEF Add, AddFor, TypeOK
  <2>2. /\ DOMAIN actors' = 1 .. Len(actors) + 1 /\ Len(actors') = Len(actors) + 1
        /\ actors'[Len(actors) + 1] = a
        /\ \A i \in DOMAIN actors : actors'[i] = actors[i]
    BY <2>1, AppendProperties DEF GroupTypeOK
  <2>3. \A i \in DOMAIN actors' : i \in DOMAIN actors \/ i = Len(actors) + 1
    BY <1>1, <2>2
  <2>4. \A i \in DOMAIN actors' : actors'[i] # Watcher
    BY <2>1, <2>2, <2>3 DEF AwaitedInv
  <2>5. ASSUME NEW b \in Actor, wpc'[b] = "working"
        PROVE  \E i \in DOMAIN actors' : actors'[i] = b /\ next <= i
    <3>1. CASE b = a
      BY <1>1, <2>1, <2>2, <3>1 DEF OrderInv
    <3>2. CASE b # a
      BY <1>1, <2>1, <2>2, <2>5, <3>2 DEF AwaitedInv
    <3> QED BY <3>1, <3>2
  <2> QED
    BY <2>1, <2>4, <2>5 DEF AwaitedInv
<1>4. ASSUME NEW a \in Actor, Interrupt(a) PROVE AwaitedInv'
  <2>1. /\ next' = next + 1 /\ actors' = actors /\ actors[next] = a /\ run' = run
        /\ wpc'[a] = "done" /\ \A b \in Actor : b # a => wpc'[b] = wpc[b]
    BY <1>4 DEF Interrupt, DoneFor, TypeOK
  <2>2. ASSUME NEW b \in Actor, wpc'[b] = "working"
        PROVE  /\ run \in {"idle", "waiting", "interrupting"}
               /\ \E i \in DOMAIN actors : actors[i] = b /\ next + 1 <= i
    <3>1. b # a /\ wpc[b] = "working"
      BY <2>1, <2>2
    <3>2. PICK i \in DOMAIN actors : actors[i] = b /\ next <= i
      BY <3>1 DEF AwaitedInv
    <3>3. i # next /\ i \in Int
      BY <1>1, <2>1, <3>1, <3>2
    <3> QED
      BY <1>1, <3>1, <3>2, <3>3 DEF AwaitedInv
  <2> QED
    BY <2>1, <2>2 DEF AwaitedInv
<1>5. CASE Run
  <2>1. /\ run = "idle" /\ run' = "waiting" /\ actors' = Append(actors, Watcher)
        /\ UNCHANGED << next, wpc >>
    BY <1>5 DEF Run, vars
  <2>2. /\ DOMAIN actors' = 1 .. Len(actors) + 1 /\ Len(actors') = Len(actors) + 1
        /\ \A i \in DOMAIN actors : actors'[i] = actors[i] /\ i \in DOMAIN actors'
    BY <1>1, <2>1, AppendProperties DEF GroupTypeOK
  <2>3. \A i \in DOMAIN actors' : i \in DOMAIN actors \/ i = Len(actors')
    BY <1>1, <2>2
  <2>4. \A i \in DOMAIN actors' : actors'[i] = Watcher => i = Len(actors')
    BY <2>1, <2>2, <2>3 DEF AwaitedInv
  <2>5. \A b \in Actor : wpc[b] = "working" =>
          \E i \in DOMAIN actors' : actors'[i] = b /\ next <= i
    BY <2>2 DEF AwaitedInv
  <2> QED
    BY <2>1, <2>4, <2>5 DEF AwaitedInv
<1>6. ASSUME NEW a \in Actor \cup {Watcher}, ExecuteReturns(a) PROVE AwaitedInv'
  BY <1>2, <1>6 DEF ExecuteReturns, vars
<1>7. CASE FirstResult
  BY <1>7 DEF FirstResult, vars, AwaitedInv
<1>8. CASE InterruptWatcher
  <2>1. /\ run = "interrupting" /\ run' = "stopping" /\ actors[next] = Watcher
        /\ UNCHANGED << actors, next, wpc >>
    BY <1>8 DEF InterruptWatcher, SafeStop, workVars
  <2>2. next \in DOMAIN actors
    BY <1>1, <2>1 DEF OrderInv, GroupTypeOK
  <2>3. next = Len(actors)
    BY <2>1, <2>2 DEF AwaitedInv
  <2>4. \A a \in Actor : wpc[a] # "working"
    <3> SUFFICES ASSUME NEW a \in Actor, wpc[a] = "working" PROVE FALSE
      OBVIOUS
    <3>1. PICK i \in DOMAIN actors : actors[i] = a /\ next <= i
      BY DEF AwaitedInv
    <3>2. i = next
      BY <1>1, <2>3, <3>1
    <3> QED
      BY <2>1, <3>1, <3>2
  <2> QED
    BY <2>1, <2>4 DEF AwaitedInv
<1>9. CASE StopReturns \/ RunReturns
  <2>1. /\ run \notin {"idle", "waiting", "interrupting"} /\ run' # "idle"
        /\ UNCHANGED << actors, wpc >>
    BY <1>9 DEF StopReturns, RunReturns, vars
  <2> QED
    BY <2>1 DEF AwaitedInv
<1>10. CASE HandlerStep
  <2>1. UNCHANGED << actors, run, next >>
    BY <1>10 DEF HandlerStep, groupVars
  <2>2. ASSUME NEW w \in Worker \ Actor, NEW l \in Level, AddFor(w, l) PROVE AwaitedInv'
    BY <1>2, <2>1, <2>2 DEF AddFor, TypeOK
  <2>3. ASSUME NEW w \in Worker \ Actor, DoneFor(w) PROVE AwaitedInv'
    BY <1>2, <2>1, <2>3 DEF DoneFor, TypeOK
  <2>4. CASE UNCHANGED workVars
    BY <1>2, <2>1, <2>4 DEF workVars
  <2> QED
    BY <1>10, <2>2, <2>3, <2>4
    DEF HandlerStep, SetupSignalHandler, Signal, PreStopCall, PreStop,
        StopFuncReturns, SafeStop, StopStep, CloseStopCh, StartLevel, JoinLevel,
        WaitFor, WaitReturns, Exit, Timeout, Ended, vars, workVars
<1>11. CASE UNCHANGED allVars
  BY <1>2, <1>11 DEF allVars, vars, groupVars
<1> QED
  BY <1>3, <1>4, <1>5, <1>6, <1>7, <1>8, <1>9, <1>10, <1>11 DEF GroupNext, GroupStep

\* The stop that drains the actors' level and the stop Run calls never wait
\* for each other: an actor a parked stop waits for is interrupted before Run
\* asks for the mutex, whether a signal, an actor or another goroutine stops.
THEOREM StopAwaitsInterruptsHolds == GroupSpec => []StopAwaitsInterrupts
<1>1. GroupInit => AwaitedInv
  BY GroupConstants DEF GroupInit, Init, AwaitedInv
<1>2. HandlerInv /\ GroupInv /\ GroupInv' /\ AwaitedInv /\ [GroupNext]_allVars => AwaitedInv'
  BY NextAwaitedInv DEF GroupInv, HandlerInv
<1>3. NoLostWakeUp /\ AwaitedInv => StopAwaitsInterrupts
  <2> SUFFICES ASSUME NoLostWakeUp, AwaitedInv, NEW p \in Stopper, pc[p] = "parked",
                      \A w \in Working(lvl) : w \in Actor
               PROVE  /\ run \in {"idle", "waiting", "interrupting"}
                      /\ \E i \in DOMAIN actors :
                           next <= i /\ actors[i] \in Working(lvl) \cap Actor
    BY DEF StopAwaitsInterrupts
  <2>1. PICK w : w \in Working(lvl)
    BY DEF NoLostWakeUp
  <2>2. w \in Actor /\ wpc[w] = "working"
    BY <2>1 DEF Working
  <2> QED
    BY <2>1, <2>2 DEF AwaitedInv
<1> QED
  BY <1>1, <1>2, <1>3, GroupInvariant, GroupImplementsHandler, WakeUps, PTL DEF GroupSpec

============================================================================
