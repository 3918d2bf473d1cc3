--------------------------- MODULE Signals_proofs ---------------------------
(***************************************************************************)
(* Proofs about Signals, for every number of levels, stop functions, units *)
(* of work, stoppers and signals.                                          *)
(***************************************************************************)
EXTENDS Signals, FiniteSetTheorems, TLAPS

----------------------------------------------------------------------------
(* Type correctness.                                                       *)

\* The levels safeStop counts through.
LEMMA Levels ==
  /\ 0 \in Level
  /\ LevelMax \in Level
  /\ \A l \in Level : l \in Int /\ l >= 0 /\ l <= LevelMax
  /\ \A l \in Level : l # 0 => l - 1 \in Level
BY SignalsAssumption DEF Level

LEMMA InitTypeOK == Init => TypeOK
<1> SUFFICES ASSUME Init PROVE TypeOK
  OBVIOUS
<1> USE SignalsAssumption, Levels DEF Init
<1>1. wg \in [Level -> Int] /\ flevel \in [Func -> Level] /\ lvl \in Level
  OBVIOUS
<1>2. wlevel \in [Worker -> Level] /\ wpc \in [Worker -> {"idle", "working", "done"}]
  OBVIOUS
<1>3. pc \in [Stopper -> InLoop \cup {"idle", "locking", "returned"}]
  OBVIOUS
<1>4. preStopFuncs \in [Level -> SUBSET Func] /\ early \in SUBSET Worker
  OBVIOUS
<1>5. sigs \in 0 .. MaxSignals /\ c \in 0 .. 2
  OBVIOUS
<1> QED
  BY <1>1, <1>2, <1>3, <1>4, <1>5 DEF TypeOK

LEMMA NextTypeOK == TypeOK /\ [Next]_vars => TypeOK'
<1> SUFFICES ASSUME TypeOK, [Next]_vars PROVE TypeOK'
  OBVIOUS
<1> USE SignalsAssumption, Levels DEF TypeOK
<1>1. CASE UNCHANGED vars
  BY <1>1 DEF vars
<1>2. CASE Next
  <2>1. CASE SetupSignalHandler
    BY <2>1 DEF SetupSignalHandler, funcVars, workVars
  <2>2. CASE Signal
    BY <2>2 DEF Signal, funcVars, workVars, Running
  <2>3. ASSUME NEW x \in Registrar, NEW l \in Level, NEW f \in Func, PreStopCall(x, l, f)
        PROVE  TypeOK'
    BY <2>3 DEF PreStopCall, osVars, workVars
  <2>4. ASSUME NEW f \in Func, PreStop(f) PROVE TypeOK'
    BY <2>4 DEF PreStop, osVars, workVars
  <2>5. ASSUME NEW f \in Func, StopFuncReturns(f) PROVE TypeOK'
    BY <2>5 DEF StopFuncReturns, osVars, workVars
  <2>6. ASSUME NEW w \in Worker, NEW l \in Level, AddFor(w, l) PROVE TypeOK'
    BY <2>6 DEF AddFor, osVars, funcVars
  <2>7. ASSUME NEW w \in Worker, DoneFor(w) PROVE TypeOK'
    <3>1. wg' \in [Level -> Int] /\ wpc' \in [Worker -> {"idle", "working", "done"}]
      <4>1. wlevel[w] \in Level /\ wg[wlevel[w]] - 1 \in Int
        <5>1. wlevel[w] \in Level
          BY <2>7 DEF TypeOK
        <5>2. wg[wlevel[w]] \in Int
          BY <5>1 DEF TypeOK
        <5> QED
          BY <5>1, <5>2
      <4> QED
        BY <2>7, <4>1 DEF DoneFor
    <3>2. pc' \in [Stopper -> InLoop \cup {"idle", "locking", "returned"}]
      BY <2>7 DEF DoneFor, InLoop
    <3> QED
      BY <2>7, <3>1, <3>2 DEF DoneFor, osVars, funcVars
  <2>8. ASSUME NEW p \in Stopper, SafeStop(p) PROVE TypeOK'
    BY <2>8 DEF SafeStop, funcVars, workVars
  <2>9. ASSUME NEW p \in Stopper, CloseStopCh(p) PROVE TypeOK'
    <3>1. CASE stopCh
      BY <2>9, <3>1 DEF CloseStopCh, funcVars, workVars
    <3>2. CASE ~stopCh
      BY <2>9, <3>2 DEF CloseStopCh, funcVars, workVars, InLoop
    <3> QED
      BY <3>1, <3>2
  <2>10. ASSUME NEW p \in Stopper, StartLevel(p) PROVE TypeOK'
    BY <2>10 DEF StartLevel, osVars, workVars, InLoop
  <2>11. ASSUME NEW p \in Stopper, JoinLevel(p) PROVE TypeOK'
    BY <2>11 DEF JoinLevel, osVars, funcVars, workVars, InLoop
  <2>12. ASSUME NEW p \in Stopper, WaitFor(p) PROVE TypeOK'
    BY <2>12 DEF WaitFor, NextLevel, osVars, funcVars, workVars, InLoop
  <2>13. ASSUME NEW p \in Stopper, WaitReturns(p) PROVE TypeOK'
    BY <2>13 DEF WaitReturns, NextLevel, funcVars, workVars, InLoop
  <2>14. ASSUME NEW p \in Stopper, Exit(p) PROVE TypeOK'
    BY <2>14 DEF Exit, funcVars, workVars
  <2>15. ASSUME NEW p \in Stopper, Timeout(p) PROVE TypeOK'
    BY <2>15 DEF Timeout, funcVars, workVars
  <2>16. CASE Ended
    BY <2>16 DEF Ended, vars
  <2> QED
    BY <1>2, <2>1, <2>2, <2>3, <2>4, <2>5, <2>6, <2>7, <2>8, <2>9, <2>10,
       <2>11, <2>12, <2>13, <2>14, <2>15, <2>16 DEF Next, StopStep
<1> QED
  BY <1>1, <1>2

\* Every variable of the handler keeps its type in every behaviour.
THEOREM TypeCorrect == Spec => []TypeOK
<1> QED
  BY InitTypeOK, NextTypeOK, PTL DEF Spec

----------------------------------------------------------------------------
(* The loop of safeStop. One stopper at a time is inside it; it has closed *)
(* the channel; the functions above its level are over, those of its level *)
(* are where the loop is, those below are waiting.                         *)

InsideLoop(p) == pc[p] \in InLoop

MutexInv == Running => \A p \in Stopper : InsideLoop(p) <=> mux = p

OneStopper ==
  \A p \in Stopper : InsideLoop(p) =>
    /\ stopCh
    /\ \A q \in Stopper : InsideLoop(q) => q = p
    /\ pc[p] = "exit" => lvl = 0

RegistryInv ==
  \A f \in Func, l \in Level :
    f \in preStopFuncs[l] <=> Registered(f) /\ flevel[f] = l

\* Stop functions move only under a stopper that is in the loop.
NotYet == ~stopCh => \A f \in Func : func[f] \notin {"running", "done"}
NobodyInLoop ==
  (\A p \in Stopper : ~InsideLoop(p)) => \A f \in Func : func[f] # "running"

\* What the loop has done of each level.
Progress(p) ==
  \A f \in Func : Registered(f) =>
    /\ flevel[f] > lvl => func[f] = "done"
    /\ flevel[f] < lvl => func[f] = "registered"
    /\ flevel[f] = lvl =>
         /\ pc[p] = "start" => func[f] = "registered"
         /\ pc[p] = "join" => func[f] \in {"running", "done"}
         /\ pc[p] \notin {"start", "join"} => func[f] = "done"

ProgressInv == \A p \in Stopper : InsideLoop(p) => Progress(p)

LoopInv ==
  /\ MutexInv
  /\ OneStopper
  /\ RegistryInv
  /\ NotYet
  /\ NobodyInLoop
  /\ ProgressInv

LEMMA InitLoopInv == Init => LoopInv
<1> SUFFICES ASSUME Init PROVE LoopInv
  OBVIOUS
<1>1. \A p \in Stopper : ~InsideLoop(p) /\ mux # p
  BY SignalsAssumption DEF Init, InsideLoop, InLoop
<1>2. \A f \in Func : ~Registered(f) /\ func[f] = "new"
  BY DEF Init, Registered
<1>3. RegistryInv
  BY <1>2 DEF Init, RegistryInv
<1> QED
  BY <1>1, <1>2, <1>3
  DEF LoopInv, MutexInv, OneStopper, NotYet, NobodyInLoop, ProgressInv

\* A step that leaves the loop, the mutex and the stop functions alone.
LEMMA LoopUnchanged ==
  ASSUME LoopInv, UNCHANGED << stopCh, mux, funcVars, lvl >>,
         \A p \in Stopper :
           \/ pc'[p] = pc[p]
           \/ pc[p] = "idle" /\ pc'[p] = "locking"
           \/ pc[p] = "parked" /\ pc'[p] = "woken"
           \/ pc[p] = "drain" /\ pc'[p] = "parked",
         Running' => Running
  PROVE  LoopInv'
<1> USE DEF funcVars, InsideLoop, InLoop, Registered
<1>1. \A p \in Stopper : InsideLoop(p)' <=> InsideLoop(p)
  OBVIOUS
<1>2. MutexInv'
  BY <1>1 DEF LoopInv, MutexInv
<1>3. OneStopper'
  BY <1>1 DEF LoopInv, OneStopper
<1>4. RegistryInv' /\ NotYet'
  BY DEF LoopInv, RegistryInv, NotYet
<1>5. NobodyInLoop'
  BY <1>1 DEF LoopInv, NobodyInLoop
<1>6. ProgressInv'
  BY <1>1 DEF LoopInv, ProgressInv, Progress
<1> QED
  BY <1>2, <1>3, <1>4, <1>5, <1>6 DEF LoopInv

\* A stopper moves inside the loop.
LEMMA LoopStays ==
  ASSUME TypeOK, LoopInv, NEW p \in Stopper, InsideLoop(p), NEW x \in InLoop,
         pc' = [pc EXCEPT ![p] = x], x = "exit" => lvl' = 0,
         UNCHANGED << status, stopCh, mux, funcVars >>, Progress(p)'
  PROVE  LoopInv'
<1> USE DEF funcVars, InsideLoop
<1>1. \A q \in Stopper : InsideLoop(q)' <=> InsideLoop(q)
  BY DEF TypeOK
<1>2. \A q \in Stopper : InsideLoop(q) => q = p
  BY DEF LoopInv, OneStopper
<1>3. pc'[p] = x
  BY DEF TypeOK
<1>4. MutexInv'
  BY <1>1 DEF LoopInv, MutexInv, Running
<1>5. OneStopper'
  BY <1>1, <1>2, <1>3 DEF LoopInv, OneStopper
<1>6. RegistryInv' /\ NotYet' /\ NobodyInLoop'
  BY <1>1 DEF LoopInv, RegistryInv, NotYet, NobodyInLoop, Registered
<1>7. ProgressInv'
  BY <1>1, <1>2 DEF ProgressInv
<1> QED
  BY <1>4, <1>5, <1>6, <1>7 DEF LoopInv

\* Registration: the call, then the append under the mutex, then nothing
\* until the loop reaches the level.
LEMMA RegistrationCalled ==
  ASSUME TypeOK, LoopInv,
         NEW x \in Registrar, NEW l \in Level, NEW f \in Func, PreStopCall(x, l, f)
  PROVE  LoopInv'
<1> USE DEF PreStopCall, osVars, workVars, InsideLoop, Running
<1>1. \A g \in Func : g # f => func'[g] = func[g] /\ flevel'[g] = flevel[g]
  BY DEF TypeOK
<1>2. func[f] = "new" /\ func'[f] = "locking"
  BY DEF TypeOK
<1>3. \A g \in Func : Registered(g)' <=> Registered(g)
  BY <1>1, <1>2 DEF Registered
<1>4. ~Registered(f) /\ ~Registered(f)'
  BY <1>2 DEF Registered
<1>5. MutexInv' /\ OneStopper'
  BY DEF LoopInv, MutexInv, OneStopper
<1>6. RegistryInv'
  BY <1>1, <1>3, <1>4 DEF LoopInv, RegistryInv
<1>7. NotYet' /\ NobodyInLoop'
  BY <1>1, <1>2 DEF LoopInv, NotYet, NobodyInLoop
<1>8. ProgressInv'
  BY <1>1, <1>3, <1>4 DEF LoopInv, ProgressInv, Progress
<1> QED
  BY <1>5, <1>6, <1>7, <1>8 DEF LoopInv

LEMMA RegistrationMade ==
  ASSUME TypeOK, LoopInv, NEW f \in Func, PreStop(f)
  PROVE  LoopInv'
<1> USE DEF PreStop, osVars, workVars, InsideLoop, Running
<1>1. \A g \in Func : g # f => func'[g] = func[g]
  BY DEF TypeOK
<1>2. func[f] = "locking" /\ func'[f] = "registered"
  BY DEF TypeOK
<1>3. \A p \in Stopper : ~InsideLoop(p)
  BY SignalsAssumption DEF LoopInv, MutexInv
<1>4. \A g \in Func : Registered(g)' <=> Registered(g) \/ g = f
  BY <1>1, <1>2 DEF Registered
<1>5. MutexInv' /\ OneStopper' /\ ProgressInv'
  BY <1>3, SignalsAssumption DEF LoopInv, MutexInv, OneStopper, ProgressInv
<1>6. RegistryInv'
  <2> SUFFICES ASSUME NEW g \in Func, NEW l \in Level
               PROVE  g \in preStopFuncs'[l] <=> Registered(g)' /\ flevel[g] = l
    BY DEF RegistryInv
  <2>1. g \in preStopFuncs'[l] <=> g \in preStopFuncs[l] \/ (g = f /\ l = flevel[f])
    BY DEF TypeOK
  <2>2. ~Registered(f)
    BY <1>2 DEF Registered
  <2> QED
    BY <1>4, <2>1, <2>2 DEF LoopInv, RegistryInv
<1>7. NotYet' /\ NobodyInLoop'
  BY <1>1, <1>2, <1>3 DEF LoopInv, NotYet, NobodyInLoop
<1> QED
  BY <1>5, <1>6, <1>7 DEF LoopInv

LEMMA StopFuncOver ==
  ASSUME TypeOK, LoopInv, NEW f \in Func, StopFuncReturns(f)
  PROVE  LoopInv'
<1> USE DEF StopFuncReturns, osVars, workVars, InsideLoop, Running
<1>1. \A g \in Func : g # f => func'[g] = func[g]
  BY DEF TypeOK
<1>2. func[f] = "running" /\ func'[f] = "done"
  BY DEF TypeOK
<1>3. \A g \in Func : Registered(g)' <=> Registered(g)
  BY <1>1, <1>2 DEF Registered
<1>4. MutexInv' /\ OneStopper'
  BY DEF LoopInv, MutexInv, OneStopper
<1>5. RegistryInv'
  BY <1>3 DEF LoopInv, RegistryInv
<1>6. NotYet' /\ NobodyInLoop'
  BY <1>1, <1>2 DEF LoopInv, NotYet, NobodyInLoop
<1>7. ProgressInv'
  <2> SUFFICES ASSUME NEW p \in Stopper, InsideLoop(p) PROVE Progress(p)'
    BY DEF ProgressInv
  <2>1. Progress(p)
    BY DEF LoopInv, ProgressInv
  <2>2. Registered(f)
    BY <1>2 DEF Registered
  <2> QED
    BY <1>1, <1>2, <1>3, <2>1, <2>2 DEF Progress
<1> QED
  BY <1>4, <1>5, <1>6, <1>7 DEF LoopInv

\* The steps of the loop itself.
LEMMA LoopAdvances ==
  ASSUME TypeOK, LoopInv, NEW p \in Stopper, StopStep(p)
  PROVE  LoopInv'
<1> USE DEF InsideLoop, Running
<1>1. CASE CloseStopCh(p) /\ stopCh
  <2>1. UNCHANGED << stopCh, pc, lvl, funcVars >> /\ ~Running'
    BY <1>1 DEF CloseStopCh
  <2> QED
    BY <2>1 DEF LoopInv, MutexInv, OneStopper, RegistryInv, NotYet, NobodyInLoop,
                ProgressInv, Progress, funcVars, Registered
<1>2. CASE CloseStopCh(p) /\ ~stopCh
  <2> USE <1>2 DEF CloseStopCh, funcVars, workVars
  <2>1. \A q \in Stopper : ~InsideLoop(q)
    BY SignalsAssumption DEF LoopInv, MutexInv
  <2>2. InsideLoop(p)' /\ \A q \in Stopper : q # p => ~InsideLoop(q)'
    BY <2>1 DEF TypeOK, InLoop
  <2>3. pc'[p] = "start"
    BY DEF TypeOK
  <2>4. MutexInv' /\ OneStopper'
    BY <2>2, <2>3 DEF MutexInv, OneStopper
  <2>5. RegistryInv' /\ NotYet' /\ NobodyInLoop'
    BY <2>2 DEF LoopInv, RegistryInv, NotYet, NobodyInLoop, Registered
  <2>6. ProgressInv'
    <3>1. \A f \in Func : Registered(f)' => func[f] = "registered" /\ ~(flevel[f] > LevelMax)
      <4> SUFFICES ASSUME NEW f \in Func, Registered(f)'
                   PROVE  func[f] = "registered" /\ ~(flevel[f] > LevelMax)
        OBVIOUS
      <4>1. flevel[f] \in Level
        BY DEF TypeOK
      <4>2. flevel[f] \in Int /\ flevel[f] <= LevelMax
        BY <4>1, Levels
      <4>3. LevelMax \in Int
        BY SignalsAssumption
      <4>4. func[f] = "registered"
        BY DEF LoopInv, NotYet, Registered
      <4> QED
        BY <4>2, <4>3, <4>4
    <3> QED
      BY <2>2, <2>3, <3>1 DEF ProgressInv, Progress
  <2> QED
    BY <2>4, <2>5, <2>6 DEF LoopInv
<1>3. CASE StartLevel(p)
  <2> USE <1>3 DEF StartLevel, osVars, workVars
  <2>1. InsideLoop(p) /\ Progress(p) /\ pc[p] = "start" /\ pc'[p] = "join"
    BY DEF LoopInv, ProgressInv, InLoop, TypeOK
  <2>2. \A q \in Stopper : InsideLoop(q) => q = p
    BY <2>1 DEF LoopInv, OneStopper
  <2>3. \A q \in Stopper : InsideLoop(q)' <=> InsideLoop(q)
    BY <2>1 DEF TypeOK, InLoop
  <2>4. \A f \in Func : f \in preStopFuncs[lvl] <=> Registered(f) /\ flevel[f] = lvl
    BY DEF LoopInv, RegistryInv, TypeOK
  <2>5. \A f \in Func : Registered(f)' <=> Registered(f)
    BY <2>4 DEF Registered
  <2>6. MutexInv' /\ OneStopper'
    BY <2>1, <2>2, <2>3 DEF LoopInv, MutexInv, OneStopper
  <2>7. RegistryInv' /\ NotYet' /\ NobodyInLoop'
    BY <2>1, <2>3, <2>5 DEF LoopInv, RegistryInv, NotYet, NobodyInLoop, OneStopper
  <2>8. Progress(p)'
    BY <2>1, <2>4, <2>5 DEF Progress
  <2> QED
    BY <2>2, <2>3, <2>6, <2>7, <2>8 DEF LoopInv, ProgressInv
<1>4. CASE JoinLevel(p)
  <2> USE <1>4 DEF JoinLevel, osVars, funcVars, workVars
  <2>1. InsideLoop(p) /\ Progress(p) /\ pc[p] = "join" /\ pc'[p] = "drain"
    BY DEF LoopInv, ProgressInv, InLoop, TypeOK
  <2>2. \A q \in Stopper : InsideLoop(q) => q = p
    BY <2>1 DEF LoopInv, OneStopper
  <2>3. \A f \in Func : Registered(f) /\ flevel[f] = lvl => func[f] = "done"
    BY DEF LoopInv, RegistryInv, TypeOK
  <2>4. Progress(p)'
    BY <2>1, <2>3 DEF Progress, Registered
  <2> QED
    BY <2>1, <2>4, LoopStays DEF InLoop
<1>5. CASE WaitFor(p) /\ wg[lvl] # 0
  <2> USE <1>5 DEF WaitFor, osVars, funcVars, workVars
  <2>1. InsideLoop(p) /\ Progress(p) /\ pc[p] = "drain" /\ pc'[p] = "parked"
    BY DEF LoopInv, ProgressInv, InLoop, TypeOK
  <2>2. Progress(p)'
    BY <2>1 DEF Progress, Registered
  <2> QED
    BY <2>1, <2>2, LoopStays DEF InLoop
<1>6. CASE (WaitFor(p) \/ WaitReturns(p)) /\ wg[lvl] = 0
  <2>1. /\ pc[p] \in {"drain", "woken"}
        /\ NextLevel(p)
        /\ UNCHANGED << status, stopCh, mux, funcVars >>
    BY <1>6 DEF WaitFor, WaitReturns, osVars
  <2>2. InsideLoop(p) /\ Progress(p)
    BY <2>1 DEF LoopInv, ProgressInv, InLoop
  <2>3. CASE lvl = 0
    <3>1. pc' = [pc EXCEPT ![p] = "exit"] /\ pc'[p] = "exit" /\ lvl' = 0
      BY <2>1, <2>3 DEF NextLevel, TypeOK
    <3>2. Progress(p)'
      BY <2>1, <2>2, <2>3, <3>1 DEF Progress, Registered, funcVars
    <3> QED
      BY <2>1, <2>2, <3>1, <3>2, LoopStays DEF InLoop
  <2>4. CASE lvl # 0
    <3>1. pc' = [pc EXCEPT ![p] = "start"] /\ pc'[p] = "start" /\ lvl' = lvl - 1
      BY <2>1, <2>4 DEF NextLevel, TypeOK
    <3>2. Progress(p)'
      <4>0. lvl \in Int /\ \A f \in Func : flevel[f] \in Int
        BY Levels DEF TypeOK
      <4> SUFFICES ASSUME NEW f \in Func, Registered(f)'
                   PROVE  /\ flevel[f] > lvl - 1 => func[f] = "done"
                          /\ flevel[f] <= lvl - 1 => func[f] = "registered"
        BY <2>1, <3>1, <4>0 DEF Progress, funcVars
      <4>1. /\ flevel[f] > lvl => func[f] = "done"
            /\ flevel[f] < lvl => func[f] = "registered"
            /\ flevel[f] = lvl => func[f] = "done"
        BY <2>1, <2>2 DEF Progress, Registered, funcVars
      <4> QED
        BY <4>0, <4>1
    <3> QED
      BY <2>1, <2>2, <3>1, <3>2, LoopStays DEF InLoop
  <2> QED
    BY <2>3, <2>4
<1>7. CASE WaitReturns(p) /\ wg[lvl] # 0
  <2>1. UNCHANGED << stopCh, pc, lvl, mux, funcVars >> /\ ~Running'
    BY <1>7 DEF WaitReturns
  <2> QED
    BY <2>1 DEF LoopInv, MutexInv, OneStopper, RegistryInv, NotYet, NobodyInLoop,
                ProgressInv, Progress, funcVars, Registered
<1>8. CASE Exit(p) /\ ~HookReturns(p)
  <2>1. UNCHANGED << stopCh, pc, lvl, mux, funcVars >> /\ ~Running'
    BY <1>8 DEF Exit
  <2> QED
    BY <2>1 DEF LoopInv, MutexInv, OneStopper, RegistryInv, NotYet, NobodyInLoop,
                ProgressInv, Progress, funcVars, Registered
<1>9. CASE Exit(p) /\ HookReturns(p)
  <2> USE <1>9 DEF Exit, funcVars, workVars
  <2>1. InsideLoop(p) /\ Progress(p) /\ lvl = 0 /\ pc[p] = "exit" /\ pc'[p] = "returned"
    BY DEF LoopInv, ProgressInv, OneStopper, InLoop, TypeOK
  <2>2. \A q \in Stopper : InsideLoop(q) => q = p
    BY <2>1 DEF LoopInv, OneStopper
  <2>3. \A q \in Stopper : ~InsideLoop(q)'
    BY <2>1, <2>2 DEF TypeOK, InLoop
  <2>4. \A f \in Func : func[f] # "running"
    <3> SUFFICES ASSUME NEW f \in Func, func[f] = "running" PROVE FALSE
      OBVIOUS
    <3>1. Registered(f) /\ flevel[f] \in Int /\ flevel[f] >= 0
      BY Levels DEF Registered, TypeOK
    <3> QED
      BY <2>1, <3>1 DEF Progress
  <2>5. MutexInv' /\ OneStopper' /\ ProgressInv'
    BY <2>3, SignalsAssumption DEF MutexInv, OneStopper, ProgressInv
  <2>6. RegistryInv' /\ NotYet' /\ NobodyInLoop'
    BY <2>4 DEF LoopInv, RegistryInv, NotYet, NobodyInLoop, Registered
  <2> QED
    BY <2>5, <2>6 DEF LoopInv
<1> QED
  BY <1>1, <1>2, <1>3, <1>4, <1>5, <1>6, <1>7, <1>8, <1>9
  DEF StopStep, WaitFor, WaitReturns, Exit

LEMMA NextLoopInv == TypeOK /\ LoopInv /\ [Next]_vars => LoopInv'
<1> SUFFICES ASSUME TypeOK, LoopInv, [Next]_vars PROVE LoopInv'
  OBVIOUS
<1>1. CASE UNCHANGED vars
  BY <1>1, LoopUnchanged DEF vars, funcVars, Running
<1>2. CASE Next
  <2>1. CASE SetupSignalHandler
    BY <2>1, LoopUnchanged DEF SetupSignalHandler, Running
  <2>2. CASE Signal
    BY <2>2, LoopUnchanged DEF Signal
  <2>3. ASSUME NEW x \in Registrar, NEW l \in Level, NEW f \in Func, PreStopCall(x, l, f)
        PROVE  LoopInv'
    BY <2>3, RegistrationCalled
  <2>4. ASSUME NEW f \in Func, PreStop(f) PROVE LoopInv'
    BY <2>4, RegistrationMade
  <2>5. ASSUME NEW f \in Func, StopFuncReturns(f) PROVE LoopInv'
    BY <2>5, StopFuncOver
  <2>6. ASSUME NEW w \in Worker, NEW l \in Level, AddFor(w, l) PROVE LoopInv'
    BY <2>6, LoopUnchanged DEF AddFor, osVars
  <2>7. ASSUME NEW w \in Worker, DoneFor(w) PROVE LoopInv'
    BY <2>7, LoopUnchanged DEF DoneFor, osVars
  <2>8. ASSUME NEW p \in Stopper, SafeStop(p) PROVE LoopInv'
    BY <2>8, LoopUnchanged DEF SafeStop, TypeOK
  <2>9. ASSUME NEW p \in Stopper, StopStep(p) PROVE LoopInv'
    BY <2>9, LoopAdvances
  <2>10. ASSUME NEW p \in Stopper, Timeout(p) PROVE LoopInv'
    BY <2>10, LoopUnchanged DEF Timeout
  <2>11. CASE Ended
    BY <2>11, LoopUnchanged DEF Ended, vars, funcVars, Running
  <2> QED
    BY <1>2, <2>1, <2>2, <2>3, <2>4, <2>5, <2>6, <2>7, <2>8, <2>9, <2>10, <2>11
    DEF Next
<1> QED
  BY <1>1, <1>2

LEMMA LoopInvariant == Spec => [](TypeOK /\ LoopInv)
<1>1. Init => TypeOK /\ LoopInv
  BY InitTypeOK, InitLoopInv
<1>2. TypeOK /\ LoopInv /\ [Next]_vars => (TypeOK /\ LoopInv)'
  BY NextTypeOK, NextLoopInv
<1> QED
  BY <1>1, <1>2, PTL DEF Spec

\* A stop function runs only when those of the higher levels have returned.
THEOREM LevelOrderHolds == Spec => []LevelOrder
<1>1. TypeOK /\ LoopInv => LevelOrder
  <2> SUFFICES ASSUME TypeOK, LoopInv, NEW f \in Func, NEW g \in Func,
                      func[f] = "running", Registered(g), flevel[g] > flevel[f]
               PROVE  func[g] = "done"
    BY DEF LevelOrder
  <2>1. PICK p \in Stopper : InsideLoop(p)
    BY DEF LoopInv, NobodyInLoop
  <2>2. Progress(p) /\ Registered(f)
    BY <2>1 DEF LoopInv, ProgressInv, Registered
  <2>3. flevel[f] \in Int /\ flevel[g] \in Int /\ lvl \in Int
    BY Levels DEF TypeOK
  <2>4. flevel[f] = lvl
    BY <2>2, <2>3 DEF Progress
  <2> QED
    BY <2>2, <2>4 DEF Progress
<1> QED
  BY <1>1, LoopInvariant, PTL

----------------------------------------------------------------------------
(* Wait groups: the counter of a level is the number of units of work that *)
(* are not done.                                                           *)

Working(l) == {w \in Worker : wpc[w] = "working" /\ wlevel[w] = l}

CountInv == \A l \in Level : wg[l] = Cardinality(Working(l))

LEMMA WorkingFinite == \A l \in Level : IsFiniteSet(Working(l))
<1> SUFFICES ASSUME NEW l \in Level PROVE IsFiniteSet(Working(l))
  OBVIOUS
<1>1. Working(l) \in SUBSET Worker
  BY DEF Working
<1> QED
  BY <1>1, SignalsAssumption, FS_Subset

LEMMA InitCountInv == Init => CountInv
<1> SUFFICES ASSUME Init, NEW l \in Level PROVE wg[l] = Cardinality(Working(l))
  BY DEF CountInv
<1>1. Working(l) = {}
  BY DEF Init, Working
<1> QED
  BY <1>1, FS_EmptySet DEF Init

LEMMA AddForCounts ==
  ASSUME TypeOK, CountInv, NEW w \in Worker, NEW k \in Level, AddFor(w, k)
  PROVE  CountInv'
<1> SUFFICES ASSUME NEW l \in Level PROVE wg'[l] = Cardinality(Working(l)')
  BY DEF CountInv
<1>1. /\ wpc[w] = "idle"
      /\ \A v \in Worker : v # w => wpc'[v] = wpc[v] /\ wlevel'[v] = wlevel[v]
      /\ wpc'[w] = "working" /\ wlevel'[w] = k
  BY DEF AddFor, TypeOK
<1>2. CASE l = k
  <2>1. Working(l)' = Working(l) \cup {w} /\ w \notin Working(l)
    <3>1. w \notin Working(l)
      BY <1>1 DEF Working
    <3>2. \A v \in Worker : (wpc'[v] = "working" /\ wlevel'[v] = l)
                            <=> (wpc[v] = "working" /\ wlevel[v] = l) \/ v = w
      BY <1>1, <1>2
    <3> QED BY <3>1, <3>2 DEF Working
  <2>2. wg'[l] = wg[l] + 1
    BY <1>2 DEF AddFor, TypeOK
  <2> QED
    BY <2>1, <2>2, WorkingFinite, FS_AddElement DEF CountInv
<1>3. CASE l # k
  <2>1. Working(l)' = Working(l)
    BY <1>1, <1>3 DEF Working
  <2>2. wg'[l] = wg[l]
    BY <1>3 DEF AddFor, TypeOK
  <2> QED
    BY <2>1, <2>2 DEF CountInv
<1> QED
  BY <1>2, <1>3

LEMMA DoneForCounts ==
  ASSUME TypeOK, CountInv, NEW w \in Worker, DoneFor(w)
  PROVE  CountInv'
<1> SUFFICES ASSUME NEW l \in Level PROVE wg'[l] = Cardinality(Working(l)')
  BY DEF CountInv
<1>1. /\ wpc[w] = "working" /\ wpc'[w] = "done" /\ wlevel' = wlevel
      /\ \A v \in Worker : v # w => wpc'[v] = wpc[v]
  BY DEF DoneFor, TypeOK
<1>2. CASE l = wlevel[w]
  <2>1. Working(l)' = Working(l) \ {w} /\ w \in Working(l)
    BY <1>1, <1>2 DEF Working
  <2>2. wg'[l] = wg[l] - 1
    BY <1>2 DEF DoneFor, TypeOK
  <2> QED
    BY <2>1, <2>2, WorkingFinite, FS_RemoveElement DEF CountInv
<1>3. CASE l # wlevel[w]
  <2>1. Working(l)' = Working(l)
    BY <1>1, <1>3 DEF Working
  <2>2. wg'[l] = wg[l]
    BY <1>3 DEF DoneFor, TypeOK
  <2> QED
    BY <2>1, <2>2 DEF CountInv
<1> QED
  BY <1>2, <1>3

\* Only AddFor and DoneFor touch the wait groups.
LEMMA WorkSteps ==
  ASSUME [Next]_vars
  PROVE  \/ UNCHANGED workVars
         \/ \E w \in Worker, l \in Level : AddFor(w, l)
         \/ \E w \in Worker : DoneFor(w)
BY DEF vars, workVars, Next, StopStep, SetupSignalHandler, Signal, PreStopCall, PreStop,
       StopFuncReturns, SafeStop, CloseStopCh, StartLevel, JoinLevel, WaitFor,
       WaitReturns, Exit, HookReturns, Timeout, Ended

LEMMA NextCountInv == TypeOK /\ CountInv /\ [Next]_vars => CountInv'
<1> SUFFICES ASSUME TypeOK, CountInv, [Next]_vars PROVE CountInv'
  OBVIOUS
<1>1. CASE UNCHANGED workVars
  BY <1>1 DEF workVars, CountInv, Working
<1> QED
  BY <1>1, WorkSteps, AddForCounts, DoneForCounts

\* A counter at zero means that no work of the level is left.
LEMMA Drained ==
  ASSUME TypeOK, CountInv, NEW l \in Level, wg[l] = 0
  PROVE  \A w \in Worker : wlevel[w] = l => wpc[w] # "working"
<1>1. Working(l) = {}
  BY WorkingFinite, FS_EmptySet DEF CountInv
<1> QED
  BY <1>1 DEF Working

\* Work that is not done keeps its counter above zero.
LEMMA Pending ==
  ASSUME TypeOK, CountInv, NEW w \in Worker, wpc[w] = "working"
  PROVE  wg[wlevel[w]] # 0
BY Drained DEF TypeOK

----------------------------------------------------------------------------
(* Work accepted before the stop is done when the loop is past its level.  *)

EarlyInv == \A w \in early : wpc[w] # "idle"

DrainInv ==
  \A p \in Stopper, w \in early :
    InsideLoop(p) /\ (wlevel[w] > lvl \/ pc[p] = "exit") => wpc[w] = "done"

HandlerInv ==
  /\ TypeOK
  /\ LoopInv
  /\ CountInv
  /\ EarlyInv
  /\ DrainInv
  /\ GracefulExitComplete

LEMMA NextEarlyInv == TypeOK /\ EarlyInv /\ [Next]_vars => EarlyInv'
<1> SUFFICES ASSUME TypeOK, EarlyInv, [Next]_vars PROVE EarlyInv'
  OBVIOUS
<1>1. CASE UNCHANGED workVars
  BY <1>1 DEF workVars, EarlyInv
<1>2. ASSUME NEW w \in Worker, NEW l \in Level, AddFor(w, l) PROVE EarlyInv'
  BY <1>2 DEF AddFor, EarlyInv, TypeOK
<1>3. ASSUME NEW w \in Worker, DoneFor(w) PROVE EarlyInv'
  BY <1>3 DEF DoneFor, EarlyInv, TypeOK
<1> QED
  BY <1>1, <1>2, <1>3, WorkSteps

\* Leaving a level whose counter is zero.
LEMMA LevelDrained ==
  ASSUME TypeOK, LoopInv, CountInv, EarlyInv, DrainInv, NEW p \in Stopper,
         InsideLoop(p), wg[lvl] = 0, NextLevel(p), UNCHANGED workVars
  PROVE  DrainInv'
<1> USE DEF workVars
<1>1. \A q \in Stopper : InsideLoop(q)' => q = p
  BY DEF NextLevel, InsideLoop, TypeOK, LoopInv, OneStopper
<1>2. ASSUME NEW w \in early, wlevel[w] >= lvl PROVE wpc[w] = "done"
  <2>1. wlevel[w] \in Int /\ lvl \in Int
    BY Levels DEF TypeOK
  <2>2. CASE wlevel[w] = lvl
    BY <1>2, <2>2, Drained DEF TypeOK, EarlyInv
  <2>3. CASE wlevel[w] > lvl
    BY <1>2, <2>3 DEF DrainInv
  <2> QED
    BY <1>2, <2>1, <2>2, <2>3
<1>3. CASE lvl = 0
  <2>1. \A w \in early : wlevel[w] >= lvl
    BY <1>3, Levels DEF TypeOK
  <2> QED
    BY <1>2, <2>1 DEF DrainInv
<1>4. CASE lvl # 0
  <2>1. lvl' = lvl - 1 /\ pc'[p] = "start"
    BY <1>4 DEF NextLevel, TypeOK
  <2>2. \A w \in early : wlevel[w] \in Int /\ lvl \in Int
    BY Levels DEF TypeOK
  <2>3. \A w \in early : wlevel[w] > lvl' => wlevel[w] >= lvl
    BY <2>1, <2>2
  <2> QED
    BY <1>1, <1>2, <2>1, <2>3 DEF DrainInv
<1> QED
  BY <1>3, <1>4

\* A step that leaves the work and the position of the loop alone.
LEMMA DrainUnchanged ==
  ASSUME DrainInv, UNCHANGED << workVars, lvl >>,
         \A p \in Stopper :
           \/ pc'[p] = pc[p]
           \/ pc'[p] \notin InLoop
           \/ pc[p] \in InLoop /\ pc'[p] # "exit"
  PROVE  DrainInv'
BY DEF DrainInv, workVars, InsideLoop

LEMMA NextDrainInv ==
  TypeOK /\ LoopInv /\ CountInv /\ EarlyInv /\ DrainInv /\ [Next]_vars => DrainInv'
<1> SUFFICES ASSUME TypeOK, LoopInv, CountInv, EarlyInv, DrainInv, [Next]_vars
             PROVE  DrainInv'
  OBVIOUS
<1>1. CASE UNCHANGED << workVars, lvl, pc >>
  BY <1>1, DrainUnchanged
<1>2. ASSUME NEW w \in Worker, NEW l \in Level, AddFor(w, l) PROVE DrainInv'
  <2>1. \A v \in early : v # w
    BY <1>2 DEF EarlyInv, AddFor
  <2>2. (\E p \in Stopper : InsideLoop(p)) => early' = early
    BY <1>2 DEF AddFor, LoopInv, OneStopper
  <2> QED
    BY <1>2, <2>1, <2>2 DEF AddFor, DrainInv, InsideLoop, TypeOK
<1>3. ASSUME NEW w \in Worker, DoneFor(w) PROVE DrainInv'
  <2>1. \A v \in Worker : wpc[v] = "done" => wpc'[v] = "done"
    BY <1>3 DEF DoneFor, TypeOK
  <2>2. \A p \in Stopper : (InsideLoop(p)' <=> InsideLoop(p)) /\ (pc'[p] = "exit" <=> pc[p] = "exit")
    BY <1>3 DEF DoneFor, InsideLoop, InLoop
  <2> QED
    BY <1>3, <2>1, <2>2 DEF DoneFor, DrainInv, TypeOK
<1>4. ASSUME NEW p \in Stopper, SafeStop(p) PROVE DrainInv'
  <2>1. \A q \in Stopper : pc'[q] = pc[q] \/ pc'[q] \notin InLoop
    BY <1>4 DEF SafeStop, TypeOK, InLoop
  <2> QED
    BY <1>4, <2>1, DrainUnchanged DEF SafeStop
<1>5. ASSUME NEW p \in Stopper, CloseStopCh(p) PROVE DrainInv'
  <2>1. CASE stopCh
    BY <1>5, <2>1, DrainUnchanged DEF CloseStopCh
  <2>2. CASE ~stopCh
    <3>1. \A q \in Stopper : pc'[q] # "exit"
      <4>1. \A q \in Stopper : ~InsideLoop(q)
        BY <2>2 DEF LoopInv, OneStopper
      <4>2. \A q \in Stopper : pc'[q] = pc[q] \/ pc'[q] = "start"
        BY <1>5, <2>2 DEF CloseStopCh, TypeOK
      <4> QED
        BY <4>1, <4>2 DEF InsideLoop, InLoop
    <3>2. ASSUME NEW w \in early PROVE ~(wlevel[w] > LevelMax)
      <4>1. wlevel[w] \in Level
        BY <3>2 DEF TypeOK
      <4>2. wlevel[w] \in Int /\ wlevel[w] <= LevelMax
        BY <4>1, Levels
      <4>3. LevelMax \in Int
        BY SignalsAssumption
      <4> QED
        BY <4>2, <4>3
    <3> QED
      BY <1>5, <2>2, <3>1, <3>2 DEF CloseStopCh, DrainInv, workVars
  <2> QED
    BY <2>1, <2>2
<1>6. ASSUME NEW p \in Stopper, StartLevel(p) \/ JoinLevel(p) PROVE DrainInv'
  <2>1. \A q \in Stopper : pc'[q] = pc[q] \/ (pc[q] \in InLoop /\ pc'[q] # "exit")
    BY <1>6 DEF StartLevel, JoinLevel, TypeOK, InLoop
  <2> QED
    BY <1>6, <2>1, DrainUnchanged DEF StartLevel, JoinLevel
<1>7. ASSUME NEW p \in Stopper, WaitFor(p) \/ WaitReturns(p) PROVE DrainInv'
  <2>1. InsideLoop(p) /\ UNCHANGED workVars
    BY <1>7 DEF WaitFor, WaitReturns, InsideLoop, InLoop
  <2>2. CASE wg[lvl] = 0
    BY <1>7, <2>1, <2>2, LevelDrained DEF WaitFor, WaitReturns
  <2>3. CASE wg[lvl] # 0
    <3>1. \A q \in Stopper : pc'[q] = pc[q] \/ (pc[q] \in InLoop /\ pc'[q] # "exit")
      BY <1>7, <2>3 DEF WaitFor, WaitReturns, TypeOK, InLoop
    <3> QED
      BY <1>7, <2>3, <3>1, DrainUnchanged DEF WaitFor, WaitReturns
  <2> QED
    BY <2>2, <2>3
<1>8. ASSUME NEW p \in Stopper, Exit(p) PROVE DrainInv'
  <2>1. \A q \in Stopper : pc'[q] = pc[q] \/ pc'[q] \notin InLoop
    BY <1>8 DEF Exit, TypeOK, InLoop
  <2> QED
    BY <1>8, <2>1, DrainUnchanged DEF Exit
<1>9. \/ UNCHANGED << workVars, lvl, pc >>
      \/ \E w \in Worker, l \in Level : AddFor(w, l)
      \/ \E w \in Worker : DoneFor(w)
      \/ \E p \in Stopper : SafeStop(p) \/ StopStep(p)
  BY DEF vars, workVars, Next, SetupSignalHandler, Signal, PreStopCall, PreStop,
         StopFuncReturns, Timeout, Ended
<1> QED
  BY <1>1, <1>2, <1>3, <1>4, <1>5, <1>6, <1>7, <1>8, <1>9 DEF StopStep

----------------------------------------------------------------------------
(* The stop that reaches os.Exit has finished everything.                  *)

LEMMA LoopComplete ==
  ASSUME HandlerInv, NEW p \in Stopper, pc[p] = "exit"
  PROVE  /\ \A f \in Func : Registered(f) => func[f] = "done"
         /\ \A w \in early : wpc[w] = "done"
<1> USE DEF HandlerInv
<1>1. InsideLoop(p)
  BY DEF InsideLoop, InLoop
<1>2. lvl = 0 /\ Progress(p)
  BY <1>1 DEF LoopInv, OneStopper, ProgressInv
<1>3. ASSUME NEW f \in Func, Registered(f) PROVE func[f] = "done"
  <2>1. flevel[f] \in Int /\ flevel[f] >= 0
    BY <1>3, Levels DEF TypeOK
  <2> QED
    BY <1>2, <1>3, <2>1 DEF Progress
<1>4. \A w \in early : wpc[w] = "done"
  BY <1>1 DEF DrainInv
<1> QED
  BY <1>3, <1>4

LEMMA NextGraceful ==
  ASSUME HandlerInv, [Next]_vars
  PROVE  GracefulExitComplete'
<1> USE DEF HandlerInv
<1>1. CASE UNCHANGED << status, func, wpc, early >>
  BY <1>1 DEF GracefulExitComplete, Registered
<1>2. CASE status = "running" /\ status' # "stopped"
  BY <1>2 DEF GracefulExitComplete
<1>3. ASSUME NEW p \in Stopper, Exit(p), ~HookReturns(p) PROVE GracefulExitComplete'
  <2>1. pc[p] = "exit" /\ UNCHANGED << func, wpc, early >>
    BY <1>3 DEF Exit, funcVars, workVars
  <2> QED
    BY <2>1, LoopComplete DEF GracefulExitComplete, Registered
<1>4. \/ UNCHANGED << status, func, wpc, early >>
      \/ status = "running" /\ status' # "stopped"
      \/ \E p \in Stopper : Exit(p) /\ ~HookReturns(p)
  BY DEF vars, osVars, workVars, funcVars, Running, Next, StopStep, SetupSignalHandler,
         Signal, PreStopCall, PreStop, StopFuncReturns, AddFor, DoneFor, SafeStop,
         CloseStopCh, StartLevel, JoinLevel, WaitFor, WaitReturns, Exit, HookReturns, Timeout, Ended
<1> QED
  BY <1>1, <1>2, <1>3, <1>4

LEMMA HandlerInvariant == Spec => []HandlerInv
<1>1. Init => HandlerInv
  <2> SUFFICES ASSUME Init PROVE HandlerInv
    OBVIOUS
  <2>1. early = {} /\ status = "running"
    BY DEF Init
  <2> QED
    BY <2>1, InitTypeOK, InitLoopInv, InitCountInv
    DEF HandlerInv, EarlyInv, DrainInv, GracefulExitComplete
<1>2. HandlerInv /\ [Next]_vars => HandlerInv'
  BY NextTypeOK, NextLoopInv, NextCountInv, NextEarlyInv, NextDrainInv, NextGraceful
  DEF HandlerInv
<1> QED
  BY <1>1, <1>2, PTL DEF Spec

\* A stop function runs only when the work accepted before the stop at the
\* higher levels is done.
THEOREM WorkDrainedHolds == Spec => []WorkDrained
<1>1. HandlerInv => WorkDrained
  <2> SUFFICES ASSUME HandlerInv, NEW f \in Func, NEW w \in early,
                      func[f] = "running", wlevel[w] > flevel[f]
               PROVE  wpc[w] = "done"
    BY DEF WorkDrained
  <2> USE DEF HandlerInv
  <2>1. PICK p \in Stopper : InsideLoop(p)
    BY DEF LoopInv, NobodyInLoop
  <2>2. Progress(p) /\ Registered(f)
    BY <2>1 DEF LoopInv, ProgressInv, Registered
  <2>3. flevel[f] \in Int /\ lvl \in Int
    BY Levels DEF TypeOK
  <2>4. flevel[f] = lvl
    BY <2>2, <2>3 DEF Progress
  <2> QED
    BY <2>1, <2>4 DEF DrainInv
<1> QED
  BY <1>1, HandlerInvariant, PTL

\* Nothing accepted before the stop is left when it exits by itself.
THEOREM GracefulExitHolds == Spec => []GracefulExitComplete
<1>1. HandlerInv => GracefulExitComplete
  BY DEF HandlerInv
<1> QED
  BY <1>1, HandlerInvariant, PTL

----------------------------------------------------------------------------
(* While the process runs after the channel is closed, the stop that       *)
(* closed it is in the loop and holds the mutex: os.Exit does not return.  *)

HolderInv == Running /\ stopCh => \E p \in Stopper : InsideLoop(p)

LEMMA NextHolderInv ==
  ASSUME HandlerInv, HolderInv, [Next]_vars, ~ExitReturns
  PROVE  HolderInv'
<1> USE DEF HandlerInv
<1>1. CASE UNCHANGED << status, stopCh, pc >>
  BY <1>1 DEF HolderInv, Running, InsideLoop
<1>2. CASE ~Running'
  BY <1>2 DEF HolderInv
<1>3. ASSUME NEW p \in Stopper, SafeStop(p) PROVE HolderInv'
  <2>1. \A q \in Stopper : InsideLoop(q)' <=> InsideLoop(q)
    BY <1>3 DEF SafeStop, InsideLoop, InLoop, TypeOK
  <2> QED
    BY <1>3, <2>1 DEF SafeStop, HolderInv, Running
<1>4. ASSUME NEW w \in Worker, DoneFor(w) PROVE HolderInv'
  <2>1. \A q \in Stopper : InsideLoop(q)' <=> InsideLoop(q)
    BY <1>4 DEF DoneFor, InsideLoop, InLoop
  <2> QED
    BY <1>4, <2>1 DEF DoneFor, HolderInv, Running, osVars
<1>5. ASSUME NEW p \in Stopper, NEW x \in InLoop, pc' = [pc EXCEPT ![p] = x]
      PROVE  HolderInv'
  <2>1. InsideLoop(p)'
    BY <1>5 DEF InsideLoop, TypeOK
  <2> QED
    BY <2>1 DEF HolderInv
<1>6. \/ UNCHANGED << status, stopCh, pc >>
      \/ ~Running'
      \/ \E p \in Stopper : SafeStop(p)
      \/ \E w \in Worker : DoneFor(w)
      \/ \E p \in Stopper, x \in InLoop : pc' = [pc EXCEPT ![p] = x]
  BY DEF vars, osVars, InLoop, Running, Next, StopStep, SetupSignalHandler, Signal,
         PreStopCall, PreStop, StopFuncReturns, AddFor, CloseStopCh, StartLevel,
         JoinLevel, WaitFor, WaitReturns, NextLevel, Exit, HookReturns, Timeout, Ended
<1> QED
  BY <1>1, <1>2, <1>3, <1>4, <1>5, <1>6

----------------------------------------------------------------------------
(* No panic, when the exit function really exits and no work is added once *)
(* the channel is closed.                                                  *)

PanicInv ==
  /\ NoPanic
  /\ \A p \in Stopper : pc[p] = "woken" => wg[lvl] = 0

LEMMA NextPanicInv ==
  ASSUME HandlerInv, HolderInv, PanicInv, [Next]_vars, ~ExitReturns, ~LateAdd
  PROVE  PanicInv'
<1> USE DEF HandlerInv
<1>1. CASE UNCHANGED << status, stopCh, pc, lvl, wg >>
  BY <1>1 DEF PanicInv, NoPanic, Running, InsideLoop
<1>2. CASE ~Running' /\ NoPanic' /\ UNCHANGED << pc, lvl, wg >>
  BY <1>2 DEF PanicInv
<1>3. ASSUME NEW w \in Worker, NEW l \in Level, AddFor(w, l) PROVE PanicInv'
  <2>1. ~stopCh /\ UNCHANGED << status, stopCh, pc, lvl >>
    BY <1>3 DEF AddFor, osVars
  <2>2. \A p \in Stopper : pc[p] # "woken"
    BY <2>1 DEF LoopInv, OneStopper, InsideLoop, InLoop
  <2> QED
    BY <2>1, <2>2 DEF PanicInv, NoPanic, Running
<1>4. ASSUME NEW w \in Worker, DoneFor(w) PROVE PanicInv'
  <2>1. wpc[w] = "working" /\ UNCHANGED << status, stopCh, lvl >>
    BY <1>4 DEF DoneFor, osVars
  <2>2. \A p \in Stopper : InsideLoop(p)' <=> InsideLoop(p)
    BY <1>4 DEF DoneFor, InsideLoop, InLoop
  <2>3. wg[wlevel[w]] # 0
    BY <1>4, <2>1, Pending
  <2>4. \A p \in Stopper : pc'[p] = "woken" => wg'[lvl] = 0
    <3> SUFFICES ASSUME NEW p \in Stopper, pc'[p] = "woken" PROVE wg'[lvl] = 0
      OBVIOUS
    <3>1. CASE pc[p] = "woken"
      BY <1>4, <2>3, <3>1 DEF DoneFor, PanicInv, TypeOK
    <3>2. CASE pc[p] # "woken"
      BY <1>4, <3>2 DEF DoneFor, TypeOK
    <3> QED
      BY <3>1, <3>2
  <2> QED
    BY <2>1, <2>2, <2>4 DEF PanicInv, NoPanic, Running
<1>5. ASSUME NEW p \in Stopper, SafeStop(p) PROVE PanicInv'
  BY <1>5 DEF SafeStop, PanicInv, NoPanic, Running, InsideLoop, InLoop, workVars, TypeOK
<1>6. ASSUME NEW p \in Stopper, CloseStopCh(p) PROVE PanicInv'
  <2>1. \A q \in Stopper : ~InsideLoop(q)
    BY <1>6, SignalsAssumption DEF CloseStopCh, LoopInv, MutexInv
  <2>2. ~stopCh /\ Running
    BY <1>6, <2>1 DEF CloseStopCh, HolderInv
  <2>3. pc'[p] = "start" /\ status' = status
    BY <1>6, <2>2 DEF CloseStopCh, TypeOK
  <2>4. \A q \in Stopper : pc'[q] # "woken"
    BY <1>6, <2>1, <2>2 DEF CloseStopCh, TypeOK, InsideLoop, InLoop
  <2> QED
    BY <2>3, <2>4 DEF PanicInv, NoPanic, InsideLoop, InLoop
<1>7. ASSUME NEW p \in Stopper, StartLevel(p) \/ JoinLevel(p) PROVE PanicInv'
  <2>1. \A q \in Stopper : (InsideLoop(q)' <=> InsideLoop(q)) /\ (pc'[q] = "woken" => pc[q] = "woken")
    BY <1>7 DEF StartLevel, JoinLevel, InsideLoop, InLoop, TypeOK
  <2> QED
    BY <1>7, <2>1
    DEF StartLevel, JoinLevel, PanicInv, NoPanic, Running, osVars, workVars
<1>8. ASSUME NEW p \in Stopper, WaitFor(p) \/ WaitReturns(p) PROVE PanicInv'
  <2>1. InsideLoop(p) /\ \A q \in Stopper : InsideLoop(q) => q = p
    BY <1>8 DEF WaitFor, WaitReturns, InsideLoop, InLoop, LoopInv, OneStopper
  <2>2. status' = status /\ stopCh' = stopCh
    BY <1>8 DEF WaitFor, WaitReturns, osVars, PanicInv
  <2>3. InsideLoop(p)' /\ pc'[p] # "woken"
    BY <1>8 DEF WaitFor, WaitReturns, NextLevel, InsideLoop, InLoop, TypeOK, PanicInv
  <2>4. \A q \in Stopper : q # p => pc'[q] = pc[q]
    BY <1>8 DEF WaitFor, WaitReturns, NextLevel, TypeOK
  <2>5. \A q \in Stopper : pc'[q] # "woken"
    BY <2>1, <2>3, <2>4 DEF InsideLoop, InLoop
  <2> QED
    BY <2>2, <2>3, <2>5 DEF PanicInv, NoPanic
<1>9. \/ UNCHANGED << status, stopCh, pc, lvl, wg >>
      \/ ~Running' /\ NoPanic' /\ UNCHANGED << pc, lvl, wg >>
      \/ \E w \in Worker, l \in Level : AddFor(w, l)
      \/ \E w \in Worker : DoneFor(w)
      \/ \E p \in Stopper :
           \/ SafeStop(p) \/ CloseStopCh(p) \/ StartLevel(p) \/ JoinLevel(p)
           \/ WaitFor(p) \/ WaitReturns(p)
  BY DEF vars, osVars, workVars, Running, NoPanic, Next, StopStep, SetupSignalHandler,
         Signal, PreStopCall, PreStop, StopFuncReturns, Exit, HookReturns, Timeout, Ended
<1> QED
  BY <1>1, <1>2, <1>3, <1>4, <1>5, <1>6, <1>7, <1>8, <1>9

\* With os.Exit as the exit function and no late work, no interleaving of
\* signals, stops, timers and work panics.
THEOREM NoPanicHolds ==
  ASSUME ~ExitReturns, ~LateAdd
  PROVE  Spec => []NoPanic
<1>1. Init => HolderInv /\ PanicInv
  BY DEF Init, HolderInv, PanicInv, NoPanic
<1>2. HandlerInv /\ HolderInv /\ PanicInv /\ [Next]_vars => (HolderInv /\ PanicInv)'
  BY NextHolderInv, NextPanicInv
<1>3. PanicInv => NoPanic
  BY DEF PanicInv
<1> QED
  BY <1>1, <1>2, <1>3, HandlerInvariant, PTL DEF Spec

----------------------------------------------------------------------------
(* What a stop waits for. Liveness stays with TLC; these are the state and *)
(* step conditions it rests on, for every instance.                        *)

\* A stop that has begun has a timer that can still end the process.
TimerArmed ==
  Running => \A p \in Stopper : pc[p] # "idle" /\ ~HookReturns(p) => timer[p] = "armed"

LEMMA NextTimerArmed ==
  ASSUME TypeOK, TimerArmed, [Next]_vars
  PROVE  TimerArmed'
<1>1. ASSUME timer' = timer, Running' => Running,
             \A p \in Stopper : pc[p] = "idle" => pc'[p] = "idle"
      PROVE  TimerArmed'
  BY <1>1 DEF TimerArmed, HookReturns
<1>2. ASSUME NEW p \in Stopper, SafeStop(p) PROVE TimerArmed'
  BY <1>2 DEF SafeStop, TimerArmed, HookReturns, Running, TypeOK
<1>3. ASSUME NEW p \in Stopper, Timeout(p) PROVE TimerArmed'
  BY <1>3 DEF Timeout, TimerArmed, HookReturns, Running, TypeOK
<1>4. ASSUME NEW w \in Worker, DoneFor(w) PROVE TimerArmed'
  BY <1>1, <1>4 DEF DoneFor, Running
<1>5. ASSUME NEW p \in Stopper, StopStep(p) PROVE TimerArmed'
  <2>1. timer' = timer /\ Running
    BY <1>5 DEF StopStep, CloseStopCh, StartLevel, JoinLevel, WaitFor, WaitReturns, Exit
  <2>2. pc' = pc \/ \E x \in {"start", "join", "drain", "parked", "exit", "returned"} :
                      pc' = [pc EXCEPT ![p] = x]
    BY <1>5 DEF StopStep, CloseStopCh, StartLevel, JoinLevel, WaitFor, WaitReturns,
                NextLevel, Exit
  <2>3. pc[p] # "idle"
    BY <1>5 DEF StopStep, CloseStopCh, StartLevel, JoinLevel, WaitFor, WaitReturns, Exit
  <2> QED
    BY <1>1, <2>1, <2>2, <2>3 DEF TypeOK
<1>6. \/ UNCHANGED << timer, pc >> /\ (Running' => Running)
      \/ \E w \in Worker : DoneFor(w)
      \/ \E p \in Stopper : SafeStop(p) \/ StopStep(p) \/ Timeout(p)
  BY DEF vars, Running, Next, SetupSignalHandler, Signal, PreStopCall, PreStop,
         StopFuncReturns, AddFor, Ended
<1> QED
  BY <1>1, <1>2, <1>3, <1>4, <1>5, <1>6

\* No wake-up is lost: a stop parked in Wait has a unit of work of its level
\* whose DoneFor is still to come.
NoLostWakeUp ==
  \A p \in Stopper : pc[p] = "parked" => Working(lvl) # {}

\* Work that is not the last of its level leaves some.
LEMMA WorkLeft ==
  ASSUME TypeOK, CountInv, NEW w \in Worker, DoneFor(w),
         NEW l \in Level, Working(l) # {}, l = wlevel[w] => wg[l] # 1
  PROVE  Working(l)' # {}
<1>1. /\ wpc[w] = "working" /\ wlevel' = wlevel
      /\ \A v \in Worker : v # w => wpc'[v] = wpc[v]
  BY DEF DoneFor, TypeOK
<1>2. Working(l) # {w}
  <2>1. CASE l = wlevel[w]
    BY <2>1, FS_Singleton DEF CountInv
  <2>2. CASE l # wlevel[w]
    BY <2>2 DEF Working
  <2> QED
    BY <2>1, <2>2
<1>3. PICK v \in Working(l) : v # w
  BY <1>2
<1>4. v \in Working(l)'
  BY <1>1, <1>3 DEF Working
<1> QED
  BY <1>4

LEMMA NextNoLostWakeUp ==
  ASSUME HandlerInv, NoLostWakeUp, [Next]_vars
  PROVE  NoLostWakeUp'
<1> USE DEF HandlerInv
<1>1. ASSUME UNCHANGED << workVars, lvl >>,
             \A p \in Stopper : pc'[p] = "parked" => pc[p] = "parked"
      PROVE  NoLostWakeUp'
  BY <1>1 DEF NoLostWakeUp, Working, workVars
<1>2. ASSUME NEW w \in Worker, NEW l \in Level, AddFor(w, l) PROVE NoLostWakeUp'
  <2>1. /\ wpc[w] = "idle" /\ UNCHANGED << pc, lvl >>
        /\ \A v \in Worker : v # w => wpc'[v] = wpc[v] /\ wlevel'[v] = wlevel[v]
    BY <1>2 DEF AddFor, TypeOK
  <2>2. \A v \in Working(lvl) : v \in Working(lvl)'
    BY <2>1 DEF Working
  <2> QED
    BY <2>1, <2>2 DEF NoLostWakeUp
<1>3. ASSUME NEW w \in Worker, DoneFor(w) PROVE NoLostWakeUp'
  <2> SUFFICES ASSUME NEW p \in Stopper, pc'[p] = "parked" PROVE Working(lvl)' # {}
    BY DEF NoLostWakeUp
  <2>1. /\ pc[p] = "parked" /\ lvl' = lvl /\ lvl \in Level
        /\ lvl = wlevel[w] => wg[lvl] # 1
    BY <1>3 DEF DoneFor, TypeOK
  <2>2. Working(lvl) # {}
    BY <2>1 DEF NoLostWakeUp
  <2>3. DEFINE l == lvl
  <2>4. Working(l)' # {}
    BY <1>3, <2>1, <2>2, WorkLeft
  <2> QED
    BY <2>1, <2>4 DEF Working
<1>4. ASSUME NEW p \in Stopper, SafeStop(p) PROVE NoLostWakeUp'
  BY <1>1, <1>4 DEF SafeStop, TypeOK
<1>5. ASSUME NEW p \in Stopper, CloseStopCh(p) PROVE NoLostWakeUp'
  <2>1. \A q \in Stopper : ~InsideLoop(q)
    BY <1>5, SignalsAssumption DEF CloseStopCh, LoopInv, MutexInv
  <2>2. pc' = pc \/ pc' = [pc EXCEPT ![p] = "start"]
    BY <1>5 DEF CloseStopCh
  <2>3. \A q \in Stopper : pc'[q] # "parked"
    BY <2>1, <2>2 DEF InsideLoop, InLoop, TypeOK
  <2> QED
    BY <2>3 DEF NoLostWakeUp
<1>6. ASSUME NEW p \in Stopper, StartLevel(p) \/ JoinLevel(p) \/ Exit(p) PROVE NoLostWakeUp'
  BY <1>1, <1>6 DEF StartLevel, JoinLevel, Exit, TypeOK
<1>7. ASSUME NEW p \in Stopper, WaitFor(p) \/ WaitReturns(p) PROVE NoLostWakeUp'
  <2>1. InsideLoop(p) /\ \A q \in Stopper : InsideLoop(q) => q = p
    BY <1>7 DEF WaitFor, WaitReturns, InsideLoop, InLoop, LoopInv, OneStopper
  <2>2. /\ pc[p] # "parked" /\ UNCHANGED workVars
        /\ \A q \in Stopper : q # p => pc'[q] = pc[q]
        /\ pc'[p] = "parked" => wg[lvl] # 0 /\ lvl' = lvl
    BY <1>7 DEF WaitFor, WaitReturns, NextLevel, TypeOK
  <2>3. \A q \in Stopper : pc'[q] = "parked" => q = p
    BY <2>1, <2>2 DEF InsideLoop, InLoop
  <2>4. ASSUME wg[lvl] # 0 PROVE Working(lvl) # {}
    <3>1. lvl \in Level
      BY DEF TypeOK
    <3> QED
      BY <2>4, <3>1, FS_EmptySet DEF CountInv
  <2> QED
    BY <2>2, <2>3, <2>4 DEF NoLostWakeUp, Working, workVars
<1>8. \/ UNCHANGED << workVars, lvl, pc >>
      \/ \E w \in Worker, l \in Level : AddFor(w, l)
      \/ \E w \in Worker : DoneFor(w)
      \/ \E p \in Stopper : SafeStop(p) \/ StopStep(p)
  BY DEF vars, workVars, Next, SetupSignalHandler, Signal, PreStopCall, PreStop,
         StopFuncReturns, Timeout, Ended
<1> QED
  BY <1>1, <1>2, <1>3, <1>4, <1>5, <1>6, <1>7, <1>8 DEF StopStep

LEMMA WakeUps == Spec => [](HandlerInv /\ NoLostWakeUp)
<1>1. Init => NoLostWakeUp
  BY DEF Init, NoLostWakeUp
<1> QED
  BY <1>1, NextNoLostWakeUp, HandlerInvariant, PTL DEF Spec

\* What each stop that cannot step waits for: the one stop in the loop, or a
\* stop function or a unit of work of the level the loop is at.
WaitsForTheLevel ==
  Running => \A p \in Stopper :
    /\ pc[p] = "locking" /\ mux # NoOne => InsideLoop(mux)
    /\ pc[p] = "join" => \A f \in preStopFuncs[lvl] : func[f] \in {"running", "done"}
    /\ pc[p] = "parked" => Working(lvl) # {}

\* As long as the process runs, every stop that has begun has a timer that
\* is not used up: no panic, exit or second stop leaves one without.
THEOREM TimerArmedHolds == Spec => []TimerArmed
<1>1. Init => TimerArmed
  BY DEF Init, TimerArmed
<1>2. HandlerInv => TypeOK
  BY DEF HandlerInv
<1> QED
  BY <1>1, <1>2, NextTimerArmed, HandlerInvariant, PTL DEF Spec

\* Nothing of the package itself keeps a stop waiting: the mutex is held by a
\* stop in the loop, the functions it joins have been started, and the wait
\* group it is parked in has work that will wake it. What can hang is the
\* application's.
THEOREM WaitsForTheLevelHolds == Spec => []WaitsForTheLevel
<1>1. HandlerInv /\ NoLostWakeUp => WaitsForTheLevel
  <2> SUFFICES ASSUME HandlerInv, NoLostWakeUp, Running, NEW p \in Stopper
               PROVE  /\ pc[p] = "locking" /\ mux # NoOne => InsideLoop(mux)
                      /\ pc[p] = "join" =>
                           \A f \in preStopFuncs[lvl] : func[f] \in {"running", "done"}
                      /\ pc[p] = "parked" => Working(lvl) # {}
    BY DEF WaitsForTheLevel
  <2> USE DEF HandlerInv
  <2>1. mux # NoOne => InsideLoop(mux)
    BY DEF TypeOK, LoopInv, MutexInv
  <2>2. ASSUME pc[p] = "join", NEW f \in preStopFuncs[lvl]
        PROVE  func[f] \in {"running", "done"}
    <3>1. InsideLoop(p) /\ lvl \in Level /\ f \in Func
      BY <2>2 DEF InsideLoop, InLoop, TypeOK
    <3>2. Registered(f) /\ flevel[f] = lvl
      BY <2>2, <3>1 DEF LoopInv, RegistryInv
    <3> QED
      BY <2>2, <3>1, <3>2 DEF LoopInv, ProgressInv, Progress
  <2> QED
    BY <2>1, <2>2 DEF NoLostWakeUp
<1> QED
  BY <1>1, WakeUps, PTL

----------------------------------------------------------------------------
(* The loop of safeStop only goes forward.                                 *)

\* Program points to go through at a level, and in the levels below.
Place(x) ==
  CASE x = "start"  -> 5
    [] x = "join"   -> 4
    [] x = "drain"  -> 3
    [] x = "parked" -> 2
    [] x = "woken"  -> 1
    [] OTHER        -> 0

Left(p) == 6 * lvl + Place(pc[p])

\* A stop in the loop never goes back, and each of its steps takes it nearer
\* to the exit.
Advances ==
  \A p \in Stopper : InsideLoop(p) /\ InsideLoop(p)' /\ Running' =>
    /\ Left(p)' <= Left(p)
    /\ StopStep(p) => Left(p)' < Left(p)

LEMMA StepAdvances ==
  ASSUME TypeOK, LoopInv, [Next]_vars
  PROVE  Advances
<1> SUFFICES ASSUME NEW p \in Stopper, InsideLoop(p), InsideLoop(p)', Running'
             PROVE  /\ Left(p)' <= Left(p)
                    /\ StopStep(p) => Left(p)' < Left(p)
  BY DEF Advances
<1>1. lvl \in Int /\ \A x : Place(x) \in Int
  BY Levels DEF TypeOK, Place
<1>2. ASSUME StopStep(p) PROVE Left(p)' < Left(p)
  <2>1. ~CloseStopCh(p) /\ ~Exit(p)
    BY SignalsAssumption DEF CloseStopCh, Exit, InsideLoop, InLoop, Running, TypeOK
  <2>2. CASE StartLevel(p) \/ JoinLevel(p)
    <3>1. /\ lvl' = lvl
          /\ \/ pc[p] = "start" /\ pc'[p] = "join"
             \/ pc[p] = "join" /\ pc'[p] = "drain"
      BY <2>2 DEF StartLevel, JoinLevel, TypeOK
    <3> QED
      BY <1>1, <3>1 DEF Left, Place
  <2>3. CASE WaitFor(p) \/ WaitReturns(p)
    <3>1. pc[p] \in {"drain", "woken"}
      BY <2>3 DEF WaitFor, WaitReturns
    <3>2. (pc[p] = "drain" /\ pc'[p] = "parked" /\ lvl' = lvl) \/ NextLevel(p)
      BY <2>3 DEF WaitFor, WaitReturns, TypeOK, Running
    <3>3. ASSUME NextLevel(p) PROVE Left(p)' < Left(p)
      <4>1. \/ pc'[p] = "exit" /\ lvl' = lvl
            \/ pc'[p] = "start" /\ lvl' = lvl - 1
        BY <3>3 DEF NextLevel, TypeOK
      <4> QED
        BY <1>1, <3>1, <4>1 DEF Left, Place
    <3> QED
      BY <1>1, <3>2, <3>3 DEF Left, Place
  <2> QED
    BY <1>2, <2>1, <2>2, <2>3 DEF StopStep
<1>3. ASSUME UNCHANGED lvl, pc'[p] = pc[p] PROVE Left(p)' <= Left(p) /\ Left(p) \in Int
  BY <1>1, <1>3 DEF Left
<1>4. ASSUME NEW q \in Stopper, q # p, SafeStop(q) \/ StopStep(q) PROVE Left(p)' <= Left(p)
  <2>1. CASE SafeStop(q)
    BY <1>3, <1>4, <2>1 DEF SafeStop, TypeOK
  <2>2. CASE StopStep(q)
    <3>1. Running /\ (mux = NoOne \/ InsideLoop(q))
      BY <2>2 DEF StopStep, CloseStopCh, StartLevel, JoinLevel, WaitFor, WaitReturns,
                  Exit, InsideLoop, InLoop
    <3> QED
      BY <1>4, <3>1, SignalsAssumption DEF LoopInv, MutexInv
  <2> QED
    BY <1>4, <2>1, <2>2
<1>5. ASSUME NEW w \in Worker, DoneFor(w) PROVE Left(p)' <= Left(p)
  <2>1. lvl' = lvl
    BY <1>5 DEF DoneFor
  <2>2. pc'[p] = pc[p] \/ (pc[p] = "parked" /\ pc'[p] = "woken")
    BY <1>5 DEF DoneFor
  <2> QED
    BY <1>1, <1>3, <2>1, <2>2 DEF Left, Place
<1>6. \/ UNCHANGED << lvl, pc >>
      \/ \E w \in Worker : DoneFor(w)
      \/ \E q \in Stopper : SafeStop(q) \/ StopStep(q)
  BY DEF vars, Next, SetupSignalHandler, Signal, PreStopCall, PreStop,
         StopFuncReturns, AddFor, Timeout, Ended
<1>7. ~SafeStop(p)
  BY DEF SafeStop, InsideLoop, InLoop
<1>8. Left(p)' < Left(p) => Left(p)' <= Left(p)
  <2>1. lvl' \in Int
    BY Levels, NextTypeOK DEF TypeOK
  <2>2. Left(p)' \in Int /\ Left(p) \in Int
    BY <1>1, <2>1 DEF Left
  <2> QED
    BY <2>2
<1> QED
  BY <1>2, <1>3, <1>4, <1>5, <1>6, <1>7, <1>8

\* The loop counts its levels down and ends at 0, and no second stop, wake-up
\* or late registration takes it back: a stop reaches its exit in at most
\* 6 * LevelMax + 5 steps of its own.
THEOREM SafeStopAdvances == Spec => [][Advances]_vars
<1> QED
  BY StepAdvances, LoopInvariant, PTL DEF Spec

----------------------------------------------------------------------------
(* Refinement: the handler implements OrderedShutdown.                     *)

mPhase == [f \in Func |-> IF func[f] = "locking" THEN "new" ELSE func[f]]
mLevel == [f \in Func |-> IF Registered(f) THEN flevel[f] ELSE 0]
mOwed  == {<< w, wlevel[w] >> : w \in {v \in early : wpc[v] = "working"}}
mOutcome == CASE status = "running" -> "none"
              [] status = "stopped" -> "clean"
              [] OTHER -> "cut"

\* The step is one of the promise, or changes nothing the promise sees.
Implements == [Promise!Next]_(Promise!vars)

Seen == << stopCh, mPhase, mLevel, mOwed, mOutcome >>

LEMMA Stutter == UNCHANGED Seen => Implements
BY DEF Seen, mPhase, mLevel, mOwed, mOutcome, Implements, Promise!vars

\* What the promise sees when the code's variables do not change.
LEMMA SameFuncs == UNCHANGED << func, flevel >> => UNCHANGED << mPhase, mLevel >>
BY DEF mPhase, mLevel, Registered

LEMMA SameWork == UNCHANGED workVars => UNCHANGED mOwed
BY DEF workVars, mOwed

LEMMA SameStatus == UNCHANGED status => UNCHANGED mOutcome
BY DEF mOutcome

\* A process that dies without finishing cuts the shutdown short.
LEMMA Cuts ==
  ASSUME Running, status' \in {"timedout", "killed", "panicked"},
         UNCHANGED << stopCh, func, flevel, workVars >>
  PROVE  Implements
<1>1. mOutcome = "none" /\ mOutcome' = "cut"
  BY DEF Running, mOutcome
<1>2. Promise!Cut
  BY <1>1, SameFuncs, SameWork DEF Promise!Cut, mPhase, mLevel, mOwed, mOutcome
<1> QED
  BY <1>2 DEF Implements, Promise!Next

LEMMA RegistersOnce ==
  ASSUME HandlerInv, HolderInv, NEW f \in Func, PreStop(f)
  PROVE  Implements
<1> USE DEF HandlerInv
<1>1. \A p \in Stopper : ~InsideLoop(p)
  BY SignalsAssumption DEF PreStop, LoopInv, MutexInv
<1>2. ~stopCh /\ ~stopCh' /\ Running
  BY <1>1 DEF PreStop, HolderInv
<1>3. mOutcome = "none" /\ UNCHANGED << mOutcome, mOwed >>
  BY SameWork DEF PreStop, Running, mOutcome, osVars
<1>4. mPhase[f] = "new" /\ mPhase' = [mPhase EXCEPT ![f] = "registered"]
  BY DEF PreStop, TypeOK, mPhase
<1>5. mLevel' = [mLevel EXCEPT ![f] = flevel[f]]
  BY DEF PreStop, TypeOK, mLevel, Registered
<1>6. PICK l \in Promise!Level : l = flevel[f]
  BY DEF TypeOK, Level, Promise!Level
<1>7. Promise!Register(f, l)
  BY <1>2, <1>3, <1>4, <1>5, <1>6 DEF Promise!Register, mPhase, mLevel, mOwed, mOutcome
<1> QED
  BY <1>7 DEF Implements, Promise!Next

LEMMA CallsSilently ==
  ASSUME TypeOK, NEW x \in Registrar, NEW l \in Level, NEW f \in Func,
         PreStopCall(x, l, f)
  PROVE  Implements
<1>1. mPhase' = mPhase
  BY DEF PreStopCall, TypeOK, mPhase
<1>2. mLevel' = mLevel
  BY DEF PreStopCall, TypeOK, mLevel, Registered
<1>3. UNCHANGED << stopCh, mOwed, mOutcome >>
  BY SameWork, SameStatus DEF PreStopCall, osVars
<1> QED
  BY <1>1, <1>2, <1>3, Stutter DEF Seen

LEMMA AcceptsWork ==
  ASSUME TypeOK, EarlyInv, NEW w \in Worker, NEW l \in Level, AddFor(w, l)
  PROVE  Implements
<1> USE DEF AddFor, TypeOK
<1>1. w \notin early
  BY DEF EarlyInv
<1>2. UNCHANGED << stopCh, mPhase, mLevel, mOutcome >> /\ mOutcome = "none"
  BY SameFuncs, SameStatus DEF funcVars, osVars, mOutcome, Running
<1>3. CASE stopCh
  <2>1. mOwed' = mOwed
    BY <1>1, <1>3 DEF mOwed
  <2> QED
    BY <1>2, <2>1, Stutter DEF Seen
<1>4. CASE ~stopCh
  <2>1. mOwed' = mOwed \cup {<< w, l >>}
    <3>1. {v \in early' : wpc'[v] = "working"} = {v \in early : wpc[v] = "working"} \cup {w}
      BY <1>1, <1>4
    <3>2. wlevel'[w] = l /\ \A v \in early : wlevel'[v] = wlevel[v]
      BY <1>1
    <3> QED
      BY <3>1, <3>2 DEF mOwed
  <2>2. Promise!Accept(w, l)
    BY <1>2, <1>4, <2>1 DEF Promise!Accept, mPhase, mLevel, mOwed, mOutcome
  <2> QED
    BY <2>2 DEF Implements, Promise!Next, Promise!Level, Level
<1> QED
  BY <1>3, <1>4

LEMMA FinishesWork ==
  ASSUME TypeOK, NEW w \in Worker, DoneFor(w)
  PROVE  Implements
<1>1. UNCHANGED << stopCh, mPhase, mLevel, mOutcome >> /\ mOutcome = "none"
  BY SameFuncs, SameStatus DEF DoneFor, funcVars, osVars, mOutcome, Running
<1>2. /\ wpc[w] = "working" /\ wpc'[w] = "done"
      /\ \A v \in Worker : v # w => wpc'[v] = wpc[v]
      /\ UNCHANGED << wlevel, early >>
  BY DEF DoneFor, TypeOK
<1>3. {v \in early' : wpc'[v] = "working"} = {v \in early : wpc[v] = "working"} \ {w}
  BY <1>2 DEF TypeOK
<1>4. CASE w \in early
  <2>1. << w, wlevel[w] >> \in mOwed
    BY <1>2, <1>4 DEF mOwed
  <2>2. mOwed' = mOwed \ {<< w, wlevel[w] >>}
    BY <1>2, <1>3 DEF mOwed
  <2>3. PICK l \in Promise!Level : l = wlevel[w]
    BY DEF TypeOK, Level, Promise!Level
  <2>4. Promise!Finish(w, l)
    BY <1>1, <2>1, <2>2, <2>3 DEF Promise!Finish, mPhase, mLevel, mOwed, mOutcome
  <2> QED
    BY <2>4 DEF Implements, Promise!Next
<1>5. CASE w \notin early
  <2>1. mOwed' = mOwed
    BY <1>2, <1>3, <1>5 DEF mOwed
  <2> QED
    BY <1>1, <2>1, Stutter DEF Seen
<1> QED
  BY <1>4, <1>5

LEMMA StartsQuietLevel ==
  ASSUME HandlerInv, NEW p \in Stopper, StartLevel(p)
  PROVE  Implements
<1> USE DEF HandlerInv
<1>1. InsideLoop(p) /\ pc[p] = "start" /\ stopCh /\ Progress(p)
  BY DEF StartLevel, InsideLoop, InLoop, LoopInv, OneStopper, ProgressInv
<1>2. UNCHANGED << stopCh, mOwed, mOutcome >> /\ mOutcome = "none"
  BY SameWork, SameStatus DEF StartLevel, osVars, mOutcome, Running
<1>3. \A f \in Func : f \in preStopFuncs[lvl] <=> func[f] = "registered" /\ flevel[f] = lvl
  BY <1>1 DEF LoopInv, RegistryInv, Progress, Registered, TypeOK
<1>4. UNCHANGED mLevel
  BY <1>3 DEF StartLevel, mLevel, Registered
<1>5. Promise!Waiting(lvl) = preStopFuncs[lvl]
  BY <1>3 DEF Promise!Waiting, Registered, TypeOK
<1>6. mPhase' = [f \in Func |-> IF f \in Promise!Waiting(lvl) THEN "running" ELSE mPhase[f]]
  BY <1>5 DEF StartLevel, mPhase
<1>7. Promise!Quiet(lvl)
  <2>1. ASSUME NEW f \in Func, mPhase[f] # "new", mLevel[f] > lvl PROVE mPhase[f] = "done"
    BY <1>1, <2>1 DEF Progress, mPhase, mLevel, Registered, TypeOK
  <2>2. ASSUME NEW o \in mOwed PROVE o[2] <= lvl
    <3>1. PICK w \in early : wpc[w] = "working" /\ o = << w, wlevel[w] >>
      BY <2>2 DEF mOwed
    <3>2. wlevel[w] \in Int /\ lvl \in Int
      BY Levels DEF TypeOK
    <3> QED
      BY <1>1, <3>1, <3>2 DEF DrainInv
  <2> QED
    BY <2>1, <2>2 DEF Promise!Quiet, mPhase, mLevel, mOwed
<1>8. PICK l \in Promise!Level : l = lvl
  BY DEF TypeOK, Level, Promise!Level
<1>9. Promise!Start(l)
  BY <1>1, <1>2, <1>4, <1>6, <1>7, <1>8
  DEF Promise!Start, Promise!Quiet, Promise!Waiting, mPhase, mLevel, mOwed, mOutcome
<1> QED
  BY <1>9 DEF Implements, Promise!Next

LEMMA ReturnsOnce ==
  ASSUME TypeOK, NEW f \in Func, StopFuncReturns(f)
  PROVE  Implements
<1>1. UNCHANGED << stopCh, mOwed, mOutcome >> /\ mOutcome = "none"
  BY SameWork, SameStatus DEF StopFuncReturns, osVars, mOutcome, Running
<1>2. mPhase[f] = "running" /\ mPhase' = [mPhase EXCEPT ![f] = "done"]
  BY DEF StopFuncReturns, TypeOK, mPhase
<1>3. mLevel' = mLevel
  BY DEF StopFuncReturns, TypeOK, mLevel, Registered
<1>4. Promise!Return(f)
  BY <1>1, <1>2, <1>3 DEF Promise!Return, mPhase, mLevel, mOwed, mOutcome
<1> QED
  BY <1>4 DEF Implements, Promise!Next

LEMMA ExitsClean ==
  ASSUME HandlerInv, NEW p \in Stopper, Exit(p), ~ExitReturns
  PROVE  Implements
<1>1. UNCHANGED << stopCh, mPhase, mLevel, mOwed >>
  BY SameFuncs, SameWork DEF Exit, funcVars
<1>2. mOutcome = "none" /\ mOutcome' = "clean" /\ [Next]_vars
  BY DEF Exit, HookReturns, mOutcome, Running, Next, StopStep
<1>3. InsideLoop(p) /\ stopCh
  BY DEF Exit, InsideLoop, InLoop, HandlerInv, LoopInv, OneStopper
<1>4. GracefulExitComplete'
  BY <1>2, NextGraceful
<1>5. /\ \A f \in Func : Registered(f) => func[f] = "done"
      /\ \A w \in early : wpc[w] = "done"
  BY <1>4 DEF Exit, HookReturns, GracefulExitComplete, funcVars, workVars, Registered
<1>6. Promise!Quiet(-1)
  <2>1. \A f \in Func : mPhase[f] # "new" => mPhase[f] = "done"
    BY <1>5 DEF mPhase, Registered, HandlerInv, TypeOK
  <2>2. mOwed = {}
    BY <1>5 DEF mOwed
  <2> QED
    BY <2>1, <2>2 DEF Promise!Quiet, mPhase, mLevel, mOwed
<1>7. Promise!Clean
  BY <1>1, <1>2, <1>3, <1>6 DEF Promise!Clean, mPhase, mLevel, mOwed, mOutcome
<1> QED
  BY <1>7 DEF Implements, Promise!Next

LEMMA ClosesOnce ==
  ASSUME TypeOK, NEW p \in Stopper, CloseStopCh(p)
  PROVE  Implements
<1>1. CASE stopCh
  BY <1>1, Cuts DEF CloseStopCh, funcVars
<1>2. CASE ~stopCh
  <2>1. UNCHANGED << mPhase, mLevel, mOwed, mOutcome >> /\ mOutcome = "none"
    BY <1>2, SameFuncs, SameWork, SameStatus
    DEF CloseStopCh, funcVars, mOutcome, Running
  <2>2. Promise!Stop
    BY <1>2, <2>1 DEF CloseStopCh, Promise!Stop, mPhase, mLevel, mOwed, mOutcome
  <2> QED
    BY <2>2 DEF Implements, Promise!Next
<1> QED
  BY <1>1, <1>2

\* Every step of the handler is a step of the promise or a stutter.
LEMMA StepsImplement ==
  ASSUME HandlerInv, HolderInv, [Next]_vars, ~ExitReturns
  PROVE  Implements
<1> USE DEF HandlerInv
<1>1. CASE UNCHANGED << status, stopCh, func, flevel, workVars >>
  BY <1>1, SameFuncs, SameWork, SameStatus, Stutter DEF Seen
<1>2. CASE /\ Running
           /\ status' \in {"timedout", "killed", "panicked"}
           /\ UNCHANGED << stopCh, func, flevel, workVars >>
  BY <1>2, Cuts
<1>3. ASSUME NEW p \in Stopper, SafeStop(p) \/ JoinLevel(p) \/ WaitFor(p) PROVE Implements
  BY <1>1, <1>3 DEF SafeStop, JoinLevel, WaitFor, osVars, funcVars
<1>4. ASSUME NEW p \in Stopper, WaitReturns(p) \/ Timeout(p) PROVE Implements
  <2>1. status' = status \/ (Running /\ status' \in {"timedout", "panicked"})
    BY <1>4 DEF WaitReturns, Timeout
  <2> QED
    BY <1>1, <1>2, <1>4, <2>1 DEF WaitReturns, Timeout, funcVars
<1>5. ASSUME SetupSignalHandler \/ Signal \/ Ended \/ UNCHANGED vars PROVE Implements
  <2>1. status' = status \/ (Running /\ status' = "killed")
    BY <1>5 DEF SetupSignalHandler, Signal, Ended, vars
  <2>2. UNCHANGED << stopCh, func, flevel, workVars >>
    BY <1>5 DEF SetupSignalHandler, Signal, Ended, vars, funcVars, workVars
  <2> QED
    BY <1>1, <1>2, <2>1, <2>2
<1> QED
  BY <1>3, <1>4, <1>5, CallsSilently, RegistersOnce, ReturnsOnce, AcceptsWork,
     FinishesWork, ClosesOnce, StartsQuietLevel, ExitsClean DEF Next, StopStep

LEMMA InitImplements == Init => Promise!Init
<1> SUFFICES ASSUME Init PROVE Promise!Init
  OBVIOUS
<1>1. mPhase = [f \in Func |-> "new"] /\ mLevel = [f \in Func |-> 0]
  BY DEF Init, mPhase, mLevel, Registered
<1>2. mOwed = {} /\ mOutcome = "none" /\ ~stopCh
  BY DEF Init, mOwed, mOutcome
<1> QED
  BY <1>1, <1>2 DEF Promise!Init, mPhase, mLevel, mOwed, mOutcome

\* With os.Exit as the exit function the handler implements the promise of
\* OrderedShutdown, whatever the levels, registrations and stops.
THEOREM KeepsPromiseHolds ==
  ASSUME ~ExitReturns
  PROVE  Spec => KeepsPromise
<1>1. Init => HolderInv
  BY DEF Init, HolderInv
<1>2. HandlerInv /\ HolderInv /\ [Next]_vars => HolderInv'
  BY NextHolderInv
<1>3. HandlerInv /\ HolderInv /\ [Next]_vars => [Promise!Next]_(Promise!vars)
  BY StepsImplement DEF Implements
<1> QED
  BY <1>1, <1>2, <1>3, InitImplements, HandlerInvariant, PTL
  DEF Spec, KeepsPromise, Promise!Spec

============================================================================
