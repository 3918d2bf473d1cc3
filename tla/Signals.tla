------------------------------ MODULE Signals ------------------------------
(***************************************************************************)
(* The graceful-shutdown handler of signals/signal.go: stop functions are  *)
(* registered at a level, units of work are counted in one wait group per  *)
(* level, and a stop (a signal, or a call of SafeStop) closes the stop     *)
(* channel and then goes down the levels, at each one running its stop     *)
(* functions concurrently, joining them, and draining the wait group.      *)
(*                                                                         *)
(* A goroutine of the code is a process here: the signal goroutine (Sig),  *)
(* the callers of SafeStop (Caller), one timer per stop, one goroutine per *)
(* stop function, and the application's workers and registrars.            *)
(***************************************************************************)
EXTENDS Integers, FiniteSets

CONSTANTS
  LevelMax,     \* highest level (31 in the code)
  Func,         \* stop functions, one per call of PreStop
  Worker,       \* units of work: one AddFor(level, 1) and its DoneFor(level)
  Caller,       \* goroutines that call SafeStop
  Sig,          \* the goroutine SetupSignalHandler starts
  Main,         \* application goroutine that is not waited for by a stop
  Registrar,    \* who calls PreStop: Main, workers, running stop functions
  NoOne,        \* "no process"
  MaxSignals,   \* bound: signals the operating system sends
  ExitReturns,  \* TRUE when SafeStop is given an exit function that returns
  LateAdd       \* TRUE when AddFor may be called after the channel is closed

Stopper == Caller \cup {Sig}
Level   == 0 .. LevelMax

ASSUME SignalsAssumption ==
  /\ LevelMax \in Nat
  /\ MaxSignals \in Nat
  /\ ExitReturns \in BOOLEAN
  /\ LateAdd \in BOOLEAN
  /\ IsFiniteSet(Worker)
  /\ NoOne \notin Stopper
  /\ Sig \notin Caller
  /\ Registrar \subseteq Worker \cup Func \cup {Main}

VARIABLES
  status,        \* the operating-system process
  stopHandler,   \* TRUE once SetupSignalHandler has created the handler
  sigs,          \* signals sent so far
  c,             \* signals pending in the channel given to signal.Notify
  stopCh,        \* TRUE when the stop channel is closed
  mux,           \* holder of Handler.mux
  preStopFuncs,  \* registered stop functions of each level
  func,          \* life cycle of each stop function
  flevel,        \* level a stop function is registered at
  registrar,     \* caller of the PreStop that registers a stop function
  wg,            \* counter of each level's wait group
  wpc, wlevel,   \* life cycle and level of each unit of work
  early,         \* history: units of work added while the channel was open
  pc,            \* where each stopper is in safeStop
  lvl,           \* loop variable of safeStop (of the stopper holding mux)
  timer          \* timer goroutine of each stopper

vars == << status, stopHandler, sigs, c, stopCh, mux, preStopFuncs, func,
           flevel, registrar, wg, wpc, wlevel, early, pc, lvl, timer >>

workVars == << wg, wpc, wlevel, early >>
funcVars == << preStopFuncs, func, flevel, registrar >>
osVars   == << status, stopHandler, sigs, c >>

\* The operating-system process is alive: every action needs it.
Running == status = "running"

\* Program points of safeStop while it holds the mutex.
InLoop == {"start", "join", "drain", "parked", "woken", "exit"}

\* The exit function p calls returns. The signal goroutine is given os.Exit.
HookReturns(p) == ExitReturns /\ p \in Caller

Registered(f) == func[f] \in {"registered", "running", "done"}

\* x is inside a PreStop call that waits for the mutex.
Blocked(x) == \E f \in Func : func[f] = "locking" /\ registrar[f] = x

----------------------------------------------------------------------------
Init ==
  /\ status = "running"
  /\ stopHandler = FALSE
  /\ sigs = 0
  /\ c = 0
  /\ stopCh = FALSE
  /\ mux = NoOne
  /\ preStopFuncs = [l \in Level |-> {}]
  /\ func = [f \in Func |-> "new"]
  /\ flevel = [f \in Func |-> 0]
  /\ registrar = [f \in Func |-> NoOne]
  /\ wg = [l \in Level |-> 0]
  /\ wpc = [w \in Worker |-> "idle"]
  /\ wlevel = [w \in Worker |-> 0]
  /\ early = {}
  /\ pc = [p \in Stopper |-> "idle"]
  /\ lvl = LevelMax
  /\ timer = [p \in Stopper |-> "off"]

----------------------------------------------------------------------------
(* Set-up and signals.                                                     *)

\* SetupSignalHandler, first call; later calls are once.Do no-ops.
SetupSignalHandler ==
  /\ Running
  /\ ~stopHandler
  /\ stopHandler' = TRUE
  /\ UNCHANGED << status, sigs, c, stopCh, mux, funcVars, workVars, pc, lvl, timer >>

\* The operating system sends a shutdown signal. Before signal.Notify it
\* kills the process; after, the runtime puts it in a channel of capacity 2
\* and drops it when the channel is full.
Signal ==
  /\ Running
  /\ sigs < MaxSignals
  /\ sigs' = sigs + 1
  /\ IF stopHandler
       THEN c' = (IF c < 2 THEN c + 1 ELSE c) /\ status' = status
       ELSE c' = c /\ status' = "killed"
  /\ UNCHANGED << stopHandler, stopCh, mux, funcVars, workVars, pc, lvl, timer >>

----------------------------------------------------------------------------
(* Registration of stop functions.                                         *)

\* x calls PreStop(l, f) and waits for the mutex.
PreStopCall(x, l, f) ==
  /\ Running
  /\ stopHandler
  /\ func[f] = "new"
  /\ ~Blocked(x)
  /\ x \in Worker => wpc[x] = "working"
  /\ x \in Func => func[x] = "running"
  /\ func' = [func EXCEPT ![f] = "locking"]
  /\ flevel' = [flevel EXCEPT ![f] = l]
  /\ registrar' = [registrar EXCEPT ![f] = x]
  /\ UNCHANGED << osVars, stopCh, mux, preStopFuncs, workVars, pc, lvl, timer >>

\* PreStop gets the mutex, appends f and releases the mutex.
PreStop(f) ==
  /\ Running
  /\ func[f] = "locking"
  /\ mux = NoOne
  /\ func' = [func EXCEPT ![f] = "registered"]
  /\ preStopFuncs' = [preStopFuncs EXCEPT ![flevel[f]] = @ \cup {f}]
  /\ UNCHANGED << osVars, stopCh, mux, flevel, registrar, workVars, pc, lvl, timer >>

----------------------------------------------------------------------------
(* Units of work.                                                          *)

\* AddFor(l, 1).
AddFor(w, l) ==
  /\ Running
  /\ stopHandler
  /\ wpc[w] = "idle"
  /\ stopCh => LateAdd
  /\ wpc' = [wpc EXCEPT ![w] = "working"]
  /\ wlevel' = [wlevel EXCEPT ![w] = l]
  /\ wg' = [wg EXCEPT ![l] = @ + 1]
  /\ early' = IF stopCh THEN early ELSE early \cup {w}
  /\ UNCHANGED << osVars, stopCh, mux, funcVars, pc, lvl, timer >>

\* DoneFor(l): the call that takes the counter to zero wakes the stopper
\* parked in Wait.
DoneFor(w) ==
  /\ Running
  /\ wpc[w] = "working"
  /\ ~Blocked(w)
  /\ wpc' = [wpc EXCEPT ![w] = "done"]
  /\ wg' = [wg EXCEPT ![wlevel[w]] = @ - 1]
  /\ pc' = [p \in Stopper |->
              IF pc[p] = "parked" /\ lvl = wlevel[w] /\ wg[wlevel[w]] = 1
                THEN "woken" ELSE pc[p]]
  /\ UNCHANGED << osVars, stopCh, mux, funcVars, wlevel, early, lvl, timer >>

----------------------------------------------------------------------------
(* safeStop.                                                               *)

\* The signal goroutine receives from c, or an application goroutine calls
\* SafeStop; the timer goroutine is started before the mutex is requested.
SafeStop(p) ==
  /\ Running
  /\ stopHandler
  /\ pc[p] = "idle"
  /\ IF p = Sig THEN c > 0 /\ c' = c - 1 ELSE c' = c
  /\ pc' = [pc EXCEPT ![p] = "locking"]
  /\ timer' = [timer EXCEPT ![p] = "armed"]
  /\ UNCHANGED << status, stopHandler, sigs, stopCh, mux, funcVars, workVars, lvl >>

\* Lock the mutex and close the stop channel: closing it twice panics.
CloseStopCh(p) ==
  /\ Running
  /\ pc[p] = "locking"
  /\ mux = NoOne
  /\ mux' = p
  /\ IF stopCh
       THEN /\ status' = "panicked"
            /\ UNCHANGED << stopCh, pc, lvl >>
       ELSE /\ stopCh' = TRUE
            /\ lvl' = LevelMax
            /\ pc' = [pc EXCEPT ![p] = "start"]
            /\ status' = status
  /\ UNCHANGED << stopHandler, sigs, c, funcVars, workVars, timer >>

\* Start one goroutine for each stop function of the level.
StartLevel(p) ==
  /\ Running
  /\ pc[p] = "start"
  /\ func' = [f \in Func |-> IF f \in preStopFuncs[lvl] THEN "running" ELSE func[f]]
  /\ pc' = [pc EXCEPT ![p] = "join"]
  /\ UNCHANGED << osVars, stopCh, mux, preStopFuncs, flevel, registrar, workVars, lvl, timer >>

\* A stop function returns (one stuck in a PreStop of its own cannot).
StopFuncReturns(f) ==
  /\ Running
  /\ func[f] = "running"
  /\ ~Blocked(f)
  /\ func' = [func EXCEPT ![f] = "done"]
  /\ UNCHANGED << osVars, stopCh, mux, preStopFuncs, flevel, registrar, workVars, pc, lvl, timer >>

\* Mutant: the goroutines of the level are not joined.
JoinNothing(p) ==
  /\ Running
  /\ pc[p] = "join"
  /\ pc' = [pc EXCEPT ![p] = "drain"]
  /\ UNCHANGED << osVars, stopCh, mux, funcVars, workVars, lvl, timer >>

\* wg.Wait() on the stop functions of the level.
JoinLevel(p) ==
  /\ Running
  /\ pc[p] = "join"
  /\ \A f \in preStopFuncs[lvl] : func[f] = "done"
  /\ pc' = [pc EXCEPT ![p] = "drain"]
  /\ UNCHANGED << osVars, stopCh, mux, funcVars, workVars, lvl, timer >>

\* Mutant: the unsigned loop variable wraps below zero and never ends.
NextLevelNoEnd(p) ==
  pc' = [pc EXCEPT ![p] = "start"] /\ lvl' = lvl - 1

\* The next iteration of the loop, or its end.
NextLevel(p) ==
  IF lvl = 0
    THEN pc' = [pc EXCEPT ![p] = "exit"] /\ lvl' = lvl
    ELSE pc' = [pc EXCEPT ![p] = "start"] /\ lvl' = lvl - 1

\* Mutant: the wait group of the level is not waited for.
WaitForNothing(p) ==
  /\ Running
  /\ pc[p] = "drain"
  /\ NextLevel(p)
  /\ UNCHANGED << osVars, stopCh, mux, funcVars, workVars, timer >>

\* WaitFor(lvl): return at once when the counter is zero, else park.
WaitFor(p) ==
  /\ Running
  /\ pc[p] = "drain"
  /\ IF wg[lvl] = 0
       THEN NextLevel(p)
       ELSE pc' = [pc EXCEPT ![p] = "parked"] /\ lvl' = lvl
  /\ UNCHANGED << osVars, stopCh, mux, funcVars, workVars, timer >>

\* The woken stopper returns from Wait, which panics when the group has been
\* reused in between.
WaitReturns(p) ==
  /\ Running
  /\ pc[p] = "woken"
  /\ IF wg[lvl] = 0
       THEN NextLevel(p) /\ status' = status
       ELSE status' = "panicked" /\ UNCHANGED << pc, lvl >>
  /\ UNCHANGED << stopHandler, sigs, c, stopCh, mux, funcVars, workVars, timer >>

\* Mutant: the mutex is released before exitFunc(0) is called.
ExitUnlocked(p) ==
  /\ Running
  /\ pc[p] = "exit"
  /\ pc' = [pc EXCEPT ![p] = "returned"]
  /\ mux' = NoOne
  /\ UNCHANGED << osVars, stopCh, funcVars, workVars, lvl, timer >>

\* exitFunc(0) after the last level. os.Exit ends the process with the mutex
\* held; a hook that returns lets the deferred Unlock run.
Exit(p) ==
  /\ Running
  /\ pc[p] = "exit"
  /\ IF HookReturns(p)
       THEN /\ pc' = [pc EXCEPT ![p] = "returned"]
            /\ mux' = NoOne
            /\ status' = status
       ELSE /\ status' = "stopped"
            /\ UNCHANGED << pc, mux >>
  /\ UNCHANGED << stopHandler, sigs, c, stopCh, funcVars, workVars, lvl, timer >>

\* Mutant: the timer goroutine takes the mutex before it exits.
TimeoutLocked(p) ==
  /\ Running
  /\ timer[p] = "armed"
  /\ mux = NoOne
  /\ timer' = [timer EXCEPT ![p] = "fired"]
  /\ status' = "timedout"
  /\ UNCHANGED << stopHandler, sigs, c, stopCh, mux, funcVars, workVars, pc, lvl >>

\* exitFunc(0) of the timer goroutine: nothing cancels it.
Timeout(p) ==
  /\ Running
  /\ timer[p] = "armed"
  /\ timer' = [timer EXCEPT ![p] = "fired"]
  /\ status' = IF HookReturns(p) THEN status ELSE "timedout"
  /\ UNCHANGED << stopHandler, sigs, c, stopCh, mux, funcVars, workVars, pc, lvl >>

----------------------------------------------------------------------------
\* Once the process is gone nothing moves.
Ended == ~Running /\ UNCHANGED vars

StopStep(p) ==
  \/ CloseStopCh(p)
  \/ StartLevel(p)
  \/ JoinLevel(p)
  \/ WaitFor(p)
  \/ WaitReturns(p)
  \/ Exit(p)

Next ==
  \/ SetupSignalHandler
  \/ Signal
  \/ \E x \in Registrar, l \in Level, f \in Func : PreStopCall(x, l, f)
  \/ \E f \in Func : PreStop(f) \/ StopFuncReturns(f)
  \/ \E w \in Worker, l \in Level : AddFor(w, l)
  \/ \E w \in Worker : DoneFor(w)
  \/ \E p \in Stopper : SafeStop(p) \/ StopStep(p) \/ Timeout(p)
  \/ Ended

Spec == Init /\ [][Next]_vars

\* The goroutines of the package run when they can; the received signal is
\* handled; mutexes are acquired eventually (sync.Mutex is starvation free).
PackageFairness ==
  /\ \A p \in Stopper : WF_vars(StopStep(p))
  /\ WF_vars(SafeStop(Sig))

TimerFairness == \A p \in Stopper : WF_vars(Timeout(p))

\* Time passes, stop functions and work may hang.
FairSpec == Spec /\ PackageFairness /\ TimerFairness

\* No timer is due yet, stop functions and work may hang.
HangSpec == Spec /\ PackageFairness

----------------------------------------------------------------------------
(* Properties.                                                             *)

\* Every variable has its type.
TypeOK ==
  /\ status \in {"running", "stopped", "timedout", "killed", "panicked"}
  /\ stopHandler \in BOOLEAN
  /\ sigs \in 0 .. MaxSignals
  /\ c \in 0 .. 2
  /\ stopCh \in BOOLEAN
  /\ mux \in Stopper \cup {NoOne}
  /\ preStopFuncs \in [Level -> SUBSET Func]
  /\ func \in [Func -> {"new", "locking", "registered", "running", "done"}]
  /\ flevel \in [Func -> Level]
  /\ registrar \in [Func -> Registrar \cup {NoOne}]
  /\ wg \in [Level -> Int]
  /\ wpc \in [Worker -> {"idle", "working", "done"}]
  /\ wlevel \in [Worker -> Level]
  /\ early \in SUBSET Worker
  /\ pc \in [Stopper -> InLoop \cup {"idle", "locking", "returned"}]
  /\ lvl \in Level
  /\ timer \in [Stopper -> {"off", "armed", "fired"}]

\* A stop function runs only when every stop function registered at a higher
\* level has returned: requests end before databases close, databases before
\* traces are flushed, whoever stops the process and however many do.
LevelOrder ==
  \A f, g \in Func :
    func[f] = "running" /\ Registered(g) /\ flevel[g] > flevel[f]
      => func[g] = "done"

\* A stop function runs only when the work counted at higher levels before
\* the stop is done: a database is not closed under a request.
WorkDrained ==
  \A f \in Func, w \in early :
    func[f] = "running" /\ wlevel[w] > flevel[f] => wpc[w] = "done"

\* A stop that reaches os.Exit by itself leaves nothing behind: each
\* registered function has returned and each unit of work counted before the
\* stop is done. A registration is either run or was never accepted.
GracefulExitComplete ==
  status = "stopped" =>
    /\ \A f \in Func : Registered(f) => func[f] = "done"
    /\ \A w \in early : wpc[w] = "done"

\* No interleaving of signals and SafeStop calls closes the channel twice or
\* reuses a wait group under a parked Wait.
NoPanic == status # "panicked"

\* What the handler promises: see OrderedShutdown. A stop function is
\* registered when PreStop has the mutex, work is owed when it was counted
\* before the channel was closed, and every end but the stop's own os.Exit
\* cuts the shutdown short.
Promise == INSTANCE OrderedShutdown WITH
  open    <- ~stopCh,
  phase   <- [f \in Func |-> IF func[f] = "locking" THEN "new" ELSE func[f]],
  level   <- [f \in Func |-> IF Registered(f) THEN flevel[f] ELSE 0],
  owed    <- {<< w, wlevel[w] >> : w \in {v \in early : wpc[v] = "working"}},
  outcome <- CASE status = "running" -> "none"
               [] status = "stopped" -> "clean"
               [] OTHER -> "cut"

\* The mutexes, wait groups and loop of the code keep that promise.
KeepsPromise == Promise!Spec

\* Once a stop asks for the mutex the process ends, whatever hangs: another
\* stop, a stop function, a unit of work, a registration that waits for the
\* mutex the stop itself holds.
ShutdownTerminates ==
  (\E p \in Stopper : pc[p] = "locking") ~> (status # "running")

\* "second signal. Exit directly.": a signal that arrives while the first
\* one is being handled ends the process.
SecondSignalExits ==
  (pc[Sig] # "idle" /\ c > 0) ~> (status # "running")

============================================================================
