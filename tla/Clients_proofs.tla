--------------------------- MODULE Clients_proofs ---------------------------
(***************************************************************************)
(* Proofs about Clients, for every number of clients, connections and      *)
(* requests and for any levels of tracing, databases and requests that are *)
(* in that order.                                                          *)
(***************************************************************************)
EXTENDS Clients, Signals_proofs

----------------------------------------------------------------------------
(* The clients use the handler as Signals allows.                          *)

LEMMA ClientLevels ==
  /\ LevelTrace \in Level /\ LevelDB \in Level /\ LevelRequest \in Level
  /\ LevelRequest > LevelDB /\ LevelRequest > LevelTrace
  /\ Database \subseteq Func
  /\ Provider \in Func /\ Provider \notin Database
<1>1. LevelTrace \in Int /\ LevelDB \in Int /\ LevelRequest \in Int
  BY ClientsAssumption, Levels
<1> QED
  BY <1>1, ClientsAssumption

LEMMA ClientStepIsHandlerStep == [ClientsNext]_everyVar => [Next]_vars
<1> USE ClientLevels
<1> SUFFICES ASSUME ClientsNext PROVE [Next]_vars
  BY DEF everyVar
<1>1. CASE HandlerStep
  BY <1>1 DEF HandlerStep, Next
<1>2. ASSUME NEW x \in Registrar, NEW k \in Client, NEW d \in Database, Connect(x, k, d)
      PROVE  Next
  BY <1>2 DEF Connect, Next
<1>3. ASSUME NEW x \in Registrar, NewTraceProvider(x) PROVE Next
  BY <1>3 DEF NewTraceProvider, Next
<1>4. ASSUME (\E d \in Database : StopClose(d)) \/ StopTracing PROVE Next
  BY <1>4 DEF StopClose, StopTracing, Next
<1>5. ASSUME \/ \E k \in Client, d \in Database : ConnectFails(k, d)
             \/ \E k \in Client : Close(k) \/ CloseConnection(k)
             \/ \E d \in Database : Connected(d)
             \/ UseTraceProvider
             \/ \E w \in Worker : Trace(w)
             \/ \E w \in Worker, k \in Client : Session(w, k)
      PROVE  UNCHANGED vars
  BY <1>5 DEF ConnectFails, OpenFails, PingFails, SchemaFails, Assign, Close, Unregister, CloseConnection, Connected, Register, UseTraceProvider, Trace, EndSpan,
              Session
<1> QED
  BY <1>1, <1>2, <1>3, <1>4, <1>5 DEF ClientsNext, ClientStep

\* The handler behaves under the clients as Signals describes, so that all
\* that is proved of Spec holds here.
THEOREM ClientsImplementHandler == ClientsSpec => Spec
<1>1. ClientsInit => Init
  BY DEF ClientsInit
<1> QED
  BY <1>1, ClientStepIsHandlerStep, PTL DEF ClientsSpec, Spec

----------------------------------------------------------------------------
(* The work above a stop function's level is over when it runs, and stays  *)
(* so: no work counted after the channel was closed is early.              *)

DrainedFor ==
  \A f \in Func, w \in early :
    func[f] \in {"running", "done"} /\ wlevel[w] > flevel[f] => wpc[w] = "done"

LEMMA NextDrainedFor ==
  ASSUME HandlerInv, WorkDrained', DrainedFor, [Next]_vars
  PROVE  DrainedFor'
<1> USE DEF HandlerInv
<1> SUFFICES ASSUME NEW f \in Func, NEW w \in early',
                    func'[f] = "done", wlevel'[w] > flevel'[f]
             PROVE  wpc'[w] = "done"
  BY DEF DrainedFor, WorkDrained
<1>1. func[f] \in {"running", "done"} /\ flevel'[f] = flevel[f]
  <2>1. CASE UNCHANGED << func, flevel >>
    BY <2>1
  <2>2. ASSUME NEW x \in Registrar, NEW l \in Level, NEW g \in Func, PreStopCall(x, l, g)
        PROVE  func[f] = "done" /\ flevel'[f] = flevel[f]
    BY <2>2 DEF PreStopCall, TypeOK
  <2>3. ASSUME NEW g \in Func, PreStop(g) \/ StopFuncReturns(g)
        PROVE  func[f] \in {"running", "done"} /\ flevel' = flevel
    BY <2>3 DEF PreStop, StopFuncReturns, TypeOK
  <2>4. ASSUME NEW p \in Stopper, StartLevel(p)
        PROVE  func[f] = "done" /\ flevel' = flevel
    BY <2>4 DEF StartLevel, TypeOK
  <2> QED
    BY <2>1, <2>2, <2>3, <2>4
    DEF Next, StopStep, SetupSignalHandler, Signal, AddFor, DoneFor, SafeStop, CloseStopCh,
        JoinLevel, WaitFor, WaitReturns, Exit, Timeout, Ended, vars, funcVars
<1>2. stopCh
  BY <1>1 DEF LoopInv, NotYet
<1>3. w \in early /\ wlevel'[w] = wlevel[w] /\ (wpc[w] = "done" => wpc'[w] = "done")
  <2>1. CASE UNCHANGED workVars
    BY <2>1 DEF workVars
  <2>2. ASSUME NEW v \in Worker, NEW l \in Level, AddFor(v, l)
        PROVE  w \in early /\ wlevel'[w] = wlevel[w] /\ wpc'[w] = wpc[w]
    BY <1>2, <2>2 DEF AddFor, TypeOK, EarlyInv
  <2>3. ASSUME NEW v \in Worker, DoneFor(v)
        PROVE  w \in early /\ wlevel'[w] = wlevel[w] /\ (wpc[w] = "done" => wpc'[w] = "done")
    BY <2>3 DEF DoneFor, TypeOK
  <2> QED
    BY <2>1, <2>2, <2>3, WorkSteps
<1> QED
  BY <1>1, <1>3 DEF DrainedFor

----------------------------------------------------------------------------
(* Type correctness.                                                       *)

LEMMA ClientsInitTypeOK == ClientsInit => ClientsTypeOK
BY ClientLevels DEF ClientsInit, Init, ClientsTypeOK

\* What the handler's own steps do to the stop functions the clients know.
LEMMA NewStaysNew ==
  ASSUME HandlerInv, HandlerStep
  PROVE  \A f \in Func : /\ func'[f] = "new" <=> func[f] = "new"
                         /\ func'[f] = "done" <=> func[f] = "done"
                         /\ flevel'[f] = flevel[f]
<1> USE DEF HandlerInv
<1>1. CASE UNCHANGED << func, flevel >>
  BY <1>1
<1>2. ASSUME NEW g \in Func, PreStop(g)
      PROVE  \A f \in Func : /\ func'[f] = "new" <=> func[f] = "new"
                             /\ func'[f] = "done" <=> func[f] = "done"
                             /\ flevel'[f] = flevel[f]
  BY <1>2 DEF PreStop, TypeOK
<1>3. ASSUME NEW p \in Stopper, StartLevel(p)
      PROVE  \A f \in Func : /\ func'[f] = "new" <=> func[f] = "new"
                             /\ func'[f] = "done" <=> func[f] = "done"
                             /\ flevel'[f] = flevel[f]
  <2>1. InsideLoop(p) /\ pc[p] = "start"
    BY <1>3 DEF StartLevel, InsideLoop, InLoop
  <2>2. \A f \in preStopFuncs[lvl] : Registered(f) /\ flevel[f] = lvl
    BY DEF LoopInv, RegistryInv, TypeOK
  <2>3. \A f \in Func : f \in preStopFuncs[lvl] => func[f] = "registered"
    BY <2>1, <2>2 DEF LoopInv, ProgressInv, Progress
  <2> QED
    BY <1>3, <2>3 DEF StartLevel
<1> QED
  BY <1>1, <1>2, <1>3
  DEF HandlerStep, StopStep, SetupSignalHandler, Signal, AddFor, DoneFor, SafeStop,
      CloseStopCh, JoinLevel, WaitFor, WaitReturns, Exit, Timeout, Ended, vars, funcVars

LEMMA NextClientsTypeOK ==
  ASSUME HandlerInv, ClientsTypeOK, [ClientsNext]_everyVar
  PROVE  ClientsTypeOK'
<1> USE ClientLevels DEF ClientsTypeOK
<1>1. CASE HandlerStep
  BY <1>1, NewStaysNew DEF HandlerStep, clientVars
<1>2. ASSUME NEW x \in Registrar, NEW k \in Client, NEW d \in Database, Connect(x, k, d)
      PROVE  ClientsTypeOK'
  BY <1>2 DEF Connect, PreStopCall, HandlerInv, TypeOK
<1>3. ASSUME NEW k \in Client, NEW d \in Database, ConnectFails(k, d)
      PROVE  ClientsTypeOK'
  BY <1>3 DEF ConnectFails, OpenFails, PingFails, SchemaFails, Assign, vars
<1>4. ASSUME NEW k \in Client, Close(k) PROVE ClientsTypeOK'
  BY <1>4 DEF Close, Unregister, vars
<1>5. ASSUME NEW k \in Client, CloseConnection(k) PROVE ClientsTypeOK'
  BY <1>5 DEF CloseConnection, vars
<1>6. ASSUME NEW d \in Database, Connected(d) PROVE ClientsTypeOK'
  BY <1>6 DEF Connected, Register, Assign, vars
<1>7. ASSUME NEW d \in Database, StopClose(d) PROVE ClientsTypeOK'
  BY <1>7 DEF StopClose, StopFuncReturns, HandlerInv, TypeOK
<1>8. ASSUME NEW x \in Registrar, NewTraceProvider(x) PROVE ClientsTypeOK'
  BY <1>8 DEF NewTraceProvider, PreStopCall, clientVars, HandlerInv, TypeOK
<1>9. CASE UseTraceProvider
  BY <1>9 DEF UseTraceProvider, vars
<1>10. CASE StopTracing
  <2>1. span' \in [Worker -> {"none", "ended", "exported", "dropped", "lost"}]
    BY <1>10 DEF StopTracing
  <2>2. \A d \in Database : func'[d] = func[d]
    BY <1>10 DEF StopTracing, StopFuncReturns, HandlerInv, TypeOK
  <2> QED
    BY <1>10, <2>1, <2>2 DEF StopTracing
<1>11. ASSUME NEW w \in Worker, Trace(w) PROVE ClientsTypeOK'
  <2>1. span' \in [Worker -> {"none", "ended", "exported", "dropped", "lost"}]
    BY <1>11 DEF Trace, EndSpan
  <2> QED
    BY <1>11, <2>1 DEF Trace, EndSpan, vars
<1>12. ASSUME NEW w \in Worker, NEW k \in Client, Session(w, k) PROVE ClientsTypeOK'
  BY <1>12 DEF Session, vars
<1>13. CASE UNCHANGED everyVar
  BY <1>13 DEF everyVar, clientVars, vars
<1> QED
  BY <1>1, <1>2, <1>3, <1>4, <1>5, <1>6, <1>7, <1>8, <1>9, <1>10, <1>11, <1>12, <1>13
  DEF ClientsNext, ClientStep

\* Every variable of the clients keeps its type, and no connection a client
\* may use is without a stop function.
THEOREM ClientsTypeCorrect == ClientsSpec => []ClientsTypeOK
BY ClientsInitTypeOK, NextClientsTypeOK, ClientsImplementHandler, HandlerInvariant, PTL
DEF ClientsSpec

----------------------------------------------------------------------------
(* What the stop functions have done.                                      *)

LevelsInv ==
  /\ \A d \in Database : func[d] # "new" => flevel[d] = LevelDB
  /\ func[Provider] # "new" => flevel[Provider] = LevelTrace
  /\ \A w \in Worker : wpc[w] # "idle" => wlevel[w] = LevelRequest

\* A connection the stop has closed has a stop function that is over, and
\* one whose stop function is over is not open.
ConnInv ==
  \A d \in Database : /\ conn[d] = "stopped" => func[d] = "done"
                      /\ func[d] = "done" => conn[d] # "open"

\* Likewise for the provider: no span waits for it when it is shut down.
ProviderInv ==
  /\ provider = "shutdown" => func[Provider] = "done"
  /\ func[Provider] = "done" =>
       provider # "open" /\ \A w \in Worker : span[w] # "ended"
  /\ provider = "none" => \A w \in Worker : span[w] # "ended"
  /\ provider # "none" => Registered(Provider)

\* Early requests have met neither.
EarlyServed ==
  /\ \A w \in Worker : wpc[w] = "idle" => w \notin refused /\ span[w] = "none"
  /\ \A w \in early : w \notin refused /\ span[w] # "lost"

ClientsInv == ClientsTypeOK /\ DrainedFor /\ LevelsInv /\ ConnInv /\ ProviderInv /\ EarlyServed

LEMMA NextLevelsInv ==
  ASSUME HandlerInv, LevelsInv, [ClientsNext]_everyVar
  PROVE  LevelsInv'
<1> USE ClientLevels DEF HandlerInv
<1>1. ASSUME UNCHANGED << func, flevel, workVars >> PROVE LevelsInv'
  BY <1>1 DEF LevelsInv, workVars
<1>2. CASE HandlerStep
  <2>1. \A f \in Func : (func'[f] = "new" <=> func[f] = "new") /\ flevel'[f] = flevel[f]
    BY <1>2, NewStaysNew
  <2>2. \A w \in Worker : wpc'[w] # "idle" => wlevel'[w] = LevelRequest
    <3>1. CASE UNCHANGED workVars
      BY <3>1 DEF LevelsInv, workVars
    <3>2. ASSUME NEW w \in Worker, AddFor(w, LevelRequest) \/ DoneFor(w)
          PROVE  \A v \in Worker : wpc'[v] # "idle" => wlevel'[v] = LevelRequest
      BY <3>2 DEF AddFor, DoneFor, LevelsInv, TypeOK
    <3> QED
      BY <1>2, <3>1, <3>2
      DEF HandlerStep, StopStep, SetupSignalHandler, Signal, PreStop, SafeStop, CloseStopCh,
          StartLevel, JoinLevel, WaitFor, WaitReturns, Exit, Timeout, Ended, vars, workVars
  <2> QED
    BY <2>1, <2>2 DEF LevelsInv
<1>3. ASSUME NEW x \in Registrar, NEW k \in Client, NEW d \in Database, Connect(x, k, d)
      PROVE  LevelsInv'
  BY <1>3 DEF Connect, PreStopCall, TypeOK, LevelsInv, workVars
<1>4. ASSUME NEW x \in Registrar, NewTraceProvider(x) PROVE LevelsInv'
  BY <1>4 DEF NewTraceProvider, PreStopCall, TypeOK, LevelsInv, workVars
<1>5. ASSUME NEW f \in Func, StopFuncReturns(f) PROVE LevelsInv'
  BY <1>5 DEF StopFuncReturns, TypeOK, LevelsInv, workVars
<1> QED
  BY <1>1, <1>2, <1>3, <1>4, <1>5
  DEF ClientsNext, ClientStep, StopClose, StopTracing, ConnectFails, OpenFails, PingFails, SchemaFails, Assign, Close, Unregister, CloseConnection,
      Connected, Register, UseTraceProvider, Trace, EndSpan, Session, everyVar, vars, workVars

LEMMA NextConnInv ==
  ASSUME HandlerInv, ClientsTypeOK, ConnInv, [ClientsNext]_everyVar
  PROVE  ConnInv'
<1> USE ClientLevels DEF HandlerInv, ClientsTypeOK
<1>1. ASSUME UNCHANGED << conn, func >> PROVE ConnInv'
  BY <1>1 DEF ConnInv
<1>2. CASE HandlerStep
  BY <1>2, NewStaysNew DEF HandlerStep, clientVars, ConnInv
<1>3. ASSUME NEW x \in Registrar, NEW k \in Client, NEW d \in Database, Connect(x, k, d)
      PROVE  ConnInv'
  BY <1>3 DEF Connect, PreStopCall, TypeOK, ConnInv
<1>4. ASSUME NEW x \in Registrar, NewTraceProvider(x) PROVE ConnInv'
  BY <1>4 DEF NewTraceProvider, PreStopCall, TypeOK, ConnInv, clientVars
<1>5. ASSUME NEW d \in Database, StopClose(d) PROVE ConnInv'
  BY <1>5 DEF StopClose, StopFuncReturns, TypeOK, ConnInv
<1>6. CASE StopTracing
  BY <1>6 DEF StopTracing, StopFuncReturns, TypeOK, ConnInv
<1>7. ASSUME NEW k \in Client, NEW d \in Database, ConnectFails(k, d) PROVE ConnInv'
  BY <1>7 DEF ConnectFails, OpenFails, PingFails, SchemaFails, Assign, ConnInv, vars
<1>8. ASSUME NEW k \in Client, CloseConnection(k) PROVE ConnInv'
  BY <1>8 DEF CloseConnection, ConnInv, vars
<1> QED
  BY <1>1, <1>2, <1>3, <1>4, <1>5, <1>6, <1>7, <1>8
  DEF ClientsNext, ClientStep, Close, Unregister, Connected, Register, Assign, UseTraceProvider, Trace, EndSpan, Session, everyVar,
      vars, clientVars

\* A stop function that is registered stays so.
LEMMA StaysRegistered ==
  ASSUME TypeOK, [Next]_vars
  PROVE  \A f \in Func : Registered(f) => Registered(f)'
<1>1. CASE UNCHANGED func
  BY <1>1 DEF Registered
<1>2. ASSUME NEW x \in Registrar, NEW l \in Level, NEW f \in Func, PreStopCall(x, l, f)
      PROVE  \A g \in Func : Registered(g) => Registered(g)'
  BY <1>2 DEF PreStopCall, TypeOK, Registered
<1>3. ASSUME NEW f \in Func, PreStop(f) \/ StopFuncReturns(f)
      PROVE  \A g \in Func : Registered(g) => Registered(g)'
  BY <1>3 DEF PreStop, StopFuncReturns, TypeOK, Registered
<1>4. ASSUME NEW p \in Stopper, StartLevel(p)
      PROVE  \A g \in Func : Registered(g) => Registered(g)'
  BY <1>4 DEF StartLevel, Registered
<1> QED
  BY <1>1, <1>2, <1>3, <1>4
  DEF Next, StopStep, SetupSignalHandler, Signal, AddFor, DoneFor, SafeStop, CloseStopCh,
      JoinLevel, WaitFor, WaitReturns, Exit, Timeout, Ended, vars, funcVars

LEMMA NextProviderInv ==
  ASSUME HandlerInv, ClientsTypeOK, ProviderInv, [ClientsNext]_everyVar
  PROVE  ProviderInv'
<1> USE ClientLevels DEF HandlerInv, ClientsTypeOK
<1>1. ASSUME UNCHANGED << provider, span >>, func'[Provider] = "done" <=> func[Provider] = "done",
             Registered(Provider) => Registered(Provider)'
      PROVE  ProviderInv'
  BY <1>1 DEF ProviderInv
<1>2. CASE HandlerStep
  <2>1. Registered(Provider) => Registered(Provider)'
    BY <1>2, ClientStepIsHandlerStep, StaysRegistered DEF ClientsNext
  <2> QED
    BY <1>1, <1>2, <2>1, NewStaysNew DEF HandlerStep, clientVars
<1>3. ASSUME NEW x \in Registrar, NEW k \in Client, NEW d \in Database, Connect(x, k, d)
      PROVE  ProviderInv'
  BY <1>1, <1>3 DEF Connect, PreStopCall, TypeOK, Registered
<1>4. ASSUME NEW x \in Registrar, NewTraceProvider(x) PROVE ProviderInv'
  BY <1>1, <1>4 DEF NewTraceProvider, PreStopCall, TypeOK, Registered, clientVars
<1>5. ASSUME NEW d \in Database, StopClose(d) PROVE ProviderInv'
  BY <1>1, <1>5 DEF StopClose, StopFuncReturns, TypeOK, Registered
<1>6. CASE UseTraceProvider
  BY <1>6 DEF UseTraceProvider, ProviderInv, vars, Registered
<1>7. CASE StopTracing
  <2>1. func'[Provider] = "done"
    BY <1>7 DEF StopTracing, StopFuncReturns, TypeOK
  <2>2. provider' # "open" /\ \A w \in Worker : span'[w] # "ended"
    BY <1>7 DEF StopTracing
  <2> QED
    BY <2>1, <2>2 DEF ProviderInv, Registered
<1>8. ASSUME NEW w \in Worker, Trace(w) PROVE ProviderInv'
  <2>1. /\ UNCHANGED << provider, func >>
        /\ span' = [span EXCEPT ![w] = CASE provider = "none" -> @
                                       [] provider = "open" -> "ended"
                                       [] provider = "shutdown" -> "lost"]
    BY <1>8 DEF Trace, EndSpan, vars
  <2>2. CASE func[Provider] = "done"
    BY <2>1, <2>2 DEF ProviderInv, Registered
  <2>3. CASE func[Provider] # "done"
    BY <2>1, <2>3 DEF ProviderInv, Registered
  <2> QED
    BY <2>2, <2>3
<1>9. ASSUME UNCHANGED << provider, span, func >> PROVE ProviderInv'
  BY <1>1, <1>9 DEF Registered
<1> QED
  BY <1>2, <1>3, <1>4, <1>5, <1>6, <1>7, <1>8, <1>9
  DEF ClientsNext, ClientStep, ConnectFails, OpenFails, PingFails, SchemaFails, Assign, Close, Unregister, CloseConnection, Connected, Register, Session,
      everyVar, vars, clientVars

\* A query of an early request meets neither a connection closed by the stop
\* nor a provider that is shut down: the request would be over.
LEMMA TraceOfEarly ==
  ASSUME HandlerInv, ClientsInv, NEW w \in early, Trace(w)
  PROVE  w \notin refused' /\ span'[w] # "lost"
<1> USE ClientLevels DEF HandlerInv, ClientsInv
<1>1. w \in Worker /\ wpc[w] = "working" /\ wlevel[w] = LevelRequest
  BY DEF Trace, EndSpan, LevelsInv, TypeOK
<1>2. \A f \in Func : func[f] = "done" => ~(LevelRequest > flevel[f])
  BY <1>1 DEF DrainedFor
<1>3. conn[session[w]] # "stopped"
  <2>1. session[w] \in Database
    BY <1>1 DEF Trace, EndSpan, ClientsTypeOK
  <2> QED
    BY <1>2, <2>1 DEF ConnInv, LevelsInv
<1>4. provider # "shutdown"
  BY <1>2 DEF ProviderInv, LevelsInv
<1>5. span'[w] # "lost"
  <2>1. span' = [span EXCEPT ![w] = CASE provider = "none" -> @
                                       [] provider = "open" -> "ended"
                                       [] provider = "shutdown" -> "lost"]
    BY DEF Trace, EndSpan
  <2>2. span \in [Worker -> {"none", "ended", "exported", "dropped", "lost"}]
        /\ provider \in {"none", "open", "shutdown"} /\ span[w] # "lost"
    BY DEF ClientsTypeOK, EarlyServed
  <2> QED
    BY <1>1, <1>4, <2>1, <2>2
<1> QED
  BY <1>3, <1>5 DEF Trace, EndSpan, EarlyServed

LEMMA NextEarlyServed ==
  ASSUME HandlerInv, ClientsInv, [ClientsNext]_everyVar
  PROVE  EarlyServed'
<1> USE ClientLevels DEF HandlerInv, ClientsInv
<1>1. ASSUME UNCHANGED << refused, span >>, early' = early,
             \A w \in Worker : wpc'[w] = "idle" => wpc[w] = "idle"
      PROVE  EarlyServed'
  BY <1>1 DEF EarlyServed
<1>2. CASE HandlerStep
  <2>1. ASSUME NEW w \in Worker, AddFor(w, LevelRequest) PROVE EarlyServed'
    <3>1. UNCHANGED << refused, span >>
      BY <1>2 DEF HandlerStep, clientVars
    <3>2. /\ wpc[w] = "idle" /\ early' \subseteq early \cup {w}
          /\ \A v \in Worker : wpc'[v] = "idle" => wpc[v] = "idle"
      BY <2>1 DEF AddFor, TypeOK
    <3> QED
      BY <3>1, <3>2 DEF EarlyServed
  <2>2. ASSUME NEW w \in Worker, DoneFor(w) PROVE EarlyServed'
    BY <1>1, <1>2, <2>2 DEF DoneFor, TypeOK, HandlerStep, clientVars
  <2>3. CASE UNCHANGED workVars
    BY <1>1, <1>2, <2>3 DEF workVars, HandlerStep, clientVars
  <2> QED
    BY <1>2, <2>1, <2>2, <2>3
    DEF HandlerStep, StopStep, SetupSignalHandler, Signal, PreStop, SafeStop, CloseStopCh,
        StartLevel, JoinLevel, WaitFor, WaitReturns, Exit, Timeout, Ended, vars, workVars
<1>3. ASSUME NEW w \in Worker, Trace(w) PROVE EarlyServed'
  <2>1. UNCHANGED << early, wpc >> /\ wpc[w] # "idle"
    BY <1>3 DEF Trace, EndSpan, vars
  <2>2. /\ \A v \in Worker : v # w => span'[v] = span[v]
        /\ refused' \subseteq refused \cup {w}
    BY <1>3 DEF Trace, EndSpan, ClientsTypeOK
  <2>3. w \in early => w \notin refused' /\ span'[w] # "lost"
    BY <1>3, TraceOfEarly
  <2> QED
    BY <2>1, <2>2, <2>3 DEF EarlyServed, TypeOK
<1>4. CASE StopTracing
  <2>1. UNCHANGED << refused, workVars >>
    BY <1>4 DEF StopTracing, StopFuncReturns
  <2>2. \A w \in Worker : span'[w] = span[w] \/ (span[w] = "ended" /\ span'[w] \in {"dropped", "exported"})
    BY <1>4 DEF StopTracing
  <2> QED
    BY <2>1, <2>2 DEF EarlyServed, workVars, TypeOK
<1>5. ASSUME UNCHANGED << refused, span, workVars >> PROVE EarlyServed'
  BY <1>1, <1>5 DEF workVars
<1> QED
  BY <1>2, <1>3, <1>4, <1>5
  DEF ClientsNext, ClientStep, Connect, PreStopCall, NewTraceProvider, StopClose,
      StopFuncReturns, ConnectFails, OpenFails, PingFails, SchemaFails, Assign, Close, Unregister, CloseConnection, Connected, Register, UseTraceProvider,
      Session, everyVar, vars, clientVars, workVars

LEMMA ClientsInvariant == ClientsSpec => [](HandlerInv /\ ClientsInv)
<1>1. ClientsInit => ClientsInv
  <2> SUFFICES ASSUME ClientsInit PROVE ClientsInv
    OBVIOUS
  <2>1. /\ early = {} /\ refused = {} /\ provider = "none"
        /\ \A f \in Func : func[f] = "new"
        /\ \A w \in Worker : wpc[w] = "idle" /\ span[w] = "none"
        /\ \A d \in Database : conn[d] = "none"
    BY DEF ClientsInit, Init
  <2> QED
    BY <2>1, ClientsInitTypeOK, ClientLevels
    DEF ClientsInv, DrainedFor, LevelsInv, ConnInv, ProviderInv, EarlyServed
<1>2. HandlerInv /\ ClientsInv /\ WorkDrained' /\ [ClientsNext]_everyVar => ClientsInv'
  BY ClientStepIsHandlerStep, NextDrainedFor, NextClientsTypeOK, NextLevelsInv, NextConnInv,
     NextProviderInv, NextEarlyServed DEF ClientsInv
<1> QED
  BY <1>1, <1>2, ClientsImplementHandler, HandlerInvariant, WorkDrainedHolds, PTL
  DEF ClientsSpec

\* No request accepted before the stop meets a connection the stop closed,
\* whatever clients are constructed, replaced and closed meanwhile.
THEOREM RequestsServedHolds == ClientsSpec => []RequestsServed
<1>1. ClientsInv => RequestsServed
  BY DEF ClientsInv, EarlyServed, RequestsServed
<1> QED
  BY <1>1, ClientsInvariant, PTL

\* A process that stops by itself has closed every connection whose stop
\* function it accepted.
THEOREM NothingLeftOpenHolds == ClientsSpec => []NothingLeftOpen
<1>1. HandlerInv /\ ClientsInv => NothingLeftOpen
  <2> SUFFICES ASSUME HandlerInv, ClientsInv, status = "stopped",
                      NEW d \in Database, conn[d] = "open"
               PROVE  func[d] = "locking"
    BY DEF NothingLeftOpen
  <2>1. func[d] # "new" /\ func[d] # "done"
    BY DEF ClientsInv, ClientsTypeOK, ConnInv
  <2>2. ~Registered(d)
    BY <2>1, ClientLevels DEF HandlerInv, GracefulExitComplete
  <2> QED
    BY <2>1, <2>2, ClientLevels DEF HandlerInv, TypeOK, Registered
<1> QED
  BY <1>1, ClientsInvariant, PTL

\* A process that stops by itself has flushed the last span of every request it
\* accepted, to an exporter that takes it or drops it: it is neither too late for
\* the provider nor left waiting.
THEOREM SpansFlushedHolds == ClientsSpec => []SpansFlushed
<1>1. HandlerInv /\ ClientsInv => SpansFlushed
  <2> SUFFICES ASSUME HandlerInv, ClientsInv, status = "stopped", NEW w \in early,
                      span[w] \notin {"none", "exported", "dropped"}
               PROVE  FALSE
    BY DEF SpansFlushed
  <2>1. w \in Worker /\ span[w] = "ended"
    BY DEF HandlerInv, TypeOK, ClientsInv, ClientsTypeOK, EarlyServed
  <2>2. Registered(Provider) /\ func[Provider] # "done"
    BY <2>1 DEF ClientsInv, ProviderInv
  <2> QED
    BY <2>2, ClientLevels DEF HandlerInv, GracefulExitComplete
<1> QED
  BY <1>1, ClientsInvariant, PTL

----------------------------------------------------------------------------
(* The collector.                                                          *)

\* Nobody but its constructor knows a connection before it is handed out.
Unknown(d) ==
  /\ d \notin instances
  /\ \A k \in Client : client[k] # d /\ closing[k] # d

\* A connection under construction is nobody's, nor is one that there is not.
HandedOutInv ==
  \A d \in Database :
    /\ owner[d] # NoOne => conn[d] \in {"open", "stopped"} /\ Unknown(d)
    /\ conn[d] \in {"none", "stray"} => Unknown(d)

\* A connection is of one client, and only that closes it.
OneClientInv ==
  \A j, k \in Client : client[k] # NoOne /\ client[k] \in {client[j], closing[j]} => j = k

\* A connection that is being closed has left the collector.
LeftCollectorInv ==
  \A k \in Gorm : client[k] # NoOne /\ closing[k] = client[k] => client[k] \notin instances

CollectorInv == HandedOutInv /\ OneClientInv /\ LeftCollectorInv /\ Collected

LEMMA NextCollectorInv ==
  ASSUME ClientsTypeOK, CollectorInv, [ClientsNext]_everyVar
  PROVE  CollectorInv'
<1> USE ClientsAssumption DEF ClientsTypeOK, CollectorInv
<1>1. ASSUME UNCHANGED << conn, owner, client, closing, instances >> PROVE CollectorInv'
  BY <1>1 DEF HandedOutInv, OneClientInv, LeftCollectorInv, Collected, Unknown
<1>2. ASSUME NEW x \in Registrar, NEW k \in Client, NEW d \in Database, Connect(x, k, d)
      PROVE  CollectorInv'
  BY <1>2 DEF Connect, HandedOutInv, OneClientInv, LeftCollectorInv, Collected, Unknown, Client
<1>3. ASSUME NEW k \in Client, NEW d \in Database, ConnectFails(k, d) PROVE CollectorInv'
  BY <1>3 DEF ConnectFails, OpenFails, PingFails, SchemaFails, Assign,
              HandedOutInv, OneClientInv, LeftCollectorInv, Collected, Unknown, Client
<1>4. ASSUME NEW k \in Client, Close(k) PROVE CollectorInv'
  BY <1>4 DEF Close, Unregister, HandedOutInv, OneClientInv, LeftCollectorInv, Collected, Unknown, Client
<1>5. ASSUME NEW k \in Client, CloseConnection(k) PROVE CollectorInv'
  BY <1>5 DEF CloseConnection, HandedOutInv, OneClientInv, LeftCollectorInv, Collected, Unknown, Client
<1>6. ASSUME NEW d \in Database, Connected(d) PROVE CollectorInv'
  BY <1>6 DEF Connected, Register, Assign, HandedOutInv, OneClientInv, LeftCollectorInv, Collected, Unknown, Client
<1>7. ASSUME NEW d \in Database, StopClose(d) PROVE CollectorInv'
  BY <1>7 DEF StopClose, HandedOutInv, OneClientInv, LeftCollectorInv, Collected, Unknown, Client
<1> QED
  BY <1>1, <1>2, <1>3, <1>4, <1>5, <1>6, <1>7
  DEF ClientsNext, ClientStep, HandlerStep, NewTraceProvider, UseTraceProvider, StopTracing,
      Trace, Session, everyVar, clientVars, vars

\* Whatever clients are constructed, replaced and closed: the collector has
\* each connection a gorm client uses and none that the client has closed.
THEOREM CollectedHolds == ClientsSpec => []Collected
<1>1. ClientsInit => CollectorInv
  BY ClientsAssumption
  DEF ClientsInit, CollectorInv, HandedOutInv, OneClientInv, LeftCollectorInv, Collected,
      Unknown, Client
<1>2. ClientsTypeOK /\ CollectorInv /\ [ClientsNext]_everyVar => CollectorInv'
  BY NextCollectorInv
<1>3. CollectorInv => Collected
  BY DEF CollectorInv
<1> QED
  BY <1>1, <1>2, <1>3, ClientsTypeCorrect, PTL DEF ClientsSpec

==============================================================================
