------------------------------- MODULE Loggers -------------------------------
(***************************************************************************)
(* log/log.go: the default logger, which the first use creates and the     *)
(* application may set at any time with no lock, and the loggers of        *)
(* contexts with their trace ids. A logger is its format and writer, and   *)
(* the trace id added to it. Formats registered by the application, files  *)
(* and their rotation are external.                                        *)
(***************************************************************************)
EXTENDS Naturals, Sequences

CONSTANTS
  Goroutine,
  MaxSets,       \* bound: calls of SetDefaultLogger
  MaxContexts    \* bound: calls of NewContextLogger

ASSUME LoggersAssumption == MaxSets \in Nat /\ MaxContexts \in Nat

NoLogger == [writer |-> "nil", format |-> "nil", trace |-> 0]

VARIABLES
  rootLogger,
  once,        \* rootLoggerOnce: "new", "running" or "done"
  getter,      \* each goroutine: its call of GetDefaultLogger
  sets,        \* calls of SetDefaultLogger
  lastSet,     \* history: the logger set last
  raced,       \* history: a logger was set while the default one was created
  contexts     \* contexts: trace id, logger, and whether it was given

loggerVars == << rootLogger, once, getter, sets, lastSet, raced, contexts >>

----------------------------------------------------------------------------
\* Where a logger writes; what cannot be opened, or is of an unknown kind, is replaced by the console.
newWriterFromConfig(file) ==
  CASE file = "none"    -> {"stdout"}
    [] file = "device"  -> {"device", "stdout"}
    [] file = "regular" -> {"rotated", "stdout"}

\* New: a format that is not registered is replaced by logfmt.
New(file, format) ==
  [writer : newWriterFromConfig(file), format : {IF format = "other" THEN "logfmt" ELSE format},
   trace : {0}]

Default == CHOOSE l \in New("none", "logfmt") : TRUE

\* Loggers of the application.
Configured == New("device", "json") \cup (New("regular", "other") \ {Default})

----------------------------------------------------------------------------
LoggersInit ==
  /\ rootLogger = NoLogger
  /\ once = "new"
  /\ getter = [g \in Goroutine |-> [state |-> "idle", logger |-> NoLogger, last |-> NoLogger,
                                    alone |-> FALSE]]
  /\ sets = 0 /\ lastSet = NoLogger /\ raced = FALSE
  /\ contexts = << >>

SetDefaultLogger(l) ==
  /\ sets < MaxSets
  /\ sets' = sets + 1
  /\ rootLogger' = l /\ lastSet' = l
  /\ raced' = (raced \/ once = "running")
  /\ getter' = [g \in Goroutine |-> IF getter[g].state = "idle" THEN getter[g]
                                    ELSE [getter[g] EXCEPT !.alone = FALSE]]
  /\ UNCHANGED << once, contexts >>

GetDefaultLogger(g) ==
  /\ getter[g].state = "idle"
  /\ getter' = [getter EXCEPT ![g] = [state |-> "once", logger |-> NoLogger, last |-> lastSet,
                                      alone |-> TRUE]]
  /\ UNCHANGED << rootLogger, once, sets, lastSet, raced, contexts >>

\* Mutant: the first use creates a logger although one was set.
OnceAlways(g) ==
  /\ getter[g].state = "once" /\ once = "new"
  /\ once' = "running" /\ getter' = [getter EXCEPT ![g].state = "creating"]
  /\ UNCHANGED << rootLogger, sets, lastSet, raced, contexts >>

\* rootLoggerOnce.Do: the first goroutine looks for a logger ...
Once(g) ==
  /\ getter[g].state = "once" /\ once = "new"
  /\ IF rootLogger = NoLogger
     THEN once' = "running" /\ getter' = [getter EXCEPT ![g].state = "creating"]
     ELSE once' = "done" /\ UNCHANGED getter
  /\ UNCHANGED << rootLogger, sets, lastSet, raced, contexts >>

\* ... and creates one if there was none.
Create(g) ==
  /\ getter[g].state = "creating"
  /\ rootLogger' = Default
  /\ once' = "done"
  /\ getter' = [getter EXCEPT ![g].state = "once"]
  /\ UNCHANGED << sets, lastSet, raced, contexts >>

GetReturns(g) ==
  /\ getter[g].state = "once" /\ once = "done"
  /\ getter' = [getter EXCEPT ![g].state = "idle", ![g].logger = rootLogger]
  /\ UNCHANGED << rootLogger, once, sets, lastSet, raced, contexts >>

----------------------------------------------------------------------------
\* NewTraceLogger takes the root logger, or gets the default one, which waits
\* for a goroutine that is creating it.
NewTraceLogger(trace) ==
  LET l == IF rootLogger = NoLogger THEN Default ELSE rootLogger IN
  /\ rootLogger = NoLogger => once = "new"
  /\ rootLogger' = l
  /\ once' = IF rootLogger = NoLogger THEN "done" ELSE once
  /\ contexts' = Append(contexts, [trace |-> trace, logger |-> [l EXCEPT !.trace = trace],
                                   given |-> FALSE])

NewTraceId == Len(contexts) + 1

\* NewContextLogger with the options given: a trace id (zero for none), and the
\* logger of a context, which keeps the trace id it has.
NewContextLogger(traceId, parent) ==
  LET trace == IF traceId = 0 THEN NewTraceId ELSE traceId IN
  /\ Len(contexts) < MaxContexts
  /\ IF parent = 0 THEN NewTraceLogger(trace)
     ELSE /\ contexts' = Append(contexts, [trace |-> trace, logger |-> contexts[parent].logger,
                                           given |-> TRUE])
          /\ UNCHANGED << rootLogger, once >>
  /\ UNCHANGED << getter, sets, lastSet, raced >>

GetTraceId(c)       == contexts[c].trace
GetContextLogger(c) == contexts[c].logger

LoggersNext ==
  \/ \E l \in Configured : SetDefaultLogger(l)
  \/ \E g \in Goroutine : GetDefaultLogger(g) \/ Once(g) \/ Create(g) \/ GetReturns(g)
  \/ \E t \in {0} \cup {GetTraceId(c) : c \in DOMAIN contexts}, p \in 0 .. Len(contexts) :
       NewContextLogger(t, p)

LoggersSpec == LoggersInit /\ [][LoggersNext]_loggerVars

----------------------------------------------------------------------------
(* Properties.                                                             *)

Logger == [writer : {"stdout", "device", "rotated"}, format : {"logfmt", "json"}, trace : Nat]

\* Every variable has its type.
LoggersTypeOK ==
  /\ rootLogger \in Logger \cup {NoLogger} /\ lastSet \in Logger \cup {NoLogger}
  /\ once \in {"new", "running", "done"}
  /\ getter \in [Goroutine -> [state : {"idle", "once", "creating"}, alone : BOOLEAN,
                               logger : Logger \cup {NoLogger}, last : Logger \cup {NoLogger}]]
  /\ sets \in 0 .. MaxSets
  /\ raced \in BOOLEAN
  /\ contexts \in Seq([trace : Nat, logger : Logger, given : BOOLEAN])

\* GetDefaultLogger gives the logger set last, unless one is set meanwhile or
\* was set while the default one was being created, which replaced it; and the
\* logger of a context logs under its trace id, unless another was given.
LoggersAgree ==
  /\ \A g \in Goroutine :
       LET call == getter[g] IN
       /\ call.state = "idle" /\ call.alone => call.logger # NoLogger
       /\ call.state = "idle" /\ call.alone /\ call.last # NoLogger /\ ~raced => call.logger = call.last
  /\ \A c \in DOMAIN contexts :
       ~contexts[c].given => GetContextLogger(c).trace = GetTraceId(c)

============================================================================
