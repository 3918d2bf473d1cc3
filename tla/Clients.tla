------------------------------- MODULE Clients -------------------------------
(***************************************************************************)
(* The database, Redis and tracing clients on top of the shutdown handler. *)
(* A constructor connects, registers a stop function that closes the       *)
(* connection at LevelDB and, for gorm, enters the client in the collector *)
(* of statistics. UnmarshalJSON of a client constructs a new one and puts  *)
(* it in place of the former. Requests are work at LevelRequest, and each  *)
(* query they make ends a span, which the trace provider hands to an       *)
(* exporter until it is shut down at LevelTrace. The exporter is external. *)
(*                                                                         *)
(* A connection is named by its stop function.                             *)
(***************************************************************************)
EXTENDS Signals

CONSTANTS
  Database,    \* stop functions of connections
  Provider,    \* stop function of the trace provider
  Gorm,        \* MySQL and Clickhouse clients of the application
  SQLite,      \* SQLite clients
  Redis,       \* Redis clients
  LevelTrace, LevelDB, LevelRequest

Client == Gorm \cup SQLite \cup Redis

ASSUME ClientsAssumption ==
  /\ Database \subseteq Func
  /\ Provider \in Func \ Database
  /\ NoOne \notin Database \cup Client
  /\ Gorm \cap Redis = {}
  /\ {LevelTrace, LevelDB, LevelRequest} \subseteq Level
  /\ LevelTrace < LevelDB /\ LevelDB < LevelRequest

VARIABLES
  conn,       \* each connection: none, open, who closed it, or stray
  owner,      \* client a connection is made for
  client,     \* connection each client holds
  closing,    \* connection a Close has unregistered and is about to close
  instances,  \* the collector
  provider,   \* the trace provider
  session,    \* connection of each request
  refused,    \* history: requests that met a connection the stop had closed
  span        \* last span of each request; the batches that are exported before
              \* the stop are left out, they only leave it less to export

clientVars == << conn, owner, client, closing, instances, provider, session, refused, span >>

----------------------------------------------------------------------------
ClientsInit ==
  /\ Init
  /\ conn = [d \in Database |-> "none"]
  /\ owner = [d \in Database |-> NoOne]
  /\ client = [k \in Client |-> NoOne]
  /\ closing = [k \in Client |-> NoOne]
  /\ instances = {}
  /\ provider = "none"
  /\ session = [w \in Worker |-> NoOne]
  /\ refused = {}
  /\ span = [w \in Worker |-> "none"]

----------------------------------------------------------------------------
(* Construction.                                                           *)

\* UnmarshalJSON puts what the constructor returns, nil after an error
\* included, in the client.
Assign(k, d) == client' = [client EXCEPT ![k] = d]

\* The collector of statistics.
Register(d) == instances \cup {d}
Unregister(d) == instances \ {d}

\* Mutant: the stop function is registered at the level of requests.
ConnectAtRequest(x, k, d) ==
  /\ conn[d] = "none"
  /\ PreStopCall(x, LevelRequest, d)
  /\ conn' = [conn EXCEPT ![d] = "open"]
  /\ owner' = [owner EXCEPT ![d] = k]
  /\ UNCHANGED << client, closing, instances, provider, session, refused, span >>

\* x constructs a client, for the first time or in UnmarshalJSON: connect,
\* then call PreStop.
Connect(x, k, d) ==
  /\ conn[d] = "none"
  /\ PreStopCall(x, LevelDB, d)
  /\ conn' = [conn EXCEPT ![d] = "open"]
  /\ owner' = [owner EXCEPT ![d] = k]
  /\ UNCHANGED << client, closing, instances, provider, session, refused, span >>

\* Mutant: a connection that does not answer is not closed.
ConnectFailsOpen(k, d) ==
  /\ Running
  /\ conn[d] = "none"
  /\ conn' = [conn EXCEPT ![d] = "open"]
  /\ client' = [client EXCEPT ![k] = NoOne]
  /\ UNCHANGED << vars, owner, closing, instances, provider, session, refused, span >>

\* The database does not open: there is no connection.
OpenFails(k) == k \in Gorm \cup SQLite /\ UNCHANGED conn

\* Redis does not answer the ping: the connection is closed.
PingFails(k) == k \in Redis /\ UNCHANGED conn

\* CREATE SCHEMA fails: the connection made for it is left open for ever.
SchemaFails(k, d) == k \in Gorm /\ conn' = [conn EXCEPT ![d] = "stray"]

\* The constructor fails, and the nil client it returns replaces the one
\* UnmarshalJSON found.
ConnectFails(k, d) ==
  /\ Running
  /\ conn[d] = "none"
  /\ OpenFails(k) \/ PingFails(k) \/ SchemaFails(k, d)
  /\ Assign(k, NoOne)
  /\ UNCHANGED << vars, owner, closing, instances, provider, session, refused, span >>

\* Mutant: the statistics are not registered when a client is replaced.
ConnectedOnce(d) ==
  /\ Running
  /\ Registered(d)
  /\ owner[d] # NoOne
  /\ instances' = IF owner[d] \in Redis \/ client[owner[d]] # NoOne
                    THEN instances ELSE instances \cup {d}
  /\ client' = [client EXCEPT ![owner[d]] = d]
  /\ owner' = [owner EXCEPT ![d] = NoOne]
  /\ UNCHANGED << vars, conn, closing, provider, session, refused, span >>

\* PreStop has returned: the collector gets a client of gorm, and the
\* constructor returns.
Connected(d) ==
  /\ Running
  /\ Registered(d)
  /\ owner[d] # NoOne
  /\ instances' = IF owner[d] \in Redis THEN instances ELSE Register(d)
  /\ Assign(owner[d], d)
  /\ owner' = [owner EXCEPT ![d] = NoOne]
  /\ UNCHANGED << vars, conn, closing, provider, session, refused, span >>

----------------------------------------------------------------------------
(* Close, called by the application.                                       *)

\* Client.Close first leaves the collector; the Close of SQLite and of
\* Redis does not.
Close(k) ==
  /\ Running
  /\ client[k] # NoOne
  /\ closing[k] = NoOne
  /\ closing' = [closing EXCEPT ![k] = client[k]]
  /\ instances' = IF k \in Gorm THEN Unregister(client[k]) ELSE instances
  /\ UNCHANGED << vars, conn, owner, client, provider, session, refused, span >>

\* Then the connection is closed; a closed one stays as it is.
CloseConnection(k) ==
  /\ Running
  /\ closing[k] # NoOne
  /\ conn' = [conn EXCEPT ![closing[k]] = IF @ = "open" THEN "closed" ELSE @]
  /\ closing' = [closing EXCEPT ![k] = NoOne]
  /\ UNCHANGED << vars, owner, client, instances, provider, session, refused, span >>

----------------------------------------------------------------------------
(* Stop functions.                                                         *)

\* Mutant: the stop function closes the connection its client holds now.
StopCloseCurrent(d) ==
  /\ StopFuncReturns(d)
  /\ conn' = [e \in Database |->
                IF conn[e] = "open" /\ \E k \in Client : client[k] = e
                  THEN "stopped" ELSE conn[e]]
  /\ UNCHANGED << owner, client, closing, instances, provider, session, refused, span >>

\* The stop function of a connection closes it.
StopClose(d) ==
  /\ StopFuncReturns(d)
  /\ conn' = [conn EXCEPT ![d] = IF @ = "open" THEN "stopped" ELSE @]
  /\ UNCHANGED << owner, client, closing, instances, provider, session, refused, span >>

\* Mutant: the provider is shut down with the requests.
NewTraceProviderAtRequest(x) ==
  /\ PreStopCall(x, LevelRequest, Provider)
  /\ UNCHANGED clientVars

\* NewTraceProvider calls PreStop. It takes the handler from SignalHandler,
\* which panics in its caller before SetupSignalHandler.
NewTraceProvider(x) ==
  /\ PreStopCall(x, LevelTrace, Provider)
  /\ UNCHANGED clientVars

\* It returns, and the application makes the provider the global one.
UseTraceProvider ==
  /\ Running
  /\ Registered(Provider)
  /\ provider = "none"
  /\ provider' = IF func[Provider] = "done" THEN "shutdown" ELSE "open"
  /\ UNCHANGED << vars, conn, owner, client, closing, instances, session, refused, span >>

\* The stop function of the provider: ForceFlush and Shutdown have five seconds
\* to export what has ended; what the exporter does not take is dropped, since
\* their errors are only logged. The provider takes no more.
StopTracing ==
  /\ StopFuncReturns(Provider)
  /\ provider' = IF provider = "none" THEN "none" ELSE "shutdown"
  /\ \E dropped \in SUBSET Worker :
       span' = [w \in Worker |-> IF span[w] # "ended" THEN span[w]
                                ELSE IF w \in dropped THEN "dropped" ELSE "exported"]
  /\ UNCHANGED << conn, owner, client, closing, instances, session, refused >>

----------------------------------------------------------------------------
(* Requests.                                                               *)

\* Session takes the connection the client has now; a request whose context
\* has a connection goes on with that one. A request on a nil client, which
\* Session dereferences, panics and makes no query: it has no step here.
Session(w, k) ==
  /\ Running
  /\ wpc[w] = "working"
  /\ wlevel[w] = LevelRequest
  /\ client[k] # NoOne
  /\ session' = [session EXCEPT ![w] = client[k]]
  /\ UNCHANGED << vars, conn, owner, client, closing, instances, provider, refused, span >>

\* The span of a query ends: what becomes of it is up to the provider.
EndSpan(w) ==
  CASE provider = "none"     -> span[w]
    [] provider = "open"     -> "ended"
    [] provider = "shutdown" -> "lost"

\* A query on the session.
Trace(w) ==
  /\ Running
  /\ wpc[w] = "working"
  /\ session[w] # NoOne
  /\ refused' = IF conn[session[w]] = "stopped" THEN refused \cup {w} ELSE refused
  /\ span' = [span EXCEPT ![w] = EndSpan(w)]
  /\ UNCHANGED << vars, conn, owner, client, closing, instances, provider, session >>

----------------------------------------------------------------------------
ClientStep ==
  \/ \E x \in Registrar, k \in Client, d \in Database : Connect(x, k, d)
  \/ \E k \in Client, d \in Database : ConnectFails(k, d)
  \/ \E k \in Client : Close(k) \/ CloseConnection(k)
  \/ \E d \in Database : Connected(d) \/ StopClose(d)
  \/ \E x \in Registrar : NewTraceProvider(x)
  \/ UseTraceProvider
  \/ StopTracing
  \/ \E w \in Worker : Trace(w)
  \/ \E w \in Worker, k \in Client : Session(w, k)

HandlerStep ==
  /\ \/ SetupSignalHandler
     \/ Signal
     \/ \E f \in Func : PreStop(f)
     \/ \E w \in Worker : AddFor(w, LevelRequest) \/ DoneFor(w)
     \/ \E p \in Stopper : SafeStop(p) \/ StopStep(p) \/ Timeout(p)
     \/ Ended
  /\ UNCHANGED clientVars

ClientsNext == ClientStep \/ HandlerStep

everyVar == << vars, clientVars >>

ClientsSpec == ClientsInit /\ [][ClientsNext]_everyVar

----------------------------------------------------------------------------
(* Properties.                                                             *)

\* Every variable of the clients has its type, and a connection a client may
\* use has a stop function on the way.
ClientsTypeOK ==
  /\ conn \in [Database -> {"none", "open", "closed", "stopped", "stray"}]
  /\ \A d \in Database : func[d] = "new" <=> conn[d] \in {"none", "stray"}
  /\ owner \in [Database -> Client \cup {NoOne}]
  /\ client \in [Client -> Database \cup {NoOne}]
  /\ closing \in [Client -> Database \cup {NoOne}]
  /\ instances \in SUBSET Database
  /\ provider \in {"none", "open", "shutdown"}
  /\ session \in [Worker -> Database \cup {NoOne}]
  /\ refused \in SUBSET Worker
  /\ span \in [Worker -> {"none", "ended", "exported", "dropped", "lost"}]

\* A request accepted before the stop never meets a connection the stop has
\* closed, not even on a client that was replaced while it was served.
RequestsServed == early \cap refused = {}

\* A process that stops by itself leaves no connection of a client open,
\* those of replaced clients included, but the ones whose constructor is
\* still waiting to register its stop function.
NothingLeftOpen ==
  status = "stopped" => \A d \in Database : conn[d] = "open" => func[d] = "locking"

\* It has also flushed the last span of each request it accepted: none ended when
\* the provider was already shut down and none is left waiting. Only an exporter
\* that fails or is too slow drops one.
SpansFlushed ==
  status = "stopped" => \A w \in early : span[w] \in {"none", "exported", "dropped"}

\* The collector has the connection of each gorm client that is in use, and
\* no MySQL or Clickhouse connection the application has closed.
Collected ==
  \A k \in Gorm :
    /\ client[k] # NoOne /\ conn[client[k]] = "open" /\ closing[k] # client[k]
         => client[k] \in instances
    /\ client[k] # NoOne /\ conn[client[k]] = "closed" => client[k] \notin instances

=============================================================================
