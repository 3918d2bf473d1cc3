# A verification of `fuck`, MicroOps' Go library

The repository is a library of building blocks for services: a graceful
shutdown handler, groups of goroutines, clients for Nacos, Redis, databases,
object stores and tracing, containers, buffers, logging, secrets. It has no
main program; the concurrency is that of the goroutines its packages start and
of the applications that call them. This project holds TLA+ modules for the
parts whose behaviour depends on the order of steps, TLC configurations that
check them on small instances, and TLAPS proofs for every instance of the
shutdown handler, of the group of actors and of the clients that depend on it,
of the watcher and the requests of Nacos, of listings, scans and object stores,
and of most of the smaller packages.

## The system

| Component | State | Operations | Interacts with | Hard part |
|---|---|---|---|---|
| `signals/signal.go`, shutdown handler | stop channel, stop functions per level, a wait group per level, a mutex | `SetupSignalHandler`, `PreStop`, `AddFor`/`DoneFor`/`WaitFor`, `SafeStop` | the OS (signals), every client, `wrapper/run.go` | several stops at once, registrations and work during a stop, functions that hang, timers |
| `wrapper/run.go`, group of actors | the actors of an oklog `run.Group` | `Add`, `Run` | the handler (level 1), oklog/run | the watcher's interrupt is itself a stop |
| `wrapper/queue.go`, ring queue | a `container/ring`, two indices | `Put`, `Get`, `Remove`, `Len`, `Do`, `List` | its callers' goroutines | wrap-around, removal inside the window, test before lock |
| `clients/nacos`, configuration client | watched targets, listeners, hashes, backoffs; a token | `ListenConfig`, `loopWatch`, publish/delete/query, `Authorization` | the Nacos server, callbacks | two goroutines apply answers to one target; failures and backoff |
| `clients/gorm`, `clients/redis`, `clients/tracing` | connections, a collector of statistics, a tracer | open, close, session, stop functions at `LevelDB` and `LevelTrace` | the handler, the servers | close by the owner and by the stop; re-creation by `UnmarshalJSON`; failures half-way through an open |
| `clients/redis.ForeachSet` | a cursor | scan of a set page by page | Redis, a callback, a context | cancellation, early stop, short pages |
| `clients/storage` (`fs`, `oss`, `s3`) | registered back ends; remote objects | list, upload, download, delete, walk | object stores | pagination, partial failure |
| `buffer` | bytes read ahead; bytes left to write | `NewPreReader`, `Read`, `Close`; `Write` | the wrapped streams | short reads, errors, limits |
| `sets` | an ordered set with indices; a sorted array set | insert, delete, merge, list | - | indices after a deletion |
| `log` | default logger, dynamic levels, per-context loggers | `SetLevel`, `New`, context loggers | every package | shared state read while it is set |
| `safe`, `crypto` | a secret and its cipher text | set, get, encrypt, decrypt | environment | re-encryption, prefixes |
| `capacity`, `conv`, `errors`, `generator`, `jwt`, `http`, `wrapper` helpers | none, or a key | parsing, formatting, conversions, error chains, identifiers | - | numeric edges, round trips |

What makes each of them correct:

- the handler: nothing runs below a level before that level is over; accepted
  work is waited for; every registered function runs or the process was cut
  short; a stop always ends the process; nothing panics;
- the group: an actor is interrupted before the process exits; the stops of
  the signal and of the watcher never wait for each other;
- the queue: it is a bounded FIFO whatever the wrap-around and the removals;
- the watcher: one target per key, no listener lost, no configuration given to
  a listener of another key, the last configuration reaches the listeners;
- the clients: a connection is closed once, after the requests that use it, and
  no connection or span is left behind by a graceful exit;
- listing and scanning: each object is visited once, the end is reached;
- buffers: the bytes that come out are those that went in, in order;
- the pure parts: their round trips and bounds.

## Modules

| Module | Models | Instance | Proofs |
|---|---|---|---|
| `OrderedShutdown` | abstract: what the handler promises | through `Signals` | - |
| `Signals` | `signals/signal.go` | `MCSignals` | `Signals_proofs` |
| `RunGroup` (extends `Signals`) | `wrapper/run.go` over the handler | `MCRunGroup` | `RunGroup_proofs` |
| `Clients` (extends `Signals`) | the connections of `clients/gorm`, `clients/redis` and `clients/tracing` over the handler | `MCClients` | `Clients_proofs` |
| `BoundedQueue` | abstract: a bounded FIFO | through `RingQueue` | - |
| `RingQueue` | `wrapper/queue.go` | `MCRingQueue` | `RingQueue_proofs` |
| `NacosWatch` | the watcher of `clients/nacos/client.go` | `MCNacos`, `MCNacosWatch` (liveness) | `NacosWatch_proofs` |
| `NacosRequests` | the token and the requests of `clients/nacos/client.go` | `MCNacos` | `NacosRequests_proofs` |
| `Enumeration` | abstract: what a listing promises | through `ObjectListing` | - |
| `ObjectListing` | `ListObject` of `clients/storage/fs`, `oss`, `s3`, and `ReadDir` of the last two, which is one without recursion | `MCLibrary` | `Scans_proofs` |
| `ObjectStore` | `PutObject`, `GetObject`, `HeadObject` of the same | `MCLibrary` | `Library_proofs` |
| `ForeachSet` | `ForeachSet` of `clients/redis/redis.go` | `MCLibrary` | `Scans_proofs` |
| `ByteStream` | abstract: what goes in comes out, in order | through `Buffers` | - |
| `Buffers` | `buffer/pre_reader.go`, `buffer/limit.go` | `MCLibrary` | `Scans_proofs` |
| `ArraySet` | `sets/array.go` | `MCLibrary` | `Library_proofs` |
| `OrderedSet` | `sets/sets.go` | `MCLibrary` | `Library_proofs` |
| `SafeString` | `safe/string.go`, the ciphers of `safe/encrypt.go` | `MCLibrary` | `Library_proofs` |
| `Loggers` | the default and the context loggers of `log/log.go` | `MCLibrary` | `Library_proofs` |
| `Capacity` | `capacity` | `MCLibrary` | `Library_proofs` |
| `JwtIssuer` | `jwt/jwt.go` | `MCLibrary` | `Library_proofs` |
| `ErrorChain` | `errors/errors.go` | `MCLibrary` | `Library_proofs` |

The packages of the library share no state, except with the shutdown handler.
`MCLibrary` puts those that have nothing to do with it side by side: a
behaviour is one of the package that the variable `part` names, and the
variables of the others stay in one initial state, so that the instance is the
sum of its parts and not their product. `MCNacos` does the same with the two
halves of the Nacos client (`half`). Each module has an `Init`, a `Next` and a
specification of its own; the instances only choose between them, and
`Library_proofs` and `NacosRequests_proofs` prove that each part does in its
instance what it does alone.

### Signals

Goroutines become processes with a program counter: the signal goroutine
(`Sig`), the goroutines that call `SafeStop` (`Caller`), a timer per stop, one
goroutine per stop function, and the application's workers and registrars. A
step ends where the code can be interleaved: at the mutex, at a channel, at
each wait. `safeStop` is `SafeStop` (start the timer, ask for the mutex),
`CloseStopCh`, then for each level `StartLevel`, `JoinLevel`, `WaitFor` and
`WaitReturns`, then `Exit`. The mutex is the variable `mux`; a PreStop is
`PreStopCall` (ask) and `PreStop` (acquire, append, release), so that a
registration can wait for the mutex a stop holds. A wait group is its counter;
`Wait` is split at the point where it is woken, since the runtime panics when
the group was reused meanwhile. Exits end the operating-system process
(`status`), after which nothing moves; an exit function that returns
(`ExitReturns`, as tests set it) releases the mutex instead. `AddRequest`,
`DoneRequest`, `Add`, `Done` are `AddFor` and `DoneFor` at the levels
`LevelRequest` and `LevelRoot`. The history variable `early` holds the work
counted before the stop channel was closed: nothing promises that work added
later is waited for. Levels are those the arrays of the handler have: `PreStop`
with any other panics in its caller, which is a precondition here.

`OrderedShutdown` says what all this is for in eight actions with no mutex, no
wait group and no loop: while open the process accepts functions and work; a
level starts when all above it is quiet; a clean end leaves nothing; the end
may also be cut (a timer, a kill, a panic). `Signals!KeepsPromise` is the
refinement, with `open <- ~stopCh` and the work in `early` as what is owed.

### RunGroup

`RunGroup` extends `Signals`: an actor is a unit of work at level 1, `Add` is
`AddFor` and the append, the interrupt of an actor ends with `DoneFor`, and
the watcher `Run` adds calls `SafeStop` in the goroutine of `Run`. oklog/run
is external: execute all, take the first result, interrupt all in order, wait
for the results.

### Clients

A connection is named by its stop function, so that the handler's variables
say where it stands. `Connect` is a constructor up to its call of `PreStop`
(which may wait for the mutex of a stop), `Connected` what follows: gorm
clients enter the collector and the caller gets the client. `UnmarshalJSON` is
the same two steps for a client that exists: its new connection replaces the
former one, which stays open for its stop function (`Assign`); the collector is
`Register` and `Unregister`. `ConnectFails` is a failed constructor, whose nil
client replaces the one in use: `OpenFails` leaves nothing, `PingFails` (Redis)
closes its connection, and `SchemaFails` is a failed `CREATE SCHEMA`, whose
temporary connection stays open (`"stray"`) with nobody to close it. `Close` and
`CloseConnection` are the two steps of a `Close` by the application; `StopClose`
and `StopTracing` are the stop functions, at `LevelDB` and `LevelTrace`. The
latter has five seconds to flush what has ended, and its errors are only logged:
any span the exporter does not take is `"dropped"`, and `SpansFlushed` says that
there is no other way to lose one. Requests are the units of work of the handler,
counted at `LevelRequest`: `Session` takes the connection of a client, `Trace` is
a query on it and the end of its span (`EndSpan`). On a nil client `Session`
panics in the request, which then makes no query: it has no step. `conn` says who closed a connection, and the
history `refused` holds the requests that met one the stop had closed; an
application that closes a client under its own requests is not a matter for
this code. The statistics `Collect` reads, the options and the exporters are
left out. `SignalHandler` panics before `SetupSignalHandler`; that an
application sets the handler up before its trace provider is a precondition.

### RingQueue

The ring is a `next` function over nodes and every operation goes through
`Move`, `Link` and `Prev` as the code does; the two reads of `Get` before its
lock are two steps. `Remove` is one step under the mutex with its loop as a
recursive function (`Iterate`, `Loop`); nodes that leave the ring are garbage
and are handed out again by the next removal. `Len` is modelled while no `Get`
is under way. `Do` and `List` only read: they are the operator `List`.
`BoundedQueue` is the FIFO, `RingQueue!IsBoundedQueue` the refinement.

### NacosWatch

A listener is a call of `ListenConfig`; it registers (`RegisterShared` under
the read lock, `RegisterExclusive` under the write lock), starts the loop once
and queries; `ReturnAnswer` is its return. The loop is `Ticks`, `WatchItem`,
`PassItem`, `EndItems`. Both run `runItemWatch` step by step: the answer
(`QueryConfig`, `QueryFails`, or `QueryRefused`, below), `QueryItem`, `Compare`,
`NoteFirst` or `NoteChange`, one `CallListener` for each callback; nothing
protects the target between these steps, which is the point of the model.

`queryItem` holds a read lock, which keeps `RegisterExclusive` out and other
queries not: of an answer it is one step (`TakeAnswer`), of a failure the test for
a first one (`TestBackoff`), the test of the limit (`TestLimit`), the read
(`ReadBackoff`) and the store (`StartBackoff`, `StoreBackoff`) of the backoff are
steps between which other queries take theirs. A backoff is 0 or n, for
2^(n - 1) seconds; the limit of the code, `2^8*time.Second`, is an exclusive or, a
little over eight seconds, so that `BackoffLimit` is 4. One query stops at sixteen
seconds; queries that race go on, and `MaxBackoff` says how far.

A configuration is a version number and its MD5 the same number. JSON without a
code reads as a success with no data and no hash: `Blank`, an answer like any
other to the watcher, which notes its hash and calls the listeners with it. The
history `given` is what each listener was given last, by its callback or as the
result of its call. The Nacos server is external. Map operations are taken as
atomic, and a callback added while another goroutine iterates is met or is not;
the runtime may also abort the process there, which the model leaves out.

### NacosRequests

`PublishConfig`, `DeleteConfig` and `QueryConfig` have value receivers: each
works on a copy of the client, so the token that `doRequest` renews is renewed
for one call, and once the first token is near its end every request logs in
again. A call is `Begin` (copy the client, look at the token), `Login` and
`Authorized` if it needs a login, `Handle` or `Refuse` at the server, `Return`;
logins and answers may be lost. A token is the number of the login that issued
it; the server counts its life from when it was issued, the client from when it
was received, and a clock runs between any two steps. `AuthorizedInTime`
relates the two: renewing a token `Margin` (a minute) early makes up for delays
shorter than that. `effect` records what a request met at the server, and
`AnswersHold` says that what a method returns is true of it. A refusal without
a `code` decodes as zero: `QueryConfig` then returns an empty configuration and
no error (`Empty`), which is `Blank` in `NacosWatch`.

### ObjectListing and Enumeration

An object is its rank in the order of the store; some are in a directory, which
takes one place in that order. The file system is walked (`WalkRoot`, then
`WalkDirectory` when the place of the directory is reached), the object stores
answer pages, each beginning after the token of the one before (`ListPage`,
`NextPage`). The context is looked at before an object (`CheckItem`) and may be
cancelled before the callback. Others put and delete objects at any time.
`Enumeration` is the promise, the same for all back ends: in order, each once,
none that was never there, all that stayed when it ends well, at most one after
the cancellation. `ObjectListing!ListsObjects` is the refinement, and
`ListingReturns` says that a listing comes to an end. A listing of `fs` without
recursion from a directory other than the root visits nothing, since the walk
skips the directory it starts from; `Wanted` says so.

### ObjectStore

One caller puts while another gets. Object stores take an object at once and
may lose the answer (`Upload`); `fs` truncates the file and copies part by part
(`OpenFile`, `CopyPart`), and a reader reads the file as it is. A name is the
key in the client's bucket or an URL with a bucket (`resolveObjectPath`).
`GetsWhatWasPut`: whatever the two names, a get that reads to its end gives the
last put, if that returned nil and no other overlapped it. `GetObject` of `s3`
and `HeadObject` of all three panic when there is an object (see below).

### ForeachSet

A member is the place at which SSCAN meets it; a page may have any size and
repeat members. `SCard`, `Scan`, `CallF`, `EndPage` are the loop; members come
and go meanwhile and the context may end. The loop returns after a page shorter
than `pageSize` and not when the cursor is zero, so three histories say when it
does something else than the name promises: `early` (a short page that was not
the last), `wraps` (a full page that was), `stopped` (`ErrStopLoop` leaves the
page only). `ForeachComplete` and `ForeachEnds` are what remains true.

### Buffers and ByteStream

A byte is its place in the source, so a buffer is its length. `Fill` and
`Filled` are `NewPreReader`, with any length read in advance; `ReadSource` and
`ReadBuffer` are `Read`; `Write` passes on what is in the limit and tells its
caller what was, or with `ignoreError` that all was. The source and the writer
below are external and give and take what they like: a writer may refuse bytes
and take again what comes after, which leaves a gap the caller is not told of
when errors are ignored. `ByteStream` says that the bytes given are those of the
source in order, that the end is answered at its end, that no more than the limit
is passed on, that it is the beginning of what was written until the writer below
refuses some, and what the caller is told. `IsByteStream` is the refinement. A
reader that `NewPreReader` returned together with an error is not used further.

### ArraySet and OrderedSet

`ArraySet` is the lock-free set: goroutines call `Append`, whose atomic
additions to the index (`AddIndex`, `GiveBack`, `AddAgain`, `Drop`), store and
callback are steps of their own. `NothingLost`: when nobody is in `Append`,
every value that one stored is in the list or went to the callback, unless two
overlapped while one of them called back (`overlap`): there values are lost, or
the index falls below -1 and a store panics.

`OrderedSet` keeps the map from items to indices, with every order in which Go
may walk it. `SetsHold`: the items are those of the mathematical set whatever
sequence of operations made it, and `List` has one result, the order of
insertion, until an item is deleted and an index is given out twice.

### SafeString

A cipher text records its algorithm, key and text. The ways to give a string a
value (`Unmarshal`, `SetValue`, `Hook`, `NewEncryptedString`, `ScanValue`) and
to change its secret are the actions; `CipherKey`, `fixKey`, `fixAlgo` choose
key and algorithm by length. `Recoverable`: the string gives the text it was
given last through any sequence of those, but for the calls that lose it.

### Loggers

`GetDefaultLogger` is a `sync.Once` around a creation, `SetDefaultLogger` an
assignment with no lock, and both run at any time; contexts carry a trace id
and a logger. `LoggersAgree`: the default logger is the one set last unless one
was set while the first was being created, and a context's logger logs under
the trace id of the context unless it was handed over.

### Capacity, JwtIssuer, ErrorChain

Pure code. `Capacity` compares parsing with the sum a text says, at the limit of
integers too, and checks that what is written is read back (`CapacityAsSaid`). The
code multiplies a fraction in floating point with the digits that fit an integer:
`leadingFraction` is the set of amounts this may come to, within `Slack` of the
fraction, so that a text may be read a byte off for each fraction in it (a long
enough one just below two is read as two, as `capacity/format_test.go:83` has it).
`SetZero` is the text `0`; `SetNumber` is a number in JSON, which leaves the
nearest integer behind when it is out of range, with an error.
`JwtIssuer` signs and parses tokens while the configuration of the issuers is
loaded again: a token is accepted exactly when the issuer has its key now and
uses it in the same way (`AcceptsItsOwn`). `ErrorChain` compares status and
not-found before and after `WithMessage` for every chain (`MessageKeeps`).

## Runs

| Run | Checks | Shows | Bounds |
|---|---|---|---|
| `signals` | `TypeOK` `LevelOrder` `WorkDrained` `GracefulExitComplete` `NoPanic` `KeepsPromise` `ShutdownTerminates` | all safety, the refinement, and that a stop ends the process whatever hangs | 3 levels, 2 functions, 2 units of work, 2 signals and 1 `SafeStop` caller; anyone registers |
| `signals_second` | `SecondSignalExits` (violated) | finding 1 | 1 level, 2 signals |
| `group` | `GroupTypeOK` `InterruptedBeforeRoot` `InterruptedBeforeExit` `RunReturnsLast` | actors against two stops | 2 actors, 1 other unit of work, 1 function, 1 signal, another stopper, exit functions that return, late work |
| `group_live` | `GroupStops` | the two stops do not wait for each other | the same with `os.Exit` |
| `clients` | `ClientsTypeOK` `RequestsServed` `NothingLeftOpen` `SpansFlushed` `Collected` | connections against stops and requests | 2 connections, a gorm and a Redis client, the provider, 2 requests (one constructs clients too), 3 levels, 1 signal, late work |
| `queue` | `TypeOK` `WindowExact` `IsBoundedQueue` | FIFO under wrap-around and removals | capacity 3, 2 values, 1 consumer |
| `queue_race` | `GetNeverPanics` (violated) | finding 2 | capacity 2, 2 consumers |
| `queue_handle` | `RemoveKeepsOthers` (violated) | finding 3 | capacity 2 |
| `nacos` | `NacosTypeOK` `OneTargetPerKey` `GivenWasPublished` `AuthorizedInTime` `AnswersHold` | registration, delivery and backoff; tokens and answers | 2 listeners of one key or of two, 1 version, any number of failures and refusals, backoff limit 4 (`MaxApart` 1 when the listeners have two keys); 2 calls, `TTL` 3, `Margin` 2, clock to 4 |
| `nacos_live` | `InformedUnlessOverlap` | the last configuration arrives | 2 listeners, 1 key, 1 version and the blank answer, any number of failures and deletions, backoff limit 0 |
| `nacos_created` | `CreatedIsGiven` (violated) | finding 4 | 1 listener, 1 key, 1 version, backoff limit 0 |
| `library` | `LibraryTypeOK`; `ListsObjects` `ListingReturns`; `ForeachComplete` `ForeachEnds`; `GetsWhatWasPut`; `IsByteStream`; `NothingLost`; `SetsHold`; `Recoverable`; `LoggersAgree`; `CapacityAsSaid`; `AcceptsItsOwn`; `MessageKeeps` | one or two questions of each package | below |

The bounds of `library`, package by package: 4 objects, 2 of them in the
directory, pages of 2; 3 members, `pageSize` 2; 2 puts of up to 2 parts, 6
names; a source of 3 bytes, up to 4 read in advance, a limit of 2, 3 bytes written;
an array of 2, 2 goroutines, 2 values and the zero value; 3 items, every other
set of them; the texts `""`, `p`, `q` and secrets of 8, 16, 24, 32 and 5 bytes;
2 goroutines, 2 loggers set, 2 contexts; base 2 with integers up to 63, the
numbers 0, 1, 3, 5 and 70, which is too large, fractions of 0, .50 and .99 with a
rounding of .01, up to 2 terms; 2 issuers, 1 token, a key of each kind,
one with a curve nothing supports, and the generated ones; chains of up to 5
layers.

Why the bounds are enough. The order of levels, the draining and the races
between stops involve at most two functions (or a function and a unit of work)
at two levels and two stoppers; a third level lets the loop pass a level with
nothing in it. Two signals are what the channel holds, so a second one can
wait. The proofs remove these bounds, for the handler and for the other
modules that have them. In the queue a capacity
of three gives windows that wrap and removals before, at and after the wrap,
with another item left on each side. Two listeners share a target or race for
it, with the loop as a third goroutine; the configuration and the blank answer are
two hashes, the smallest number with a change, and the answers of three queries can
be applied in any order. With a backoff limit of 4 the values of the code occur, 1,
2, 4, 8 and 16 seconds and those of a race; the other two runs of the watcher ask
nothing of the length of a backoff, and a limit of 0 keeps its being there or not.
Two connections are one that replaces the other while a request is on the
first; of the two clients one is entered and removed from the collector, the
other is not entered. An SQLite client is one that is entered and not removed;
the proofs cover it.
Two calls of Nacos meet each other's effects, and a clock that passes `TTL` and
`TTL - Margin` lets a token be fresh, near its end and over. Four objects make
two pages, with the directory across their border; a set of three members is
scanned in pages shorter than, equal to and longer than `pageSize`. One more
byte, item or goroutine than a buffer, array or slot takes lets each of them
overflow. A base of two has all five units below 2^6, so that every unit, carry
and overflow occurs among a few hundred texts; the code uses the base as a
number only.
`CHECK_DEADLOCK FALSE` is in the configurations of passing runs where the
system stops: in `MCRunGroup.cfg` (with exit functions that return, `Run`
returns and there is nothing left to do), in `MCNacos.cfg` (calls return and
the clock ends at its bound) and in `MCLibrary.cfg` (calls return and
histories end at their bounds).

Restrictions of the instances. In the run `queue` no removal takes the item in
the handle's node (`RemoveHandle = FALSE`) and one goroutine consumes, since
findings 2 and 3 break the queue otherwise; removals run between two calls of
`Get`.

### Fairness

- `Signals`: the goroutine of a stop takes its next step when it can, and the
  signal goroutine receives what is in its channel (`PackageFairness`: the Go
  scheduler; `sync.Mutex` does not starve a waiter). `FairSpec` adds that
  timers fire, and assumes nothing of stop functions and work. `HangSpec` assumes
  neither: nothing but the package itself moves.
- `RunGroup`: in addition stop functions and work end before a timer is due,
  and an interrupted actor returns. An actor that is not
  interrupted may execute for ever, and `Run` may never be called.
- The run `signals` uses `FairSpec`: in it no work arrives late, since
  `NoPanic` needs that, but anything may hang.
- `NacosWatch`: queries end and callbacks return (there is one goroutine for
  all targets, so otherwise nothing can be said), the queries the loop repeats
  do not all fail and are not all refused (strong fairness of the answer), both tickers fire although
  either may be chosen, and the time of a backoff comes.
- `ObjectListing` (`ListingFairSpec`): requests and directories are answered,
  with an object or an error, and callbacks return. Nothing is assumed of those
  who put, delete or cancel.
- `ForeachSet` (`ForeachFairSpec`): Redis answers and `f` returns. Nothing is
  assumed of the sizes of pages, of changes to the set or of the context.

## Findings

1. `signals/signal.go:153` announces "second signal. Exit directly." but the
   goroutine receives only once: a second Ctrl-C during a slow shutdown does
   nothing (`signals_second`).
2. `wrapper/queue.go:99`: `Get` tests emptiness before it locks; two consumers
   of one item both pass and the second panics on a type assertion
   (`queue_race`).
3. `wrapper/queue.go:76`: `Remove` of the item in the node `r.r` points to
   leaves the handle on an unlinked node; later calls count in another ring
   (`queue_handle`).
4. `clients/nacos/client.go:124`: the first hash is noted without a call, so when
   a configuration is created after `ListenConfig` has returned with nothing
   published, its listener is never told of it (`nacos_created`).

Other behaviours are in the models and worth knowing. A stop function or a
unit of work that calls `PreStop` during the stop is stuck until the timer;
`ShutdownTerminates` shows that the timer is enough. And two queries of a key that
give out different answers at once (`Overlap`) can leave a listener with the older
one, or, when both find no hash, without any; the property of `nacos_live` excepts
that.

More of them, by package; each is in the model, usually as a history variable
that a property excepts:

- `clients/redis.ForeachSet`: a done context spins for ever; a short page ends
  the scan early; a full last page starts it again; `ErrStopLoop` leaves only
  the page.
- `clients/storage`: `strconv.FormatInt(n, 64)` panics, its base being above
  36: `GetObject` and `HeadObject` of `s3` and `HeadObject` of `fs` never
  return an object. `HeadObject` of `oss` reads from a nil result. `HeadObject`
  of `fs` asks the operating system and not its file system. `PutObject` of
  `fs` does not close the file.
- `clients/nacos`: tokens are renewed for one call; a refusal without a code is
  an empty configuration, which listeners are called with; two failed queries that
  race double a backoff of eight seconds twice.
- `clients/tracing`: what the exporter does not take within five seconds of the
  stop is dropped, and the process exits as if it had been exported.
- `buffer`: a reader returned with an error answers the end early if it is used
  all the same; `LimitedWriter` may write short without an error, and one that
  ignores errors goes on after a refusal, so that bytes are missing in between.
- `sets`: an `Append` that gives its index back after a `Reset` leaves it below
  -1; a callback that does not reset drops the value silently; the zero value
  is "already included"; indices are given out twice after a deletion.
- `safe`: `String()` encrypts with the empty secret of the string where the
  secret is that of the environment; `UpdateSecret("")` leaves the cipher text
  under the former secret; a wrong key gives garbage and no error.
- `log`: a logger set while the first one is created is overwritten; a logger
  handed to a context keeps its former trace id.
- `capacity`: zero is written as the empty text, which is refused; a text that is
  refused sets the value to zero, a JSON number out of range to the nearest
  integer; a fraction may be rounded up to the next byte, or to the next unit;
  amounts from 1024^5 on lose digits.
- `jwt`: `ES512` cannot be configured (the size of P-521 is 521);
  `NewRandomKey` makes P-256 keys for every `ES` method.
- `errors`: `Errors` with status 404 counts as not found only after
  `WithMessage`.

## Proofs

`Signals_proofs` proves, for all sets of functions, workers and callers, any
highest level and any number of signals:

| Theorem | States | Assumes |
|---|---|---|
| `TypeCorrect` | `Spec => []TypeOK` | - |
| `LevelOrderHolds` | `Spec => []LevelOrder` | - |
| `WorkDrainedHolds` | `Spec => []WorkDrained` | - |
| `GracefulExitHolds` | `Spec => []GracefulExitComplete` | - |
| `NoPanicHolds` | `Spec => []NoPanic` | exit functions do not return, no late work |
| `KeepsPromiseHolds` | `Spec => KeepsPromise` | exit functions do not return |
| `TimerArmedHolds` | `Spec => []TimerArmed` | - |
| `WaitsForTheLevelHolds` | `Spec => []WaitsForTheLevel` | - |
| `SafeStopAdvances` | `Spec => [][Advances]_vars` | - |

on `SignalsAssumption` (finitely many units of work, distinct processes). With
exit functions that return a second stop does close the channel twice, and the
handler's promise can be broken by it, which is why `NoPanicHolds` and
`KeepsPromiseHolds` assume they do not; with late work a wait group may be reused, hence the assumption of
`NoPanicHolds`.

None of the properties is inductive. The argument:

- `MutexInv`: a stopper inside the loop holds the mutex, so there is one
  (`OneStopper`) and `lvl` is its own loop variable.
- `RegistryInv`: the list of a level holds exactly the functions registered at
  that level; nobody is registered twice.
- `ProgressInv` (from `NotYet`, `NobodyInLoop`, `LoopInv`): functions above
  `lvl` are done, those below are untouched, those at `lvl` are where the
  program counter says. `LevelOrder` follows.
- `CountInv`: the counter of a level is the number of units of work at work
  there, a cardinality; so a counter of zero means that nobody is.
- `EarlyInv`, `DrainInv`: work counted before the stop is over above `lvl`,
  since a level is left only when its counter was zero and early work does not
  come back. With `ProgressInv` this is `HandlerInv`, from which `WorkDrained`
  and `GracefulExitComplete` follow.
- `HolderInv`: once the channel is closed its closer holds the mutex until the
  process ends; so no second close. `PanicInv` adds that a parked stopper has
  a positive counter and a woken one a counter of zero.
- The refinement maps each step: `PreStop`, `AddFor`, `DoneFor`, `CloseStopCh`,
  `StartLevel`, `StopFuncReturns` and `Exit` to the actions of
  `OrderedShutdown`, ends of the process to `Cut`, everything else to a
  stutter; `HandlerInv` gives `Quiet` when a level starts.

The last three are what `ShutdownTerminates` rests on besides fairness. A stop
that has begun has its timer until it ends the process (`TimerArmed`). What a
stop waits for is under way: the holder of the mutex is in the loop, the
functions it joins have been started, and as long as it is parked somebody is at
work at its level (`NoLostWakeUp`: the `Done` that takes the counter to zero
wakes it, although work of the application may be added and done meanwhile).
And the loop only goes forward: `Left(p)`, six for each level and the place
within it, falls with each step of the stop and rises with nobody else's.

`RunGroup_proofs` and `Clients_proofs` first prove that the group and the
clients are refinements of the handler (`GroupImplementsHandler`,
`ClientsImplementHandler`: with each step `Next` or a stutter), so that all the
theorems above hold of them, and then, for all actors, clients, connections,
requests and levels:

| Theorem | States | Along |
|---|---|---|
| `GroupTypeCorrect` | `GroupSpec => []GroupTypeOK` | `OrderInv`: while `Run` waits or interrupts, the index is within the list of actors and the watcher is the last of them |
| `InterruptedBeforeRootHolds` | `GroupSpec => []InterruptedBeforeRoot` | `ActorInv`: an accepted actor is early work of level 1, and done only when interrupted; then `WorkDrained` |
| `InterruptedBeforeExitHolds` | `GroupSpec => []InterruptedBeforeExit` | the same with `GracefulExitComplete` |
| `RunReturnsLastHolds` | `GroupSpec => []RunReturnsLast` | `ReturnedInv`, `JoinInv`: the watcher's stop went through the whole loop (`LoopComplete`) |
| `StopAwaitsInterruptsHolds` | `GroupSpec => []StopAwaitsInterrupts` | `AwaitedInv`: an actor at work has its interrupt to come, and none does once `Run` has called `SafeStop`; then `NoLostWakeUp`. The drain of the actors' level and the stop of `Run` never wait for each other |
| `ClientsTypeCorrect` | `ClientsSpec => []ClientsTypeOK` | what the handler's steps do to the stop functions (`NewStaysNew`) |
| `RequestsServedHolds` | `ClientsSpec => []RequestsServed` | `DrainedFor`: work above a stop function that has run is over; `LevelsInv`: connections are at `LevelDB`; `ConnInv`: closed by the stop only when the stop function has run |
| `NothingLeftOpenHolds` | `ClientsSpec => []NothingLeftOpen` | `ConnInv` and `GracefulExitComplete` |
| `SpansFlushedHolds` | `ClientsSpec => []SpansFlushed` | `ProviderInv`: no ended span waits for a provider that is shut down; `EarlyServed`: none of an early request was lost |
| `CollectedHolds` | `ClientsSpec => []Collected` | `CollectorInv`: a connection under construction is nobody's, a connection is of one client, one that is being closed has left the collector |

They assume the constants' assumptions only: in particular
`LevelTrace < LevelDB < LevelRequest`, not the numbers of the code, and that no
client is one of gorm and of Redis both. They hold with late work and with exit
functions that return.

`NacosRequests_proofs`, for all calls and times:

| Theorem | States | Along |
|---|---|---|
| `RequestsTypeCorrect` | `RequestsSpec => []RequestsTypeOK` | - |
| `AuthorizedInTimeHolds` | `RequestsSpec => []AuthorizedInTime` | `TokenInv`: a token was issued, then received, and its `expireAt` is `TTL` after the receipt; a request that is sent has a token with `Margin` left at that time, or one received then; `OwnTokenInv`: two calls share no token but the client's, so the receipt of one login changes nothing for other calls |
| `AnswersHoldAlways` | `RequestsSpec => []AnswersHold` | `AnswerInv`: while an answer is on its way, its code and data are what the effect at the server was |
| `NacosTypeCorrect` | `NacosSpec => []NacosTypeOK` | `NacosIsItsHalves`: each half of `MCNacos` is a behaviour of its own specification |

They assume `RequestsAssumption` (natural times, distinct names).
`AuthorizedInTime` speaks of `Delay`, which changes with every tick of the clock:
that is why `TokenInv` has to relate the receipt, the sending and the expiry of a
token.

`NacosWatch_proofs`, for all listeners, keys and versions:

| Theorem | States | Along |
|---|---|---|
| `WatchTypeCorrect` | `Spec => []TypeOK` | `BackoffInv`: a backoff is past the limit by one and two more for each call of `ListenConfig` that has done with it (`Spent`) |
| `OneTargetPerKeyHolds` | `Spec => []OneTargetPerKey` | `UniqueInv`: no two targets have one key; `PlacedInv`: a listener past its registration is in a target of its key and in no other |
| `GivenWasPublishedHolds` | `Spec => []GivenWasPublished` | `ContentInv`, `DataInv`: what the server has and what a query was answered, but for the blank answer, was published under the key that was asked for; `TodoInv`: a query calls listeners of its own key only; `GivenInv` |
| `NotedIsGivenHolds` | `Spec /\ [](~Overlap(k)) => [](NotedIsGiven(k))` | `NotedInv`: what a query gives out is what is noted, or is about to be; a listener that has its answer was given what is noted last, or is in the list of a query that calls with it |

Nothing locks a target between an answer and the calls it leads to, so what is
invariant is only where the data in each goroutine's hands came from. `DataInv`
needs that `loopWatch` has forgotten the answer for one key before it goes to
the next, and that a query which backs off has no answer.

The backoff is bounded although every query of a key may double it at once.
`ListenConfig` makes one query in its life, `loopWatch` one after the other, and
`loopWatch` goes past the limit only when it looked while the backoff was within
it: what was stored between its test and its own store was stored by calls of
`ListenConfig`, each of which is `Spent` then. So each call accounts for two
doublings, its own and one of `loopWatch`, which is `MaxBackoff`.

`NotedIsGiven` is the safety half of `InformedUnlessOverlap`: what is no change to
the watcher any more is what its listeners were given last, although any of them
may note a hash itself, and `onChanges` may grow while it is gone through. Its
hypothesis is needed: of two queries that give out different answers at once, one
may note the newer hash before the other calls the listeners with the older answer,
or replace the first hash another has noted and call nobody.

`Scans_proofs`, for all objects, members, directories and sizes of pages, and
for sources, buffers and limits of any size:

| Theorem | States | Along |
|---|---|---|
| `ListingTypeCorrect` | `ListingSpec => []ListingTypeOK` | - |
| `ListsObjectsHolds` | `ListingSpec => ListsObjects` | `LeftInv`: what stays has been visited, is on the page or is still to be read; `BeforeInv`: what was visited is below what was read, which is below what is to be read; `LateInv`: one callback at most after the cancellation |
| `ForeachTypeCorrect` | `ForeachSpec => []ForeachTypeOK` | - |
| `ForeachCompleteHolds` | `ForeachSpec => []ForeachComplete` | a member that stays was passed on or is to come: on the page or not below the cursor |
| `ListingAdvances` | `ListingSpec => [](ListLeft \in Nat) /\ [][ListAdvances]_listingVars`, for finitely many names | `ListLeft`: the names after the token, each worth more than all there is to do with a page, and what is left of this one |
| `ForeachSetAdvances` | `ForeachSpec => [](ForeachLeft \in Nat) /\ [][ForeachAdvances]_foreachVars` | the same with the members after the cursor; a full last page starts again |
| `BuffersTypeCorrect` | `BuffersSpec => []BuffersTypeOK` | - |
| `IsByteStreamHolds` | `BuffersSpec => IsByteStream` | `FillInv` and `OpenInv`: what was given is what was read less what is left in the buffer, and the source is read on only when the buffer was full and is empty; `EndInv`; `WriterInv`: passed on plus remaining is the limit, and what was written is passed on or the limit is reached until bytes are refused |

The two `Advances` are the safety halves of `ListingReturns` and `ForeachEnds`: a
step of the call takes something off a number that nobody else adds to, so that
the call ends if only it goes on.

`RingQueue_proofs`, for queues of any capacity and items of any kind:

| Theorem | States | Along |
|---|---|---|
| `QueueTypeCorrect` | `Spec => []TypeOK` | `RingState` |
| `ConsumersKeepOrder` | `Spec => [][FifoOrWrongGet]_<< List, answer >>` | `RingState`, which no `Get` disturbs: it moves `start` by one place or finds nothing there |
| `WindowExactHolds` | `Spec => []WindowExact` | `RingInv`: the nodes that `r` leads to are a sequence `p` without repetition that goes round (`IsRing`), all other nodes are alone, and there is an item at each place between the indices and at no other (`Filled`) |
| `OneConsumerNeverPanics` | `Spec => []GetNeverPanics` | `GetterInv`: what a `Get` has read before it locks is still so |
| `IsBoundedQueueHolds` | `Spec => IsBoundedQueue` | the steps, below |

The first three hold for any number of consumers, with removals between the test
and the lock of a `Get`, as long as no removal takes the item in node `r`
(finding 3 shows that this is needed): two consumers that race never lose an
item, give one twice or change the order; what goes wrong is an answer, a panic
or `QueueNull`. The last two hold under `OneConsumer`: besides, one goroutine
calls `Get` and no removal runs while it does. Finding 2 shows that the former is
needed; a removal that empties the queue between the test and the lock of a
`Get` is as bad as a second consumer.

`p` is a witness, not a variable: each operation is shown to keep some sequence
of nodes. For `Put` and `Get` it is the same one. `Remove` allocates a node behind
the last one and unlinks another: if that lies before `end`, the nodes between
move down by a place and so does `end` (`MovedDown`, `DownOnRing`, `DownFilled`);
if it lies behind, they move up and so does `start` (`MovedUp`, `UpOnRing`,
`UpFilled`). That the code tells the two apart rightly is `AtPlace`: when the
window goes over `r`, `isPrev` says whether the loop has. `LoopAt` relates the
queue after each iteration to what `Without` keeps of the first items
(`DropStep`, `KeepStep`, `LoopStep`), and `WholeLoop` puts the iterations together:
the loop ends within `max` of them. A node that is not in the ring is always
found because there are more of them than places (`FreshNode`). What `Move` and
`Loop` compute is a recursion over numbers, and follows from `Least`: there is no
least number at which the table of its values is not as claimed.

`Library_proofs`, for every value of the constants:

| Theorem | States | Along |
|---|---|---|
| `ArrayTypeCorrect` | `ArraySpec => []ArrayTypeOK` | - |
| `NothingLostHolds` | `ArraySpec => []NothingLost` | `SlotsInv`: until callbacks overlap the last index counts the places taken, past the end also those who are to give it back; a place is being stored by one goroutine; an accepted value is in a place taken or was handed on |
| `LoggersAgreeHolds` | `LoggersSpec => []LoggersAgree` | `RootInv`: one goroutine creates the first logger, and after an unraced set there is the one that was set; `CallInv` |
| `GetsWhatWasPutHolds` | `StoreSpec => []GetsWhatWasPut` | `SettledInv`: what the last put left is there; `PutInv`: of a file there is what was copied so far; `GetInv`: a get that is alone has read the beginning of what is there |
| `AcceptsItsOwnHolds` | `JwtSpec => []AcceptsItsOwn` | `TokensInv`: numbers of tokens are unique and each has a method for the kind of its key |
| `RecoverableHolds` | `SecretSpec => []Recoverable` | `SecretInv`: a cipher text is under a key that its algorithm takes |
| `SetsHoldHolds` | `SetSpec => []SetsHold` | `SetInv`: the items are the members, and until one is deleted the index of an item is its place in the order the items came in (`Ordered`) |
| `MessageKeepsHolds` | `ErrorsSpec => []MessageKeeps` | `Chain`: a chain ends in an error and all layers above are wrappers or messages; the first wrapper, the first status and the last layer of a chain are followed through `WithMessage` |
| `CapacityAsSaidHolds` | `CapacitySpec => []CapacityAsSaid` | `CapacityInv`, `ParsedIsNear`, `StringIsAmount`, `ReadBack` |
| `SetTypeCorrect`, `CapacityTypeCorrect`, `LoggersTypeCorrect`, `StoreTypeCorrect`, `JwtTypeCorrect`, `SecretTypeCorrect`, `ErrorsTypeCorrect` | the types of the others | the same invariants |
| `LibraryTypeCorrect` | `LibrarySpec => []LibraryTypeOK` | `LibraryIsItsPackages`: each package of `MCLibrary` is a behaviour of its own specification |

`NothingLost` is not inductive because a value is accepted before it is in the
list or handed on; the count of places taken is a cardinality, and every atomic
addition of the code changes it and the index together. In `MessageKeeps` the
first element of a set of places is a least number, which exists by
well-founded induction on the naturals (`Least`).

`SetsHold` speaks of every list that sorting the items by index may give. Where
`Ordered(items, order)` holds there is one (`OneList`): along a list the indices
are the numbers from 0 in their order, each met once, so the item at a place is
the one whose index it is. `NewSetOrdered` gives `Ordered` of a set made of any
walk: after each item of the walk, by `InsertOrdered`, and there is no least place
at which it fails. `SetTypeOK` needs that an item not yet in the set finds fewer
than all (`InsertBounded`): an index may be given out twice, and stays below the
number of items there can be.

`CapacityAsSaid` holds for texts of any number of terms, any base of the units, any
limit of the integers that 1024 (`Base`) of the largest unit are within, and any
fractions with a rounding of less than a byte. `TermIsSays`: a term as it was read
is `NoAmount` exactly where its value is above the limit, because the product is
tested by a division (`DivTimes`) and the sum of two numbers within the limit that is
above it is negative. `FractionIsNear`: whatever a fraction comes to is at most a byte
from what it says (`DivNear`: numbers less than a divisor apart have quotients at most
one apart). `ParsedIsNear` carries both along the terms. In the other direction
`DigitStep` puts a digit and the digits above it together in one unit, and
`StringIsAmount` follows the loop of `String` from the largest unit down; `LeftFits`
says that below 1024 of the largest unit nothing is dropped. The text that is written
has no fractions, so it has one reading, and `ReadBack` gets the amount itself.

Assumptions on the constants, each named where they are declared: finitely many
appenders and a natural length (`ArrayAssumption`), bounds that are natural
numbers (`LoggersAssumption`, `ErrorsAssumption`, `StoreAssumption`,
`NacosWatchAssumption`, `ListingAssumption`,
`ForeachAssumption`, `BuffersAssumption`), a natural capacity and answers that
are no items (`RingQueueAssumption`), keys of the kinds there are
(`JwtAssumption`), an empty text (`SecretAssumption`), finitely many items
(`OrderedSetAssumption`), and units that are within the integers with a rounding of
fractions below a byte (`CapacityAssumption`).

Only model-checked: every liveness property (`ShutdownTerminates`, `GroupStops`,
`InformedUnlessOverlap`, `ListingReturns`, `ForeachEnds`); fairness and ENABLED
are beyond the prover. What is proved of them is the part that is safety: that
nothing waits for what will not come, and that each step takes the call nearer to
its end (`TimerArmed`, `WaitsForTheLevel`, `Advances`, `StopAwaitsInterrupts`,
`NotedIsGiven`, `ListAdvances`, `ForeachAdvances`). All invariants and action
properties of the passing runs are proved. What a recursion over numbers computes needs an induction whose
hypothesis is an operator, which the provers cannot instantiate: each such lemma
makes the argument by a least number for itself (`Least`), which is why the
recursions of the modules are recursive functions and not folds.
`RemoveKeepsOthers` needs no theorem of its own: `IsBoundedQueue` says it for the
removals that spare the handle, with `Without` in the place of `SelectSeq`, which
the provers do not expand.

## Not modelled

- TLS options (`clients/tls`): they are read once when a client is made; the
  rest is generated code.
- The exporters of traces, the options of the clients, the statistics that
  `Collect` reads, the texts of Redis commands and the wrappers of
  `session.go`: forwarding with no state of their own.
- Storage: the registration of back ends, the conversion of permissions, and
  `ReadDir` of `fs`, which reads one directory;
  the code of the stores themselves is external.
- Logging: adapters and formatters, flags, levels changed at run time.
- `sets`: the sets of IP networks.
- `crypto` and hashes: arithmetic on bytes; `SafeString` takes a cipher as
  invertible under its key.
- Template helpers, conversions, version strings and one-line helpers of
  `wrapper`; `GetConfig` of Nacos, which is the data of `QueryConfig`, and
  `SearchConfig`, which is not implemented in the code; `PreStop` with a level the
  handler does not have and requests on a nil client, which panic in their caller.

`PROJECT.json` lists each component with its status.

## Plan

Modelled: the handler, the group, the queue, the watcher and the requests of
Nacos, the connections, listings and objects, scans, buffers, sets, secrets,
loggers, capacities, tokens and errors. The safety properties of all of them are
proved. Next, in this order:

1. The registration of storage back ends and levels changed at run time.
