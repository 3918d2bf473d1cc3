----------------------------- MODULE NacosWatch -----------------------------
(***************************************************************************)
(* The configuration watcher of clients/nacos/client.go. ListenConfig      *)
(* registers a listener under a target and queries the configuration at    *)
(* once; one goroutine, loopWatch, queries every target again and again.   *)
(* Both apply the answer in the same way: the lock protects the list of    *)
(* targets, not the target the answer is compared with, and it is shared   *)
(* by the queries that read and write a backoff.                           *)
(*                                                                         *)
(* A configuration is a version number, its MD5 the same number. A backoff *)
(* is 0 or n, for 2^(n - 1) seconds. The Nacos server is external: it is   *)
(* what QueryConfig, PublishConfig and DeleteConfig see of it.             *)
(***************************************************************************)
EXTENDS Integers, FiniteSets, Sequences

CONSTANTS
  Key,         \* pairs of a dataId and a group
  Listener,    \* calls of ListenConfig
  Loop,        \* the goroutine of loopWatch
  Nothing,     \* no configuration, no hash, no answer
  Blank,       \* the answer of JSON that has no code: no data, no hash
  BackoffLimit, \* the last backoff that is doubled: 4 (8s) for the code's
               \* 2 ^ 8 seconds, an exclusive or, 8.000000002s
  MaxVersion   \* bound: configurations published

Query    == Listener \cup {Loop}   \* who queries
Version  == 1 .. MaxVersion
Tick     == {"ticker", "backoffTicker"}

ASSUME NacosWatchAssumption ==
  /\ Loop \notin Listener
  /\ Nothing \notin Version \cup Key
  /\ Blank \notin Version \cup {Nothing}
  /\ MaxVersion \in Nat /\ BackoffLimit \in Nat
  /\ IsFiniteSet(Listener)

VARIABLES
  content,    \* server: the configuration of each key
  published,  \* server: the key of each version published so far
  targets,    \* watchdog.targets
  pc,         \* where each query is
  key,        \* key of each query
  data,       \* answer of each query
  todo,       \* listeners a query still has to call
  tick,       \* ticker of the iteration loopWatch is in
  items,      \* targets of the iteration still to be looked at
  read,       \* backoff a query has read and is about to double
  given       \* history: what each listener was given last

vars == << content, published, targets, pc, key, data, todo, tick, items, read, given >>

serverVars == << content, published >>
loopVars   == << tick, items >>

Of(k)    == {i \in DOMAIN targets : targets[i].key = k}
First(k) == CHOOSE i \in Of(k) : \A j \in Of(k) : i <= j

----------------------------------------------------------------------------
Init ==
  /\ content = [k \in Key |-> Nothing]
  /\ published = << >>
  /\ targets = << >>
  /\ pc = [p \in Query |-> "idle"]
  /\ key \in {f \in [Query -> Key \cup {Nothing}] :
                \A p \in Query : f[p] = Nothing <=> p = Loop}
  /\ data = [p \in Query |-> Nothing]
  /\ todo = [p \in Query |-> {}]
  /\ tick = "none"
  /\ items = << >>
  /\ read = [p \in Query |-> 0]
  /\ given = [l \in Listener |-> Nothing]

\* A new configuration is published, through PublishConfig or elsewhere.
PublishConfig(k) ==
  /\ Len(published) < MaxVersion
  /\ published' = Append(published, k)
  /\ content' = [content EXCEPT ![k] = Len(published) + 1]
  /\ UNCHANGED << targets, pc, key, data, todo, loopVars, read, given >>

DeleteConfig(k) ==
  /\ content[k] # Nothing
  /\ content' = [content EXCEPT ![k] = Nothing]
  /\ UNCHANGED << published, targets, pc, key, data, todo, loopVars, read, given >>

----------------------------------------------------------------------------
(* ListenConfig: Register, start loopWatch once, query.                    *)

AddListener(i, l) == targets' = [targets EXCEPT ![i].onChanges = @ \cup {l}]

AppendTarget(l) ==
  targets' = Append(targets,
    [key |-> key[l], lastHash |-> Nothing, backoff |-> 0, onChanges |-> {l}])

\* The call goes on to its query. Its callback, added to a map another query
\* may be going through, is met there or is not. The first call that gets
\* past Register starts loopWatch.
Registered(l) ==
  /\ pc' = [pc EXCEPT ![l] = "asking", ![Loop] = IF @ = "idle" THEN "select" ELSE @]
  /\ \E S \in SUBSET {p \in Query : pc[p] = "calling" /\ key[p] = key[l]} :
       todo' = [p \in Query |-> IF p \in S THEN todo[p] \cup {l} ELSE todo[p]]

\* Register under the read lock: a target of the key is there or is not.
RegisterShared(l) ==
  /\ pc[l] = "idle"
  /\ \/ /\ Of(key[l]) # {}
        /\ AddListener(First(key[l]), l)
        /\ Registered(l)
     \/ /\ Of(key[l]) = {}
        /\ pc' = [pc EXCEPT ![l] = "missing"]
        /\ UNCHANGED << targets, todo >>
  /\ UNCHANGED << serverVars, key, data, loopVars, read, given >>

\* Where a query is that holds the read lock in queryItem.
InQueryItem == {"starting", "testing", "doubling", "storing"}

\* Mutant: the target is appended without looking for it again.
RegisterUnchecked(l) ==
  /\ pc[l] = "missing"
  /\ \A p \in Query : pc[p] \notin InQueryItem
  /\ AppendTarget(l)
  /\ Registered(l)
  /\ UNCHANGED << serverVars, key, data, loopVars, read, given >>

\* Register under the write lock, which no query may share: look again, then
\* append a target.
RegisterExclusive(l) ==
  /\ pc[l] = "missing"
  /\ \A p \in Query : pc[p] \notin InQueryItem
  /\ IF Of(key[l]) # {} THEN AddListener(First(key[l]), l) ELSE AppendTarget(l)
  /\ Registered(l)
  /\ UNCHANGED << serverVars, key, data, loopVars, read, given >>

----------------------------------------------------------------------------
(* loopWatch.                                                              *)

\* A ticker fires: take a copy of the targets.
Ticks(t) ==
  /\ pc[Loop] = "select"
  /\ tick' = t
  /\ items' = [i \in DOMAIN targets |-> i]
  /\ pc' = [pc EXCEPT ![Loop] = "items"]
  /\ UNCHANGED << serverVars, targets, key, data, todo, read, given >>

Item == targets[Head(items)]

Due == IF tick = "ticker" THEN Item.backoff <= 0 ELSE Item.backoff > 0

\* The next target is due on this ticker: query it.
WatchItem ==
  /\ pc[Loop] = "items"
  /\ items # << >>
  /\ Due
  /\ items' = Tail(items)
  /\ key' = [key EXCEPT ![Loop] = Item.key]
  /\ pc' = [pc EXCEPT ![Loop] = "asking"]
  /\ UNCHANGED << serverVars, targets, data, todo, tick, read, given >>

\* It is not, or its time on the backoff ticker has not come.
PassItem ==
  /\ pc[Loop] = "items"
  /\ items # << >>
  /\ tick = "ticker" => ~Due
  /\ items' = Tail(items)
  /\ UNCHANGED << serverVars, targets, pc, key, data, todo, tick, read, given >>

EndItems ==
  /\ pc[Loop] = "items"
  /\ items = << >>
  /\ pc' = [pc EXCEPT ![Loop] = "select"]
  /\ tick' = "none"
  /\ UNCHANGED << serverVars, targets, key, data, todo, items, read, given >>

----------------------------------------------------------------------------
(* runItemWatch, in the goroutine of loopWatch or of a ListenConfig.       *)

\* The query is over: loopWatch goes on, and ListenConfig is about to return its
\* answer, or returns without one.
Finish(p) ==
  IF p = Loop
    THEN /\ pc' = [pc EXCEPT ![p] = "items"]
         /\ key' = [key EXCEPT ![p] = Nothing]
         /\ data' = [data EXCEPT ![p] = Nothing]
    ELSE /\ pc' = [pc EXCEPT ![p] = IF data[p] = Nothing THEN "unanswered" ELSE "returning"]
         /\ UNCHANGED << key, data >>

\* It goes on at another point of runItemWatch.
Proceed(p, point) ==
  /\ pc' = [pc EXCEPT ![p] = point]
  /\ UNCHANGED << key, data >>

Answer(p, v) ==
  /\ pc[p] = "asking"
  /\ data' = [data EXCEPT ![p] = v]
  /\ pc' = [pc EXCEPT ![p] = "answered"]
  /\ UNCHANGED << serverVars, targets, key, todo, loopVars, read, given >>

\* QueryConfig: the server answers with its configuration, or that there is
\* none, ...
QueryConfig(p) == Answer(p, content[key[p]])

\* ... or the query fails, ...
QueryFails(p) == Answer(p, Nothing)

\* ... or the server refuses it in JSON without a code, which is an answer.
QueryRefused(p) == Answer(p, Blank)

\* Mutant: the target is not the one of the key.
TargetOfAny(p) == targets[1]

Target(p) == targets[First(key[p])]

SetBackoff(p, b) == targets' = [targets EXCEPT ![First(key[p])].backoff = b]

\* queryItem holds the read lock, which the queries share. An answer ends the
\* backoff of the target and is handed to runItemWatch.
TakeAnswer(p) ==
  /\ pc[p] = "answered"
  /\ data[p] # Nothing
  /\ SetBackoff(p, 0)
  /\ Proceed(p, "comparing")
  /\ UNCHANGED << serverVars, todo, loopVars, read, given >>

\* After a failure the target backs off: is this its first one?
TestBackoff(p) ==
  /\ pc[p] = "answered"
  /\ data[p] = Nothing
  /\ Proceed(p, IF Target(p).backoff <= 0 THEN "starting" ELSE "testing")
  /\ UNCHANGED << serverVars, targets, todo, loopVars, read, given >>

\* A second.
StartBackoff(p) ==
  /\ pc[p] = "starting"
  /\ SetBackoff(p, 1)
  /\ Finish(p)
  /\ UNCHANGED << serverVars, todo, loopVars, read, given >>

\* Mutant: the limit is the 256s that 2 ^ 8 seconds looks like.
BelowLimitAsRead(b) == b <= 2 * BackoffLimit

BelowLimit(b) == b <= BackoffLimit

\* Is it to be doubled?
TestLimit(p) ==
  /\ pc[p] = "testing"
  /\ IF BelowLimit(Target(p).backoff) THEN Proceed(p, "doubling") ELSE Finish(p)
  /\ UNCHANGED << serverVars, targets, todo, loopVars, read, given >>

\* What it is by now is read ...
ReadBackoff(p) ==
  /\ pc[p] = "doubling"
  /\ read' = [read EXCEPT ![p] = Target(p).backoff]
  /\ Proceed(p, "storing")
  /\ UNCHANGED << serverVars, targets, todo, loopVars, given >>

Doubled(b) == IF b = 0 THEN 0 ELSE b + 1

\* ... and stored doubled.
StoreBackoff(p) ==
  /\ pc[p] = "storing"
  /\ SetBackoff(p, Doubled(read[p]))
  /\ read' = [read EXCEPT ![p] = 0]
  /\ Finish(p)
  /\ UNCHANGED << serverVars, todo, loopVars, given >>

QueryItem(p) ==
  \/ TakeAnswer(p)
  \/ TestBackoff(p) \/ StartBackoff(p) \/ TestLimit(p) \/ ReadBackoff(p) \/ StoreBackoff(p)

\* Mutant: ListenConfig notes the hash it finds and calls nobody.
CompareLoopOnly(p) ==
  /\ pc[p] = "comparing"
  /\ IF Target(p).lastHash = data[p]
       THEN Finish(p)
       ELSE Proceed(p, IF p # Loop \/ Target(p).lastHash = Nothing
                         THEN "first" ELSE "changed")
  /\ UNCHANGED << serverVars, targets, todo, loopVars, read, given >>

\* The answer is compared with the hash of the target, with no lock.
Compare(p) ==
  /\ pc[p] = "comparing"
  /\ IF Target(p).lastHash = data[p]
       THEN Finish(p)
       ELSE Proceed(p, IF Target(p).lastHash = Nothing THEN "first" ELSE "changed")
  /\ UNCHANGED << serverVars, targets, todo, loopVars, read, given >>

SetHash(p) == targets' = [targets EXCEPT ![First(key[p])].lastHash = data[p]]

\* The first hash of a target is noted and nobody is called.
NoteFirst(p) ==
  /\ pc[p] = "first"
  /\ SetHash(p)
  /\ Finish(p)
  /\ UNCHANGED << serverVars, todo, loopVars, read, given >>

\* A hash that differs is noted and the listeners are gone through.
NoteChange(p) ==
  /\ pc[p] = "changed"
  /\ SetHash(p)
  /\ todo' = [todo EXCEPT ![p] = Target(p).onChanges]
  /\ pc' = [pc EXCEPT ![p] = "calling"]
  /\ UNCHANGED << serverVars, key, data, loopVars, read, given >>

\* onChangeFunc(data) of one listener, in the goroutine of the query.
CallListener(p, l) ==
  /\ pc[p] = "calling"
  /\ l \in todo[p]
  /\ todo' = [todo EXCEPT ![p] = @ \ {l}]
  /\ given' = [given EXCEPT ![l] = data[p]]
  /\ UNCHANGED << serverVars, targets, pc, key, data, loopVars, read >>

AllCalled(p) ==
  /\ pc[p] = "calling"
  /\ todo[p] = {}
  /\ Finish(p)
  /\ UNCHANGED << serverVars, targets, todo, loopVars, read, given >>

\* ListenConfig returns the answer of its query.
ReturnAnswer(l) ==
  /\ pc[l] = "returning"
  /\ pc' = [pc EXCEPT ![l] = "listening"]
  /\ given' = [given EXCEPT ![l] = data[l]]
  /\ data' = [data EXCEPT ![l] = Nothing]
  /\ UNCHANGED << serverVars, targets, key, todo, loopVars, read >>

----------------------------------------------------------------------------
RunItemWatch(p) ==
  \/ QueryConfig(p) \/ QueryItem(p) \/ Compare(p) \/ NoteFirst(p) \/ NoteChange(p)
  \/ AllCalled(p)
  \/ \E l \in Listener : CallListener(p, l)

Next ==
  \/ \E k \in Key : PublishConfig(k) \/ DeleteConfig(k)
  \/ \E l \in Listener : RegisterShared(l) \/ RegisterExclusive(l) \/ ReturnAnswer(l)
  \/ \E t \in Tick : Ticks(t)
  \/ WatchItem \/ PassItem \/ EndItems
  \/ \E p \in Query : RunItemWatch(p) \/ QueryFails(p) \/ QueryRefused(p)

Spec == Init /\ [][Next]_vars

\* The next step of a goroutine that neither waits for a ticker nor has still to
\* look at a target that is due.
GoesOn(p) ==
  \/ RunItemWatch(p) \/ QueryFails(p) \/ QueryRefused(p)
  \/ p = Loop /\ (PassItem \/ EndItems)
  \/ p \in Listener /\ ReturnAnswer(p)

\* The goroutines of the client run and callbacks return; a query ends, and
\* those loopWatch makes again and again do not all fail and are not all refused;
\* both tickers fire and the time of a backoff comes.
FairSpec ==
  /\ Spec
  /\ \A p \in Query : WF_vars(GoesOn(p))
  /\ SF_vars(QueryConfig(Loop))
  /\ \A t \in Tick : SF_vars(Ticks(t))
  /\ SF_vars(WatchItem)

----------------------------------------------------------------------------
(* Properties.                                                             *)

\* What a query is answered, but for a failure.
Reply == Version \cup {Blank}

\* Where a query is.
Point ==
  {"idle", "missing", "asking", "answered", "starting", "testing", "doubling", "storing",
   "comparing", "first", "changed", "calling", "returning", "listening", "unanswered",
   "select", "items"}

MaxBackoff == BackoffLimit + 1 + 2 * Cardinality(Listener)

TargetType ==
  [key : Key, lastHash : Reply \cup {Nothing}, backoff : 0 .. MaxBackoff,
   onChanges : SUBSET Listener]

\* Every variable has its type. The backoff that stops at sixteen seconds while
\* queries fail one after the other goes past them when they read and write it
\* at once, each call of ListenConfig taking it two doublings further at most:
\* its own, and one of loopWatch.
TypeOK ==
  /\ content \in [Key -> Version \cup {Nothing}]
  /\ published \in Seq(Key)
  /\ targets \in Seq(TargetType)
  /\ pc \in [Query -> Point]
  /\ key \in [Query -> Key \cup {Nothing}]
  /\ data \in [Query -> Reply \cup {Nothing}]
  /\ todo \in [Query -> SUBSET Listener]
  /\ tick \in Tick \cup {"none"}
  /\ items \in Seq(DOMAIN targets)
  /\ read \in [Query -> 0 .. MaxBackoff]
  /\ given \in [Listener -> Reply \cup {Nothing}]

\* Registrations that race create one target for a key, and each listener
\* that is past Register is in the target of its key: none is lost.
OneTargetPerKey ==
  /\ \A k \in Key : Cardinality(Of(k)) <= 1
  /\ \A l \in Listener : pc[l] \notin {"idle", "missing"} =>
       \E i \in Of(key[l]) : l \in targets[i].onChanges

\* A listener is given only configurations that were published under its own
\* key, or the blank answer, which is no configuration of anybody's: though one
\* goroutine calls the listeners of all targets and a query looks its target up
\* again after the answer.
GivenWasPublished ==
  \A l \in Listener : given[l] \in Version => published[given[l]] = key[l]

\* A listener is not left with an old configuration, and is given the one that
\* stays again after each blank answer.
Informed(l) ==
  /\ <>[](pc[l] = "listening" /\ content[key[l]] # Nothing =>
             given[l] \in {content[key[l]], Blank})
  /\ []<>(pc[l] = "listening" /\ content[key[l]] # Nothing =>
             given[l] = content[key[l]])

\* A query is past the comparison with the hash, and gives out its answer.
GivesOut(p) == pc[p] \in {"first", "changed", "calling", "returning"}

\* Two queries of a key give out different answers at once.
Overlap(k) ==
  \E p, q \in Query :
    /\ key[p] = k /\ key[q] = k
    /\ GivesOut(p) /\ GivesOut(q) /\ data[p] # data[q]

\* However answers, failures, backoffs, deletions and registrations are ordered,
\* the configuration that stays is the last one a listener is given whose
\* ListenConfig returned an answer, unless two queries gave out different answers
\* at once, which nothing in the code excludes.
InformedUnlessOverlap ==
  \A l \in Listener : Informed(l) \/ <>Overlap(key[l])

\* "ListenConfig use to listen a config": a listener whose ListenConfig has
\* returned before anything was published is given the configuration that is
\* created after it and stays.
CreatedIsGiven ==
  \A l \in Listener :
    <>(pc[l] \in {"listening", "unanswered"} /\ published = << >>)
      => <>[](content[key[l]] = Nothing \/ given[l] \in {content[key[l]], Blank})

============================================================================
