------------------------------ MODULE RingQueue ------------------------------
(***************************************************************************)
(* The queue of wrapper/queue.go: a ring of n + 1 nodes (container/ring),  *)
(* a fixed handle r on one of them, and two indices counted from r. Every  *)
(* operation locks the mutex, but Get tests emptiness before it does, with *)
(* one read of start and one of end.                                       *)
(***************************************************************************)
EXTENDS Integers, FiniteSets, FiniteSetsExt, Sequences

CONSTANTS
  Item,        \* values of the queue
  N,           \* capacity given to NewRingQueue
  Getter,      \* goroutines that call Get
  Shared,      \* TRUE when Remove may run while a Get is under way
  RemoveHandle, \* TRUE when Remove may select the item in node r
  QueueNull, QueueFull, Ok, Panic, Nil

max  == N + 1
Node == 0 .. max + 1   \* two more than the ring: Remove allocates before it frees
r    == 0

ASSUME RingQueueAssumption ==
  /\ N \in Nat
  /\ {QueueNull, QueueFull, Ok, Panic, Nil} \cap Item = {}
  /\ Panic \notin {QueueNull, QueueFull, Ok} \cup 0 .. N

VARIABLES
  next,        \* ring links
  value,       \* contents of the nodes
  start, end,  \* indices from r
  pc,          \* where each Get is: idle, started, locking
  seen,        \* the start a Get has read
  answer       \* result of the last call

vars == << next, value, start, end, pc, seen, answer >>

----------------------------------------------------------------------------
(* container/ring.                                                         *)

Previous(nx, b) == CHOOSE a \in Node : nx[a] = b

\* a.Link(b), which also unlinks what lies between a and b in the same ring.
Link(nx, a, b) == [nx EXCEPT ![a] = b, ![Previous(nx, b)] = nx[a]]

\* r.Move(k), for k >= 0.
Move(nx, k) == LET m[i \in 0 .. k] == IF i = 0 THEN r ELSE nx[m[i - 1]] IN m[k]

\* The nodes that can be reached from r.
Ring(nx) == {Move(nx, i) : i \in Node}

\* Nodes from start to the one before end, what List and Do go through.
Window(nx, s, e) ==
  LET length == Min({k \in Node : Move(nx, s + k) = Move(nx, e)})
  IN  [i \in 1 .. length |-> Move(nx, s + i - 1)]

List == LET w == Window(next, start, end) IN [i \in DOMAIN w |-> value[w[i]]]

----------------------------------------------------------------------------
Init ==
  /\ next = [a \in Node |-> IF a < N THEN a + 1 ELSE IF a = N THEN 0 ELSE a]
  /\ value = [a \in Node |-> Nil]
  /\ start = 0
  /\ end = 0
  /\ pc = [g \in Getter |-> "idle"]
  /\ seen = [g \in Getter |-> 0]
  /\ answer = Ok

Alive == answer # Panic

\* Mutant: end is not taken back to zero.
PutPastEnd(x) ==
  /\ Alive
  /\ IF start = end + 1 \/ (end + 1 = max /\ start = 0)
       THEN answer' = QueueFull /\ UNCHANGED << value, end >>
       ELSE /\ value' = [value EXCEPT ![Move(next, end)] = x]
            /\ end' = end + 1
            /\ answer' = Ok
  /\ UNCHANGED << next, start, pc, seen >>

\* Put, under the mutex.
Put(x) ==
  /\ Alive
  /\ IF start = end + 1 \/ (end + 1 = max /\ start = 0)
       THEN answer' = QueueFull /\ UNCHANGED << value, end >>
       ELSE /\ value' = [value EXCEPT ![Move(next, end)] = x]
            /\ end' = IF end + 1 = max THEN 0 ELSE end + 1
            /\ answer' = Ok
  /\ UNCHANGED << next, start, pc, seen >>

\* Get reads start, then end, without the mutex ...
GetStart(g) ==
  /\ Alive
  /\ pc[g] = "idle"
  /\ pc' = [pc EXCEPT ![g] = "started"]
  /\ seen' = [seen EXCEPT ![g] = start]
  /\ UNCHANGED << next, value, start, end, answer >>

\* ... and returns when they are equal ...
GetEnd(g) ==
  /\ Alive
  /\ pc[g] = "started"
  /\ IF seen[g] = end
       THEN pc' = [pc EXCEPT ![g] = "idle"] /\ answer' = QueueNull
       ELSE pc' = [pc EXCEPT ![g] = "locking"] /\ answer' = answer
  /\ UNCHANGED << next, value, start, end, seen >>

\* Mutant: the node keeps the value it has given away.
GetKeeps(g) ==
  /\ Alive
  /\ pc[g] = "locking"
  /\ LET a == Move(next, start) IN
       IF value[a] = Nil
         THEN answer' = Panic /\ UNCHANGED start
         ELSE answer' = value[a] /\ start' = IF start + 1 = max THEN 0 ELSE start + 1
  /\ pc' = [pc EXCEPT ![g] = "idle"]
  /\ UNCHANGED << next, value, end, seen >>

\* ... or locks the mutex and takes the first item. A node with no value
\* fails the type assertion.
GetTake(g) ==
  /\ Alive
  /\ pc[g] = "locking"
  /\ LET a == Move(next, start) IN
       IF value[a] = Nil
         THEN answer' = Panic /\ UNCHANGED << value, start >>
         ELSE /\ answer' = value[a]
              /\ value' = [value EXCEPT ![a] = Nil]
              /\ start' = IF start + 1 = max THEN 0 ELSE start + 1
  /\ pc' = [pc EXCEPT ![g] = "idle"]
  /\ UNCHANGED << next, end, seen >>

\* Link a fresh node in behind the last one and unlink a.
Replace(nx, a, last, fresh) ==
  LET grown == Link(nx, last, fresh)
  IN  Link(grown, Previous(grown, a), grown[a])

\* Mutant: the loop does not remember that it has passed r.
MovesStartAlways(q, isPrev) == q.start > q.end

\* The removed node lies between start and the wrap at r: start moves up.
\* Otherwise end moves down.
MovesStart(q, isPrev) == q.start > q.end /\ ~isPrev

Up(i)   == IF i + 1 >= max THEN i + 1 - max ELSE i + 1
Down(i) == IF i - 1 < 0 THEN i - 1 + max ELSE i - 1

\* One iteration of the loop of Remove, at node q.cur: nothing once the end
\* is reached.
Iterate(q, S) ==
  LET isPrev == q.isPrev \/ q.cur = r
      fresh  == CHOOSE a \in Node : q.next[a] = a /\ a # r
  IN  IF q.cur = q.last THEN q
      ELSE IF q.value[q.cur] \notin S
        THEN [q EXCEPT !.cur = q.next[q.cur], !.isPrev = isPrev]
        ELSE [q EXCEPT
               !.next = Replace(q.next, q.cur, q.last, fresh),
               !.value[fresh] = Nil,
               !.cur = q.next[q.cur],
               !.isPrev = isPrev,
               !.start = IF MovesStart(q, isPrev) THEN Up(q.start) ELSE q.start,
               !.end = IF MovesStart(q, isPrev) THEN q.end ELSE Down(q.end)]

Loop(S) ==
  LET q[i \in 0 .. max] ==
        IF i = 0
          THEN [next |-> next, value |-> value, cur |-> Move(next, start),
                last |-> Move(next, end), isPrev |-> FALSE, start |-> start, end |-> end]
          ELSE Iterate(q[i - 1], S)
  IN q[max]

\* Remove, under the mutex. Nodes out of the ring of r are garbage.
Remove(S) ==
  /\ Alive
  /\ Shared \/ \A g \in Getter : pc[g] = "idle"
  /\ RemoveHandle \/ value[r] \notin S
  /\ LET q == Loop(S) IN
       /\ next' = [a \in Node |-> IF a \in Ring(q.next) THEN q.next[a] ELSE a]
       /\ value' = [a \in Node |-> IF a \in Ring(q.next) THEN q.value[a] ELSE Nil]
       /\ start' = q.start
       /\ end' = q.end
  /\ answer' = Ok
  /\ UNCHANGED << pc, seen >>

\* Len, which takes no lock: start is stable while no Get or Remove runs.
Length ==
  /\ Alive
  /\ \A g \in Getter : pc[g] = "idle"
  /\ answer' = (IF start < end THEN end - start
                ELSE IF start = end THEN 0
                ELSE end + max - start)
  /\ UNCHANGED << next, value, start, end, pc, seen >>

Next ==
  \/ \E x \in Item : Put(x)
  \/ \E g \in Getter : GetStart(g) \/ GetEnd(g) \/ GetTake(g)
  \/ \E S \in SUBSET Item : Remove(S)
  \/ Length

Spec == Init /\ [][Next]_vars

----------------------------------------------------------------------------
(* Properties.                                                             *)

\* Every variable has its type; the indices stay inside the ring.
TypeOK ==
  /\ next \in [Node -> Node]
  /\ value \in [Node -> Item \cup {Nil}]
  /\ start \in 0 .. N
  /\ end \in 0 .. N
  /\ pc \in [Getter -> {"idle", "started", "locking"}]
  /\ seen \in [Getter -> 0 .. N]
  /\ answer \in Item \cup {QueueNull, QueueFull, Ok, Panic} \cup 0 .. N

\* Exactly the nodes of the window hold items: none is lost under a nil, and
\* none is kept alive by a node the queue no longer counts.
WindowExact ==
  LET w == Window(next, start, end) IN
  \A a \in Ring(next) : value[a] # Nil <=> \E i \in DOMAIN w : w[i] = a

\* The code keeps the promise of the bounded FIFO, item by item and answer by
\* answer.
Fifo == INSTANCE BoundedQueue WITH items <- List
IsBoundedQueue == Fifo!Spec

\* Get of a queue with no item answers QueueNull and never panics.
GetNeverPanics == answer # Panic

\* Remove takes away the items the predicate selects and keeps the others in
\* their order.
RemoveKeepsOthers ==
  [][\A S \in SUBSET Item :
       Remove(S) => List' = SelectSeq(List, LAMBDA x : x \notin S)]_vars

=============================================================================
