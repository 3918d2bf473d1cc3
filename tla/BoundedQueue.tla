---------------------------- MODULE BoundedQueue ----------------------------
(***************************************************************************)
(* What the queue of wrapper/queue.go promises: a FIFO of at most N items  *)
(* with a Remove that drops the items a predicate selects and keeps the    *)
(* order of the others. Each call takes effect at one moment.              *)
(***************************************************************************)
EXTENDS Naturals, Sequences

CONSTANTS Item, N, QueueNull, QueueFull, Ok

VARIABLES
  items,   \* the queue
  answer   \* result of the last call that took effect

vars == << items, answer >>

Init == items = << >> /\ answer = Ok

Put(x) ==
  IF Len(items) < N
    THEN items' = Append(items, x) /\ answer' = Ok
    ELSE items' = items /\ answer' = QueueFull

Get ==
  IF items = << >>
    THEN items' = items /\ answer' = QueueNull
    ELSE items' = Tail(items) /\ answer' = Head(items)

\* s with the elements of S left out, an element at a time.
Without(s, S) ==
  LET kept[i \in 0 .. Len(s)] ==
        IF i = 0 THEN << >>
        ELSE IF s[i] \in S THEN kept[i - 1] ELSE Append(kept[i - 1], s[i])
  IN  kept[Len(s)]

Remove(S) ==
  /\ items' = Without(items, S)
  /\ answer' = Ok

Count == items' = items /\ answer' = Len(items)

Next ==
  \/ \E x \in Item : Put(x)
  \/ Get
  \/ Count
  \/ \E S \in SUBSET Item : Remove(S)

Spec == Init /\ [][Next]_vars

=============================================================================
