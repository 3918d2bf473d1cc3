----------------------------- MODULE Enumeration -----------------------------
(***************************************************************************)
(* What a listing promises while others add and remove objects: it visits  *)
(* objects in order, each at most once, none that was not there at some    *)
(* moment of it; when it ends well it has visited each that was there all  *)
(* the time; after it is cancelled it visits one more at most. Objects are *)
(* their ranks in the order.                                               *)
(***************************************************************************)
EXTENDS Naturals, Sequences

CONSTANT Object

VARIABLES
  status,    \* "idle", "open", "complete" or "failed"
  visited,   \* objects visited, in that order
  seen,      \* wanted objects that were there at some moment
  stable,    \* wanted objects that were there all the time
  cancelled,
  late       \* visits since it is cancelled

enumVars == << status, visited, seen, stable, cancelled, late >>

EnumInit ==
  /\ status = "idle"
  /\ visited = << >> /\ seen = {} /\ stable = {}
  /\ cancelled = FALSE /\ late = 0

Open(wanted) ==
  /\ status = "idle"
  /\ status' = "open"
  /\ seen' = wanted /\ stable' = wanted
  /\ UNCHANGED << visited, cancelled, late >>

Visit(o) ==
  /\ status = "open"
  /\ o \in seen
  /\ \A i \in DOMAIN visited : visited[i] < o
  /\ cancelled => late = 0
  /\ visited' = Append(visited, o)
  /\ late' = IF cancelled THEN 1 ELSE 0
  /\ UNCHANGED << status, seen, stable, cancelled >>

Complete ==
  /\ status = "open"
  /\ \A o \in stable : \E i \in DOMAIN visited : visited[i] = o
  /\ status' = "complete"
  /\ UNCHANGED << visited, seen, stable, cancelled, late >>

Fail ==
  /\ status = "open"
  /\ status' = "failed"
  /\ UNCHANGED << visited, seen, stable, cancelled, late >>

\* Others add a wanted object, or remove one.
Added(o)   == seen' = seen \cup {o} /\ UNCHANGED << status, visited, stable, cancelled, late >>
Removed(o) == stable' = stable \ {o} /\ UNCHANGED << status, visited, seen, cancelled, late >>

Cancelled ==
  /\ cancelled' = TRUE
  /\ UNCHANGED << status, visited, seen, stable, late >>

EnumNext ==
  \/ \E W \in SUBSET Object : Open(W)
  \/ \E o \in Object : Visit(o) \/ Added(o) \/ Removed(o)
  \/ Cancelled
  \/ Complete
  \/ Fail

EnumSpec == EnumInit /\ [][EnumNext]_enumVars

============================================================================
