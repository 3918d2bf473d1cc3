-------------------------- MODULE OrderedShutdown --------------------------
(***************************************************************************)
(* What the shutdown handler of signals/signal.go promises, with no word   *)
(* of mutexes, wait groups, loops or timers. Stop functions and work are   *)
(* accepted while the process is open. After the stop the functions of a   *)
(* level start together, when every function of the higher levels has      *)
(* returned and no work owed at a higher level remains. The shutdown is    *)
(* clean when everything has ended; it may be cut short at any moment.     *)
(***************************************************************************)
EXTENDS Integers

CONSTANTS Func, Worker, LevelMax

Level == 0 .. LevelMax

VARIABLES
  open,     \* TRUE until the stop
  phase,    \* life cycle of each stop function
  level,    \* level of each registered stop function
  owed,     \* pairs <<w, l>>: work w accepted at level l and not done
  outcome   \* "none" while the process lives, then "clean" or "cut"

vars == << open, phase, level, owed, outcome >>

Init ==
  /\ open = TRUE
  /\ phase = [f \in Func |-> "new"]
  /\ level = [f \in Func |-> 0]
  /\ owed = {}
  /\ outcome = "none"

Register(f, l) ==
  /\ outcome = "none"
  /\ open
  /\ phase[f] = "new"
  /\ phase' = [phase EXCEPT ![f] = "registered"]
  /\ level' = [level EXCEPT ![f] = l]
  /\ UNCHANGED << open, owed, outcome >>

Accept(w, l) ==
  /\ outcome = "none"
  /\ open
  /\ owed' = owed \cup {<< w, l >>}
  /\ UNCHANGED << open, phase, level, outcome >>

Finish(w, l) ==
  /\ outcome = "none"
  /\ << w, l >> \in owed
  /\ owed' = owed \ {<< w, l >>}
  /\ UNCHANGED << open, phase, level, outcome >>

Stop ==
  /\ outcome = "none"
  /\ open
  /\ open' = FALSE
  /\ UNCHANGED << phase, level, owed, outcome >>

Waiting(l) == {f \in Func : phase[f] = "registered" /\ level[f] = l}

\* Everything above level l is over.
Quiet(l) ==
  /\ \A f \in Func : phase[f] # "new" /\ level[f] > l => phase[f] = "done"
  /\ \A o \in owed : o[2] <= l

Start(l) ==
  /\ outcome = "none"
  /\ ~open
  /\ Quiet(l)
  /\ phase' = [f \in Func |-> IF f \in Waiting(l) THEN "running" ELSE phase[f]]
  /\ UNCHANGED << open, level, owed, outcome >>

Return(f) ==
  /\ outcome = "none"
  /\ phase[f] = "running"
  /\ phase' = [phase EXCEPT ![f] = "done"]
  /\ UNCHANGED << open, level, owed, outcome >>

Clean ==
  /\ outcome = "none"
  /\ ~open
  /\ Quiet(-1)
  /\ outcome' = "clean"
  /\ UNCHANGED << open, phase, level, owed >>

Cut ==
  /\ outcome = "none"
  /\ outcome' = "cut"
  /\ UNCHANGED << open, phase, level, owed >>

Next ==
  \/ Stop \/ Clean \/ Cut
  \/ \E l \in Level : Start(l)
  \/ \E f \in Func : Return(f) \/ \E l \in Level : Register(f, l)
  \/ \E w \in Worker, l \in Level : Accept(w, l) \/ Finish(w, l)

Spec == Init /\ [][Next]_vars

============================================================================
