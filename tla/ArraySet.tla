------------------------------- MODULE ArraySet -------------------------------
(***************************************************************************)
(* sets/array.go: a set in an array of fixed size, its last index changed  *)
(* with atomic additions. Goroutines append one value at a time; the array *)
(* begins with zero values.                                                *)
(***************************************************************************)
EXTENDS Integers, FiniteSets, Sequences

CONSTANTS
  Appender,   \* goroutines
  Value,      \* values appended, with the zero value 0
  ArrayLen    \* size

ASSUME ArrayAssumption == IsFiniteSet(Appender) /\ ArrayLen \in Nat

\* What the set does when it is full: there is no callback (ErrorSetFull), or
\* one that hands the values on and resets, one that returns nil without it,
\* or one that returns an error.
Callback == {"none", "reset", "nothing", "error"}

VARIABLES
  fullCallback,
  arr, cur,
  appender,   \* each goroutine: where it is, its value and index
  flushed,    \* history: values handed to a callback that reset the set
  accepted,   \* history: values whose Append returned nil after storing or finding them
  overlap     \* history: an Append was under way while another called back

arrayVars == << fullCallback, arr, cur, appender, flushed, accepted, overlap >>

----------------------------------------------------------------------------
Empty == [i \in 0 .. ArrayLen - 1 |-> 0]

Idle == [state |-> "idle", value |-> 0, idx |-> 0]

\* NewArraySet, without values.
ArrayInit ==
  /\ fullCallback \in Callback
  /\ arr = Empty
  /\ cur = -1
  /\ appender = [a \in Appender |-> Idle]
  /\ flushed = {} /\ accepted = {}
  /\ overlap = FALSE

Goes(a, state) ==
  appender' = [appender EXCEPT ![a] = IF state = "idle" THEN Idle ELSE [@ EXCEPT !.state = state]]

Include(v) == \E i \in DOMAIN arr : arr[i] = v
Index(v)   == IF Include(v) THEN CHOOSE i \in DOMAIN arr : arr[i] = v /\ \A j \in 0 .. i - 1 : arr[j] # v
              ELSE -1
Length     == cur + 1

\* Append of a value: nothing is done when it is in the array.
AppendValue(a, v) ==
  /\ appender[a].state = "idle"
  /\ IF Include(v)
     THEN accepted' = accepted \cup {v} /\ UNCHANGED appender
     ELSE /\ appender' = [appender EXCEPT ![a] = [state |-> "adding", value |-> v, idx |-> 0]]
          /\ UNCHANGED accepted
  /\ UNCHANGED << fullCallback, arr, cur, flushed, overlap >>

\* The index is taken.
AddIndex(a) ==
  /\ appender[a].state = "adding"
  /\ cur' = cur + 1
  /\ appender' = [appender EXCEPT ![a].state = IF cur' >= ArrayLen THEN "full" ELSE "storing",
                                  ![a].idx = cur']
  /\ UNCHANGED << fullCallback, arr, flushed, accepted, overlap >>

\* Mutant: the index is not given back.
GiveBackNothing(a) ==
  /\ appender[a].state = "full"
  /\ Goes(a, IF fullCallback = "none" THEN "idle" ELSE "calling")
  /\ UNCHANGED << fullCallback, arr, cur, flushed, accepted, overlap >>

\* The set is full: the index is given back ...
GiveBack(a) ==
  /\ appender[a].state = "full"
  /\ cur' = cur - 1
  /\ Goes(a, IF fullCallback = "none" THEN "idle" ELSE "calling")
  /\ UNCHANGED << fullCallback, arr, flushed, accepted, overlap >>

\* ... and the callback gets the array; it may call Reset.
CallFullCallback(a) ==
  /\ appender[a].state = "calling"
  /\ Goes(a, IF fullCallback = "error" THEN "idle" ELSE "again")
  /\ IF fullCallback = "reset"
     THEN /\ flushed' = flushed \cup {arr[i] : i \in {j \in DOMAIN arr : j < Length}}
          /\ arr' = Empty
          /\ cur' = -1
     ELSE UNCHANGED << arr, cur, flushed >>
  /\ overlap' = (overlap \/ \E b \in Appender \ {a} : appender[b].state # "idle")
  /\ UNCHANGED << fullCallback, accepted >>

\* A second try, after which the value is dropped without an error.
AddAgain(a) ==
  /\ appender[a].state = "again"
  /\ cur' = cur + 1
  /\ appender' = [appender EXCEPT ![a].state = IF cur' >= ArrayLen THEN "dropping" ELSE "storing",
                                  ![a].idx = cur']
  /\ UNCHANGED << fullCallback, arr, flushed, accepted, overlap >>

Drop(a) ==
  /\ appender[a].state = "dropping"
  /\ cur' = cur - 1
  /\ Goes(a, "idle")
  /\ UNCHANGED << fullCallback, arr, flushed, accepted, overlap >>

\* The index is below zero when it was given back after a reset.
Store(a) ==
  /\ appender[a].state = "storing"
  /\ IF appender[a].idx \in DOMAIN arr
     THEN /\ arr' = [arr EXCEPT ![appender[a].idx] = appender[a].value]
          /\ accepted' = accepted \cup {appender[a].value}
          /\ Goes(a, "idle")
     ELSE Goes(a, "panicked") /\ UNCHANGED << arr, accepted >>
  /\ UNCHANGED << fullCallback, cur, flushed, overlap >>

ArrayNext ==
  \E a \in Appender :
    \/ \E v \in Value \cup {0} : AppendValue(a, v)
    \/ AddIndex(a) \/ GiveBack(a) \/ CallFullCallback(a) \/ AddAgain(a) \/ Drop(a) \/ Store(a)

ArraySpec == ArrayInit /\ [][ArrayNext]_arrayVars

----------------------------------------------------------------------------
(* Properties.                                                             *)

\* Every variable has its type.
ArrayTypeOK ==
  /\ fullCallback \in Callback
  /\ arr \in [0 .. ArrayLen - 1 -> Value \cup {0}]
  /\ cur \in Int
  /\ appender \in [Appender -> [state : {"idle", "adding", "full", "calling", "again", "dropping",
                                         "storing", "panicked"},
                                value : Value \cup {0}, idx : Int]]
  /\ flushed \subseteq Value \cup {0} /\ accepted \subseteq Value \cup {0}
  /\ overlap \in BOOLEAN

\* Once no Append is under way the list has no more values than the array, and
\* each value that an Append stored or found is in the list or was handed to the
\* callback; but for an Append under way while another calls back, and the
\* zero value, which every array that is not full seems to include.
NothingLost ==
  (\A a \in Appender : appender[a].state = "idle") /\ ~overlap =>
    /\ Length \in 0 .. ArrayLen
    /\ \A v \in accepted \ {0} : (Include(v) /\ Index(v) < Length) \/ v \in flushed

============================================================================
