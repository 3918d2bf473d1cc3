------------------------------ MODULE OrderedSet ------------------------------
(***************************************************************************)
(* sets/sets.go: a set is a map from its items to the places they were     *)
(* inserted at, by which List sorts them. The order in which Go walks a    *)
(* map is any. The other set of an operation is given by its items.        *)
(***************************************************************************)
EXTENDS Integers, FiniteSets, Sequences

CONSTANT SetItem

ASSUME OrderedSetAssumption == IsFiniteSet(SetItem)

VARIABLES
  items,      \* Set: the index of each item
  members,    \* history: the mathematical set
  order,      \* history: the items in the order they came in, since a deletion
  deleted     \* history: an item was deleted since

setVars == << items, members, order, deleted >>

----------------------------------------------------------------------------
\* Mutant: an item that is inserted again gets a new index.
InsertAgain(s, x) == [y \in DOMAIN s \cup {x} |-> IF y = x THEN Cardinality(DOMAIN s) ELSE s[y]]

Insert(s, x) ==
  IF x \in DOMAIN s THEN s
  ELSE [y \in DOMAIN s \cup {x} |-> IF y = x THEN Cardinality(DOMAIN s) ELSE s[y]]

NewSet(q) ==
  LET s[i \in 0 .. Len(q)] == IF i = 0 THEN << >> ELSE Insert(s[i - 1], q[i])
  IN  s[Len(q)]

\* The items of q, each where it comes first.
Distinct(q) ==
  LET kept[i \in 0 .. Len(q)] ==
        IF i = 0 THEN << >>
        ELSE IF \E j \in 1 .. i - 1 : q[j] = q[i] THEN kept[i - 1]
        ELSE Append(kept[i - 1], q[i])
  IN  kept[Len(q)]

\* Walks of a map, and what List may return: items with the same index come in
\* any order.
Walks(S) == {q \in [1 .. Cardinality(S) -> S] : \A i, j \in DOMAIN q : q[i] = q[j] => i = j}
Lists(s) == {q \in Walks(DOMAIN s) : \A i, j \in DOMAIN q : i < j => s[q[i]] <= s[q[j]]}

IsSuperset(s, T) == \A x \in T : x \in DOMAIN s
EqualSets(s, T)  == Cardinality(DOMAIN s) = Cardinality(T) /\ IsSuperset(s, T)

SetInit ==
  /\ items = << >>
  /\ members = {} /\ order = << >> /\ deleted = FALSE

InsertItem(x) ==
  /\ items' = Insert(items, x)
  /\ members' = members \cup {x}
  /\ order' = IF x \in members THEN order ELSE Append(order, x)
  /\ UNCHANGED deleted

Delete(x) ==
  /\ items' = [y \in DOMAIN items \ {x} |-> items[y]]
  /\ members' = members \ {x}
  /\ order' = IF x \in members THEN << >> ELSE order
  /\ deleted' = (members' # {} /\ (deleted \/ x \in members))

PopAny == \E x \in DOMAIN items : Delete(x)

\* A new set made by inserting the items of a walk.
Becomes(q, M) ==
  /\ items' = NewSet(q)
  /\ members' = M
  /\ order' = q
  /\ deleted' = FALSE

Clone == \E q \in Lists(items) : Becomes(q, members)

Union(T) ==
  \E p \in Walks(DOMAIN items), q \in Walks(T) :
    /\ items' = NewSet(p \o q)
    /\ members' = members \cup T
    /\ order' = Distinct(p \o q)
    /\ deleted' = FALSE

Difference(T) == \E q \in Walks({x \in DOMAIN items : x \notin T}) : Becomes(q, members \ T)

\* The smaller set is walked.
Intersection(T) ==
  LET walk  == IF Cardinality(DOMAIN items) < Cardinality(T) THEN DOMAIN items ELSE T
      other == IF Cardinality(DOMAIN items) < Cardinality(T) THEN T ELSE DOMAIN items
  IN  \E q \in Walks({x \in walk : x \in other}) : Becomes(q, members \cap T)

SetNext ==
  \/ \E x \in SetItem : InsertItem(x) \/ Delete(x)
  \/ PopAny
  \/ Clone
  \/ \E T \in SUBSET SetItem : Union(T) \/ Difference(T) \/ Intersection(T)

SetSpec == SetInit /\ [][SetNext]_setVars

----------------------------------------------------------------------------
(* Properties.                                                             *)

\* Every variable has its type; an index is below the number of items the set
\* ever held.
SetTypeOK ==
  /\ DOMAIN items \subseteq SetItem
  /\ \A x \in DOMAIN items : items[x] \in 0 .. Cardinality(SetItem) - 1
  /\ members \subseteq SetItem
  /\ order \in Seq(SetItem)
  /\ deleted \in BOOLEAN

\* A set is the mathematical set whatever was done with it, and Equal is
\* equality; and List gives the items in the order they came in, always
\* the same one, until an item is deleted: then a later item may get the index
\* of one before it.
SetsHold ==
  /\ DOMAIN items = members
  /\ ~deleted => Lists(items) = {order}
  /\ \A T \in SUBSET SetItem : EqualSets(items, T) <=> members = T

============================================================================
