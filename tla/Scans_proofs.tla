---------------------------- MODULE Scans_proofs ----------------------------
(***************************************************************************)
(* Proofs about what is read piece by piece: a listing of each backend     *)
(* implements Enumeration, ForeachSet passes over no member, though others *)
(* change the store meanwhile, each step of both leaves less to do, and    *)
(* the buffers implement ByteStream. For any objects, members, pages,      *)
(* sources, buffers and limits.                                            *)
(***************************************************************************)
EXTENDS ObjectListing, ForeachSet, Buffers, FiniteSetTheorems, TLAPS

----------------------------------------------------------------------------
(* The inductive invariant of a listing.                                   *)

\* The walk has no tokens and the pages no directory; before a page is read
\* nothing of the one before is left.
ReadInv ==
  /\ backend = "fs" => token = 0 /\ nextToken = 0
  /\ backend # "fs" => ~unread
  /\ unread => list.prefix = "root" /\ list.recursion
  /\ list.state \in {"idle", "reading"} =>
       page = {} /\ ~unread /\ token = nextToken /\ (token = 0 => visited = << >>)
  /\ list.state = "idle" => token = 0

\* What the listing is to visit and is there has been seen, and what stays is
\* there.
SeenInv ==
  ListOpen => /\ page \subseteq seen
              /\ stored \cap ListTarget \subseteq seen
              /\ stable \subseteq stored \cap ListTarget

\* Objects that a page, or the directory, to come will bring.
ToRead(o) ==
  \/ unread /\ o \in Inside
  \/ (list.state = "reading" \/ nextToken # 0) /\ o > nextToken

Visited(o) == \E i \in DOMAIN visited : visited[i] = o

\* What stays has been visited, has been read, or is still to be read.
LeftInv ==
  ListOpen => \A o \in stable : Visited(o) \/ o \in page \/ ToRead(o)

\* What was visited comes before what was read, and both before what is still
\* to be read.
BeforeInv ==
  ListOpen =>
    /\ nextToken # 0 => \A o \in page : o <= nextToken
    /\ \A i \in DOMAIN visited :
         /\ \A o \in page : visited[i] < o
         /\ unread => \A o \in Inside : visited[i] < o
         /\ nextToken # 0 => visited[i] <= nextToken

\* After the context is done there is at most one callback, and then no other.
LateInv ==
  /\ late \in {0, 1}
  /\ late = 1 => cancelled /\ list.state # "calling"

ListingInv ==
  ListingTypeOK /\ ReadInv /\ SeenInv /\ LeftInv /\ BeforeInv /\ LateInv

----------------------------------------------------------------------------
(* Lemmas about the parts of a step.                                       *)

States == {"idle", "reading", "items", "calling", "complete", "failed"}

\* What a listing is to visit, for each way to call it.
LEMMA WantedCases ==
  ASSUME NEW prefix \in Prefix, NEW recursion \in BOOLEAN
  PROVE  /\ Wanted(prefix, recursion) \subseteq Object
         /\ prefix = "root" /\ recursion => Wanted(prefix, recursion) = Object
         /\ prefix = "root" /\ ~recursion => Wanted(prefix, recursion) = Object \ Inside
<1>1. Inside \subseteq Object
  BY ListingAssumption
<1>2. CASE prefix = "root"
  BY <1>2 DEF Wanted
<1>3. CASE prefix = "dir"
  BY <1>1, <1>3 DEF Wanted
<1> QED BY <1>2, <1>3 DEF Prefix

\* The target of a call depends on the way it was called only.
LEMMA SameTarget ==
  ASSUME list'.prefix = list.prefix, list'.recursion = list.recursion, backend' = backend
  PROVE  ListTarget' = ListTarget
BY DEF ListTarget, Wanted

\* The call as a whole after one of its steps.
LEMMA GoneTo ==
  ASSUME ListingTypeOK, NEW state \in States, list' = [list EXCEPT !.state = state],
         backend' = backend
  PROVE  /\ list' \in [state : States, prefix : Prefix, recursion : BOOLEAN]
         /\ list'.state = state /\ list'.prefix = list.prefix /\ list'.recursion = list.recursion
         /\ ListTarget' = ListTarget
<1>1. list \in [state : States, prefix : Prefix, recursion : BOOLEAN]
  BY DEF ListingTypeOK, States
<1>2. /\ list' \in [state : States, prefix : Prefix, recursion : BOOLEAN]
      /\ list'.state = state /\ list'.prefix = list.prefix /\ list'.recursion = list.recursion
  BY <1>1
<1> QED BY <1>2, SameTarget

LEMMA TargetObjects ==
  ASSUME ListingTypeOK
  PROVE  ListTarget \subseteq Object /\ Inside \subseteq Object /\ Object \subseteq Nat \ {0}
         /\ (list.prefix = "root" /\ list.recursion => ListTarget = Object)
         /\ (list.prefix = "root" /\ ~list.recursion => ListTarget = Object \ Inside)
<1>1. list.prefix \in Prefix /\ list.recursion \in BOOLEAN
  BY DEF ListingTypeOK
<1> QED BY <1>1, WantedCases, ListingAssumption DEF ListTarget

----------------------------------------------------------------------------
(* Each step keeps the invariant and is a step of Enumeration, or none.    *)

LEMMA ListingInvInit == ListingInit => ListingInv /\ Enumerates!EnumInit
<1> SUFFICES ASSUME ListingInit
             PROVE  ListingInv /\ Enumerates!EnumInit
  OBVIOUS
<1>1. ListingTypeOK
  <2>1. list = [state |-> "idle", prefix |-> "root", recursion |-> FALSE]
    BY DEF ListingInit
  <2>2. list \in [state : {"idle", "reading", "items", "calling", "complete", "failed"},
                 prefix : Prefix, recursion : BOOLEAN]
    BY <2>1 DEF Prefix
  <2>3. visited \in Seq(Object)
    BY DEF ListingInit
  <2> QED BY <2>2, <2>3 DEF ListingInit, ListingTypeOK
<1>2. list.state = "idle" /\ ~ListOpen
  BY DEF ListingInit, ListOpen
<1>3. ReadInv /\ LateInv
  BY DEF ListingInit, ReadInv, LateInv
<1>4. SeenInv /\ LeftInv /\ BeforeInv
  BY <1>2 DEF SeenInv, LeftInv, BeforeInv
<1>5. Enumerates!EnumInit
  BY <1>2 DEF ListingInit, Enumerates!EnumInit
<1> QED BY <1>1, <1>3, <1>4, <1>5 DEF ListingInv

\* Another object is put: it is seen when it is wanted.
LEMMA AddObjectStep ==
  ASSUME ListingInv, NEW o \in Object, AddObject(o)
  PROVE  ListingInv' /\ [Enumerates!EnumNext]_(Enumerates!enumVars)
<1> USE DEF readVars
<1>1. /\ UNCHANGED << backend, list, page, unread, token, nextToken, cancelled, late, visited, stable >>
      /\ stored' = stored \cup {o}
      /\ ListOpen' = ListOpen /\ ListTarget' = ListTarget
      /\ \A x : ToRead(x)' = ToRead(x) /\ Visited(x)' = Visited(x)
  BY DEF AddObject, ListOpen, ListTarget, Wanted, ToRead, Visited
<1>2. /\ seen' = seen \/ seen' = seen \cup {o}
      /\ ListOpen /\ o \in ListTarget => o \in seen'
  BY DEF AddObject
<1>3. ListingTypeOK'
  BY <1>1, <1>2 DEF ListingInv, ListingTypeOK
<1>4. ReadInv' /\ LateInv'
  BY <1>1 DEF ListingInv, ReadInv, LateInv
<1>5. SeenInv'
  BY <1>1, <1>2 DEF ListingInv, SeenInv
<1>6. LeftInv' /\ BeforeInv'
  BY <1>1 DEF ListingInv, LeftInv, BeforeInv
<1>7. [Enumerates!EnumNext]_(Enumerates!enumVars)
  <2>1. CASE seen' = seen
    BY <1>1, <2>1 DEF Enumerates!enumVars
  <2>2. CASE seen' = seen \cup {o}
    BY <1>1, <2>2 DEF Enumerates!EnumNext, Enumerates!Added
  <2> QED BY <1>2, <2>1, <2>2
<1> QED BY <1>3, <1>4, <1>5, <1>6, <1>7 DEF ListingInv

\* Another object is deleted: it does not stay.
LEMMA RemoveObjectStep ==
  ASSUME ListingInv, NEW o \in Object, RemoveObject(o)
  PROVE  ListingInv' /\ [Enumerates!EnumNext]_(Enumerates!enumVars)
<1> USE DEF readVars
<1>1. /\ UNCHANGED << backend, list, page, unread, token, nextToken, cancelled, late, visited, seen >>
      /\ stored' = stored \ {o} /\ stable' = stable \ {o}
      /\ ListOpen' = ListOpen /\ ListTarget' = ListTarget
      /\ \A x : ToRead(x)' = ToRead(x) /\ Visited(x)' = Visited(x)
  BY DEF RemoveObject, ListOpen, ListTarget, Wanted, ToRead, Visited
<1>2. ListingTypeOK'
  BY <1>1 DEF ListingInv, ListingTypeOK
<1>3. ReadInv' /\ LateInv'
  BY <1>1 DEF ListingInv, ReadInv, LateInv
<1>4. SeenInv' /\ LeftInv' /\ BeforeInv'
  BY <1>1 DEF ListingInv, SeenInv, LeftInv, BeforeInv
<1>5. Enumerates!EnumNext
  BY <1>1 DEF Enumerates!EnumNext, Enumerates!Removed
<1> QED BY <1>2, <1>3, <1>4, <1>5 DEF ListingInv

LEMMA CancelListStep ==
  ASSUME ListingInv, CancelList
  PROVE  ListingInv' /\ [Enumerates!EnumNext]_(Enumerates!enumVars)
<1> USE DEF readVars, historyVars
<1>1. /\ UNCHANGED << backend, stored, list, page, unread, token, nextToken, late, visited, seen, stable >>
      /\ cancelled' = TRUE
      /\ ListOpen' = ListOpen /\ ListTarget' = ListTarget
      /\ \A x : ToRead(x)' = ToRead(x) /\ Visited(x)' = Visited(x)
  BY DEF CancelList, ListOpen, ListTarget, Wanted, ToRead, Visited
<1>2. ListingTypeOK'
  BY <1>1 DEF ListingInv, ListingTypeOK
<1>3. ReadInv' /\ LateInv'
  BY <1>1 DEF ListingInv, ReadInv, LateInv
<1>4. SeenInv' /\ LeftInv' /\ BeforeInv'
  BY <1>1 DEF ListingInv, SeenInv, LeftInv, BeforeInv
<1>5. Enumerates!EnumNext
  BY <1>1 DEF Enumerates!EnumNext, Enumerates!Cancelled
<1> QED BY <1>2, <1>3, <1>4, <1>5 DEF ListingInv

\* A listing begins with what is there.
LEMMA ListObjectStep ==
  ASSUME ListingInv, NEW prefix \in Prefix, NEW recursion \in BOOLEAN, ListObject(prefix, recursion)
  PROVE  ListingInv' /\ [Enumerates!EnumNext]_(Enumerates!enumVars)
<1>1. /\ UNCHANGED << backend, stored, page, unread, token, nextToken, cancelled, late, visited >>
      /\ list.state = "idle"
      /\ list' = [state |-> "reading", prefix |-> prefix, recursion |-> recursion]
      /\ seen' = stored \cap Wanted(prefix, recursion) /\ stable' = seen'
  BY DEF ListObject, readVars
<1>2. /\ ~ListOpen /\ ListOpen'
      /\ ListTarget' = Wanted(prefix, recursion)
      /\ seen' \subseteq Object
      /\ page = {} /\ ~unread /\ token = 0 /\ nextToken = 0 /\ visited = << >>
  BY <1>1, WantedCases DEF ListOpen, ListTarget, Wanted, ListingInv, ReadInv
<1>3. ListingTypeOK'
  BY <1>1, <1>2 DEF ListingInv, ListingTypeOK
<1>4. ReadInv' /\ LateInv'
  BY <1>1, <1>2 DEF ListingInv, ReadInv, LateInv
<1>5. SeenInv'
  BY <1>1, <1>2 DEF SeenInv
<1>6. LeftInv'
  <2>1. \A o \in stable' : o > 0
    BY <1>1, <1>2, ListingAssumption
  <2> QED BY <1>1, <1>2, <2>1 DEF LeftInv, ToRead
<1>7. BeforeInv'
  BY <1>1, <1>2 DEF BeforeInv
<1>8. Enumerates!EnumNext
  BY <1>1, <1>2 DEF Enumerates!EnumNext, Enumerates!Open
<1> QED BY <1>3, <1>4, <1>5, <1>6, <1>7, <1>8 DEF ListingInv

\* A step of an open listing that goes on and calls nobody is none of
\* Enumeration.
LEMMA GoesOn ==
  ASSUME ListingInv, ListOpen, NEW state \in {"reading", "items", "calling"}, Goto(state), late' = late,
         state = "calling" => late = 0
  PROVE  /\ list' \in [state : States, prefix : Prefix, recursion : BOOLEAN]
         /\ list'.state = state /\ list'.prefix = list.prefix /\ list'.recursion = list.recursion
         /\ ListTarget' = ListTarget /\ ListOpen' /\ LateInv'
         /\ \A o : Visited(o)' = Visited(o)
         /\ UNCHANGED << backend, stored, cancelled, visited, seen, stable >>
         /\ UNCHANGED Enumerates!enumVars
<1>1. UNCHANGED << backend, stored, cancelled, visited, seen, stable >>
  BY DEF Goto, historyVars
<1>2. list' = [list EXCEPT !.state = state] /\ state \in States /\ backend' = backend
  BY DEF Goto, States
<1>3. /\ list' \in [state : States, prefix : Prefix, recursion : BOOLEAN]
      /\ list'.state = state /\ list'.prefix = list.prefix /\ list'.recursion = list.recursion
      /\ ListTarget' = ListTarget
  BY <1>2, GoneTo DEF ListingInv
<1>4. ListOpen'
  BY <1>3 DEF ListOpen
<1>5. LateInv'
  BY <1>1, <1>3 DEF ListingInv, LateInv
<1>6. \A o : Visited(o)' = Visited(o)
  BY <1>1 DEF Visited
<1>7. UNCHANGED Enumerates!enumVars
  BY <1>1, <1>4 DEF Enumerates!enumVars
<1> QED BY <1>1, <1>3, <1>4, <1>5, <1>6, <1>7

\* The root is read: what stays is on the page or in the directory.
LEMMA WalkRootStep ==
  ASSUME ListingInv, WalkRoot
  PROVE  ListingInv' /\ [Enumerates!EnumNext]_(Enumerates!enumVars)
<1>1. /\ backend = "fs" /\ list.state = "reading" /\ Goto("items") /\ late' = late
      /\ page' = stored \cap IF list.prefix = "root" THEN Object \ Inside ELSE ListTarget
      /\ unread' = (list.prefix = "root" /\ list.recursion /\ Inside # {})
      /\ UNCHANGED << token, nextToken >>
  BY DEF WalkRoot
<1>2. ListOpen
  BY <1>1 DEF ListOpen
<1>3. /\ list' \in [state : States, prefix : Prefix, recursion : BOOLEAN]
      /\ list'.state = "items" /\ list'.prefix = list.prefix /\ list'.recursion = list.recursion
      /\ ListTarget' = ListTarget /\ ListOpen' /\ LateInv'
      /\ UNCHANGED << backend, stored, cancelled, visited, seen, stable >>
      /\ UNCHANGED Enumerates!enumVars
  BY <1>1, <1>2, GoesOn
<1>4. token = 0 /\ nextToken = 0 /\ visited = << >> /\ page = {} /\ ~unread
  BY <1>1 DEF ListingInv, ReadInv
<1>5. list.recursion \in BOOLEAN
  BY DEF ListingInv, ListingTypeOK
<1>6. page' \subseteq stored \cap ListTarget
      /\ \A o \in stored \cap ListTarget : o \in page' \/ (unread' /\ o \in Inside)
  BY <1>1, <1>5, TargetObjects DEF ListingInv
<1>7. ListingTypeOK'
  BY <1>1, <1>3, <1>5, <1>6, TargetObjects DEF ListingInv, ListingTypeOK, States
<1>8. ReadInv'
  BY <1>1, <1>3, <1>4, <1>5 DEF ReadInv
<1>9. SeenInv'
  BY <1>2, <1>3, <1>6 DEF ListingInv, SeenInv
<1>10. LeftInv'
  BY <1>2, <1>3, <1>6 DEF ListingInv, SeenInv, LeftInv, ToRead
<1>11. BeforeInv'
  BY <1>1, <1>3, <1>4 DEF BeforeInv
<1> QED BY <1>3, <1>7, <1>8, <1>9, <1>10, <1>11 DEF ListingInv

\* The directory is read, after all that was visited.
LEMMA WalkDirectoryStep ==
  ASSUME ListingInv, WalkDirectory
  PROVE  ListingInv' /\ [Enumerates!EnumNext]_(Enumerates!enumVars)
<1>1. /\ list.state = "items" /\ unread /\ Goto("items") /\ late' = late
      /\ page' = page \cup (stored \cap Inside)
      /\ unread' = FALSE
      /\ UNCHANGED << token, nextToken >>
  BY DEF WalkDirectory
<1>2. ListOpen
  BY <1>1 DEF ListOpen
<1>3. /\ list' \in [state : States, prefix : Prefix, recursion : BOOLEAN]
      /\ list'.state = "items" /\ list'.prefix = list.prefix /\ list'.recursion = list.recursion
      /\ ListTarget' = ListTarget /\ ListOpen' /\ LateInv'
      /\ \A o : Visited(o)' = Visited(o)
      /\ UNCHANGED << backend, stored, cancelled, visited, seen, stable >>
      /\ UNCHANGED Enumerates!enumVars
  BY <1>1, <1>2, GoesOn
<1>4. ListTarget = Object /\ Inside \subseteq Object /\ backend = "fs" /\ nextToken = 0
  BY <1>1, TargetObjects DEF ListingInv, ListingTypeOK, ReadInv
<1>5. ListingTypeOK'
  BY <1>1, <1>3, <1>4 DEF ListingInv, ListingTypeOK, States
<1>6. ReadInv'
  BY <1>1, <1>3 DEF ListingInv, ReadInv
<1>7. SeenInv'
  BY <1>1, <1>2, <1>3, <1>4 DEF ListingInv, SeenInv
<1>8. LeftInv'
  BY <1>1, <1>2, <1>3, <1>4 DEF ListingInv, LeftInv, SeenInv, ToRead
<1>9. BeforeInv'
  BY <1>1, <1>2, <1>3, <1>4 DEF ListingInv, BeforeInv
<1> QED BY <1>3, <1>5, <1>6, <1>7, <1>8, <1>9 DEF ListingInv

\* A page is answered: what stays is on it or after the next token.
LEMMA ListPageStep ==
  ASSUME ListingInv, ListPage
  PROVE  ListingInv' /\ [Enumerates!EnumNext]_(Enumerates!enumVars)
<1>1. /\ backend # "fs" /\ list.state = "reading" /\ Goto("items")
      /\ UNCHANGED << unread, token, late >>
  BY DEF ListPage
<1>2. ListOpen
  BY <1>1 DEF ListOpen
<1>3. /\ list' \in [state : States, prefix : Prefix, recursion : BOOLEAN]
      /\ list'.state = "items" /\ list'.prefix = list.prefix /\ list'.recursion = list.recursion
      /\ ListTarget' = ListTarget /\ ListOpen' /\ LateInv'
      /\ \A o : Visited(o)' = Visited(o)
      /\ UNCHANGED << backend, stored, cancelled, visited, seen, stable >>
      /\ UNCHANGED Enumerates!enumVars
  BY <1>1, <1>2, GoesOn
<1>4. token = nextToken /\ page = {} /\ ~unread /\ ~unread' /\ (token = 0 => visited = << >>)
  BY <1>1 DEF ListingInv, ReadInv
<1>5. /\ nextToken \in Nat /\ token \in Nat /\ \A o \in Object : o \in Nat /\ o # 0
      /\ ListTarget \subseteq Object
      /\ visited \in Seq(Object)
  BY TargetObjects DEF ListingInv, ListingTypeOK
<1>6. /\ nextToken' \in Object \cup {0}
      /\ page' \subseteq After(token)
      /\ \A o \in After(token) : o \in page' \/ (nextToken' # 0 /\ o > nextToken')
      /\ nextToken' # 0 => nextToken' > token /\ \A o \in page' : ~(o > nextToken')
  <2>1. \A t : \A o \in After(t) : o \in stored \cap ListTarget /\ o > t
    BY DEF After
  <2>2. \A t : \A o \in stored \cap ListTarget : o > t => o \in After(t)
    BY DEF After
  <2>3. CASE nextToken' = 0 /\ page' = After(token)
    BY <2>3
  <2>4. CASE nextToken' \in Object /\ nextToken' > token /\ page' = After(token) \ After(nextToken')
    BY <1>5, <2>1, <2>2, <2>4
  <2> QED BY <2>3, <2>4 DEF ListPage
<1>7. page' \subseteq stored \cap ListTarget /\ \A o \in page' : o > token
  BY <1>6 DEF After
<1>8. ListingTypeOK'
  BY <1>1, <1>3, <1>5, <1>6, <1>7 DEF ListingInv, ListingTypeOK, States
<1>9. ReadInv'
  BY <1>1, <1>3, <1>4 DEF ReadInv
<1>10. SeenInv'
  BY <1>2, <1>3, <1>7 DEF ListingInv, SeenInv
<1>11. LeftInv'
  <2>1. ASSUME NEW o \in stable
        PROVE  Visited(o) \/ o \in page' \/ (nextToken' # 0 /\ o > nextToken')
    <3>1. Visited(o) \/ o > token
      BY <1>2, <1>4 DEF ListingInv, LeftInv, ToRead
    <3>2. o \in stored \cap ListTarget
      BY <1>2 DEF ListingInv, SeenInv
    <3>3. o > token => o \in After(token)
      BY <3>2 DEF After
    <3> QED BY <1>6, <3>1, <3>3
  <2> QED BY <1>3, <2>1 DEF LeftInv, ToRead
<1>12. BeforeInv'
  <2>1. ASSUME NEW i \in DOMAIN visited
        PROVE  visited[i] \in Nat /\ visited[i] <= token
    <3>1. token # 0
      BY <1>4
    <3> QED BY <1>2, <1>4, <1>5, <3>1 DEF ListingInv, BeforeInv
  <2>2. \A o \in page' : o \in Nat
    BY <1>5, <1>7
  <2>3. \A i \in DOMAIN visited : \A o \in page' : visited[i] < o
    BY <1>5, <1>7, <2>1, <2>2
  <2>4. nextToken' # 0 => nextToken' \in Nat
    BY <1>5, <1>6
  <2>5. nextToken' # 0 => \A o \in page' : o <= nextToken'
    BY <1>6, <2>2, <2>4
  <2>6. nextToken' # 0 => \A i \in DOMAIN visited : visited[i] <= nextToken'
    BY <1>5, <1>6, <2>1, <2>4
  <2> QED BY <1>3, <1>4, <2>3, <2>5, <2>6 DEF BeforeInv
<1> QED BY <1>3, <1>8, <1>9, <1>10, <1>11, <1>12 DEF ListingInv

\* The next page begins after what was visited.
LEMMA NextPageStep ==
  ASSUME ListingInv, NextPage
  PROVE  ListingInv' /\ [Enumerates!EnumNext]_(Enumerates!enumVars)
<1>1. /\ backend # "fs" /\ list.state = "items" /\ page = {} /\ nextToken # 0
      /\ token' = nextToken /\ Goto("reading")
      /\ UNCHANGED << page, unread, nextToken, late >>
  BY DEF NextPage
<1>2. ListOpen
  BY <1>1 DEF ListOpen
<1>3. /\ list' \in [state : States, prefix : Prefix, recursion : BOOLEAN]
      /\ list'.state = "reading" /\ list'.prefix = list.prefix /\ list'.recursion = list.recursion
      /\ ListTarget' = ListTarget /\ ListOpen' /\ LateInv'
      /\ \A o : Visited(o)' = Visited(o)
      /\ UNCHANGED << backend, stored, cancelled, visited, seen, stable >>
      /\ UNCHANGED Enumerates!enumVars
  BY <1>1, <1>2, GoesOn
<1>4. ~unread
  BY <1>1 DEF ListingInv, ReadInv
<1>5. ListingTypeOK'
  BY <1>1, <1>3 DEF ListingInv, ListingTypeOK, States
<1>6. ReadInv'
  BY <1>1, <1>3, <1>4 DEF ReadInv
<1>7. SeenInv'
  BY <1>1, <1>2, <1>3 DEF ListingInv, SeenInv
<1>8. LeftInv'
  BY <1>1, <1>2, <1>3 DEF ListingInv, LeftInv, ToRead
<1>9. BeforeInv'
  BY <1>1, <1>2, <1>3 DEF ListingInv, BeforeInv
<1> QED BY <1>3, <1>5, <1>6, <1>7, <1>8, <1>9 DEF ListingInv

\* The context is looked at: a callback that follows is the first since then.
LEMMA CheckItemStep ==
  ASSUME ListingInv, NEW o \in Object, CheckItem(o)
  PROVE  ListingInv' /\ [Enumerates!EnumNext]_(Enumerates!enumVars)
<1>1. /\ list.state = "items" /\ ~cancelled /\ Goto("calling")
      /\ UNCHANGED << page, unread, token, nextToken, late >>
  BY DEF CheckItem, readVars
<1>2. ListOpen /\ late = 0
  BY <1>1 DEF ListOpen, ListingInv, LateInv
<1>3. /\ list' \in [state : States, prefix : Prefix, recursion : BOOLEAN]
      /\ list'.state = "calling" /\ list'.prefix = list.prefix /\ list'.recursion = list.recursion
      /\ ListTarget' = ListTarget /\ ListOpen' /\ LateInv'
      /\ \A x : Visited(x)' = Visited(x)
      /\ UNCHANGED << backend, stored, cancelled, visited, seen, stable >>
      /\ UNCHANGED Enumerates!enumVars
  BY <1>1, <1>2, GoesOn
<1>4. ListingTypeOK'
  BY <1>1, <1>3 DEF ListingInv, ListingTypeOK, States
<1>5. ReadInv'
  BY <1>1, <1>3 DEF ListingInv, ReadInv
<1>6. SeenInv'
  BY <1>1, <1>2, <1>3 DEF ListingInv, SeenInv
<1>7. LeftInv'
  BY <1>1, <1>2, <1>3 DEF ListingInv, LeftInv, ToRead
<1>8. BeforeInv'
  BY <1>1, <1>2, <1>3 DEF ListingInv, BeforeInv
<1> QED BY <1>3, <1>4, <1>5, <1>6, <1>7, <1>8 DEF ListingInv

\* The next object is visited: it was seen, and comes after all that were.
LEMMA CallbackItemStep ==
  ASSUME ListingInv, NEW o \in Object, CallbackItem(o)
  PROVE  ListingInv' /\ [Enumerates!EnumNext]_(Enumerates!enumVars)
<1>1. /\ list.state = "calling" /\ o \in page /\ \A p \in page : o <= p
      /\ unread => \A i \in Inside : o < i
      /\ visited' = Append(visited, o) /\ page' = page \ {o}
      /\ late' = IF cancelled THEN late + 1 ELSE late
      /\ list' = [list EXCEPT !.state = "items"]
      /\ UNCHANGED << backend, stored, unread, token, nextToken, cancelled, seen, stable >>
  BY DEF CallbackItem, AtItem
<1>2. ListOpen
  BY <1>1 DEF ListOpen
<1>3. /\ list' \in [state : States, prefix : Prefix, recursion : BOOLEAN]
      /\ list'.state = "items" /\ list'.prefix = list.prefix /\ list'.recursion = list.recursion
      /\ ListTarget' = ListTarget
  BY <1>1, GoneTo DEF ListingInv, States
<1>4. ListOpen'
  BY <1>3 DEF ListOpen
<1>5. late = 0 /\ late' = IF cancelled THEN 1 ELSE 0
  BY <1>1 DEF ListingInv, LateInv
<1>6. /\ visited \in Seq(Object) /\ page \subseteq Object /\ Object \subseteq Nat
      /\ nextToken \in Nat
  BY TargetObjects DEF ListingInv, ListingTypeOK
<1>7. /\ visited' \in Seq(Object)
      /\ DOMAIN visited' = DOMAIN visited \cup {Len(visited) + 1}
      /\ visited'[Len(visited) + 1] = o
      /\ \A i \in DOMAIN visited : visited'[i] = visited[i] /\ visited[i] \in Nat
  BY <1>1, <1>6
<1>8. ListingTypeOK'
  BY <1>1, <1>3, <1>5, <1>7 DEF ListingInv, ListingTypeOK, States
<1>9. ReadInv'
  BY <1>1, <1>3 DEF ListingInv, ReadInv
<1>10. SeenInv'
  BY <1>1, <1>2, <1>3 DEF ListingInv, SeenInv
<1>11. LeftInv'
  <2>1. \A x : Visited(x) \/ x = o => Visited(x)'
    BY <1>7 DEF Visited
  <2>2. \A x : ToRead(x) => ToRead(x)'
    BY <1>1 DEF ToRead
  <2> QED BY <1>1, <1>2, <2>1, <2>2 DEF ListingInv, LeftInv
<1>12. BeforeInv'
  <2>1. nextToken # 0 => \A p \in page' : p <= nextToken
    BY <1>1, <1>2 DEF ListingInv, BeforeInv
  <2>2. \A p \in page' : o < p
    BY <1>1, <1>6
  <2>3. nextToken # 0 => o <= nextToken
    BY <1>1, <1>2 DEF ListingInv, BeforeInv
  <2>4. ASSUME NEW i \in DOMAIN visited'
        PROVE  /\ \A p \in page' : visited'[i] < p
               /\ unread => \A p \in Inside : visited'[i] < p
               /\ nextToken # 0 => visited'[i] <= nextToken
    <3>1. CASE i = Len(visited) + 1
      BY <1>1, <1>7, <2>2, <2>3, <3>1
    <3>2. CASE i \in DOMAIN visited
      BY <1>1, <1>2, <1>7, <3>2 DEF ListingInv, BeforeInv
    <3> QED BY <1>7, <3>1, <3>2
  <2> QED BY <1>1, <2>1, <2>4 DEF BeforeInv
<1>13. LateInv'
  BY <1>1, <1>3, <1>5 DEF LateInv
<1>14. Enumerates!EnumNext
  <2>1. o \in seen
    BY <1>1, <1>2 DEF ListingInv, SeenInv
  <2>2. \A i \in DOMAIN visited : visited[i] < o
    BY <1>1, <1>2 DEF ListingInv, BeforeInv
  <2> QED BY <1>1, <1>2, <1>4, <1>5, <2>1, <2>2 DEF Enumerates!EnumNext, Enumerates!Visit
<1> QED BY <1>8, <1>9, <1>10, <1>11, <1>12, <1>13, <1>14 DEF ListingInv

\* Once a listing is over, only its history is looked at.
LEMMA Over ==
  ASSUME ListingInv, ListOpen, NEW state \in {"complete", "failed"}, Goto(state),
         UNCHANGED << page, unread, token, nextToken, late >>
  PROVE  ListingInv' /\ list'.state = state /\ ~ListOpen'
         /\ UNCHANGED << visited, seen, stable, cancelled, late >>
<1>1. UNCHANGED << backend, stored, cancelled, visited, seen, stable >>
  BY DEF Goto, historyVars
<1>2. list' = [list EXCEPT !.state = state] /\ state \in States
  BY DEF Goto, States
<1>3. /\ list' \in [state : States, prefix : Prefix, recursion : BOOLEAN]
      /\ list'.state = state /\ list'.prefix = list.prefix /\ list'.recursion = list.recursion
  BY <1>1, <1>2, GoneTo DEF ListingInv
<1>4. ~ListOpen'
  BY <1>3 DEF ListOpen
<1>5. ListingTypeOK'
  BY <1>1, <1>3 DEF ListingInv, ListingTypeOK, States
<1>6. ReadInv' /\ LateInv'
  BY <1>1, <1>3 DEF ListingInv, ReadInv, LateInv
<1>7. SeenInv' /\ LeftInv' /\ BeforeInv'
  BY <1>4 DEF SeenInv, LeftInv, BeforeInv
<1> QED BY <1>1, <1>3, <1>4, <1>5, <1>6, <1>7 DEF ListingInv

\* Nothing is left to read: what stayed was visited.
LEMMA ListReturnsStep ==
  ASSUME ListingInv, ListReturns
  PROVE  ListingInv' /\ [Enumerates!EnumNext]_(Enumerates!enumVars)
<1>1. /\ list.state = "items" /\ page = {} /\ ~unread /\ nextToken = 0 /\ Goto("complete")
      /\ UNCHANGED << page, unread, token, nextToken, late >>
  BY DEF ListReturns, readVars
<1>2. ListOpen
  BY <1>1 DEF ListOpen
<1>3. ListingInv' /\ list'.state = "complete" /\ ~ListOpen'
      /\ UNCHANGED << visited, seen, stable, cancelled, late >>
  BY <1>1, <1>2, Over
<1>4. \A o \in stable : Visited(o)
  BY <1>1, <1>2 DEF ListingInv, LeftInv, ToRead
<1>5. Enumerates!EnumNext
  BY <1>2, <1>3, <1>4 DEF Visited, Enumerates!EnumNext, Enumerates!Complete
<1> QED BY <1>3, <1>5

LEMMA ListFailsStep ==
  ASSUME ListingInv, ListFails
  PROVE  ListingInv' /\ [Enumerates!EnumNext]_(Enumerates!enumVars)
<1>1. /\ list.state \in {"items", "reading"} /\ Goto("failed")
      /\ UNCHANGED << page, unread, token, nextToken, late >>
  BY DEF ListFails, readVars
<1>2. ListOpen
  BY <1>1 DEF ListOpen
<1>3. ListingInv' /\ list'.state = "failed" /\ ~ListOpen'
      /\ UNCHANGED << visited, seen, stable, cancelled, late >>
  BY <1>1, <1>2, Over
<1>4. Enumerates!EnumNext
  BY <1>2, <1>3 DEF Enumerates!EnumNext, Enumerates!Fail
<1> QED BY <1>3, <1>4

LEMMA ListingStep ==
  ASSUME ListingInv, [ListingNext]_listingVars
  PROVE  ListingInv' /\ [Enumerates!EnumNext]_(Enumerates!enumVars)
<1>1. CASE \E o \in Object : AddObject(o) \/ RemoveObject(o)
  BY <1>1, AddObjectStep, RemoveObjectStep
<1>2. CASE CancelList
  BY <1>2, CancelListStep
<1>3. CASE \E prefix \in Prefix, recursion \in BOOLEAN : ListObject(prefix, recursion)
  BY <1>3, ListObjectStep
<1>4. CASE WalkRoot \/ WalkDirectory
  BY <1>4, WalkRootStep, WalkDirectoryStep
<1>5. CASE ListPage \/ NextPage
  BY <1>5, ListPageStep, NextPageStep
<1>6. CASE \E o \in Object : CheckItem(o) \/ CallbackItem(o)
  BY <1>6, CheckItemStep, CallbackItemStep
<1>7. CASE ListReturns \/ ListFails
  BY <1>7, ListReturnsStep, ListFailsStep
<1>8. CASE UNCHANGED listingVars
  <2>1. UNCHANGED << backend, stored, list, page, unread, token, nextToken, cancelled, late,
                     visited, seen, stable >>
    BY <1>8 DEF listingVars, readVars, historyVars
  <2>2. ListOpen' = ListOpen /\ ListTarget' = ListTarget
        /\ \A x : ToRead(x)' = ToRead(x) /\ Visited(x)' = Visited(x)
    BY <2>1 DEF ListOpen, ListTarget, Wanted, ToRead, Visited
  <2>3. ListingInv'
    BY <2>1, <2>2 DEF ListingInv, ListingTypeOK, ReadInv, SeenInv, LeftInv, BeforeInv, LateInv
  <2> QED BY <2>1, <2>2, <2>3 DEF Enumerates!enumVars
<1> QED BY <1>1, <1>2, <1>3, <1>4, <1>5, <1>6, <1>7, <1>8 DEF ListingNext, ListStep

----------------------------------------------------------------------------
(* Theorems about the listing.                                             *)

\* Every reachable state of a listing has its types, whatever the objects and
\* the size of a page are.
THEOREM ListingTypeCorrect == ListingSpec => []ListingTypeOK
<1>1. ListingInit => ListingInv
  BY ListingInvInit
<1>2. ListingInv /\ [ListingNext]_listingVars => ListingInv'
  BY ListingStep
<1>3. ListingInv => ListingTypeOK
  BY DEF ListingInv
<1> QED BY <1>1, <1>2, <1>3, PTL DEF ListingSpec

\* A listing of a file system or of an object store, page by page or directory
\* by directory, is an enumeration of what it is to list, whatever is put and
\* deleted meanwhile: ListObject implements Enumeration.
THEOREM ListsObjectsHolds == ListingSpec => ListsObjects
<1>1. ListingInit => ListingInv /\ Enumerates!EnumInit
  BY ListingInvInit
<1>2. ListingInv /\ [ListingNext]_listingVars
        => ListingInv' /\ [Enumerates!EnumNext]_(Enumerates!enumVars)
  BY ListingStep
<1> QED BY <1>1, <1>2, PTL DEF ListingSpec, ListsObjects, Enumerates!EnumSpec

----------------------------------------------------------------------------
(* How far a listing has still to go.                                      *)

Later(S, t) == {m \in S : m > t}

\* Fewer members of a finite set come after a later place.
LEMMA FewerLater ==
  ASSUME NEW S, IsFiniteSet(S), S \subseteq Nat, NEW t \in Nat
  PROVE  /\ Cardinality(Later(S, t)) \in Nat
         /\ Cardinality(Later(S, t)) <= Cardinality(S)
         /\ \A n \in S : n > t => Cardinality(Later(S, n)) < Cardinality(Later(S, t))
<1>1. Later(S, t) \in SUBSET S
  BY DEF Later
<1>2. /\ IsFiniteSet(Later(S, t)) /\ Cardinality(Later(S, t)) \in Nat
      /\ Cardinality(Later(S, t)) <= Cardinality(S)
  BY <1>1, FS_Subset, FS_CardinalityType
<1>3. ASSUME NEW n \in S, n > t
      PROVE  Cardinality(Later(S, n)) < Cardinality(Later(S, t))
  <2>1. n \in Later(S, t) /\ n \notin Later(S, n)
    BY <1>3 DEF Later
  <2>2. \A m \in S : m > n => m > t
    BY <1>3
  <2>3. Later(S, n) \in SUBSET Later(S, t)
    BY <2>2 DEF Later
  <2>4. /\ IsFiniteSet(Later(S, n)) /\ Cardinality(Later(S, n)) \in Nat
        /\ Cardinality(Later(S, n)) <= Cardinality(Later(S, t))
        /\ Cardinality(Later(S, t)) # Cardinality(Later(S, n))
    BY <1>2, <2>1, <2>3, FS_Subset, FS_CardinalityType
  <2> QED BY <1>2, <2>4
<1> QED BY <1>2, <1>3

\* Whatever is read of a finite set, there is no more of it.
LEMMA PartOfAll ==
  ASSUME NEW S, IsFiniteSet(S), NEW p \in SUBSET S
  PROVE  /\ Cardinality(S) \in Nat /\ Cardinality(p) \in 0 .. Cardinality(S)
         /\ \A o \in p : Cardinality(p \ {o}) = Cardinality(p) - 1
<1>1. IsFiniteSet(p) /\ Cardinality(p) <= Cardinality(S)
  BY FS_Subset
<1>2. Cardinality(p) \in Nat /\ Cardinality(S) \in Nat
  BY <1>1, FS_CardinalityType
<1> QED BY <1>1, <1>2, FS_RemoveElement

\* One page less weighs more than all there is to do with a page.
LEMMA PageLess ==
  ASSUME NEW a \in Nat, NEW b \in Nat, a < b, NEW most \in Nat, NEW r \in Nat, NEW s \in Nat,
         r < most
  PROVE  a * most + r < b * most + s
<1>1. b - a - 1 \in Nat /\ b = a + 1 + (b - a - 1)
  OBVIOUS
<1>2. PICK k \in Nat : b = a + 1 + k
  BY <1>1
<1>3. b * most = a * most + most + k * most /\ k * most \in Nat /\ a * most \in Nat
  BY <1>2
<1> QED BY <1>3

LEMMA ProductType ==
  ASSUME NEW a \in Nat, NEW b \in Nat
  PROVE  a * b \in Nat
OBVIOUS

LEMMA ItemsLess ==
  ASSUME NEW a \in Nat, NEW most \in Nat, NEW r \in Nat, NEW s \in Nat, r < s
  PROVE  a * most + r < a * most + s
<1>1. PICK n \in Nat : n = a * most
  OBVIOUS
<1> QED BY <1>1

\* Pages still to be read, and what is still to be done with what was read: the
\* directory may bring as much as there is, and each object takes two steps.
PagesLeft ==
  IF list.state = "reading" \/ nextToken # 0
  THEN Cardinality(Later(Object, nextToken)) + 1
  ELSE 0

ItemsLeft ==
  (IF unread THEN 2 * Cardinality(Object) + 1 ELSE 0) + 2 * Cardinality(page)
    + (IF list.state = "items" THEN 2 ELSE IF list.state = "calling" THEN 1 ELSE 0)

ListMost == 4 * Cardinality(Object) + 4

\* Steps that a listing can still take.
ListLeft ==
  CASE list.state = "idle" -> (Cardinality(Object) + 2) * ListMost
    [] ListOpen            -> PagesLeft * ListMost + ItemsLeft
    [] OTHER               -> 0

\* A step of a call leaves less to do, and puts, deletes and a context that is
\* done leave as much.
ListAdvances ==
  IF UNCHANGED << stored, cancelled >> THEN ListLeft' < ListLeft ELSE ListLeft' = ListLeft

\* The bounds of the parts.
LEMMA ListLeftTypes ==
  ASSUME IsFiniteSet(Object), ListingTypeOK
  PROVE  /\ PagesLeft \in Nat /\ PagesLeft <= Cardinality(Object) + 1
         /\ ItemsLeft \in Nat /\ ItemsLeft < ListMost
         /\ ListLeft \in Nat
<1>1. Cardinality(Object) \in Nat /\ Cardinality(page) \in 0 .. Cardinality(Object)
  BY PartOfAll DEF ListingTypeOK
<1>2. nextToken \in Nat /\ Object \subseteq Nat
  BY ListingAssumption DEF ListingTypeOK
<1>3. /\ Cardinality(Later(Object, nextToken)) \in Nat
      /\ Cardinality(Later(Object, nextToken)) <= Cardinality(Object)
  BY <1>2, FewerLater
<1>4. PagesLeft \in Nat /\ PagesLeft <= Cardinality(Object) + 1
  BY <1>1, <1>3 DEF PagesLeft
<1>5. ItemsLeft \in Nat /\ ItemsLeft < ListMost
  BY <1>1 DEF ItemsLeft, ListMost, ListingTypeOK
<1>6. ListMost \in Nat
  BY <1>1 DEF ListMost
<1>7. PagesLeft * ListMost \in Nat /\ (Cardinality(Object) + 2) * ListMost \in Nat
  BY <1>1, <1>4, <1>6
<1> QED BY <1>4, <1>5, <1>7 DEF ListLeft, ListOpen

\* A call that goes on does less: fewer pages, or as many and less of this one.
LEMMA LessToList ==
  ASSUME IsFiniteSet(Object), ListingTypeOK, ListingTypeOK', ListOpen, ListOpen',
         \/ PagesLeft' < PagesLeft
         \/ PagesLeft' = PagesLeft /\ ItemsLeft' < ItemsLeft
  PROVE  ListLeft' < ListLeft
<1>1. Cardinality(Object) \in Nat /\ ListMost \in Nat
  BY FS_CardinalityType DEF ListMost
<1>2. /\ ListMost' = ListMost /\ ListMost \in Nat
      /\ PagesLeft \in Nat /\ ItemsLeft \in Nat
  BY <1>1, ListLeftTypes DEF ListMost
<1>3. PagesLeft' \in Nat /\ ItemsLeft' \in Nat /\ ItemsLeft' < ListMost
  <2>1. Cardinality(Object) \in Nat /\ Cardinality(page') \in 0 .. Cardinality(Object)
    BY PartOfAll DEF ListingTypeOK
  <2>2. nextToken' \in Nat /\ Object \subseteq Nat
    BY ListingAssumption DEF ListingTypeOK
  <2>3. Cardinality(Later(Object, nextToken')) \in Nat
    BY <2>2, FewerLater
  <2>4. PagesLeft' \in Nat
    BY <2>1, <2>3 DEF PagesLeft
  <2>5. ItemsLeft' \in Nat /\ ItemsLeft' < ListMost
    <3>1. /\ (IF unread' THEN 2 * Cardinality(Object) + 1 ELSE 0) \in 0 .. 2 * Cardinality(Object) + 1
          /\ (IF list'.state = "items" THEN 2 ELSE IF list'.state = "calling" THEN 1 ELSE 0) \in 0 .. 2
      BY <2>1
    <3> QED BY <2>1, <3>1 DEF ItemsLeft, ListMost
  <2> QED BY <2>4, <2>5
<1>4. /\ ListLeft = PagesLeft * ListMost + ItemsLeft
      /\ ListLeft' = PagesLeft' * ListMost + ItemsLeft'
  BY <1>2 DEF ListLeft, ListOpen
<1>5. CASE PagesLeft' < PagesLeft
  BY <1>2, <1>3, <1>4, <1>5, PageLess
<1>6. CASE PagesLeft' = PagesLeft /\ ItemsLeft' < ItemsLeft
  BY <1>2, <1>3, <1>4, <1>6, ItemsLess
<1> QED BY <1>5, <1>6

LEMMA ListStepAdvances ==
  ASSUME IsFiniteSet(Object), ListingInv, ListingInv', ListStep
  PROVE  ListLeft' < ListLeft
<1> USE DEF ListingInv
<1>1. /\ Cardinality(Object) \in Nat
      /\ Cardinality(page) \in 0 .. Cardinality(Object)
      /\ Cardinality(page') \in 0 .. Cardinality(Object)
      /\ \A o \in page : Cardinality(page \ {o}) = Cardinality(page) - 1
  BY PartOfAll DEF ListingTypeOK
<1>2. nextToken \in Nat /\ nextToken' \in Nat /\ Object \subseteq Nat \ {0} /\ Object \subseteq Nat
  BY ListingAssumption DEF ListingTypeOK
<1>3. /\ Cardinality(Later(Object, nextToken)) \in Nat
      /\ \A n \in Object :
           n > nextToken => Cardinality(Later(Object, n)) < Cardinality(Later(Object, nextToken))
  BY <1>2, FewerLater
<1>4. Cardinality(Later(Object, nextToken')) \in Nat
  BY <1>2, FewerLater
<1>5. \A state \in States :
        list' = [list EXCEPT !.state = state] => list'.state = state
  BY GoneTo DEF ListingTypeOK
<1>6. CASE WalkRoot
  <2>1. /\ list.state = "reading" /\ list'.state = "items"
        /\ nextToken = 0 /\ nextToken' = 0
    BY <1>5, <1>6 DEF WalkRoot, Goto, States, ReadInv
  <2>2. PagesLeft' < PagesLeft
    BY <1>3, <2>1 DEF PagesLeft
  <2> QED BY <2>1, <2>2, LessToList DEF ListOpen
<1>7. CASE WalkDirectory
  <2>1. /\ list.state = "items" /\ list'.state = "items" /\ unread /\ ~unread'
        /\ nextToken' = nextToken
    BY <1>5, <1>7 DEF WalkDirectory, Goto, States
  <2>2. PagesLeft' = PagesLeft /\ ItemsLeft' < ItemsLeft
    BY <1>1, <2>1 DEF PagesLeft, ItemsLeft
  <2> QED BY <2>1, <2>2, LessToList DEF ListOpen
<1>8. CASE ListPage
  <2>1. /\ list.state = "reading" /\ list'.state = "items" /\ token = nextToken
        /\ nextToken' = 0 \/ (nextToken' \in Object /\ nextToken' > nextToken)
    BY <1>5, <1>8 DEF ListPage, Goto, States, ReadInv
  <2>2. PagesLeft' < PagesLeft
    BY <1>3, <1>4, <2>1 DEF PagesLeft
  <2> QED BY <2>1, <2>2, LessToList DEF ListOpen
<1>9. CASE NextPage
  <2>1. /\ list.state = "items" /\ list'.state = "reading" /\ nextToken # 0
        /\ UNCHANGED << page, unread, nextToken >>
    BY <1>5, <1>9 DEF NextPage, Goto, States
  <2>2. PagesLeft' = PagesLeft /\ ItemsLeft' < ItemsLeft
    BY <1>1, <2>1 DEF PagesLeft, ItemsLeft
  <2> QED BY <2>1, <2>2, LessToList DEF ListOpen
<1>10. CASE \E o \in Object : CheckItem(o)
  <2>1. /\ list.state = "items" /\ list'.state = "calling"
        /\ UNCHANGED << page, unread, nextToken >>
    BY <1>5, <1>10 DEF CheckItem, Goto, States, readVars
  <2>2. PagesLeft' = PagesLeft /\ ItemsLeft' < ItemsLeft
    BY <1>1, <2>1 DEF PagesLeft, ItemsLeft
  <2> QED BY <2>1, <2>2, LessToList DEF ListOpen
<1>11. CASE \E o \in Object : CallbackItem(o)
  <2>1. PICK o \in Object : CallbackItem(o)
    BY <1>11
  <2>2. /\ list.state = "calling" /\ list'.state = "items" /\ o \in page /\ page' = page \ {o}
        /\ UNCHANGED << unread, nextToken >>
    BY <1>5, <2>1 DEF CallbackItem, AtItem, States
  <2>3. Cardinality(page') = Cardinality(page) - 1
    BY <1>1, <2>2
  <2>4. PagesLeft' = PagesLeft /\ ItemsLeft' < ItemsLeft
    BY <1>1, <2>2, <2>3 DEF PagesLeft, ItemsLeft
  <2> QED BY <2>2, <2>4, LessToList DEF ListOpen
<1>12. CASE ListReturns \/ ListFails
  <2>1. list.state \in {"reading", "items"} /\ list'.state \in {"complete", "failed"}
    BY <1>5, <1>12 DEF ListReturns, ListFails, Goto, States
  <2>2. ListLeft' = 0
    BY <2>1 DEF ListLeft, ListOpen
  <2>3. PagesLeft > 0 \/ ItemsLeft > 0
    BY <1>1, <1>3, <2>1 DEF PagesLeft, ItemsLeft
  <2>4. /\ ListMost \in Nat /\ ListMost > 0
        /\ PagesLeft \in Nat /\ ItemsLeft \in Nat
    BY <1>1, ListLeftTypes DEF ListMost
  <2>5. ListLeft = PagesLeft * ListMost + ItemsLeft
    BY <2>1 DEF ListLeft, ListOpen
  <2>6. CASE PagesLeft > 0
    <3>1. 0 * ListMost + 0 < PagesLeft * ListMost + ItemsLeft
      BY <2>4, <2>6, PageLess
    <3> QED BY <2>2, <2>4, <2>5, <3>1
  <2>7. CASE PagesLeft = 0 /\ ItemsLeft > 0
    BY <2>2, <2>4, <2>5, <2>7
  <2> QED BY <2>3, <2>4, <2>6, <2>7
<1> QED BY <1>6, <1>7, <1>8, <1>9, <1>10, <1>11, <1>12 DEF ListStep

\* Each step of a call, of any backend, leaves less to do, however many objects
\* are put and deleted meanwhile: a listing of a store with n names ends within
\* (n + 2) * (4 * n + 4) steps of its own.
THEOREM ListingAdvances ==
  ASSUME IsFiniteSet(Object)
  PROVE  ListingSpec => [](ListLeft \in Nat) /\ [][ListAdvances]_listingVars
<1>1. ListingInit => ListingInv
  BY ListingInvInit
<1>2. ListingInv /\ [ListingNext]_listingVars => ListingInv'
  BY ListingStep
<1>3. ListingInv => ListLeft \in Nat
  BY ListLeftTypes DEF ListingInv
<1>4. ASSUME ListingInv, ListingInv', ListingNext
      PROVE  ListAdvances
  <2>1. CASE \E o \in Object : AddObject(o) \/ RemoveObject(o)
    <3>1. stored' # stored /\ UNCHANGED << list, readVars >>
      BY <2>1 DEF AddObject, RemoveObject
    <3> QED BY <3>1 DEF ListAdvances, ListLeft, ListOpen, PagesLeft, ItemsLeft, readVars, ListMost
  <2>2. CASE CancelList
    <3>1. cancelled' # cancelled /\ UNCHANGED << list, readVars >>
      BY <2>2 DEF CancelList
    <3> QED BY <3>1 DEF ListAdvances, ListLeft, ListOpen, PagesLeft, ItemsLeft, readVars, ListMost
  <2>3. CASE \E prefix \in Prefix, recursion \in BOOLEAN : ListObject(prefix, recursion)
    <3>1. /\ list.state = "idle" /\ list'.state = "reading"
          /\ UNCHANGED << stored, cancelled, readVars >>
      BY <2>3 DEF ListObject
    <3>2. ~unread /\ page = {} /\ nextToken = 0
      <4>1. ReadInv /\ list.state \in {"idle", "reading"}
        BY <1>4, <3>1 DEF ListingInv
      <4> QED BY <3>1, <4>1 DEF ReadInv
    <3>3. /\ Cardinality(Object) \in Nat /\ Cardinality(Later(Object, 0)) \in Nat
          /\ Cardinality(Later(Object, 0)) <= Cardinality(Object)
      BY PartOfAll, FewerLater, ListingAssumption
    <3>4. PagesLeft' = Cardinality(Later(Object, 0)) + 1 /\ ItemsLeft' = 0
      BY <3>1, <3>2, FS_EmptySet DEF PagesLeft, ItemsLeft, readVars
    <3>5. ListMost \in Nat /\ ListMost > 0 /\ ListMost' = ListMost
      BY <3>3 DEF ListMost
    <3>6. /\ ListLeft = (Cardinality(Object) + 2) * ListMost + 0
          /\ ListLeft' = PagesLeft' * ListMost + ItemsLeft'
      <4>1. (Cardinality(Object) + 2) * ListMost \in Nat
        BY <3>3, <3>5
      <4> QED BY <3>1, <3>5, <4>1 DEF ListLeft, ListOpen
    <3>7. ListLeft' < ListLeft
      BY <3>3, <3>4, <3>5, <3>6, PageLess
    <3> QED BY <3>1, <3>7 DEF ListAdvances
  <2>4. CASE ListStep
    <3>1. UNCHANGED << stored, cancelled >>
      BY <2>4 DEF ListStep, WalkRoot, WalkDirectory, ListPage, NextPage, CheckItem, CallbackItem,
                  ListReturns, ListFails, Goto
    <3> QED BY <1>4, <2>4, <3>1, ListStepAdvances DEF ListAdvances
  <2> QED BY <1>4, <2>1, <2>2, <2>3, <2>4 DEF ListingNext
<1>5. ListingInv /\ ListingInv' /\ [ListingNext]_listingVars => [ListAdvances]_listingVars
  BY <1>4
<1> QED BY <1>1, <1>2, <1>3, <1>5, PTL DEF ListingSpec

----------------------------------------------------------------------------
(* The inductive invariant of ForeachSet.                                  *)

\* What a member that stays may still wait for: the rest of the page, or the
\* pages after the cursor.
ToCome(m) ==
  \/ foreach = "page" /\ (m \in ret \/ (cursor # 0 /\ m > cursor))
  \/ foreach = "scanning" /\ m > cursor
  \/ foreach \in {"idle", "failed"}

ForeachInv ==
  /\ ForeachTypeOK
  /\ stays \subseteq set
  /\ foreach = "idle" => cursor = 0
  /\ ~stopped /\ ~(foreach = "returned" /\ early) =>
       \A m \in stays : m \in called \/ ToCome(m)

LEMMA ForeachInvInit == ForeachInit => ForeachInv
<1> SUFFICES ASSUME ForeachInit
             PROVE  ForeachInv
  OBVIOUS
<1>1. ForeachTypeOK
  BY DEF ForeachInit, ForeachTypeOK
<1> QED BY <1>1 DEF ForeachInit, ForeachInv, ToCome

\* Members are added and removed, and the context is done.
LEMMA OthersStep ==
  ASSUME ForeachInv, (\E m \in Member : SAdd(m) \/ SRem(m)) \/ ContextDone
  PROVE  ForeachInv'
<1>1. /\ UNCHANGED << foreach, cursor, ret, length, early, wraps, stopped, called >>
      /\ stays' \subseteq stays /\ stays' \subseteq set'
      /\ set' \subseteq Member /\ done' \in BOOLEAN
  BY DEF ForeachInv, ForeachTypeOK, SAdd, SRem, ContextDone, pageVars
<1>2. ForeachTypeOK'
  BY <1>1 DEF ForeachInv, ForeachTypeOK
<1> QED BY <1>1, <1>2 DEF ForeachInv, ToCome

\* The scan begins: every member is above zero.
LEMMA SCardStep ==
  ASSUME ForeachInv, SCard
  PROVE  ForeachInv'
<1>1. /\ UNCHANGED << set, done, cursor, ret, length, early, wraps, stopped, called >>
      /\ foreach = "idle" /\ stays' = set
      /\ foreach' \in {"failed", "returned", "scanning"}
      /\ foreach' = "returned" => set = {}
  BY DEF SCard, pageVars
<1>2. ForeachTypeOK'
  BY <1>1 DEF ForeachInv, ForeachTypeOK
<1>3. cursor' = 0 /\ \A m \in stays' : m > 0
  BY <1>1, ForeachAssumption DEF ForeachInv, ForeachTypeOK
<1> QED BY <1>1, <1>2, <1>3 DEF ForeachInv, ToCome

\* A page has what lies between the cursors, and nothing that stays is left out.
LEMMA ScanStep ==
  ASSUME ForeachInv, Scan
  PROVE  ForeachInv'
<1>1. /\ UNCHANGED << set, done, early, wraps, stopped, called, stays >>
      /\ foreach = "scanning" /\ foreach' = "page"
      /\ cursor' \in {n \in Member : n > cursor} \cup {0}
      /\ length' = Cardinality(ret')
  BY DEF Scan
<1>2. PICK Again \in SUBSET {m \in set : m <= cursor} :
        ret' = Again \cup {m \in set : m > cursor /\ (cursor' = 0 \/ m <= cursor')}
  BY DEF Scan
<1>3. set \subseteq Member /\ Member \subseteq Nat /\ cursor' \in Nat
  BY <1>1, ForeachAssumption DEF ForeachInv, ForeachTypeOK
<1>4. ret' \subseteq Member
  BY <1>2, <1>3
<1>5. length' \in Nat
  BY <1>1, <1>4, ForeachAssumption, FS_Subset, FS_CardinalityType
<1>6. ForeachTypeOK'
  BY <1>1, <1>4, <1>5 DEF ForeachInv, ForeachTypeOK
<1>7. \A m \in set : m > cursor => m \in ret' \/ (cursor' # 0 /\ m > cursor')
  BY <1>2, <1>3
<1> QED BY <1>1, <1>6, <1>7 DEF ForeachInv, ToCome

LEMMA ScanFailsStep ==
  ASSUME ForeachInv, ScanFails
  PROVE  ForeachInv'
<1>1. /\ UNCHANGED << set, done, cursor, ret, length, early, wraps, stopped, called, stays >>
      /\ foreach' = "failed"
  BY DEF ScanFails, pageVars
<1>2. ForeachTypeOK'
  BY <1>1 DEF ForeachInv, ForeachTypeOK
<1> QED BY <1>1, <1>2 DEF ForeachInv, ToCome

\* The member that leaves the page has been passed to f, unless f stops.
LEMMA CallFStep ==
  ASSUME ForeachInv, NEW m \in Member, CallF(m)
  PROVE  ForeachInv'
<1>1. /\ UNCHANGED << set, foreach, done, cursor, length, early, wraps, stays >>
      /\ foreach = "page" /\ m \in ret /\ called' = called \cup {m}
      /\ (ret' = ret \ {m} /\ stopped' = stopped) \/ (ret' = {} /\ stopped' = TRUE)
  BY DEF CallF
<1>2. ForeachTypeOK'
  BY <1>1 DEF ForeachInv, ForeachTypeOK
<1> QED BY <1>1, <1>2 DEF ForeachInv, ToCome

\* The page is done: nothing is to come after the last one, or everything comes
\* again after a full one.
LEMMA EndPageStep ==
  ASSUME ForeachInv, EndPage
  PROVE  ForeachInv'
<1>1. /\ UNCHANGED << set, done, cursor, ret, length, stopped, called, stays >>
      /\ foreach = "page" /\ ret = {}
      /\ foreach' = IF length < pageSize THEN "returned" ELSE "scanning"
      /\ early' = (length < pageSize /\ cursor # 0)
      /\ wraps' = (wraps \/ (length >= pageSize /\ cursor = 0))
  BY DEF EndPage
<1>2. early' \in BOOLEAN /\ wraps' \in BOOLEAN
  BY <1>1
<1>3. ForeachTypeOK'
  BY <1>1, <1>2 DEF ForeachInv, ForeachTypeOK
<1>4. \A m \in stays : m \in Nat /\ m > 0
  BY ForeachAssumption DEF ForeachInv, ForeachTypeOK
<1>5. ASSUME ~stopped, ~(foreach' = "returned" /\ early'), NEW m \in stays, m \notin called
      PROVE  ToCome(m)'
  <2>1. cursor # 0 /\ m > cursor
    BY <1>1, <1>5 DEF ForeachInv, ToCome
  <2> QED BY <1>1, <1>5, <2>1 DEF ToCome
<1> QED BY <1>1, <1>3, <1>5 DEF ForeachInv

LEMMA ForeachInvStep ==
  ASSUME ForeachInv, [ForeachNext]_foreachVars
  PROVE  ForeachInv'
<1>1. CASE UNCHANGED foreachVars
  <2>1. UNCHANGED << set, foreach, done, cursor, ret, length, early, wraps, stopped, called, stays >>
    BY <1>1 DEF foreachVars, pageVars
  <2> QED BY <2>1 DEF ForeachInv, ForeachTypeOK, ToCome
<1> QED BY <1>1, OthersStep, SCardStep, ScanStep, ScanFailsStep, CallFStep, EndPageStep
        DEF ForeachNext, ForeachStep

----------------------------------------------------------------------------
(* Theorems about ForeachSet.                                              *)

\* Every reachable state of ForeachSet has its types.
THEOREM ForeachTypeCorrect == ForeachSpec => []ForeachTypeOK
<1>1. ForeachInit => ForeachInv
  BY ForeachInvInit
<1>2. ForeachInv /\ [ForeachNext]_foreachVars => ForeachInv'
  BY ForeachInvStep
<1>3. ForeachInv => ForeachTypeOK
  BY DEF ForeachInv
<1> QED BY <1>1, <1>2, <1>3, PTL DEF ForeachSpec

\* Whatever the set, its pages and pageSize are, a call that returns nil has
\* passed f every member that stayed in the set, unless f stopped it or a short
\* page was not the last.
THEOREM ForeachCompleteHolds == ForeachSpec => []ForeachComplete
<1>1. ForeachInit => ForeachInv
  BY ForeachInvInit
<1>2. ForeachInv /\ [ForeachNext]_foreachVars => ForeachInv'
  BY ForeachInvStep
<1>3. ForeachInv => ForeachComplete
  BY DEF ForeachInv, ForeachComplete, ToCome
<1> QED BY <1>1, <1>2, <1>3, PTL DEF ForeachSpec

----------------------------------------------------------------------------
(* How far a call of ForeachSet has still to go.                           *)

ScanMost == Cardinality(Member) + 2

\* Pages still to be asked for: those after the cursor.
ScansLeft ==
  IF foreach = "page" /\ cursor = 0 THEN 0 ELSE Cardinality(Later(Member, cursor)) + 1

\* Steps that a call can still take: each member of a page is one, and the end
\* of the page.
ForeachLeft ==
  CASE foreach = "idle"     -> (Cardinality(Member) + 2) * ScanMost
    [] foreach = "scanning" -> ScansLeft * ScanMost
    [] foreach = "page"     -> ScansLeft * ScanMost + Cardinality(ret) + 1
    [] OTHER                -> 0

\* The last page was a full one.
StartsAgain == foreach = "page" /\ cursor = 0 /\ foreach' = "scanning"

\* A step of a call leaves less to do unless the scan starts again; what others
\* do, and a context that is done, leaves as much.
ForeachAdvances ==
  IF UNCHANGED << set, done >>
  THEN ForeachLeft' < ForeachLeft \/ StartsAgain
  ELSE ForeachLeft' = ForeachLeft

\* The bounds of the parts, whatever the cursor and the page are.
LEMMA ScanSizes ==
  ASSUME NEW c \in Member \cup {0}, NEW p \in SUBSET Member
  PROVE  /\ Cardinality(Member) \in Nat /\ ScanMost \in Nat
         /\ Cardinality(p) \in Nat /\ Cardinality(p) + 1 < ScanMost
         /\ Cardinality(Later(Member, c)) \in Nat
         /\ Cardinality(Later(Member, c)) <= Cardinality(Member)
         /\ \A n \in Member :
              n > c => Cardinality(Later(Member, n)) < Cardinality(Later(Member, c))
<1>1. c \in Nat /\ Member \subseteq Nat /\ IsFiniteSet(Member)
  BY ForeachAssumption
<1>2. Cardinality(Member) \in Nat /\ Cardinality(p) \in 0 .. Cardinality(Member)
  BY <1>1, PartOfAll
<1>3. ScanMost \in Nat /\ Cardinality(p) \in Nat /\ Cardinality(p) + 1 < ScanMost
  BY <1>2 DEF ScanMost
<1> QED BY <1>1, <1>2, <1>3, FewerLater

LEMMA ForeachLeftType ==
  ASSUME ForeachTypeOK
  PROVE  ForeachLeft \in Nat /\ ScansLeft \in Nat
<1>1. /\ Cardinality(Member) \in Nat /\ ScanMost \in Nat /\ Cardinality(ret) \in Nat
      /\ ScansLeft \in Nat
  BY ScanSizes DEF ForeachTypeOK, ScansLeft
<1>2. ScansLeft * ScanMost \in Nat /\ (Cardinality(Member) + 2) * ScanMost \in Nat
  BY <1>1
<1> QED BY <1>1, <1>2 DEF ForeachLeft

LEMMA ForeachStepAdvances ==
  ASSUME ForeachTypeOK, ForeachTypeOK', ForeachStep
  PROVE  ForeachLeft' < ForeachLeft \/ StartsAgain
<1>1. /\ ScanMost \in Nat /\ ScanMost > 1 /\ ScanMost' = ScanMost
      /\ Cardinality(ret) \in Nat
      /\ Cardinality(ret') \in Nat /\ Cardinality(ret') + 1 < ScanMost
  BY ScanSizes DEF ForeachTypeOK, ScanMost
<1>2. /\ Cardinality(Later(Member, cursor)) \in Nat
      /\ Cardinality(Later(Member, cursor')) \in Nat
      /\ \A n \in Member :
           n > cursor => Cardinality(Later(Member, n)) < Cardinality(Later(Member, cursor))
  BY ScanSizes DEF ForeachTypeOK
<1>3. ScansLeft \in Nat /\ ScansLeft' \in Nat
  BY <1>2 DEF ScansLeft
<1>4. CASE Scan
  <2>1. /\ foreach = "scanning" /\ foreach' = "page"
        /\ cursor' = 0 \/ (cursor' \in Member /\ cursor' > cursor)
    BY <1>4 DEF Scan
  <2>2. ScansLeft' < ScansLeft
    BY <1>2, <2>1 DEF ScansLeft
  <2>3. ScansLeft' * ScanMost + (Cardinality(ret') + 1) < ScansLeft * ScanMost + 0
    BY <1>1, <1>3, <2>2, PageLess
  <2>4. ScansLeft * ScanMost \in Nat /\ ScansLeft' * ScanMost \in Nat
    BY <1>1, <1>3, ProductType
  <2>5. /\ ForeachLeft = ScansLeft * ScanMost + 0
        /\ ForeachLeft' = ScansLeft' * ScanMost + (Cardinality(ret') + 1)
    BY <1>1, <2>1, <2>4 DEF ForeachLeft
  <2> QED BY <2>3, <2>5
<1>5. CASE ScanFails
  <2>1. foreach \in {"scanning", "page"} /\ foreach' = "failed"
    BY <1>5 DEF ScanFails
  <2>2. ForeachLeft' = 0
    BY <2>1 DEF ForeachLeft
  <2>3. CASE foreach = "page"
    <3>1. ScansLeft * ScanMost \in Nat
      BY <1>1, <1>3
    <3>2. ForeachLeft = ScansLeft * ScanMost + Cardinality(ret) + 1
      BY <2>3 DEF ForeachLeft
    <3> QED BY <1>1, <2>2, <3>1, <3>2
  <2>4. CASE foreach = "scanning"
    <3>1. ScansLeft > 0 /\ ForeachLeft = ScansLeft * ScanMost
      BY <1>2, <2>4 DEF ScansLeft, ForeachLeft
    <3>2. 0 * ScanMost + 0 < ScansLeft * ScanMost + 0
      BY <1>1, <1>3, <3>1, PageLess
    <3>3. ScansLeft * ScanMost \in Nat
      BY <1>1, <1>3
    <3> QED BY <1>1, <2>2, <3>1, <3>2, <3>3
  <2> QED BY <2>1, <2>3, <2>4
<1>6. CASE EndPage
  <2>1. /\ foreach = "page" /\ foreach' \in {"returned", "scanning"}
        /\ ret = {} /\ cursor' = cursor /\ Cardinality(ret) = 0
    BY <1>6, FS_EmptySet DEF EndPage
  <2>2. ForeachLeft = ScansLeft * ScanMost + 1 /\ ScansLeft * ScanMost \in Nat
    <3>1. ForeachLeft = ScansLeft * ScanMost + 0 + 1
      BY <2>1 DEF ForeachLeft
    <3>2. ScansLeft * ScanMost \in Nat
      BY <1>1, <1>3
    <3> QED BY <3>1, <3>2
  <2>3. CASE foreach' = "returned"
    BY <2>2, <2>3 DEF ForeachLeft
  <2>4. CASE foreach' = "scanning" /\ cursor # 0
    <3>1. ScansLeft' = ScansLeft
      BY <2>1, <2>4 DEF ScansLeft
    <3>2. ForeachLeft' = ScansLeft * ScanMost
      BY <1>1, <2>4, <3>1 DEF ForeachLeft
    <3> QED BY <2>2, <3>2
  <2>5. CASE foreach' = "scanning" /\ cursor = 0
    BY <2>1, <2>5 DEF StartsAgain
  <2> QED BY <2>1, <2>3, <2>4, <2>5
<1>7. CASE \E m \in Member : CallF(m)
  <2>1. PICK m \in Member : CallF(m)
    BY <1>7
  <2>2. /\ foreach = "page" /\ UNCHANGED << foreach, cursor >> /\ m \in ret
        /\ ret' \in {ret \ {m}, {}}
    BY <2>1 DEF CallF
  <2>3. Cardinality(ret \ {m}) = Cardinality(ret) - 1
    BY <2>2, ForeachAssumption, PartOfAll DEF ForeachTypeOK
  <2>4. Cardinality(ret') < Cardinality(ret)
    <3>1. CASE ret' = ret \ {m}
      BY <1>1, <2>3, <3>1
    <3>2. CASE ret' = {}
      <4>1. Cardinality(ret') = 0
        BY <3>2, FS_EmptySet
      <4>2. Cardinality(ret \ {m}) \in Nat
        BY <2>2, ForeachAssumption, ScanSizes DEF ForeachTypeOK
      <4> QED BY <1>1, <2>3, <4>1, <4>2
    <3> QED BY <2>2, <3>1, <3>2
  <2>5. ScansLeft' = ScansLeft
    BY <2>2 DEF ScansLeft
  <2>6. /\ ForeachLeft = ScansLeft * ScanMost + Cardinality(ret) + 1
        /\ ForeachLeft' = ScansLeft * ScanMost + Cardinality(ret') + 1
    BY <1>1, <2>2, <2>5 DEF ForeachLeft
  <2>7. ScansLeft * ScanMost + Cardinality(ret') < ScansLeft * ScanMost + Cardinality(ret)
    BY <1>1, <1>3, <2>4, ItemsLess
  <2>8. ScansLeft * ScanMost \in Nat
    BY <1>1, <1>3
  <2> QED BY <1>1, <2>6, <2>7, <2>8
<1> QED BY <1>4, <1>5, <1>6, <1>7 DEF ForeachStep

\* Each step of a call leaves less to do, whatever Redis puts into its pages and
\* others add and remove meanwhile, except the end of a last page that was full,
\* after which the scan starts again: a call on n places that meets no such page
\* ends within (n + 2) * (n + 2) steps of its own.
THEOREM ForeachSetAdvances ==
  ForeachSpec => [](ForeachLeft \in Nat) /\ [][ForeachAdvances]_foreachVars
<1>1. ForeachInit => ForeachInv
  BY ForeachInvInit
<1>2. ForeachInv /\ [ForeachNext]_foreachVars => ForeachInv'
  BY ForeachInvStep
<1>3. ForeachInv => ForeachLeft \in Nat
  BY ForeachLeftType DEF ForeachInv
<1>4. ASSUME ForeachInv, ForeachInv', ForeachNext
      PROVE  ForeachAdvances
  <2>1. CASE (\E m \in Member : SAdd(m) \/ SRem(m)) \/ ContextDone
    <3>1. ~UNCHANGED << set, done >> /\ UNCHANGED << foreach, cursor, ret >>
      BY <2>1 DEF SAdd, SRem, ContextDone, pageVars
    <3> QED BY <3>1 DEF ForeachAdvances, ForeachLeft, ScansLeft, ScanMost
  <2>2. CASE SCard
    <3>1. /\ foreach = "idle" /\ foreach' \in {"failed", "returned", "scanning"}
          /\ UNCHANGED << set, done, cursor >> /\ cursor = 0
      BY <1>4, <2>2 DEF SCard, pageVars, ForeachInv
    <3>2. /\ Cardinality(Member) \in Nat /\ ScanMost \in Nat /\ ScanMost > 0
          /\ ScanMost' = ScanMost
          /\ Cardinality(Later(Member, cursor)) \in Nat
          /\ Cardinality(Later(Member, cursor)) <= Cardinality(Member)
      BY <1>4, ScanSizes DEF ScanMost, ForeachInv, ForeachTypeOK
    <3>3. CASE foreach' = "scanning"
      <4>1. ScansLeft' \in Nat /\ ScansLeft' < Cardinality(Member) + 2
        BY <3>1, <3>2, <3>3 DEF ScansLeft
      <4>2. ScansLeft' * ScanMost + 0 < (Cardinality(Member) + 2) * ScanMost + 0
        BY <3>2, <4>1, PageLess
      <4>3. /\ ScansLeft' * ScanMost \in Nat
            /\ (Cardinality(Member) + 2) * ScanMost \in Nat
        <5>1. Cardinality(Member) + 2 \in Nat
          BY <3>2
        <5> QED BY <3>2, <4>1, <5>1, ProductType
      <4>4. /\ ForeachLeft = (Cardinality(Member) + 2) * ScanMost
            /\ ForeachLeft' = ScansLeft' * ScanMost
        BY <3>1, <3>2, <3>3 DEF ForeachLeft
      <4>5. ForeachLeft' < ForeachLeft
        BY <4>2, <4>3, <4>4
      <4> QED BY <3>1, <4>5 DEF ForeachAdvances
    <3>4. CASE foreach' # "scanning"
      <4>1. 0 * ScanMost + 0 < (Cardinality(Member) + 2) * ScanMost + 0
        BY <3>2, PageLess
      <4>2. (Cardinality(Member) + 2) * ScanMost \in Nat
        BY <3>2
      <4>3. ForeachLeft = (Cardinality(Member) + 2) * ScanMost /\ ForeachLeft' = 0
        BY <3>1, <3>4 DEF ForeachLeft
      <4>4. ForeachLeft' < ForeachLeft
        BY <3>2, <4>1, <4>2, <4>3
      <4> QED BY <3>1, <4>4 DEF ForeachAdvances
    <3> QED BY <3>3, <3>4
  <2>3. CASE ForeachStep
    <3>1. UNCHANGED << set, done >>
      BY <2>3 DEF ForeachStep, Scan, ScanFails, EndPage, CallF
    <3> QED BY <1>4, <2>3, <3>1, ForeachStepAdvances DEF ForeachAdvances, ForeachInv
  <2> QED BY <1>4, <2>1, <2>2, <2>3 DEF ForeachNext
<1>5. ForeachInv /\ ForeachInv' /\ [ForeachNext]_foreachVars => [ForeachAdvances]_foreachVars
  BY <1>4
<1> QED BY <1>1, <1>2, <1>3, <1>5, PTL DEF ForeachSpec

----------------------------------------------------------------------------
(* The inductive invariant of the buffers.                                 *)

\* While the buffer is filled nothing is given.
FillInv ==
  reader = "filling" =>
    bufIdx = 0 /\ buf = source /\ buf <= maxLen /\ given = 0

\* An open reader has given what was read, but for what is left in the buffer.
\* The source is read on only when the buffer is empty and was full.
OpenInv ==
  reader = "open" =>
    /\ bufIdx <= buf /\ buf <= maxLen /\ buf <= source
    /\ given = source - (buf - bufIdx)
    /\ buf < source => bufIdx = maxLen
    /\ buf < maxLen => source = Size

\* The end was answered where the source ends.
EndInv == ended => given = Size

\* What was passed on and what remains is the limit; until the writer under it
\* refuses bytes, what was passed on is all that was written, or the limit.
WriterInv ==
  /\ passed + remain = Limit
  /\ passed <= written
  /\ passed # written => remain = 0 \/ refused
  /\ ignoreError => told = written
  /\ ~ignoreError => told = passed

BuffersInv == BuffersTypeOK /\ FillInv /\ OpenInv /\ EndInv /\ WriterInv

LEMMA BuffersInvInit == BuffersInit => BuffersInv
<1> SUFFICES ASSUME BuffersInit
             PROVE  BuffersInv
  OBVIOUS
<1>1. ended = FALSE /\ refused = FALSE /\ ignoreError \in BOOLEAN
  BY DEF BuffersInit
<1>2. ended \in BOOLEAN /\ refused \in BOOLEAN /\ EndInv
  BY <1>1, Zenon DEF EndInv
<1>3. BuffersTypeOK
  BY <1>1, <1>2, BuffersAssumption DEF BuffersInit, BuffersTypeOK
<1>4. FillInv /\ OpenInv
  BY BuffersAssumption DEF BuffersInit, FillInv, OpenInv
<1>5. WriterInv
  BY <1>1, BuffersAssumption DEF BuffersInit, WriterInv
<1> QED BY <1>2, <1>3, <1>4, <1>5 DEF BuffersInv

\* A read gives the next bytes of the source, or its end.
LEMMA ReadsInOrder ==
  ASSUME BuffersInv, NEW n \in Nat \ {0}, ReadSource(n) \/ ReadBuffer(n)
  PROVE  /\ \/ \E m \in 1 .. Size : Stream!Give(m)
            \/ Stream!End
         /\ BuffersInv'
<1> USE BuffersAssumption
    DEF BuffersInv, BuffersTypeOK, FillInv, OpenInv, EndInv, WriterInv, FromSource, writerVars
<1>1. CASE ReadSource(n)
  <2>1. given = source /\ bufIdx = maxLen /\ buf = maxLen
    BY <1>1 DEF ReadSource
  <2>2. CASE source + n <= Size /\ source' = source + n /\ last' = << source + 1, source + n >>
             /\ given' = given + n /\ UNCHANGED ended
    <3>1. n \in 1 .. Size /\ Stream!Give(n)
      BY <1>1, <2>1, <2>2 DEF ReadSource, Stream!Give, Stream!passedVars
    <3>2. BuffersInv'
      BY <1>1, <2>1, <2>2 DEF ReadSource
    <3> QED BY <3>1, <3>2
  <2>3. CASE source = Size /\ Ends /\ UNCHANGED source
    BY <1>1, <2>1, <2>3 DEF ReadSource, Ends, Stream!End, Stream!passedVars
  <2> QED BY <1>1, <2>2, <2>3 DEF ReadSource
<1>2. CASE ReadBuffer(n)
  <2>1. CASE buf <= bufIdx
    <3>1. given = Size
      BY <1>2, <2>1 DEF ReadBuffer
    <3> QED BY <1>2, <2>1, <3>1 DEF ReadBuffer, Ends, Stream!End, Stream!passedVars
  <2>2. CASE ~(buf <= bufIdx)
    <3> DEFINE m == IF n <= buf - bufIdx THEN n ELSE buf - bufIdx
    <3>1. given = bufIdx /\ source = buf
      BY <1>2, <2>2 DEF ReadBuffer
    <3>2. /\ bufIdx' = bufIdx + m
          /\ last' = << bufIdx + 1, bufIdx + m >>
          /\ given' = given + m
          /\ UNCHANGED << ended, reader, source, buf, maxLen, writerVars >>
      BY <1>2, <2>2 DEF ReadBuffer
    <3>3. m \in 1 .. Size /\ m <= buf - bufIdx
      BY <2>2, <3>1
    <3> HIDE DEF m
    <3>4. Stream!Give(m)
      BY <3>1, <3>2, <3>3 DEF Stream!Give, Stream!passedVars
    <3>5. BuffersInv'
      BY <1>2, <3>1, <3>2, <3>3 DEF ReadBuffer
    <3> QED BY <3>3, <3>4, <3>5
  <2> QED BY <2>1, <2>2
<1> QED BY <1>1, <1>2

\* A write passes on bytes in the limit, and as it should while none was refused.
LEMMA WritesInOrder ==
  ASSUME BuffersInv, NEW c \in Nat \ {0}, NEW m \in 0 .. Limit, Write(c, m)
  PROVE  Stream!Pass(m) /\ BuffersInv'
<1> USE BuffersAssumption
    DEF BuffersInv, BuffersTypeOK, FillInv, OpenInv, EndInv, WriterInv, readerVars, givenVars
<1> DEFINE p == IF remain <= 0 THEN 0 ELSE IF c > remain THEN remain ELSE c
<1>1. /\ m <= p /\ refused' = (refused \/ m < p)
      /\ remain' = remain - m /\ passed' = passed + m /\ written' = written + c
      /\ told' = told + IF ignoreError THEN c ELSE m
      /\ UNCHANGED << ignoreError, reader, source, buf, bufIdx, maxLen, last, given, ended >>
  BY DEF Write
<1>2. p \in Nat /\ p <= c /\ p <= remain /\ (p = c \/ p = remain)
  OBVIOUS
<1> HIDE DEF p
<1>3. m \in Nat /\ m <= c /\ m <= remain /\ passed + m <= Limit
  BY <1>1, <1>2
<1>5. refused' \in BOOLEAN
  BY <1>1
<1>6. passed' # written' => remain' = 0 \/ refused'
  <2>1. CASE m = p
    BY <1>1, <1>2, <1>3, <2>1
  <2>2. CASE m # p
    <3>1. m < p
      BY <1>1, <1>2, <1>3, <2>2
    <3>2. refused' = TRUE
      BY <1>1, <3>1, Zenon
    <3> QED BY <3>2, Zenon
  <2> QED BY <2>1, <2>2
<1>7. passed' + remain' = Limit /\ passed' <= written' /\ remain' \in Nat /\ passed' \in Nat
      /\ written' \in Nat
  BY <1>1, <1>3
<1>8. remain' = 0 => passed' = Limit
  BY <1>1, <1>3
<1>9. (ignoreError => told' = written') /\ (~ignoreError => told' = passed')
  <2>1. CASE ignoreError
    BY <1>1, <1>3, <2>1
  <2>2. CASE ~ignoreError
    BY <1>1, <1>3, <2>2
  <2> QED BY <2>1, <2>2, Zenon
<1>10. told' \in Nat
  <2>1. CASE ignoreError
    BY <1>7, <1>9, <2>1
  <2>2. CASE ~ignoreError
    BY <1>7, <1>9, <2>2
  <2> QED BY <2>1, <2>2, Zenon
<1>11. UNCHANGED << ignoreError, last, given, ended >>
  BY <1>1
<1>12. WriterInv'
  BY <1>6, <1>7, <1>9, <1>11, Zenon
<1>13. BuffersInv'
  BY <1>1, <1>5, <1>7, <1>9, <1>12
<1>14. Stream!Pass(m)
  <2>1. refused => refused'
    BY <1>1, Zenon
  <2>2. ~refused' => passed' = written' \/ passed' = Limit
    BY <1>6, <1>8, Zenon
  <2>3. written' \in Nat /\ m <= written' - written /\ passed + m <= Limit /\ passed' = passed + m
    BY <1>1, <1>3
  <2>4. told' = IF ignoreError THEN written' ELSE passed'
    BY <1>9, Zenon
  <2> QED BY <1>5, <1>11, <2>1, <2>2, <2>3, <2>4, Zenon DEF Stream!Pass
<1> QED BY <1>13, <1>14

\* Each step keeps the invariant, and is a step of the byte stream or none.
LEMMA BuffersStep ==
  ASSUME BuffersInv, [BuffersNext]_buffersVars
  PROVE  BuffersInv' /\ [Stream!StreamNext]_(Stream!streamVars)
<1> USE BuffersAssumption
<1>1. ASSUME NEW n \in 1 .. Size, Fill(n)
      PROVE  BuffersInv' /\ UNCHANGED Stream!streamVars
  BY <1>1 DEF Fill, BuffersInv, BuffersTypeOK, FillInv, OpenInv, EndInv, WriterInv, givenVars,
              writerVars, Stream!streamVars, Stream!passedVars
<1>2. ASSUME NEW n \in 1 .. Size, ReadSource(n)
      PROVE  BuffersInv' /\ Stream!StreamNext
  BY <1>2, ReadsInOrder DEF Stream!StreamNext
<1>3. ASSUME NEW n \in 1 .. PreRead, ReadBuffer(n)
      PROVE  BuffersInv' /\ Stream!StreamNext
  BY <1>3, ReadsInOrder DEF Stream!StreamNext
<1>4. ASSUME Filled \/ Close
      PROVE  BuffersInv' /\ UNCHANGED Stream!streamVars
  BY <1>4 DEF Filled, Close, BuffersInv, BuffersTypeOK, FillInv, OpenInv, EndInv, WriterInv,
              givenVars, writerVars, Stream!streamVars, Stream!passedVars
<1>5. ASSUME NEW c \in 1 .. MaxWritten, NEW m \in 0 .. Limit, Write(c, m)
      PROVE  BuffersInv' /\ Stream!StreamNext
  BY <1>5, WritesInOrder DEF Stream!StreamNext
<1>6. ASSUME UNCHANGED buffersVars
      PROVE  BuffersInv' /\ UNCHANGED Stream!streamVars
  BY <1>6 DEF buffersVars, readerVars, givenVars, writerVars, BuffersInv, BuffersTypeOK, FillInv,
              OpenInv, EndInv, WriterInv, Stream!streamVars, Stream!passedVars
<1> QED BY <1>1, <1>2, <1>3, <1>4, <1>5, <1>6 DEF BuffersNext

----------------------------------------------------------------------------
(* The theorems.                                                           *)

\* Every reachable state has its types, whatever the sizes are.
THEOREM BuffersTypeCorrect == BuffersSpec => []BuffersTypeOK
<1>1. BuffersInit => BuffersInv
  BY BuffersInvInit
<1>2. BuffersInv /\ [BuffersNext]_buffersVars => BuffersInv'
  BY BuffersStep
<1>3. BuffersInv => BuffersTypeOK
  BY DEF BuffersInv
<1> QED BY <1>1, <1>2, <1>3, PTL DEF BuffersSpec

\* The pre-reader gives the bytes of its source in order and ends where it
\* ends, and the limited writer passes on no more than its limit, the first
\* bytes until the writer under it refuses some, and tells its caller so: the
\* buffers implement ByteStream, whatever the sizes are.
THEOREM IsByteStreamHolds == BuffersSpec => IsByteStream
<1>1. BuffersInit => BuffersInv
  BY BuffersInvInit
<1>2. BuffersInit => Stream!StreamInit
  BY Zenon DEF BuffersInit, Stream!StreamInit
<1>3. BuffersInv /\ [BuffersNext]_buffersVars
        => BuffersInv' /\ [Stream!StreamNext]_(Stream!streamVars)
  BY BuffersStep
<1> QED BY <1>1, <1>2, <1>3, PTL DEF BuffersSpec, IsByteStream, Stream!StreamSpec

==============================================================================
