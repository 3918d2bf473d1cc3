---------------------------- MODULE Library_proofs ----------------------------
(***************************************************************************)
(* Proofs about packages of the library, for any goroutines, values,       *)
(* objects, keys and sizes: the array set, the object stores, the secrets, *)
(* the loggers, the issuers, the errors, the ordered set and the           *)
(* capacities; then of the packages side by side.                          *)
(***************************************************************************)
EXTENDS MCLibrary, Scans_proofs, SequenceTheorems, WellFoundedInduction

----------------------------------------------------------------------------
(* The array set.                                                          *)

\* Goroutines whose index is past the array and still to be given back.
Beyond == {a \in Appender : appender[a].state \in {"full", "dropping"}}

\* The places of the array that are taken.
Taken == cur + 1 - Cardinality(Beyond)

Storing(a) == appender[a].state = "storing"

\* Unless a callback overlapped with an Append: the last index counts the
\* places taken, and past the end the goroutines that are to give it back; a
\* place is taken by one goroutine, which finds it empty; an accepted value is
\* in a place that is taken, or was handed on.
SlotsInv ==
  /\ Taken \in 0 .. ArrayLen
  /\ Beyond # {} => Taken = ArrayLen
  /\ \A i \in DOMAIN arr : i >= Taken => arr[i] = 0
  /\ \A a \in Appender : Storing(a) => appender[a].idx \in 0 .. Taken - 1 /\ arr[appender[a].idx] = 0
  /\ \A a, b \in Appender : Storing(a) /\ Storing(b) /\ appender[a].idx = appender[b].idx => a = b
  /\ \A v \in accepted \ {0} : Include(v) \/ v \in flushed

ArrayInv == ArrayTypeOK /\ (~overlap => SlotsInv)

AppenderType ==
  [state : {"idle", "adding", "full", "calling", "again", "dropping", "storing", "panicked"},
   value : Value \cup {0}, idx : Int]

\* A set of natural numbers that is not empty has a least one.
LEMMA Least ==
  ASSUME NEW T, T \subseteq Nat, T # {}
  PROVE  \E m \in T : \A k \in T : m <= k
<1> DEFINE R == {ss \in Nat \X Nat : ss[1] < ss[2]}
<1>1. IsWellFoundedOn(R, Nat)
  BY NatLessThanWellFounded, Zenon DEF OpToRel
<1> HIDE DEF R
<1>2. PICK m \in T : \A k \in T : ~ (<< k, m >> \in R)
  BY <1>1, WFMin
<1>3. ASSUME NEW k \in T
      PROVE  m <= k
  <2>1. k \in Nat /\ m \in Nat /\ ~ (<< k, m >> \in R)
    BY <1>2
  <2>2. ~ (k < m)
    BY <2>1 DEF R
  <2> QED BY <2>1, <2>2
<1> QED BY <1>3

\* Where a value is at all, its index is that of a place that has it and none
\* before does.
LEMMA FirstIndex ==
  ASSUME ArrayTypeOK, NEW v, Include(v)
  PROVE  Index(v) \in DOMAIN arr /\ \A i \in DOMAIN arr : arr[i] = v => Index(v) <= i
<1> DEFINE T == {i \in DOMAIN arr : arr[i] = v}
<1>1. DOMAIN arr = 0 .. ArrayLen - 1 /\ T \subseteq Nat /\ T # {}
  BY ArrayAssumption DEF ArrayTypeOK, Include
<1>2. PICK m \in T : \A k \in T : m <= k
  BY <1>1, Least
<1>3. arr[m] = v /\ \A j \in 0 .. m - 1 : arr[j] # v
  BY <1>1, <1>2, ArrayAssumption
<1>4. Index(v) = CHOOSE i \in DOMAIN arr : arr[i] = v /\ \A j \in 0 .. i - 1 : arr[j] # v
  BY DEF Index
<1>5. Index(v) \in DOMAIN arr /\ \A j \in 0 .. Index(v) - 1 : arr[j] # v
  BY <1>2, <1>3, <1>4
<1> QED BY <1>1, <1>5, ArrayAssumption

LEMMA CountBeyond ==
  ASSUME NEW S, S \subseteq Appender
  PROVE  /\ Cardinality(S) \in Nat /\ (S = {} <=> Cardinality(S) = 0)
         /\ \A a \in Appender : Cardinality(S \cup {a}) = Cardinality(S) + (IF a \in S THEN 0 ELSE 1)
         /\ \A a : Cardinality(S \ {a}) = Cardinality(S) - (IF a \in S THEN 1 ELSE 0)
<1>1. IsFiniteSet(S)
  BY ArrayAssumption, FS_Subset
<1>2. Cardinality(S) \in Nat
  BY <1>1, FS_CardinalityType
<1>3. S = {} <=> Cardinality(S) = 0
  BY <1>1, FS_EmptySet
<1>4. ASSUME NEW a \in Appender
      PROVE  Cardinality(S \cup {a}) = Cardinality(S) + (IF a \in S THEN 0 ELSE 1)
  BY <1>1, <1>2, FS_AddElement
<1>5. ASSUME NEW a
      PROVE  Cardinality(S \ {a}) = Cardinality(S) - (IF a \in S THEN 1 ELSE 0)
  <2>1. CASE a \in S
    BY <1>1, <1>2, <2>1, FS_RemoveElement
  <2>2. CASE a \notin S
    <3>1. S \ {a} = S
      BY <2>2
    <3> QED BY <1>2, <2>2, <3>1
  <2> QED BY <2>1, <2>2
<1> QED BY <1>2, <1>3, <1>4, <1>5

LEMMA ArrayInvInit == ArrayInit => ArrayInv
<1> SUFFICES ASSUME ArrayInit
             PROVE  ArrayInv
  OBVIOUS
<1>1. ArrayTypeOK
  <2>1. Idle \in AppenderType
    BY DEF Idle, AppenderType
  <2>2. appender \in [Appender -> AppenderType]
    BY <2>1 DEF ArrayInit
  <2>3. arr \in [0 .. ArrayLen - 1 -> Value \cup {0}] /\ cur \in Int
    BY DEF ArrayInit, Empty
  <2> QED BY <2>2, <2>3 DEF ArrayInit, ArrayTypeOK, AppenderType
<1>2. Beyond = {} /\ \A a \in Appender : ~Storing(a)
  BY DEF ArrayInit, Beyond, Storing, Idle
<1>3. Taken = 0
  BY <1>2, CountBeyond DEF ArrayInit, Taken
<1> QED BY <1>1, <1>2, <1>3, ArrayAssumption DEF ArrayInit, ArrayInv, SlotsInv, Empty

\* One goroutine moves, the others stay where they are.
LEMMA OneMoves ==
  ASSUME ArrayTypeOK, NEW a \in Appender, NEW r \in AppenderType,
         appender' = [appender EXCEPT ![a] = r]
  PROVE  /\ appender' \in [Appender -> AppenderType]
         /\ appender'[a] = r
         /\ \A b \in Appender \ {a} : appender'[b] = appender[b]
         /\ Beyond' = IF r.state \in {"full", "dropping"} THEN Beyond \cup {a} ELSE Beyond \ {a}
<1>1. appender \in [Appender -> AppenderType]
  BY DEF ArrayTypeOK, AppenderType
<1>2. /\ appender' \in [Appender -> AppenderType] /\ appender'[a] = r
      /\ \A b \in Appender \ {a} : appender'[b] = appender[b]
  BY <1>1
<1>3. Beyond' = IF r.state \in {"full", "dropping"} THEN Beyond \cup {a} ELSE Beyond \ {a}
  BY <1>2 DEF Beyond
<1> QED BY <1>2, <1>3

\* Where a goroutine goes.
LEMMA GoesTo ==
  ASSUME ArrayTypeOK, NEW a \in Appender, NEW state \in {"idle", "calling", "again", "panicked"},
         Goes(a, state)
  PROVE  \E r \in AppenderType :
           r.state = state /\ appender' = [appender EXCEPT ![a] = r]
<1>1. appender[a] \in AppenderType
  BY DEF ArrayTypeOK, AppenderType
<1>2. CASE state = "idle"
  <2>1. Idle \in AppenderType /\ Idle.state = "idle"
    BY DEF Idle, AppenderType
  <2>2. appender' = [appender EXCEPT ![a] = Idle]
    BY <1>2 DEF Goes
  <2> QED BY <1>2, <2>1, <2>2
<1>3. CASE state # "idle"
  <2>1. [appender[a] EXCEPT !.state = state] \in AppenderType
    BY <1>1 DEF AppenderType
  <2>2. [appender[a] EXCEPT !.state = state].state = state
    BY <1>1 DEF AppenderType
  <2>3. appender' = [appender EXCEPT ![a] = [appender[a] EXCEPT !.state = state]]
    BY <1>3, <1>1 DEF Goes
  <2> QED BY <2>1, <2>2, <2>3
<1> QED BY <1>2, <1>3

\* A step that takes no place and leaves the array as it is.
LEMMA PlacesKept ==
  ASSUME SlotsInv, Taken' = Taken, Beyond' # {} => Taken = ArrayLen,
         UNCHANGED << arr, flushed >>,
         \A v \in accepted' : v \in accepted \/ Include(v),
         \A b \in Appender : Storing(b)' => Storing(b) /\ appender'[b] = appender[b]
  PROVE  SlotsInv'
<1>1. \A u : Include(u)' = Include(u)
  BY DEF Include
<1>2. \A b \in Appender : Storing(b)' =>
         appender'[b].idx \in 0 .. Taken' - 1 /\ arr'[appender'[b].idx] = 0
  BY DEF SlotsInv
<1>3. \A b, c \in Appender : Storing(b)' /\ Storing(c)' /\ appender'[b].idx = appender'[c].idx => b = c
  BY DEF SlotsInv
<1>4. \A i \in DOMAIN arr' : i >= Taken' => arr'[i] = 0
  BY DEF SlotsInv
<1>5. \A v \in accepted' \ {0} : Include(v)' \/ v \in flushed'
  BY <1>1 DEF SlotsInv
<1> QED BY <1>2, <1>3, <1>4, <1>5 DEF SlotsInv

LEMMA AppendValueStep ==
  ASSUME ArrayInv, NEW a \in Appender, NEW v \in Value \cup {0}, AppendValue(a, v)
  PROVE  ArrayInv'
<1>1. /\ appender[a].state = "idle"
      /\ UNCHANGED << fullCallback, arr, cur, flushed, overlap >>
      /\ Include(v)' = Include(v)
  BY DEF AppendValue, Include
<1>2. CASE Include(v) /\ accepted' = accepted \cup {v} /\ UNCHANGED appender
  <2>1. ArrayTypeOK'
    BY <1>1, <1>2 DEF ArrayInv, ArrayTypeOK
  <2>2. Taken' = Taken /\ Beyond' = Beyond /\ \A b : Storing(b)' = Storing(b)
    BY <1>1, <1>2 DEF Taken, Beyond, Storing
  <2>3. \A u \in accepted' : u \in accepted \/ Include(u)
    BY <1>2
  <2>4. SlotsInv => SlotsInv'
    BY <1>1, <1>2, <2>2, <2>3, PlacesKept DEF SlotsInv
  <2> QED BY <1>1, <2>1, <2>4 DEF ArrayInv
<1>3. CASE UNCHANGED accepted /\ appender' = [appender EXCEPT ![a] = [state |-> "adding", value |-> v, idx |-> 0]]
  <2> DEFINE r == [state |-> "adding", value |-> v, idx |-> 0]
  <2>1. r \in AppenderType /\ r.state = "adding" /\ appender' = [appender EXCEPT ![a] = r]
    BY <1>3 DEF AppenderType
  <2> HIDE DEF r
  <2>2. /\ appender' \in [Appender -> AppenderType] /\ appender'[a].state = "adding"
        /\ \A b \in Appender \ {a} : appender'[b] = appender[b]
        /\ Beyond' = Beyond \ {a}
    <3>1. ArrayTypeOK
      BY DEF ArrayInv
    <3> QED BY <2>1, <3>1, OneMoves
  <2>3. Beyond' = Beyond
    BY <1>1, <2>2 DEF Beyond
  <2>4. ArrayTypeOK'
    BY <1>1, <1>3, <2>2 DEF ArrayInv, ArrayTypeOK, AppenderType
  <2>5. Taken' = Taken
    BY <1>1, <2>3 DEF Taken
  <2>6. \A b \in Appender : Storing(b)' => Storing(b) /\ appender'[b] = appender[b]
    BY <2>2 DEF Storing
  <2>7. SlotsInv => SlotsInv'
    BY <1>1, <1>3, <2>3, <2>5, <2>6, PlacesKept DEF SlotsInv
  <2> QED BY <1>1, <2>4, <2>7 DEF ArrayInv
<1> QED BY <1>2, <1>3 DEF AppendValue

\* A goroutine takes the next index: a place when there is one, and one past
\* the end when there is none.
LEMMA IndexTaken ==
  ASSUME ArrayInv, NEW a \in Appender, appender[a].state \in {"adding", "again"},
         NEW past \in {"full", "dropping"},
         cur' = cur + 1,
         appender' = [appender EXCEPT ![a].state = IF cur' >= ArrayLen THEN past ELSE "storing",
                                      ![a].idx = cur'],
         UNCHANGED << fullCallback, arr, flushed, accepted, overlap >>
  PROVE  ArrayInv'
<1> DEFINE r == [state |-> IF cur' >= ArrayLen THEN past ELSE "storing",
                 value |-> appender[a].value, idx |-> cur']
<1>1. appender[a] \in AppenderType /\ cur \in Int /\ cur' \in Int
  BY DEF ArrayInv, ArrayTypeOK, AppenderType
<1>2. r \in AppenderType
  BY <1>1 DEF AppenderType
<1>3. appender' = [appender EXCEPT ![a] = r]
  <2>1. [appender[a] EXCEPT !.state = r.state, !.idx = r.idx] = r
    <3> DEFINE p == appender[a]
               q == [state |-> p.state, value |-> p.value, idx |-> p.idx]
    <3>1. p = q
      BY <1>1 DEF AppenderType
    <3>2. [q EXCEPT !.state = r.state] = [state |-> r.state, value |-> p.value, idx |-> p.idx]
      OBVIOUS
    <3>3. [[state |-> r.state, value |-> p.value, idx |-> p.idx] EXCEPT !.idx = r.idx] = r
      OBVIOUS
    <3>4. [p EXCEPT !.state = r.state, !.idx = r.idx] = [[p EXCEPT !.state = r.state] EXCEPT !.idx = r.idx]
      BY <1>1 DEF AppenderType
    <3> HIDE DEF p, q, r
    <3>5. [p EXCEPT !.state = r.state, !.idx = r.idx] = r
      BY <3>1, <3>2, <3>3, <3>4, Zenon
    <3> QED BY <3>5 DEF p
  <2>2. appender' = [appender EXCEPT ![a] = [appender[a] EXCEPT !.state = r.state, !.idx = r.idx]]
    BY DEF ArrayInv, ArrayTypeOK
  <2> QED BY <2>1, <2>2
<1>4. /\ appender' \in [Appender -> AppenderType] /\ appender'[a] = r
      /\ \A b \in Appender \ {a} : appender'[b] = appender[b]
      /\ Beyond' = IF r.state \in {"full", "dropping"} THEN Beyond \cup {a} ELSE Beyond \ {a}
  BY <1>2, <1>3, OneMoves DEF ArrayInv
<1>5. ArrayTypeOK'
  BY <1>1, <1>4 DEF ArrayInv, ArrayTypeOK, AppenderType
<1>6. a \notin Beyond /\ Beyond \subseteq Appender /\ Cardinality(Beyond) \in Nat
      /\ (Beyond = {} <=> Cardinality(Beyond) = 0)
  <2>1. a \notin Beyond /\ Beyond \subseteq Appender
    BY DEF Beyond
  <2> QED BY <2>1, CountBeyond
<1>7. \A u : Include(u)' = Include(u)
  BY DEF Include
<1>8. ASSUME ~overlap'
      PROVE  SlotsInv'
  <2>1. SlotsInv
    BY <1>8 DEF ArrayInv
  <2>2. CASE cur' >= ArrayLen
    <3>1. r.state = past /\ Beyond' = Beyond \cup {a} /\ Cardinality(Beyond') = Cardinality(Beyond) + 1
      BY <1>4, <1>6, <2>2, CountBeyond
    <3>2. Taken' = Taken /\ Taken = ArrayLen
      BY <1>1, <1>6, <2>1, <2>2, <3>1, ArrayAssumption DEF Taken, SlotsInv
    <3>3. \A b \in Appender : Storing(b)' => Storing(b) /\ appender'[b] = appender[b]
      BY <1>4, <3>1 DEF Storing
    <3> QED BY <2>1, <3>2, <3>3, PlacesKept
  <2>3. CASE ~(cur' >= ArrayLen)
    <3>1. r.state = "storing" /\ Beyond' = Beyond
      BY <1>4, <1>6, <2>3
    <3>2. Taken' = Taken + 1 /\ Beyond = {} /\ Taken = cur' /\ Taken < ArrayLen /\ Taken \in Nat
      BY <1>1, <1>6, <2>1, <2>3, <3>1, ArrayAssumption DEF Taken, SlotsInv
    <3>3. Taken \in DOMAIN arr /\ arr[Taken] = 0
      BY <2>1, <3>2, ArrayAssumption DEF SlotsInv, ArrayInv, ArrayTypeOK
    <3>4. appender'[a].idx = Taken /\ \A b \in Appender \ {a} : Storing(b)' = Storing(b)
      BY <1>4, <3>2 DEF Storing
    <3>5. \A b \in Appender : Storing(b)' => appender'[b].idx \in 0 .. Taken' - 1 /\ arr[appender'[b].idx] = 0
      BY <1>4, <2>1, <3>2, <3>3, <3>4 DEF SlotsInv
    <3>6. \A b \in Appender \ {a} : Storing(b)' => appender'[b].idx # appender'[a].idx
      BY <1>4, <2>1, <3>2, <3>4 DEF SlotsInv
    <3>7. \A b, c \in Appender : Storing(b)' /\ Storing(c)' /\ appender'[b].idx = appender'[c].idx => b = c
      BY <1>4, <2>1, <3>4, <3>6 DEF SlotsInv
    <3>8. \A i \in DOMAIN arr : i >= Taken' => arr[i] = 0
      BY <2>1, <3>2, ArrayAssumption DEF SlotsInv, ArrayInv, ArrayTypeOK
    <3>9. Taken' \in 0 .. ArrayLen /\ Beyond' = {}
      BY <3>1, <3>2, ArrayAssumption
    <3> QED BY <1>7, <2>1, <3>5, <3>7, <3>8, <3>9 DEF SlotsInv
  <2> QED BY <2>2, <2>3
<1> QED BY <1>5, <1>8 DEF ArrayInv

\* A goroutine gives an index past the end back.
LEMMA IndexGivenBack ==
  ASSUME ArrayInv, NEW a \in Appender, appender[a].state \in {"full", "dropping"},
         NEW state \in {"idle", "calling"}, cur' = cur - 1, Goes(a, state),
         UNCHANGED << fullCallback, arr, flushed, accepted, overlap >>
  PROVE  ArrayInv'
<1>1. PICK r \in AppenderType : r.state = state /\ appender' = [appender EXCEPT ![a] = r]
  BY GoesTo DEF ArrayInv
<1>2. /\ appender' \in [Appender -> AppenderType] /\ appender'[a].state = state
      /\ \A b \in Appender \ {a} : appender'[b] = appender[b]
      /\ Beyond' = Beyond \ {a}
  BY <1>1, OneMoves DEF ArrayInv
<1>3. ArrayTypeOK'
  BY <1>2 DEF ArrayInv, ArrayTypeOK, AppenderType
<1>4. Beyond \subseteq Appender /\ a \in Beyond
  BY DEF Beyond
<1>5. Cardinality(Beyond') = Cardinality(Beyond) - 1 /\ Cardinality(Beyond) \in Nat
  BY <1>2, <1>4, CountBeyond
<1>6. Taken' = Taken
  BY <1>5 DEF Taken, ArrayInv, ArrayTypeOK
<1>7. \A b \in Appender : Storing(b)' => Storing(b) /\ appender'[b] = appender[b]
  BY <1>2 DEF Storing
<1>8. ASSUME ~overlap'
      PROVE  SlotsInv'
  <2>1. SlotsInv /\ Taken = ArrayLen
    BY <1>4, <1>8 DEF ArrayInv, SlotsInv
  <2> QED BY <1>6, <1>7, <2>1, PlacesKept
<1> QED BY <1>3, <1>8 DEF ArrayInv

\* The callback empties the array: unless it overlaps with another Append, no
\* place was waiting for its value.
LEMMA CallFullCallbackStep ==
  ASSUME ArrayInv, NEW a \in Appender, CallFullCallback(a)
  PROVE  ArrayInv'
<1>1. /\ appender[a].state = "calling"
      /\ Goes(a, IF fullCallback = "error" THEN "idle" ELSE "again")
      /\ overlap' = (overlap \/ \E b \in Appender \ {a} : appender[b].state # "idle")
      /\ UNCHANGED << fullCallback, accepted >>
  BY DEF CallFullCallback
<1>2. PICK r \in AppenderType : r.state \in {"idle", "again"} /\ appender' = [appender EXCEPT ![a] = r]
  BY <1>1, GoesTo DEF ArrayInv
<1>3. /\ appender' \in [Appender -> AppenderType] /\ appender'[a] = r
      /\ \A b \in Appender \ {a} : appender'[b] = appender[b]
      /\ Beyond' = Beyond \ {a}
  BY <1>2, OneMoves DEF ArrayInv
<1>4. Beyond' = Beyond
  BY <1>1, <1>3 DEF Beyond
<1>5. overlap' \in BOOLEAN
  BY <1>1 DEF ArrayInv, ArrayTypeOK
<1>6. CASE UNCHANGED << arr, cur, flushed >>
  <2>1. ArrayTypeOK'
    BY <1>1, <1>3, <1>5, <1>6 DEF ArrayInv, ArrayTypeOK, AppenderType
  <2>2. Taken' = Taken
    BY <1>4, <1>6 DEF Taken
  <2>3. \A b \in Appender : Storing(b)' => Storing(b) /\ appender'[b] = appender[b]
    BY <1>2, <1>3 DEF Storing
  <2>4. ~overlap' => SlotsInv
    BY <1>1 DEF ArrayInv
  <2>5. SlotsInv => SlotsInv'
    BY <1>1, <1>4, <1>6, <2>2, <2>3, PlacesKept DEF SlotsInv
  <2> QED BY <2>1, <2>4, <2>5 DEF ArrayInv
<1>7. CASE /\ flushed' = flushed \cup {arr[i] : i \in {j \in DOMAIN arr : j < Length}}
           /\ arr' = Empty /\ cur' = -1
  <2>1. ArrayTypeOK'
    <3>1. arr' \in [0 .. ArrayLen - 1 -> Value \cup {0}] /\ cur' \in Int
      BY <1>7 DEF Empty
    <3>2. flushed' \subseteq Value \cup {0}
      BY <1>7 DEF ArrayInv, ArrayTypeOK
    <3> QED BY <1>1, <1>3, <1>5, <3>1, <3>2 DEF ArrayInv, ArrayTypeOK, AppenderType
  <2>2. ASSUME ~overlap'
        PROVE  SlotsInv'
    <3>1. SlotsInv /\ \A b \in Appender \ {a} : appender[b].state = "idle"
      BY <1>1, <2>2 DEF ArrayInv
    <3>2. Beyond = {} /\ \A b \in Appender : ~Storing(b)'
      BY <1>1, <1>2, <1>3, <3>1 DEF Beyond, Storing
    <3>3. Taken' = 0 /\ Taken = Length /\ Beyond' = {}
      BY <1>4, <1>7, <3>2, CountBeyond DEF Taken, Length, ArrayInv, ArrayTypeOK
    <3>4. ASSUME NEW v \in accepted \ {0}
          PROVE  v \in flushed'
      <4>1. CASE Include(v)
        <5>1. PICK i \in DOMAIN arr : arr[i] = v
          BY <4>1 DEF Include
        <5>2. i \in Int /\ ~(i >= Taken)
          BY <3>1, <3>4, <5>1, ArrayAssumption DEF SlotsInv, ArrayInv, ArrayTypeOK
        <5>3. i < Length
          BY <3>3, <5>2 DEF Length, ArrayInv, ArrayTypeOK
        <5> QED BY <1>7, <5>1, <5>3
      <4>2. CASE v \in flushed
        BY <1>7, <4>2
      <4> QED BY <3>1, <3>4, <4>1, <4>2 DEF SlotsInv
    <3>5. \A i \in DOMAIN arr' : arr'[i] = 0
      BY <1>7 DEF Empty
    <3> QED BY <1>1, <3>2, <3>3, <3>4, <3>5, ArrayAssumption DEF SlotsInv
  <2> QED BY <2>1, <2>2 DEF ArrayInv
<1> QED BY <1>6, <1>7 DEF CallFullCallback

\* The value comes into its place, which was empty, and lies there.
LEMMA StoreStep ==
  ASSUME ArrayInv, NEW a \in Appender, Store(a)
  PROVE  ArrayInv'
<1>1. /\ appender[a].state = "storing"
      /\ UNCHANGED << fullCallback, cur, flushed, overlap >>
  BY DEF Store
<1>2. appender[a] \in AppenderType /\ ArrayTypeOK
  BY DEF ArrayInv, ArrayTypeOK, AppenderType
<1> DEFINE at == appender[a].idx
           v  == appender[a].value
<1>3. at \in Int /\ v \in Value \cup {0}
  BY <1>2 DEF AppenderType
<1>4. CASE /\ at \in DOMAIN arr /\ arr' = [arr EXCEPT ![at] = v]
           /\ accepted' = accepted \cup {v} /\ Goes(a, "idle")
  <2>1. PICK r \in AppenderType : r.state = "idle" /\ appender' = [appender EXCEPT ![a] = r]
    BY <1>2, <1>4, GoesTo
  <2>2. /\ appender' \in [Appender -> AppenderType] /\ appender'[a] = r
        /\ \A b \in Appender \ {a} : appender'[b] = appender[b]
        /\ Beyond' = Beyond \ {a}
    BY <1>2, <2>1, OneMoves
  <2>3. ArrayTypeOK'
    <3>1. arr' \in [0 .. ArrayLen - 1 -> Value \cup {0}] /\ accepted' \subseteq Value \cup {0}
      BY <1>2, <1>3, <1>4 DEF ArrayTypeOK
    <3> QED BY <1>1, <1>2, <2>2, <3>1 DEF ArrayTypeOK, AppenderType
  <2>4. Beyond' = Beyond /\ Taken' = Taken
    BY <1>1, <2>2 DEF Beyond, Taken
  <2>5. \A b \in Appender : Storing(b)' => b # a /\ Storing(b) /\ appender'[b] = appender[b]
    BY <2>1, <2>2 DEF Storing
  <2>6. \A i \in DOMAIN arr : arr'[i] = IF i = at THEN v ELSE arr[i]
    BY <1>2, <1>4 DEF ArrayTypeOK
  <2>7. DOMAIN arr' = DOMAIN arr
    BY <1>4
  <2>8. ASSUME ~overlap'
        PROVE  SlotsInv'
    <3>1. SlotsInv /\ Storing(a) /\ at \in 0 .. Taken - 1 /\ arr[at] = 0 /\ Taken \in Int
      BY <1>1, <2>8 DEF ArrayInv, SlotsInv, Storing
    <3>2. \A i \in DOMAIN arr' : i >= Taken' => arr'[i] = 0
      BY <2>4, <2>6, <2>7, <3>1, ArrayAssumption DEF SlotsInv
    <3>3. \A b \in Appender : Storing(b)' =>
            appender'[b].idx \in 0 .. Taken' - 1 /\ arr'[appender'[b].idx] = 0
      <4>1. SUFFICES ASSUME NEW b \in Appender, Storing(b)'
                     PROVE  appender'[b].idx \in 0 .. Taken' - 1 /\ arr'[appender'[b].idx] = 0
        OBVIOUS
      <4>2. /\ b # a /\ Storing(b) /\ appender'[b] = appender[b] /\ appender[b].idx # at
            /\ appender[b].idx \in 0 .. Taken - 1 /\ arr[appender[b].idx] = 0
        BY <2>5, <3>1, <4>1 DEF SlotsInv
      <4>3. appender[b].idx \in DOMAIN arr
        BY <1>2, <3>1, <4>2, ArrayAssumption DEF ArrayTypeOK, SlotsInv
      <4> QED BY <2>4, <2>6, <4>2, <4>3
    <3>4. \A b, c \in Appender : Storing(b)' /\ Storing(c)' /\ appender'[b].idx = appender'[c].idx => b = c
      BY <2>5, <3>1 DEF SlotsInv
    <3>5. ASSUME NEW u \in accepted' \ {0}
          PROVE  Include(u)' \/ u \in flushed'
      <4>1. CASE u = v
        BY <1>4, <2>6, <2>7, <4>1 DEF Include
      <4>2. CASE u # v /\ Include(u)
        <5>1. PICK i \in DOMAIN arr : arr[i] = u
          BY <4>2 DEF Include
        <5>2. i # at
          BY <3>1, <3>5, <5>1
        <5> QED BY <2>6, <2>7, <5>1, <5>2 DEF Include
      <4>3. CASE u # v /\ u \in flushed
        BY <1>1, <4>3
      <4> QED BY <1>4, <3>1, <3>5, <4>1, <4>2, <4>3 DEF SlotsInv
    <3> QED BY <2>4, <3>1, <3>2, <3>3, <3>4, <3>5 DEF SlotsInv
  <2> QED BY <2>3, <2>8 DEF ArrayInv
<1>5. CASE Goes(a, "panicked") /\ UNCHANGED << arr, accepted >>
  <2>1. PICK r \in AppenderType : r.state = "panicked" /\ appender' = [appender EXCEPT ![a] = r]
    BY <1>2, <1>5, GoesTo
  <2>2. /\ appender' \in [Appender -> AppenderType] /\ appender'[a] = r
        /\ \A b \in Appender \ {a} : appender'[b] = appender[b]
        /\ Beyond' = Beyond \ {a}
    BY <1>2, <2>1, OneMoves
  <2>3. ArrayTypeOK'
    BY <1>1, <1>2, <1>5, <2>2 DEF ArrayTypeOK, AppenderType
  <2>4. Beyond' = Beyond /\ Taken' = Taken
    BY <1>1, <2>2 DEF Beyond, Taken
  <2>5. \A b \in Appender : Storing(b)' => Storing(b) /\ appender'[b] = appender[b]
    BY <2>1, <2>2 DEF Storing
  <2>6. SlotsInv => SlotsInv'
    BY <1>1, <1>5, <2>4, <2>5, PlacesKept DEF SlotsInv
  <2> QED BY <1>1, <2>3, <2>6 DEF ArrayInv
<1> QED BY <1>4, <1>5 DEF Store

LEMMA ArrayStep ==
  ASSUME ArrayInv, [ArrayNext]_arrayVars
  PROVE  ArrayInv'
<1>1. ASSUME NEW a \in Appender, NEW v \in Value \cup {0}, AppendValue(a, v)
      PROVE  ArrayInv'
  BY <1>1, AppendValueStep
<1>2. ASSUME NEW a \in Appender, AddIndex(a)
      PROVE  ArrayInv'
  BY <1>2, IndexTaken DEF AddIndex
<1>3. ASSUME NEW a \in Appender, AddAgain(a)
      PROVE  ArrayInv'
  BY <1>3, IndexTaken DEF AddAgain
<1>4. ASSUME NEW a \in Appender, GiveBack(a)
      PROVE  ArrayInv'
  BY <1>4, IndexGivenBack DEF GiveBack
<1>5. ASSUME NEW a \in Appender, Drop(a)
      PROVE  ArrayInv'
  BY <1>5, IndexGivenBack DEF Drop
<1>6. ASSUME NEW a \in Appender, CallFullCallback(a) \/ Store(a)
      PROVE  ArrayInv'
  BY <1>6, CallFullCallbackStep, StoreStep
<1>7. CASE UNCHANGED arrayVars
  BY <1>7 DEF arrayVars, ArrayInv, ArrayTypeOK, SlotsInv, Taken, Beyond, Storing, Include
<1> QED BY <1>1, <1>2, <1>3, <1>4, <1>5, <1>6, <1>7 DEF ArrayNext

\* Every reachable state of the array set has its types: no appending goroutine
\* stores outside the array without a panic.
THEOREM ArrayTypeCorrect == ArraySpec => []ArrayTypeOK
<1>1. ArrayInit => ArrayInv
  BY ArrayInvInit
<1>2. ArrayInv /\ [ArrayNext]_arrayVars => ArrayInv'
  BY ArrayStep
<1>3. ArrayInv => ArrayTypeOK
  BY DEF ArrayInv
<1> QED BY <1>1, <1>2, <1>3, PTL DEF ArraySpec

\* Whatever goroutines append and whatever the size is, nothing an Append
\* accepted is lost, but for an Append that overlaps with a callback, and the
\* zero value.
THEOREM NothingLostHolds == ArraySpec => []NothingLost
<1>1. ArrayInit => ArrayInv
  BY ArrayInvInit
<1>2. ArrayInv /\ [ArrayNext]_arrayVars => ArrayInv'
  BY ArrayStep
<1>3. ArrayInv => NothingLost
  <2> SUFFICES ASSUME ArrayInv, \A a \in Appender : appender[a].state = "idle", ~overlap
               PROVE  /\ Length \in 0 .. ArrayLen
                      /\ \A v \in accepted \ {0} : (Include(v) /\ Index(v) < Length) \/ v \in flushed
    BY DEF NothingLost
  <2>1. SlotsInv /\ ArrayTypeOK
    BY DEF ArrayInv
  <2>2. Beyond = {}
    BY DEF Beyond
  <2>3. Taken = Length
    BY <2>1, <2>2, CountBeyond DEF Taken, Length, ArrayTypeOK
  <2>4. ASSUME NEW v \in accepted \ {0}, Include(v)
        PROVE  Index(v) < Length
    <3>1. PICK i \in DOMAIN arr : arr[i] = v
      BY <2>4 DEF Include
    <3>2. i \in Int /\ i < Length
      BY <2>1, <2>3, <2>4, <3>1, ArrayAssumption DEF SlotsInv, ArrayTypeOK
    <3>3. Index(v) \in Int /\ Index(v) <= i
      BY <2>1, <2>4, <3>1, FirstIndex, ArrayAssumption DEF ArrayTypeOK
    <3> QED BY <2>1, <3>2, <3>3 DEF Length, ArrayTypeOK
  <2> QED BY <2>1, <2>3, <2>4 DEF SlotsInv
<1> QED BY <1>1, <1>2, <1>3, PTL DEF ArraySpec

----------------------------------------------------------------------------
(* The loggers.                                                            *)

\* Once the first use is over there is a logger, one that the application set
\* is there unless it raced, and one goroutine creates the default one.
RootInv ==
  /\ once = "done" => rootLogger # NoLogger
  /\ rootLogger = NoLogger => lastSet = NoLogger
  /\ ~raced /\ lastSet # NoLogger => rootLogger = lastSet /\ once # "running"
  /\ \A g \in Goroutine : getter[g].state = "creating" => once = "running"
  /\ \A g, h \in Goroutine : getter[g].state = "creating" /\ getter[h].state = "creating" => g = h

\* While a call is under way and no logger is set, the last is the one it found.
CallInv ==
  \A g \in Goroutine : getter[g].state # "idle" /\ getter[g].alone => getter[g].last = lastSet

LoggersInv == LoggersTypeOK /\ RootInv /\ CallInv /\ LoggersAgree

CallType ==
  [state : {"idle", "once", "creating"}, alone : BOOLEAN,
   logger : Logger \cup {NoLogger}, last : Logger \cup {NoLogger}]

ContextType == [trace : Nat, logger : Logger, given : BOOLEAN]

\* What New makes is a logger, and none at all is not.
LEMMA LoggersMade ==
  /\ Default = [writer |-> "stdout", format |-> "logfmt", trace |-> 0]
  /\ Default \in Logger /\ Default # NoLogger /\ NoLogger \notin Logger
  /\ Configured \subseteq Logger
<1>1. New("none", "logfmt") = [writer : {"stdout"}, format : {"logfmt"}, trace : {0}]
  BY DEF New, newWriterFromConfig
<1>2. Default \in New("none", "logfmt")
  <2>1. [writer |-> "stdout", format |-> "logfmt", trace |-> 0] \in New("none", "logfmt")
    BY <1>1
  <2> QED BY <2>1 DEF Default
<1>3. Default = [writer |-> "stdout", format |-> "logfmt", trace |-> 0]
  <2>1. \A d \in [writer : {"stdout"}, format : {"logfmt"}, trace : {0}] :
          /\ d = [writer |-> d.writer, format |-> d.format, trace |-> d.trace]
          /\ d.writer = "stdout" /\ d.format = "logfmt" /\ d.trace = 0
    OBVIOUS
  <2>2. /\ Default = [writer |-> Default.writer, format |-> Default.format, trace |-> Default.trace]
        /\ Default.writer = "stdout" /\ Default.format = "logfmt" /\ Default.trace = 0
    BY <1>1, <1>2, <2>1
  <2> QED BY <2>2
<1>4. Default \in Logger /\ Default # NoLogger
  BY <1>3 DEF Logger, NoLogger
<1>5. NoLogger \notin Logger
  BY DEF Logger, NoLogger
<1>6. New("device", "json") \subseteq Logger /\ New("regular", "other") \subseteq Logger
  BY DEF New, newWriterFromConfig, Logger
<1> QED BY <1>3, <1>4, <1>5, <1>6 DEF Configured

LEMMA LoggersInvInit == LoggersInit => LoggersInv
<1> SUFFICES ASSUME LoggersInit
             PROVE  LoggersInv
  OBVIOUS
<1> DEFINE c == [state |-> "idle", logger |-> NoLogger, last |-> NoLogger, alone |-> FALSE]
<1>1. c \in CallType
  BY DEF CallType
<1>2. getter = [g \in Goroutine |-> c]
  BY DEF LoggersInit
<1>3. \A g \in Goroutine : getter[g].state = "idle" /\ ~getter[g].alone
  BY <1>2
<1>4. getter \in [Goroutine -> CallType]
  BY <1>1, <1>2
<1>5. LoggersTypeOK
  <2>1. contexts \in Seq([trace : Nat, logger : Logger, given : BOOLEAN]) /\ sets \in 0 .. MaxSets
    BY LoggersAssumption DEF LoggersInit
  <2> QED BY <1>4, <2>1 DEF LoggersInit, LoggersTypeOK, CallType
<1> QED BY <1>3, <1>5 DEF LoggersInit, LoggersInv, RootInv, CallInv, LoggersAgree

\* A logger is set: the calls under way are no more alone.
LEMMA SetDefaultLoggerStep ==
  ASSUME LoggersInv, NEW l \in Configured, SetDefaultLogger(l)
  PROVE  LoggersInv'
<1>1. /\ sets < MaxSets /\ sets' = sets + 1
      /\ rootLogger' = l /\ lastSet' = l
      /\ raced' = (raced \/ once = "running")
      /\ getter' = [g \in Goroutine |-> IF getter[g].state = "idle" THEN getter[g]
                                        ELSE [getter[g] EXCEPT !.alone = FALSE]]
      /\ UNCHANGED << once, contexts >>
  BY DEF SetDefaultLogger
<1>2. l \in Logger /\ l # NoLogger
  BY LoggersMade
<1>3. getter \in [Goroutine -> CallType]
  BY DEF LoggersInv, LoggersTypeOK, CallType
<1>4. ASSUME NEW g \in Goroutine
      PROVE  /\ getter'[g] \in CallType
             /\ getter'[g].state = getter[g].state
             /\ getter[g].state = "idle" => getter'[g] = getter[g]
             /\ getter[g].state # "idle" => ~getter'[g].alone
  <2>1. getter[g] \in CallType
    BY <1>3
  <2>2. CASE getter[g].state = "idle"
    BY <1>1, <2>1, <2>2
  <2>3. CASE getter[g].state # "idle"
    <3>1. getter'[g] = [getter[g] EXCEPT !.alone = FALSE]
      BY <1>1, <2>3
    <3>2. /\ [getter[g] EXCEPT !.alone = FALSE] \in CallType
          /\ [getter[g] EXCEPT !.alone = FALSE].state = getter[g].state
          /\ ~[getter[g] EXCEPT !.alone = FALSE].alone
      BY <2>1 DEF CallType
    <3> QED BY <2>3, <3>1, <3>2
  <2> QED BY <2>2, <2>3
<1>5. LoggersTypeOK'
  <2>1. getter' \in [Goroutine -> CallType]
    BY <1>1, <1>4
  <2>2. raced' \in BOOLEAN /\ sets' \in 0 .. MaxSets
    BY <1>1, LoggersAssumption DEF LoggersInv, LoggersTypeOK
  <2> QED BY <1>1, <1>2, <2>1, <2>2 DEF LoggersInv, LoggersTypeOK, CallType
<1>6. RootInv'
  <2>1. rootLogger' # NoLogger /\ rootLogger' = lastSet' /\ once' = once
    BY <1>1, <1>2
  <2>2. ~raced' => once' # "running"
    BY <1>1
  <2>3. /\ \A g \in Goroutine : getter'[g].state = "creating" => once' = "running"
        /\ \A g, h \in Goroutine :
             getter'[g].state = "creating" /\ getter'[h].state = "creating" => g = h
    BY <1>4, <2>1 DEF LoggersInv, RootInv
  <2> QED BY <2>1, <2>2, <2>3 DEF RootInv
<1>7. CallInv'
  BY <1>4 DEF CallInv
<1>8. LoggersAgree'
  <2>1. raced => raced'
    BY <1>1
  <2>2. \A c \in DOMAIN contexts' : ~contexts'[c].given => contexts'[c].logger.trace = contexts'[c].trace
    BY <1>1 DEF LoggersInv, LoggersAgree, GetContextLogger, GetTraceId
  <2>3. \A g \in Goroutine : getter'[g].state = "idle" => getter[g].state = "idle" /\ getter'[g] = getter[g]
    BY <1>4
  <2> QED BY <2>1, <2>2, <2>3 DEF LoggersInv, LoggersAgree, GetContextLogger, GetTraceId
<1> QED BY <1>5, <1>6, <1>7, <1>8 DEF LoggersInv

\* One call moves, the others stay where they are.
LEMMA OneCallMoves ==
  ASSUME LoggersInv, NEW g \in Goroutine, NEW c \in CallType, getter' = [getter EXCEPT ![g] = c],
         UNCHANGED << sets, lastSet, raced, contexts >>,
         rootLogger' \in Logger \cup {NoLogger}, once' \in {"new", "running", "done"}
  PROVE  /\ LoggersTypeOK'
         /\ getter'[g] = c
         /\ \A h \in Goroutine \ {g} : getter'[h] = getter[h]
         /\ (c.state # "idle" /\ c.alone => c.last = lastSet) => CallInv'
         /\ (c.state = "idle" /\ c.alone =>
               c.logger # NoLogger /\ (c.last # NoLogger /\ ~raced => c.logger = c.last)) => LoggersAgree'
<1>1. getter \in [Goroutine -> CallType]
  BY DEF LoggersInv, LoggersTypeOK, CallType
<1>2. /\ getter' \in [Goroutine -> CallType] /\ getter'[g] = c
      /\ \A h \in Goroutine \ {g} : getter'[h] = getter[h]
  BY <1>1
<1>3. LoggersTypeOK'
  BY <1>2 DEF LoggersInv, LoggersTypeOK, CallType
<1>4. ASSUME c.state # "idle" /\ c.alone => c.last = lastSet
      PROVE  CallInv'
  BY <1>2, <1>4 DEF LoggersInv, CallInv
<1>5. ASSUME c.state = "idle" /\ c.alone =>
               c.logger # NoLogger /\ (c.last # NoLogger /\ ~raced => c.logger = c.last)
      PROVE  LoggersAgree'
  <2>1. \A x \in DOMAIN contexts' : ~contexts'[x].given => contexts'[x].logger.trace = contexts'[x].trace
    BY DEF LoggersInv, LoggersAgree, GetContextLogger, GetTraceId
  <2> QED BY <1>2, <1>5, <2>1 DEF LoggersInv, LoggersAgree, GetContextLogger, GetTraceId
<1> QED BY <1>2, <1>3, <1>4, <1>5

LEMMA GetDefaultLoggerStep ==
  ASSUME LoggersInv, NEW g \in Goroutine, GetDefaultLogger(g)
  PROVE  LoggersInv'
<1> DEFINE c == [state |-> "once", logger |-> NoLogger, last |-> lastSet, alone |-> TRUE]
<1>1. /\ getter' = [getter EXCEPT ![g] = c]
      /\ UNCHANGED << rootLogger, once, sets, lastSet, raced, contexts >>
      /\ rootLogger' \in Logger \cup {NoLogger} /\ once' \in {"new", "running", "done"}
  BY DEF GetDefaultLogger, LoggersInv, LoggersTypeOK
<1>2. c \in CallType /\ c.state = "once" /\ c.last = lastSet
  BY DEF CallType, LoggersInv, LoggersTypeOK
<1> HIDE DEF c
<1>3. /\ LoggersTypeOK' /\ CallInv' /\ LoggersAgree' /\ getter'[g] = c
      /\ \A h \in Goroutine \ {g} : getter'[h] = getter[h]
  BY <1>1, <1>2, OneCallMoves
<1>4. RootInv'
  BY <1>1, <1>2, <1>3 DEF LoggersInv, RootInv
<1> QED BY <1>3, <1>4 DEF LoggersInv

\* The state of a call changes and nothing else of it.
LEMMA NewState ==
  ASSUME NEW c \in CallType, NEW state \in {"idle", "once", "creating"}
  PROVE  /\ [c EXCEPT !.state = state] \in CallType
         /\ [c EXCEPT !.state = state].state = state
         /\ [c EXCEPT !.state = state].alone = c.alone /\ [c EXCEPT !.state = state].last = c.last
BY DEF CallType

LEMMA OnceStep ==
  ASSUME LoggersInv, NEW g \in Goroutine, Once(g)
  PROVE  LoggersInv'
<1>1. /\ getter[g].state = "once" /\ once = "new"
      /\ UNCHANGED << rootLogger, sets, lastSet, raced, contexts >>
      /\ rootLogger' \in Logger \cup {NoLogger}
  BY DEF Once, LoggersInv, LoggersTypeOK
<1>2. getter[g] \in CallType
  BY DEF LoggersInv, LoggersTypeOK, CallType
<1>3. CASE rootLogger = NoLogger
  <2> DEFINE c == [getter[g] EXCEPT !.state = "creating"]
  <2>1. getter' = [getter EXCEPT ![g] = c] /\ once' = "running"
    BY <1>3 DEF Once
  <2>2. c \in CallType /\ c.state = "creating" /\ c.alone = getter[g].alone /\ c.last = getter[g].last
    BY <1>2, NewState
  <2> HIDE DEF c
  <2>3. c.state # "idle" /\ c.alone => c.last = lastSet
    BY <1>1, <2>2 DEF LoggersInv, CallInv
  <2>4. /\ LoggersTypeOK' /\ CallInv' /\ LoggersAgree' /\ getter'[g] = c
        /\ \A h \in Goroutine \ {g} : getter'[h] = getter[h]
    BY <1>1, <2>1, <2>2, <2>3, OneCallMoves
  <2>5. RootInv'
    BY <1>1, <1>3, <2>1, <2>2, <2>4 DEF LoggersInv, RootInv
  <2> QED BY <2>4, <2>5 DEF LoggersInv
<1>4. CASE rootLogger # NoLogger
  <2>1. once' = "done" /\ UNCHANGED getter
    BY <1>4 DEF Once
  <2> QED BY <1>1, <1>4, <2>1 DEF LoggersInv, LoggersTypeOK, RootInv, CallInv, LoggersAgree,
                                  GetContextLogger, GetTraceId
<1> QED BY <1>3, <1>4

LEMMA CreateStep ==
  ASSUME LoggersInv, NEW g \in Goroutine, Create(g)
  PROVE  LoggersInv'
<1> DEFINE c == [getter[g] EXCEPT !.state = "once"]
<1>1. /\ getter[g].state = "creating" /\ rootLogger' = Default /\ once' = "done"
      /\ getter' = [getter EXCEPT ![g] = c]
      /\ UNCHANGED << sets, lastSet, raced, contexts >>
  BY DEF Create
<1>2. getter[g] \in CallType
  BY DEF LoggersInv, LoggersTypeOK, CallType
<1>3. c \in CallType /\ c.state = "once" /\ c.alone = getter[g].alone /\ c.last = getter[g].last
  BY <1>2, NewState
<1> HIDE DEF c
<1>4. c.state # "idle" /\ c.alone => c.last = lastSet
  BY <1>1, <1>3 DEF LoggersInv, CallInv
<1>5. /\ LoggersTypeOK' /\ CallInv' /\ LoggersAgree' /\ getter'[g] = c
      /\ \A h \in Goroutine \ {g} : getter'[h] = getter[h]
  BY <1>1, <1>3, <1>4, OneCallMoves, LoggersMade
<1>6. RootInv'
  <2>1. once = "running"
    BY <1>1 DEF LoggersInv, RootInv
  <2>2. \A h \in Goroutine : getter'[h].state # "creating"
    BY <1>1, <1>3, <1>5 DEF LoggersInv, RootInv
  <2> QED BY <1>1, <2>1, <2>2, LoggersMade DEF LoggersInv, RootInv
<1> QED BY <1>5, <1>6 DEF LoggersInv

\* The call returns the root logger, which is the one set last.
LEMMA GetReturnsStep ==
  ASSUME LoggersInv, NEW g \in Goroutine, GetReturns(g)
  PROVE  LoggersInv'
<1> DEFINE c == [getter[g] EXCEPT !.state = "idle", !.logger = rootLogger]
<1>1. /\ getter[g].state = "once" /\ once = "done"
      /\ UNCHANGED << rootLogger, once, sets, lastSet, raced, contexts >>
      /\ rootLogger' \in Logger \cup {NoLogger} /\ once' \in {"new", "running", "done"}
  BY DEF GetReturns, LoggersInv, LoggersTypeOK
<1>2. getter \in [Goroutine -> CallType] /\ getter[g] \in CallType
  BY DEF LoggersInv, LoggersTypeOK, CallType
<1>3. getter' = [getter EXCEPT ![g] = c]
  BY <1>2 DEF GetReturns
<1>4. /\ c \in CallType /\ c.state = "idle" /\ c.logger = rootLogger
      /\ c.alone = getter[g].alone /\ c.last = getter[g].last
  BY <1>1, <1>2 DEF CallType
<1> HIDE DEF c
<1>5. rootLogger # NoLogger
      /\ (c.alone /\ c.last # NoLogger /\ ~raced => rootLogger = c.last)
  BY <1>1, <1>4 DEF LoggersInv, RootInv, CallInv
<1>6. /\ LoggersTypeOK' /\ CallInv' /\ LoggersAgree' /\ getter'[g] = c
      /\ \A h \in Goroutine \ {g} : getter'[h] = getter[h]
  BY <1>1, <1>3, <1>4, <1>5, OneCallMoves
<1>7. RootInv'
  BY <1>1, <1>4, <1>6 DEF LoggersInv, RootInv
<1> QED BY <1>6, <1>7 DEF LoggersInv

\* A context is appended, and a logger is there when it was needed.
LEMMA ContextStep ==
  ASSUME LoggersInv, NEW traceId \in {0} \cup {GetTraceId(c) : c \in DOMAIN contexts},
         NEW parent \in 0 .. Len(contexts), NewContextLogger(traceId, parent)
  PROVE  LoggersInv'
<1> DEFINE trace == IF traceId = 0 THEN NewTraceId ELSE traceId
           l == IF rootLogger = NoLogger THEN Default ELSE rootLogger
<1>1. UNCHANGED << getter, sets, lastSet, raced >>
  BY DEF NewContextLogger
<1>2. contexts \in Seq(ContextType) /\ rootLogger \in Logger \cup {NoLogger}
      /\ \A g \in Goroutine : getter[g] \in CallType
  BY DEF LoggersInv, LoggersTypeOK, ContextType, CallType
<1> DEFINE Given == \A c \in ContextType : c.trace \in Nat /\ c.logger \in Logger
<1>3. Given /\ \A x \in DOMAIN contexts : contexts[x] \in ContextType
  <2>1. Given
    BY DEF ContextType
  <2>2. \A x \in DOMAIN contexts : contexts[x] \in ContextType
    BY <1>2
  <2> QED BY <2>1, <2>2
<1>4. trace \in Nat
  <2>1. \A c \in DOMAIN contexts : contexts[c].trace \in Nat
    BY <1>3
  <2>2. Len(contexts) \in Nat
    BY <1>2
  <2> QED BY <2>1, <2>2 DEF NewTraceId, GetTraceId
<1> HIDE DEF trace
<1>5. l \in Logger /\ l # NoLogger /\ (rootLogger # NoLogger => l = rootLogger)
  BY <1>2, LoggersMade
<1> HIDE DEF l
<1>6. ASSUME NEW c \in ContextType, contexts' = Append(contexts, c), ~c.given => c.logger.trace = c.trace
      PROVE  /\ contexts' \in Seq(ContextType)
             /\ \A x \in DOMAIN contexts' : ~contexts'[x].given => contexts'[x].logger.trace = contexts'[x].trace
  <2>1. /\ contexts' \in Seq(ContextType)
        /\ DOMAIN contexts' = DOMAIN contexts \cup {Len(contexts) + 1}
        /\ contexts'[Len(contexts) + 1] = c
        /\ \A x \in DOMAIN contexts : contexts'[x] = contexts[x]
    BY <1>2, <1>6
  <2>2. \A x \in DOMAIN contexts : ~contexts[x].given => contexts[x].logger.trace = contexts[x].trace
    BY DEF LoggersInv, LoggersAgree, GetContextLogger, GetTraceId
  <2> QED BY <1>6, <2>1, <2>2
<1>7. CASE parent = 0
  <2> DEFINE logger == [l EXCEPT !.trace = trace]
             c == [trace |-> trace, logger |-> logger, given |-> FALSE]
  <2>1. /\ rootLogger = NoLogger => once = "new"
        /\ rootLogger' = l
        /\ once' = IF rootLogger = NoLogger THEN "done" ELSE once
        /\ contexts' = Append(contexts, c)
    BY <1>7 DEF NewContextLogger, NewTraceLogger, trace, l
  <2>2. logger \in Logger /\ logger.trace = trace
    BY <1>4, <1>5 DEF Logger
  <2> HIDE DEF logger
  <2>3. c \in ContextType /\ c.logger.trace = c.trace
    BY <1>4, <2>2 DEF ContextType
  <2> HIDE DEF c
  <2>4. /\ contexts' \in Seq(ContextType)
        /\ \A x \in DOMAIN contexts' : ~contexts'[x].given => contexts'[x].logger.trace = contexts'[x].trace
    BY <1>6, <2>1, <2>3
  <2>5. LoggersTypeOK'
    BY <1>1, <1>5, <2>1, <2>4 DEF LoggersInv, LoggersTypeOK, ContextType
  <2>6. RootInv'
    BY <1>1, <1>5, <2>1 DEF LoggersInv, RootInv
  <2>7. CallInv' /\ LoggersAgree'
    BY <1>1, <2>4 DEF LoggersInv, CallInv, LoggersAgree, GetContextLogger, GetTraceId
  <2> QED BY <2>5, <2>6, <2>7 DEF LoggersInv
<1>8. CASE parent # 0
  <2> DEFINE c == [trace |-> trace, logger |-> contexts[parent].logger, given |-> TRUE]
  <2>1. contexts' = Append(contexts, c) /\ UNCHANGED << rootLogger, once >>
    BY <1>8 DEF NewContextLogger, GetContextLogger, trace
  <2>2. c \in ContextType /\ c.given
    <3>1. parent \in DOMAIN contexts
      BY <1>2, <1>8
    <3>2. contexts[parent].logger \in Logger
      BY <1>3, <3>1
    <3> QED BY <1>4, <3>2 DEF ContextType
  <2> HIDE DEF c
  <2>3. /\ contexts' \in Seq(ContextType)
        /\ \A x \in DOMAIN contexts' : ~contexts'[x].given => contexts'[x].logger.trace = contexts'[x].trace
    BY <1>6, <2>1, <2>2
  <2>4. LoggersTypeOK'
    BY <1>1, <2>1, <2>3 DEF LoggersInv, LoggersTypeOK, ContextType
  <2> QED BY <1>1, <2>1, <2>3, <2>4 DEF LoggersInv, RootInv, CallInv, LoggersAgree, GetContextLogger, GetTraceId
<1> QED BY <1>7, <1>8

LEMMA LoggersStep ==
  ASSUME LoggersInv, [LoggersNext]_loggerVars
  PROVE  LoggersInv'
<1>1. CASE \E l \in Configured : SetDefaultLogger(l)
  BY <1>1, SetDefaultLoggerStep
<1>2. CASE \E g \in Goroutine : GetDefaultLogger(g) \/ Once(g) \/ Create(g) \/ GetReturns(g)
  BY <1>2, GetDefaultLoggerStep, OnceStep, CreateStep, GetReturnsStep
<1>3. CASE \E t \in {0} \cup {GetTraceId(c) : c \in DOMAIN contexts}, p \in 0 .. Len(contexts) :
             NewContextLogger(t, p)
  BY <1>3, ContextStep
<1>4. CASE UNCHANGED loggerVars
  BY <1>4 DEF loggerVars, LoggersInv, LoggersTypeOK, RootInv, CallInv, LoggersAgree, GetContextLogger,
              GetTraceId
<1> QED BY <1>1, <1>2, <1>3, <1>4 DEF LoggersNext

\* Every variable of the loggers keeps its type.
THEOREM LoggersTypeCorrect == LoggersSpec => []LoggersTypeOK
<1>1. LoggersInit => LoggersInv
  BY LoggersInvInit
<1>2. LoggersInv /\ [LoggersNext]_loggerVars => LoggersInv'
  BY LoggersStep
<1>3. LoggersInv => LoggersTypeOK
  BY DEF LoggersInv
<1> QED BY <1>1, <1>2, <1>3, PTL DEF LoggersSpec

\* Whatever goroutines, loggers and contexts there are: a call gets the logger
\* set last, and a context logs under its own trace id.
THEOREM LoggersAgreeHolds == LoggersSpec => []LoggersAgree
<1>1. LoggersInit => LoggersInv
  BY LoggersInvInit
<1>2. LoggersInv /\ [LoggersNext]_loggerVars => LoggersInv'
  BY LoggersStep
<1>3. LoggersInv => LoggersAgree
  BY DEF LoggersInv
<1> QED BY <1>1, <1>2, <1>3, PTL DEF LoggersSpec

----------------------------------------------------------------------------
(* The object stores.                                                      *)

Begins(s, t) == Len(s) <= Len(t) /\ \A i \in 1 .. Len(s) : s[i] = t[i]

\* What the last put left, when it returned nil, is there.
SettledInv ==
  \A p \in Place : settled[p] # Unknown => p \in DOMAIN object /\ object[p] = settled[p]

\* An object store has whole contents.
SentInv == storeKind # "fs" => \A p \in DOMAIN object : object[p] \in sent[p]

\* While a put is under way its object is known no more; of a file there is
\* what was copied so far.
PutInv ==
  /\ put.state # "idle" =>
       put.place \in Place /\ put.content \in sent[put.place] /\ settled[put.place] = Unknown
  /\ put.state = "opening" => put.copied = 0
  /\ put.state = "copying" =>
       /\ storeKind = "fs" /\ put.place \in DOMAIN object
       /\ Len(object[put.place]) = put.copied /\ Begins(object[put.place], put.content)

\* A get that is alone reads the object as it stays, one of oss a whole content;
\* what it has read is the beginning of that.
GetInv ==
  get.state \in {"reading", "done"} =>
    /\ get.place \in DOMAIN object
    /\ storeKind = "oss" => get.body \in sent[get.place]
    /\ get.alone => Body = object[get.place] /\ (put.state = "idle" \/ put.place # get.place)
    /\ get.alone \/ storeKind = "oss" =>
         /\ get.state = "reading" => Begins(get.read, Body)
         /\ get.state = "done" => get.read = Body

StoreInv == StoreTypeOK /\ SettledInv /\ SentInv /\ PutInv /\ GetInv

PutType ==
  [state : {"idle", "opening", "copying"}, place : Place \cup {"invalid"}, content : Content,
   copied : 0 .. MaxParts]

GetType ==
  [state : {"idle", "reading", "done", "error", "panic"}, place : Place \cup {"invalid"},
   body : Content, read : Content, alone : BOOLEAN]

\* Contents are the sequences of parts that are not too long.
LEMMA Contents ==
  /\ \A c \in Content : c \in Seq(1 .. MaxPuts) /\ Len(c) \in 0 .. MaxParts
  /\ \A c \in Seq(1 .. MaxPuts) : Len(c) <= MaxParts => c \in Content
  /\ \A n \in 0 .. MaxParts, m \in 1 .. MaxPuts : [i \in 1 .. n |-> m] \in Content
  /\ << >> \in Content /\ Unknown \notin Content
<1>1. ASSUME NEW c \in Content
      PROVE  c \in Seq(1 .. MaxPuts) /\ Len(c) \in 0 .. MaxParts /\ c # Unknown
  <2>1. PICK n \in 0 .. MaxParts : c \in [1 .. n -> 1 .. MaxPuts]
    BY DEF Content
  <2>2. n \in Nat
    BY <2>1, StoreAssumption
  <2>3. c \in Seq(1 .. MaxPuts) /\ Len(c) = n
    <3>1. c \in Seq(1 .. MaxPuts)
      BY <2>1, <2>2, SeqDef
    <3>2. DOMAIN c = 1 .. n
      BY <2>1
    <3> QED BY <2>2, <3>1, <3>2, LenProperties
  <2> QED BY <2>1, <2>3 DEF Unknown
<1>2. ASSUME NEW c \in Seq(1 .. MaxPuts), Len(c) <= MaxParts
      PROVE  c \in Content
  <2>1. c \in [1 .. Len(c) -> 1 .. MaxPuts] /\ Len(c) \in 0 .. MaxParts
    BY <1>2, StoreAssumption
  <2> QED BY <2>1 DEF Content
<1>3. ASSUME NEW n \in 0 .. MaxParts, NEW m \in 1 .. MaxPuts
      PROVE  [i \in 1 .. n |-> m] \in Content
  <2>1. [i \in 1 .. n |-> m] \in [1 .. n -> 1 .. MaxPuts]
    OBVIOUS
  <2> QED BY <2>1 DEF Content
<1>4. << >> \in Content
  <2>1. << >> \in Seq(1 .. MaxPuts) /\ Len(<< >>) <= MaxParts
    BY StoreAssumption
  <2> QED BY <1>2, <2>1
<1> QED BY <1>1, <1>2, <1>3, <1>4

\* What has as many parts as what it begins is that.
LEMMA BeginsAll ==
  ASSUME NEW s \in Content, NEW t \in Content, Begins(s, t), Len(t) <= Len(s)
  PROVE  s = t
<1>1. s \in Seq(1 .. MaxPuts) /\ t \in Seq(1 .. MaxPuts)
  BY Contents
<1> QED BY <1>1 DEF Begins

\* One more part, the next one.
LEMMA BeginsMore ==
  ASSUME NEW s \in Content, NEW t \in Content, Len(s) + 1 <= Len(t)
  PROVE  LET u == Append(s, t[Len(s) + 1]) IN
         u \in Content /\ Len(u) = Len(s) + 1 /\ (Begins(s, t) => Begins(u, t))
<1>1. /\ s \in Seq(1 .. MaxPuts) /\ t \in Seq(1 .. MaxPuts)
      /\ Len(s) \in Nat /\ Len(t) \in Nat /\ Len(t) <= MaxParts
  BY Contents, StoreAssumption
<1>2. t[Len(s) + 1] \in 1 .. MaxPuts
  <2>1. Len(s) + 1 \in 1 .. Len(t)
    BY <1>1
  <2> QED BY <1>1, <2>1, ElementOfSeq
<1> DEFINE u == Append(s, t[Len(s) + 1])
<1>3. /\ u \in Seq(1 .. MaxPuts) /\ Len(u) = Len(s) + 1
      /\ \A i \in 1 .. Len(s) : u[i] = s[i]
      /\ u[Len(s) + 1] = t[Len(s) + 1]
  BY <1>1, <1>2
<1>4. u \in Content
  <2>1. Len(u) <= MaxParts
    BY <1>1, <1>3, StoreAssumption
  <2>2. u \in Seq(1 .. MaxPuts)
    BY <1>3
  <2> HIDE DEF u
  <2> QED BY <2>1, <2>2, Contents
<1>5. ASSUME Begins(s, t)
      PROVE  Begins(u, t)
  <2>1. \A i \in 1 .. Len(u) : i \in 1 .. Len(s) \/ i = Len(s) + 1
    BY <1>1, <1>3
  <2>2. \A i \in 1 .. Len(u) : u[i] = t[i]
    BY <1>3, <1>5, <2>1 DEF Begins
  <2> QED BY <1>3, <2>2 DEF Begins
<1> QED BY <1>3, <1>4, <1>5

\* An object is put at a place and the others are as they were.
LEMMA PutAt ==
  ASSUME NEW p, NEW c, object' = At(p, c)
  PROVE  /\ DOMAIN object' = DOMAIN object \cup {p} /\ object'[p] = c
         /\ \A q \in DOMAIN object : q # p => object'[q] = object[q]
BY DEF At

LEMMA StoreInvInit == StoreInit => StoreInv
<1> SUFFICES ASSUME StoreInit
             PROVE  StoreInv
  OBVIOUS
<1>1. DOMAIN object = {}
  BY DEF StoreInit
<1>2. put \in PutType
  <2>1. 0 \in 0 .. MaxParts
    BY StoreAssumption
  <2> QED BY <2>1, Contents DEF StoreInit, PutType
<1>3. get \in GetType
  BY Contents DEF StoreInit, GetType
<1>4. put.state = "idle" /\ get.state = "idle"
  BY DEF StoreInit
<1>5. StoreTypeOK
  <2>1. settled \in [Place -> Content \cup {Unknown}] /\ sent \in [Place -> SUBSET Content]
    BY DEF StoreInit
  <2>2. puts \in 0 .. MaxPuts
    BY StoreAssumption DEF StoreInit
  <2> QED BY <1>1, <1>2, <1>3, <2>1, <2>2 DEF StoreInit, StoreTypeOK, PutType, GetType
<1>6. SettledInv /\ SentInv
  BY <1>1 DEF StoreInit, SettledInv, SentInv
<1>7. PutInv /\ GetInv
  BY <1>4 DEF PutInv, GetInv
<1> QED BY <1>5, <1>6, <1>7 DEF StoreInv

\* The fields of the calls, and of a put that changes its state.
LEMMA CallFields ==
  ASSUME StoreTypeOK
  PROVE  /\ put.state \in {"idle", "opening", "copying"} /\ put.place \in Place \cup {"invalid"}
         /\ put.content \in Content /\ put.copied \in 0 .. MaxParts
         /\ get.state \in {"idle", "reading", "done", "error", "panic"}
         /\ get.place \in Place \cup {"invalid"}
         /\ get.body \in Content /\ get.read \in Content /\ get.alone \in BOOLEAN
         /\ "invalid" \notin Place
<1>1. put \in PutType /\ get \in GetType
  BY DEF StoreTypeOK, PutType, GetType
<1> QED BY <1>1 DEF PutType, GetType, Place

LEMMA PutGoesTo ==
  ASSUME StoreTypeOK, NEW state \in {"idle", "opening", "copying"}, put' = [put EXCEPT !.state = state]
  PROVE  /\ put' \in PutType /\ put'.state = state /\ put'.place = put.place
         /\ put'.content = put.content /\ put'.copied = put.copied
<1>1. put \in PutType
  BY DEF StoreTypeOK, PutType
<1> QED BY <1>1 DEF PutType

\* A step that does not touch the get: an object that is read alone stays.
LEMMA GetKept ==
  ASSUME StoreInv, UNCHANGED << storeKind, get >>,
         DOMAIN object \subseteq DOMAIN object',
         \A p \in Place : sent[p] \subseteq sent'[p],
         get.state \in {"reading", "done"} /\ get.alone =>
           object'[get.place] = object[get.place] /\ (put'.state = "idle" \/ put'.place # get.place)
  PROVE  GetInv'
<1> SUFFICES ASSUME get.state \in {"reading", "done"}
             PROVE  GetInv'
  BY DEF GetInv
<1>1. GetInv /\ get.place \in DOMAIN object /\ DOMAIN object \subseteq Place
  BY DEF StoreInv, GetInv, StoreTypeOK
<1>2. storeKind # "fs" \/ get.alone => Body' = Body
  BY <1>1 DEF Body
<1>3. storeKind = "oss" => get.body \in sent'[get.place] /\ storeKind # "fs"
  BY <1>1 DEF GetInv
<1>4. get.alone => Body' = object'[get.place] /\ (put'.state = "idle" \/ put'.place # get.place)
  BY <1>1, <1>2 DEF GetInv
<1>5. get.alone \/ storeKind = "oss" =>
        /\ get.state = "reading" => Begins(get.read, Body')
        /\ get.state = "done" => get.read = Body'
  BY <1>1, <1>2, <1>3 DEF GetInv
<1>6. get.place \in DOMAIN object'
  BY <1>1
<1> QED BY <1>3, <1>4, <1>5, <1>6 DEF GetInv

\* A step of the put at its own place does not disturb a get that is alone.
LEMMA ElsewhereAlone ==
  ASSUME StoreInv, put.state # "idle", get.state \in {"reading", "done"}, get.alone
  PROVE  put.place # get.place /\ get.place \in DOMAIN object
BY DEF StoreInv, GetInv

LEMMA PutObjectStep ==
  ASSUME StoreInv, NEW path \in ObjectPath, NEW n \in 1 .. MaxParts, PutObject(path, n)
  PROVE  StoreInv'
<1> DEFINE place == resolveObjectPath(path)
           content == [i \in 1 .. n |-> puts']
<1>1. /\ put.state = "idle" /\ UNCHANGED << storeKind, object, head >>
      /\ puts' = puts + 1 /\ puts < MaxPuts /\ puts \in 0 .. MaxPuts
  BY DEF PutObject, StoreInv, StoreTypeOK
<1>2. puts' \in 1 .. MaxPuts /\ puts' \in 0 .. MaxPuts
  BY <1>1, StoreAssumption
<1>3. place \in Place \cup {"invalid"}
  BY DEF resolveObjectPath, Place
<1>4. CASE place = "invalid"
  <2>1. UNCHANGED << put, get, settled, sent >>
    BY <1>4 DEF PutObject
  <2>2. StoreTypeOK' /\ SettledInv' /\ SentInv' /\ PutInv'
    BY <1>1, <1>2, <2>1 DEF StoreInv, StoreTypeOK, SettledInv, SentInv, PutInv
  <2>3. GetInv'
    BY <1>1, <2>1 DEF StoreInv, GetInv, Body
  <2> QED BY <2>2, <2>3 DEF StoreInv
<1>5. CASE place # "invalid"
  <2> DEFINE p == [state |-> "opening", place |-> place, content |-> content, copied |-> 0]
  <2>1. /\ put' = p
        /\ get' = [get EXCEPT !.alone = @ /\ get.place # place]
        /\ settled' = [settled EXCEPT ![place] = Unknown]
        /\ sent' = [sent EXCEPT ![place] = @ \cup {put'.content}]
    BY <1>5 DEF PutObject
  <2>2. place \in Place /\ content \in Content /\ 0 \in 0 .. MaxParts
    <3>1. n \in 0 .. MaxParts
      BY StoreAssumption
    <3>2. content \in Content
      BY <1>2, <3>1, Contents
    <3> QED BY <1>3, <1>5, <3>2, StoreAssumption
  <2> HIDE DEF place, content
  <2>3. /\ p \in PutType /\ p.state = "opening" /\ p.place = place /\ p.content = content /\ p.copied = 0
    BY <2>2 DEF PutType
  <2> HIDE DEF p
  <2>4. /\ get' \in GetType /\ get'.state = get.state /\ get'.place = get.place
        /\ get'.body = get.body /\ get'.read = get.read
        /\ get'.alone = (get.alone /\ get.place # place)
    <3>1. get \in GetType
      BY DEF StoreInv, StoreTypeOK, GetType
    <3> DEFINE b == get.alone /\ get.place # place
    <3>2. b \in BOOLEAN /\ get' = [get EXCEPT !.alone = b]
      BY <2>1
    <3> HIDE DEF b
    <3>3. /\ get' \in GetType /\ get'.state = get.state /\ get'.place = get.place
          /\ get'.body = get.body /\ get'.read = get.read /\ get'.alone = b
      BY <3>1, <3>2 DEF GetType
    <3> QED BY <3>3 DEF b
  <2>5. /\ settled' \in [Place -> Content \cup {Unknown}] /\ settled'[place] = Unknown
        /\ \A q \in Place : q # place => settled'[q] = settled[q]
    BY <2>1, <2>2 DEF StoreInv, StoreTypeOK
  <2>6. /\ sent' \in [Place -> SUBSET Content] /\ content \in sent'[place]
        /\ \A q \in Place : sent[q] \subseteq sent'[q]
    BY <2>1, <2>2, <2>3 DEF StoreInv, StoreTypeOK
  <2>7. StoreTypeOK'
    BY <1>1, <1>2, <2>1, <2>3, <2>4, <2>5, <2>6 DEF StoreInv, StoreTypeOK, PutType, GetType
  <2>8. SettledInv'
    BY <1>1, <2>5 DEF StoreInv, SettledInv
  <2>9. SentInv'
    BY <1>1, <2>6 DEF StoreInv, StoreTypeOK, SentInv
  <2>10. PutInv'
    BY <2>1, <2>2, <2>3, <2>5, <2>6 DEF PutInv
  <2>11. Body' = Body
    BY <1>1, <2>4 DEF Body
  <2>12. GetInv'
    <3> SUFFICES ASSUME get.state \in {"reading", "done"}
                 PROVE  GetInv'
      BY <2>4 DEF GetInv
    <3>1. GetInv /\ get.place \in DOMAIN object /\ get.place \in Place
      BY DEF StoreInv, GetInv, StoreTypeOK
    <3>2. get.place \in DOMAIN object' /\ (storeKind = "oss" => get.body \in sent'[get.place])
      BY <1>1, <2>6, <3>1 DEF GetInv
    <3>3. get'.alone => Body' = object'[get'.place] /\ (put'.state = "idle" \/ put'.place # get'.place)
      BY <1>1, <2>1, <2>3, <2>4, <2>11, <3>1 DEF GetInv
    <3>4. get'.alone \/ storeKind = "oss" =>
            /\ get.state = "reading" => Begins(get.read, Body)
            /\ get.state = "done" => get.read = Body
      BY <2>4, <3>1 DEF GetInv
    <3> QED BY <1>1, <2>4, <2>11, <3>2, <3>3, <3>4 DEF GetInv
  <2> QED BY <2>7, <2>8, <2>9, <2>10, <2>12 DEF StoreInv
<1> QED BY <1>4, <1>5

LEMMA PutFailsStep ==
  ASSUME StoreInv, PutFails
  PROVE  StoreInv'
<1>1. /\ put.state \in {"opening", "copying"} /\ put' = [put EXCEPT !.state = "idle"]
      /\ UNCHANGED << storeKind, object, get, head, puts, settled, sent >>
  BY DEF PutFails, PutReturns
<1>2. put' \in PutType /\ put'.state = "idle"
  BY <1>1, PutGoesTo DEF StoreInv
<1>3. StoreTypeOK'
  BY <1>1, <1>2 DEF StoreInv, StoreTypeOK, PutType
<1>4. SettledInv' /\ SentInv' /\ PutInv'
  BY <1>1, <1>2 DEF StoreInv, SettledInv, SentInv, PutInv
<1>5. GetInv'
  BY <1>1, <1>2, GetKept
<1> QED BY <1>3, <1>4, <1>5 DEF StoreInv

\* The objects after one was put: the type, and what they are elsewhere.
LEMMA ObjectsTyped ==
  ASSUME StoreTypeOK, NEW p \in Place, NEW c \in Content, object' = At(p, c)
  PROVE  DOMAIN object' \subseteq Place /\ \A q \in DOMAIN object' : object'[q] \in Content
<1>1. DOMAIN object' = DOMAIN object \cup {p} /\ object'[p] = c
      /\ \A q \in DOMAIN object : q # p => object'[q] = object[q]
  BY PutAt
<1> QED BY <1>1 DEF StoreTypeOK

LEMMA OpenFileStep ==
  ASSUME StoreInv, OpenFile
  PROVE  StoreInv'
<1>1. /\ storeKind = "fs" /\ put.state = "opening" /\ object' = At(put.place, << >>)
      /\ put' = [put EXCEPT !.state = "copying"]
      /\ UNCHANGED << storeKind, get, head, puts, settled, sent >>
  BY DEF OpenFile
<1>2. /\ put' \in PutType /\ put'.state = "copying" /\ put'.place = put.place
      /\ put'.content = put.content /\ put'.copied = put.copied
  BY <1>1, PutGoesTo DEF StoreInv
<1>3. /\ put.place \in Place /\ put.content \in sent[put.place] /\ settled[put.place] = Unknown
      /\ put.copied = 0
  BY <1>1 DEF StoreInv, PutInv
<1>4. /\ DOMAIN object' = DOMAIN object \cup {put.place} /\ object'[put.place] = << >>
      /\ \A q \in DOMAIN object : q # put.place => object'[q] = object[q]
  BY <1>1, PutAt
<1>5. StoreTypeOK'
  <2>1. DOMAIN object' \subseteq Place /\ \A q \in DOMAIN object' : object'[q] \in Content
    BY <1>1, <1>3, Contents, ObjectsTyped DEF StoreInv
  <2> QED BY <1>1, <1>2, <2>1 DEF StoreInv, StoreTypeOK, PutType
<1>6. SettledInv'
  BY <1>1, <1>3, <1>4 DEF StoreInv, SettledInv
<1>7. SentInv'
  BY <1>1 DEF SentInv
<1>8. PutInv'
  <2>1. Len(object'[put.place]) = 0 /\ Begins(object'[put.place], put.content)
    <3>1. put.content \in Content
      BY CallFields DEF StoreInv
    <3>2. Len(put.content) \in Nat
      BY <3>1, Contents, StoreAssumption
    <3> QED BY <1>4, <3>2 DEF Begins
  <2> QED BY <1>1, <1>2, <1>3, <1>4, <2>1 DEF PutInv
<1>9. GetInv'
  BY <1>1, <1>4, ElsewhereAlone, GetKept
<1> QED BY <1>5, <1>6, <1>7, <1>8, <1>9 DEF StoreInv

\* A part is written past what was copied so far.
LEMMA CopyPartStep ==
  ASSUME StoreInv, CopyPart
  PROVE  StoreInv'
<1> DEFINE i == put.copied + 1
           file == object[put.place]
           new == IF i <= Len(file) THEN [file EXCEPT ![i] = put.content[i]]
                  ELSE Append(file, put.content[i])
<1>1. /\ put.state = "copying" /\ i <= Len(put.content) /\ object' = At(put.place, new)
      /\ put' = [put EXCEPT !.copied = i]
      /\ UNCHANGED << storeKind, get, head, puts, settled, sent >>
  BY DEF CopyPart
<1>2. /\ put.place \in Place /\ put.content \in sent[put.place] /\ settled[put.place] = Unknown
      /\ storeKind = "fs" /\ put.place \in DOMAIN object
      /\ Len(file) = put.copied /\ Begins(file, put.content)
  BY <1>1 DEF StoreInv, PutInv
<1>3. /\ put.content \in Content /\ file \in Content /\ put.copied \in 0 .. MaxParts
      /\ Len(put.content) \in 0 .. MaxParts
  <2>1. put.content \in Content /\ file \in Content /\ put.copied \in 0 .. MaxParts
    BY <1>2, CallFields DEF StoreInv, StoreTypeOK
  <2> QED BY <2>1, Contents
<1>4. i \in 0 .. MaxParts /\ i = Len(file) + 1 /\ ~(i <= Len(file))
  BY <1>1, <1>2, <1>3, StoreAssumption
<1>5. new \in Content /\ Len(new) = i /\ Begins(new, put.content)
  <2>1. new = Append(file, put.content[Len(file) + 1]) /\ Len(file) + 1 <= Len(put.content)
    BY <1>1, <1>4
  <2> HIDE DEF new, file
  <2> QED BY <1>2, <1>3, <1>4, <2>1, BeginsMore
<1> HIDE DEF new
<1>6. /\ put' \in PutType /\ put'.state = put.state /\ put'.place = put.place
      /\ put'.content = put.content /\ put'.copied = i
  <2>1. put \in PutType
    BY DEF StoreInv, StoreTypeOK, PutType
  <2> HIDE DEF i
  <2> QED BY <1>1, <1>4, <2>1 DEF PutType
<1>7. /\ DOMAIN object' = DOMAIN object \cup {put.place} /\ object'[put.place] = new
      /\ \A q \in DOMAIN object : q # put.place => object'[q] = object[q]
  BY <1>1, PutAt
<1>8. StoreTypeOK'
  <2>1. DOMAIN object' \subseteq Place /\ \A q \in DOMAIN object' : object'[q] \in Content
    BY <1>1, <1>2, <1>5, ObjectsTyped DEF StoreInv
  <2> QED BY <1>1, <1>6, <2>1 DEF StoreInv, StoreTypeOK, PutType
<1>9. SettledInv'
  BY <1>1, <1>2, <1>7 DEF StoreInv, SettledInv
<1>10. SentInv'
  BY <1>1, <1>2 DEF SentInv
<1>11. PutInv'
  BY <1>1, <1>2, <1>5, <1>6, <1>7 DEF PutInv
<1>12. GetInv'
  BY <1>1, <1>6, <1>7, ElsewhereAlone, GetKept
<1> QED BY <1>8, <1>9, <1>10, <1>11, <1>12 DEF StoreInv

\* A put returns nil when its content is there.
LEMMA PutSucceedsStep ==
  ASSUME StoreInv, put.state # "idle", PutSucceeds,
         \/ object' = At(put.place, put.content)
         \/ UNCHANGED object /\ put.place \in DOMAIN object /\ object[put.place] = put.content
  PROVE  StoreInv'
<1>1. /\ put' = [put EXCEPT !.state = "idle"]
      /\ settled' = [settled EXCEPT ![put.place] = put.content]
      /\ UNCHANGED << storeKind, get, head, puts, sent >>
  BY DEF PutSucceeds, PutReturns
<1>2. put' \in PutType /\ put'.state = "idle" /\ put'.place = put.place
  BY <1>1, PutGoesTo DEF StoreInv
<1>3. put.place \in Place /\ put.content \in sent[put.place] /\ put.content \in Content
  BY CallFields DEF StoreInv, PutInv
<1>4. /\ DOMAIN object' = DOMAIN object \cup {put.place} /\ object'[put.place] = put.content
      /\ \A q \in DOMAIN object : q # put.place => object'[q] = object[q]
  <2>1. CASE object' = At(put.place, put.content)
    BY <2>1, PutAt
  <2>2. CASE UNCHANGED object /\ object[put.place] = put.content /\ put.place \in DOMAIN object
    BY <2>2
  <2> QED BY <2>1, <2>2
<1>5. /\ settled' \in [Place -> Content \cup {Unknown}] /\ settled'[put.place] = put.content
      /\ \A q \in Place : q # put.place => settled'[q] = settled[q]
  BY <1>1, <1>3 DEF StoreInv, StoreTypeOK
<1>6. StoreTypeOK'
  <2>1. DOMAIN object' \subseteq Place /\ \A q \in DOMAIN object' : object'[q] \in Content
    BY <1>3, <1>4 DEF StoreInv, StoreTypeOK
  <2> QED BY <1>1, <1>2, <1>5, <2>1 DEF StoreInv, StoreTypeOK, PutType
<1>7. SettledInv'
  BY <1>3, <1>4, <1>5 DEF StoreInv, SettledInv
<1>8. SentInv'
  BY <1>1, <1>3, <1>4 DEF StoreInv, SentInv
<1>9. PutInv'
  BY <1>2 DEF PutInv
<1>10. GetInv'
  BY <1>1, <1>2, <1>4, ElsewhereAlone, GetKept
<1> QED BY <1>6, <1>7, <1>8, <1>9, <1>10 DEF StoreInv

LEMMA CopyEndsStep ==
  ASSUME StoreInv, CopyEnds
  PROVE  StoreInv'
<1>1. /\ put.state = "copying" /\ put.copied = Len(put.content) /\ PutSucceeds /\ UNCHANGED object
  BY DEF CopyEnds
<1>2. /\ put.place \in DOMAIN object /\ Len(object[put.place]) = put.copied
      /\ Begins(object[put.place], put.content)
  BY <1>1 DEF StoreInv, PutInv
<1>3. put.content \in Content /\ object[put.place] \in Content
  BY <1>2, CallFields DEF StoreInv, StoreTypeOK
<1>4. Len(put.content) <= Len(object[put.place])
  <2>1. Len(put.content) \in 0 .. MaxParts
    BY <1>3, Contents
  <2> QED BY <1>1, <1>2, <2>1, StoreAssumption
<1>5. object[put.place] = put.content
  BY <1>2, <1>3, <1>4, BeginsAll
<1> QED BY <1>1, <1>2, <1>5, PutSucceedsStep

LEMMA UploadStep ==
  ASSUME StoreInv, Upload
  PROVE  StoreInv'
<1>1. storeKind # "fs" /\ put.state = "opening" /\ object' = At(put.place, put.content)
  BY DEF Upload
<1>2. CASE PutSucceeds
  BY <1>1, <1>2, PutSucceedsStep
<1>3. CASE PutReturns /\ UNCHANGED << storeKind, get, head, puts, settled, sent >>
  <2>1. put' \in PutType /\ put'.state = "idle" /\ put'.place = put.place
    BY <1>3, PutGoesTo DEF StoreInv, PutReturns
  <2>2. /\ put.place \in Place /\ put.content \in sent[put.place] /\ put.content \in Content
        /\ settled[put.place] = Unknown
    BY <1>1, CallFields DEF StoreInv, PutInv
  <2>3. /\ DOMAIN object' = DOMAIN object \cup {put.place} /\ object'[put.place] = put.content
        /\ \A q \in DOMAIN object : q # put.place => object'[q] = object[q]
    BY <1>1, PutAt
  <2>4. StoreTypeOK'
    <3>1. DOMAIN object' \subseteq Place /\ \A q \in DOMAIN object' : object'[q] \in Content
      BY <2>2, <2>3 DEF StoreInv, StoreTypeOK
    <3> QED BY <1>3, <2>1, <3>1 DEF StoreInv, StoreTypeOK, PutType
  <2>5. SettledInv'
    BY <1>3, <2>2, <2>3 DEF StoreInv, SettledInv
  <2>6. SentInv'
    BY <1>1, <1>3, <2>2, <2>3 DEF StoreInv, SentInv
  <2>7. PutInv'
    BY <2>1 DEF PutInv
  <2>8. GetInv'
    BY <1>1, <1>3, <2>1, <2>3, ElsewhereAlone, GetKept
  <2> QED BY <2>4, <2>5, <2>6, <2>7, <2>8 DEF StoreInv
<1> QED BY <1>1, <1>2, <1>3 DEF Upload

\* A step of the get alone.
LEMMA OnlyGetMoves ==
  ASSUME StoreInv, UNCHANGED << storeKind, object, put, head, puts, settled, sent >>,
         get' \in GetType, GetInv'
  PROVE  StoreInv'
BY DEF StoreInv, StoreTypeOK, GetType, SettledInv, SentInv, PutInv

\* The get ends, with an error or a panic.
LEMMA GetStops ==
  ASSUME StoreInv, NEW state \in {"error", "panic"}, get' = [get EXCEPT !.state = state],
         UNCHANGED << storeKind, object, put, head, puts, settled, sent >>
  PROVE  StoreInv'
<1>1. get \in GetType
  BY DEF StoreInv, StoreTypeOK, GetType
<1>2. get' \in GetType /\ get'.state = state
  BY <1>1 DEF GetType
<1>3. GetInv'
  BY <1>2 DEF GetInv
<1> QED BY <1>2, <1>3, OnlyGetMoves

LEMMA GetObjectStep ==
  ASSUME StoreInv, NEW path \in ObjectPath, GetObject(path)
  PROVE  StoreInv'
<1> DEFINE place == resolveObjectPath(path)
<1>1. UNCHANGED << storeKind, object, put, head, puts, settled, sent >>
  BY DEF GetObject
<1>2. CASE GetFails
  BY <1>1, <1>2, GetStops DEF GetFails
<1>3. CASE GetPanics
  BY <1>1, <1>3, GetStops DEF GetPanics
<1>4. ASSUME place \in DOMAIN object,
             NEW body \in Content, Reads(place, body),
             storeKind = "fs" \/ (storeKind = "oss" /\ body = object[place])
      PROVE  StoreInv'
  <2> HIDE DEF place
  <2> DEFINE alone == put.state = "idle" \/ put.place # place
             r == [state |-> "reading", place |-> place, body |-> body, read |-> << >>,
                   alone |-> alone]
  <2>1. get' = r /\ place \in Place
    BY <1>4 DEF Reads, StoreInv, StoreTypeOK
  <2>2. /\ r \in GetType /\ r.state = "reading" /\ r.place = place /\ r.body = body
        /\ r.read = << >> /\ r.alone = alone
    BY <1>4, <2>1, Contents DEF GetType
  <2> HIDE DEF r
  <2>3. Body' = object[place] /\ object[place] \in Content
    BY <1>1, <1>4, <2>1, <2>2 DEF Body, StoreInv, StoreTypeOK
  <2>4. Begins(<< >>, object[place])
    <3>1. Len(object[place]) \in 0 .. MaxParts
      BY <2>3, Contents
    <3> QED BY <3>1, StoreAssumption DEF Begins
  <2>5. storeKind = "oss" => body \in sent[place]
    BY <1>4 DEF StoreInv, SentInv
  <2>6. GetInv'
    BY <1>1, <1>4, <2>1, <2>2, <2>3, <2>4, <2>5 DEF GetInv
  <2> QED BY <1>1, <2>1, <2>2, <2>6, OnlyGetMoves
<1>5. CASE place \in DOMAIN object /\ (GetFile(place) \/ GetBody(place))
  <2>1. << >> \in Content /\ object[place] \in Content
    BY <1>5, Contents DEF StoreInv, StoreTypeOK
  <2>2. CASE GetFile(place)
    BY <1>4, <1>5, <2>1, <2>2 DEF GetFile
  <2>3. CASE GetBody(place)
    <3> HIDE DEF place
    <3> QED BY <1>4, <1>5, <2>1, <2>3 DEF GetBody
  <2> QED BY <1>5, <2>2, <2>3
<1> QED BY <1>2, <1>3, <1>5 DEF GetObject

LEMMA ReadPartStep ==
  ASSUME StoreInv, ReadPart
  PROVE  StoreInv'
<1> DEFINE i == Len(get.read) + 1
<1>1. /\ get.state = "reading" /\ UNCHANGED << storeKind, object, put, head, puts, settled, sent >>
      /\ get \in GetType /\ get.read \in Content
  BY CallFields DEF ReadPart, StoreInv, StoreTypeOK, GetType
<1>2. /\ get.place \in DOMAIN object
      /\ storeKind = "oss" => get.body \in sent[get.place]
      /\ get.alone => Body = object[get.place] /\ (put.state = "idle" \/ put.place # get.place)
      /\ get.alone \/ storeKind = "oss" => Begins(get.read, Body)
  BY <1>1 DEF StoreInv, GetInv
<1>3. Body \in Content
  BY <1>2, CallFields DEF Body, StoreInv, StoreTypeOK
<1>4. CASE i <= Len(Body)
  <2> DEFINE u == Append(get.read, Body[i])
  <2>1. u \in Content /\ (Begins(get.read, Body) => Begins(u, Body))
    BY <1>1, <1>3, <1>4, BeginsMore
  <2>2. get' = [get EXCEPT !.read = u]
    BY <1>4 DEF ReadPart
  <2> HIDE DEF u
  <2>3. /\ get' \in GetType /\ get'.state = "reading" /\ get'.place = get.place
        /\ get'.body = get.body /\ get'.read = u /\ get'.alone = get.alone
    BY <1>1, <2>1, <2>2 DEF GetType
  <2>4. Body' = Body
    BY <1>1, <2>3 DEF Body
  <2>5. GetInv'
    BY <1>1, <1>2, <2>1, <2>3, <2>4 DEF GetInv
  <2> QED BY <1>1, <2>3, <2>5, OnlyGetMoves
<1>5. CASE ~(i <= Len(Body))
  <2>1. get' = [get EXCEPT !.state = "done"]
    BY <1>5 DEF ReadPart
  <2>2. /\ get' \in GetType /\ get'.state = "done" /\ get'.place = get.place
        /\ get'.body = get.body /\ get'.read = get.read /\ get'.alone = get.alone
    BY <1>1, <2>1 DEF GetType
  <2>3. Body' = Body
    BY <1>1, <2>2 DEF Body
  <2>4. Len(Body) <= Len(get.read)
    <3>1. Len(Body) \in 0 .. MaxParts /\ Len(get.read) \in 0 .. MaxParts
      BY <1>1, <1>3, Contents
    <3> QED BY <1>5, <3>1, StoreAssumption
  <2>5. Begins(get.read, Body) => get.read = Body
    BY <1>1, <1>3, <2>4, BeginsAll
  <2>6. GetInv'
    BY <1>1, <1>2, <2>2, <2>3, <2>5 DEF GetInv
  <2> QED BY <1>1, <2>2, <2>6, OnlyGetMoves
<1> QED BY <1>4, <1>5

LEMMA HeadObjectStep ==
  ASSUME StoreInv, NEW path \in ObjectPath, HeadObject(path)
  PROVE  StoreInv'
<1>1. UNCHANGED << storeKind, object, put, get, puts, settled, sent >>
  BY DEF HeadObject
<1>2. head' \in {"error", "panic", "ErrNotExist"}
  <2>1. storeKind \in {"fs", "oss", "s3"}
    BY DEF StoreInv, StoreTypeOK
  <2>2. CASE storeKind = "fs"
    BY <2>2 DEF HeadObject, HeadFile
  <2>3. CASE storeKind = "oss"
    BY <2>3 DEF HeadObject, HeadMeta
  <2>4. CASE storeKind = "s3"
    BY <2>4 DEF HeadObject, HeadS3
  <2> QED BY <2>1, <2>2, <2>3, <2>4
<1>3. StoreTypeOK' /\ SettledInv' /\ SentInv' /\ PutInv'
  BY <1>1, <1>2 DEF StoreInv, StoreTypeOK, SettledInv, SentInv, PutInv
<1>4. GetInv'
  BY <1>1 DEF StoreInv, GetInv, Body
<1> QED BY <1>3, <1>4 DEF StoreInv

LEMMA ObjectStoreStep ==
  ASSUME StoreInv, [StoreNext]_storeVars
  PROVE  StoreInv'
<1>1. CASE \E p \in ObjectPath, n \in 1 .. MaxParts : PutObject(p, n)
  BY <1>1, PutObjectStep
<1>2. CASE OpenFile \/ CopyPart \/ CopyEnds \/ Upload \/ PutFails
  BY <1>2, OpenFileStep, CopyPartStep, CopyEndsStep, UploadStep, PutFailsStep
<1>3. CASE \E p \in ObjectPath : GetObject(p) \/ HeadObject(p)
  BY <1>3, GetObjectStep, HeadObjectStep
<1>4. CASE ReadPart
  BY <1>4, ReadPartStep
<1>5. CASE ReadFails
  BY <1>5, GetStops DEF ReadFails
<1>6. CASE UNCHANGED storeVars
  BY <1>6 DEF storeVars, StoreInv, StoreTypeOK, SettledInv, SentInv, PutInv, GetInv, Body
<1> QED BY <1>1, <1>2, <1>3, <1>4, <1>5, <1>6 DEF StoreNext

\* Every variable of the stores keeps its type.
THEOREM StoreTypeCorrect == StoreSpec => []StoreTypeOK
<1>1. StoreInit => StoreInv
  BY StoreInvInit
<1>2. StoreInv /\ [StoreNext]_storeVars => StoreInv'
  BY ObjectStoreStep
<1>3. StoreInv => StoreTypeOK
  BY DEF StoreInv
<1> QED BY <1>1, <1>2, <1>3, PTL DEF StoreSpec

\* However many puts and parts there are: a get that no put disturbed gives what
\* the last put of that object put, and oss never a mixture of two puts.
THEOREM GetsWhatWasPutHolds == StoreSpec => []GetsWhatWasPut
<1>1. StoreInit => StoreInv
  BY StoreInvInit
<1>2. StoreInv /\ [StoreNext]_storeVars => StoreInv'
  BY ObjectStoreStep
<1>3. StoreInv => GetsWhatWasPut
  <2> SUFFICES ASSUME StoreInv, get.state = "done"
               PROVE  /\ get.alone /\ settled[get.place] # Unknown => get.read = settled[get.place]
                      /\ storeKind = "oss" => get.read \in sent[get.place]
    BY DEF GetsWhatWasPut
  <2>1. /\ get.place \in Place
        /\ storeKind = "oss" => get.body \in sent[get.place]
        /\ get.alone => Body = object[get.place]
        /\ get.alone \/ storeKind = "oss" => get.read = Body
    BY DEF StoreInv, GetInv, StoreTypeOK
  <2>2. settled[get.place] # Unknown => object[get.place] = settled[get.place]
    BY <2>1 DEF StoreInv, SettledInv
  <2>3. storeKind = "oss" => Body = get.body
    BY DEF Body
  <2> QED BY <2>1, <2>2, <2>3
<1> QED BY <1>1, <1>2, <1>3, PTL DEF StoreSpec

----------------------------------------------------------------------------
(* The issuers of tokens.                                                  *)

\* What a key is, in the configuration of a method.
KindOf(family) == CASE family = "HS" -> "secret" [] family = "RS" -> "rsa" [] family = "ES" -> "ec"

SignKey == {k \in [kind : {"secret", "rsa", "ec"}, name : {k.name : k \in Key} \cup {"first", "random"}] :
              k.name # NoKey}

\* A configuration has a key of the kind its method is for, and the public half
\* of that same key unless it is a secret.
Sound(c) ==
  /\ c.method \in SigningMethod /\ c.private \in SignKey
  /\ c.private.kind = KindOf(c.method[1])
  /\ c.public = IF c.method[1] = "HS" THEN NoKey ELSE c.private.name

\* Tokens are numbered as they come, and each has a method for its key.
TokensInv ==
  /\ IsFiniteSet(tokens)
  /\ \A t \in tokens :
       /\ t.number \in 1 .. Cardinality(tokens) /\ t.number <= MaxTokens
       /\ t.method \in SigningMethod /\ t.key \in SignKey /\ t.key.kind = KindOf(t.method[1])
  /\ \A s, t \in tokens : s.number = t.number => s = t

JwtInv ==
  /\ jwtConfig \in [Issuer -> {jwtConfig[i] : i \in Issuer}]
  /\ \A i \in Issuer : Sound(jwtConfig[i])
  /\ TokensInv
  /\ result = NoResult \/
       /\ result \in [token : 1 .. MaxTokens, issuer : Issuer, accepted : BOOLEAN]
       /\ \E t \in tokens : t.number = result.token
  /\ AcceptsItsOwn

\* A configuration that is made is sound.
LEMMA ConfigMade ==
  ASSUME NEW method \in SigningMethod, NEW key, Loads(method[1], key),
         key.name \in {k.name : k \in Key} \cup {"first", "random"}, key.name # NoKey
  PROVE  Sound(NewJWTConfig(method, key))
<1>1. method[1] \in Family /\ method = << method[1], method[2] >> /\ method[2] \in Bits
  BY DEF SigningMethod
<1>2. CASE method[1] = "HS"
  BY <1>1, <1>2 DEF Sound, NewJWTConfig, SignKey, KindOf
<1>3. CASE method[1] = "RS"
  BY <1>1, <1>3 DEF Sound, NewJWTConfig, SignKey, KindOf, Loads
<1>4. CASE method[1] = "ES"
  <2>1. << "ES", key.size >> \in SigningMethod
    BY <1>4 DEF SigningMethod, Family, Bits, Loads
  <2> QED BY <1>4, <2>1 DEF Sound, NewJWTConfig, SignKey, KindOf, Loads
<1> QED BY <1>1, <1>2, <1>3, <1>4 DEF Family

\* A sound configuration accepts a token when it has the key that signed it.
LEMMA VerifiesOwn ==
  ASSUME NEW c, Sound(c), NEW t, t.method \in SigningMethod, t.key \in SignKey,
         t.key.kind = KindOf(t.method[1])
  PROVE  Verifies(c, t) <=> c.private = t.key
<1>1. t.method[1] \in Family /\ c.method[1] \in Family
  BY DEF Sound, SigningMethod
<1>2. c.private \in SignKey
  BY DEF Sound
<1>3. c.private = t.key <=> c.private.kind = t.key.kind /\ c.private.name = t.key.name
  BY <1>2 DEF SignKey
<1>4. c.private.name # NoKey /\ t.key.name # NoKey
  BY <1>2 DEF SignKey
<1> QED BY <1>1, <1>3, <1>4 DEF Verifies, Sound, KindOf, Family

LEMMA JwtInvInit == JwtInit => JwtInv
<1> SUFFICES ASSUME JwtInit
             PROVE  JwtInv
  OBVIOUS
<1> DEFINE c == NewJWTConfig(<< "HS", 256 >>, [kind |-> "secret", name |-> "first"])
<1>1. Sound(c)
  <2>1. << "HS", 256 >> \in SigningMethod /\ << "HS", 256 >>[1] = "HS" /\ "first" # NoKey
    BY DEF SigningMethod, Family, Bits, NoKey
  <2>2. Loads("HS", [kind |-> "secret", name |-> "first"])
    BY DEF Loads
  <2> QED BY <2>1, <2>2, ConfigMade
<1> HIDE DEF c
<1>2. jwtConfig = [i \in Issuer |-> c] /\ tokens = {} /\ result = NoResult
  BY DEF JwtInit, c
<1>3. IsFiniteSet(tokens)
  BY <1>2, FS_EmptySet
<1> QED BY <1>1, <1>2, <1>3 DEF JwtInv, TokensInv, AcceptsItsOwn

LEMMA LoadStep ==
  ASSUME JwtInv, NEW i \in Issuer, NEW key \in Key \cup {NewRandomKey(method) : method \in SigningMethod},
         Load(i, key)
  PROVE  JwtInv'
<1>1. /\ key.kind \in {"secret", "rsa", "ec"} /\ key.name # NoKey
      /\ key.name \in {k.name : k \in Key} \cup {"first", "random"}
  <2>1. CASE key \in Key
    BY <2>1, JwtAssumption
  <2>2. ASSUME NEW method \in SigningMethod, key = NewRandomKey(method)
        PROVE  key.kind \in {"secret", "rsa", "ec"} /\ key.name = "random"
    <3>1. method[1] \in Family
      BY DEF SigningMethod
    <3> QED BY <2>2, <3>1 DEF NewRandomKey, Family
  <2> QED BY <2>1, <2>2 DEF NoKey
<1>2. Inferred(key) \in SigningMethod
  BY <1>1 DEF Inferred, SigningMethod, Family, Bits
<1>3. PICK method \in SigningMethod :
        /\ Loads(method[1], key)
        /\ jwtConfig' = [jwtConfig EXCEPT ![i] = NewJWTConfig(method, key)]
  BY <1>2 DEF Load
<1>4. Sound(NewJWTConfig(method, key))
  BY <1>1, <1>3, ConfigMade
<1>5. \A j \in Issuer : jwtConfig'[j] = IF j = i THEN NewJWTConfig(method, key) ELSE jwtConfig[j]
  BY <1>3 DEF JwtInv
<1>6. DOMAIN jwtConfig' = Issuer /\ jwtConfig' = [j \in Issuer |-> jwtConfig'[j]]
  BY <1>3 DEF JwtInv
<1>7. result' = NoResult /\ tokens' = tokens
  BY DEF Load
<1>8. TokensInv'
  BY <1>7 DEF JwtInv, TokensInv
<1>9. AcceptsItsOwn'
  <2>1. \A t \in tokens : t.number # 0
    BY DEF JwtInv, TokensInv
  <2> QED BY <1>7, <2>1 DEF AcceptsItsOwn, NoResult
<1> QED BY <1>4, <1>5, <1>6, <1>7, <1>8, <1>9 DEF JwtInv

LEMMA SignedStringStep ==
  ASSUME JwtInv, NEW i \in Issuer, SignedString(i)
  PROVE  JwtInv'
<1> DEFINE n == 1 + Cardinality(tokens)
           t == [number |-> n, method |-> jwtConfig[i].method, key |-> jwtConfig[i].private]
<1>1. n <= MaxTokens /\ tokens' = tokens \cup {t} /\ UNCHANGED << jwtConfig, result >>
  BY DEF SignedString
<1>2. IsFiniteSet(tokens) /\ Cardinality(tokens) \in Nat
      /\ \A s \in tokens : s.number \in 1 .. Cardinality(tokens)
  BY FS_CardinalityType DEF JwtInv, TokensInv
<1>3. t.number = n /\ t.method = jwtConfig[i].method /\ t.key = jwtConfig[i].private
  OBVIOUS
<1> HIDE DEF t
<1>4. t \notin tokens /\ \A s \in tokens : s.number # n
  BY <1>2, <1>3
<1>5. IsFiniteSet(tokens') /\ Cardinality(tokens') = n
  BY <1>1, <1>2, <1>4, FS_AddElement
<1>6. t.method \in SigningMethod /\ t.key \in SignKey /\ t.key.kind = KindOf(t.method[1])
  BY <1>3 DEF JwtInv, Sound
<1>7. TokensInv'
  <2>1. \A s \in tokens' : s.number \in 1 .. Cardinality(tokens') /\ s.number <= MaxTokens
    BY <1>1, <1>2, <1>3, <1>5 DEF JwtInv, TokensInv
  <2>2. \A s \in tokens' : s.method \in SigningMethod /\ s.key \in SignKey /\ s.key.kind = KindOf(s.method[1])
    BY <1>1, <1>6 DEF JwtInv, TokensInv
  <2>3. \A s, u \in tokens' : s.number = u.number => s = u
    BY <1>1, <1>3, <1>4 DEF JwtInv, TokensInv
  <2> QED BY <1>5, <2>1, <2>2, <2>3 DEF TokensInv
<1>8. result.token # n
  <2>1. CASE result = NoResult
    BY <1>2, <2>1 DEF NoResult
  <2>2. CASE \E s \in tokens : s.number = result.token
    BY <1>4, <2>2
  <2> QED BY <2>1, <2>2 DEF JwtInv
<1>9. AcceptsItsOwn'
  BY <1>1, <1>3, <1>8 DEF JwtInv, AcceptsItsOwn
<1> QED BY <1>1, <1>7, <1>9 DEF JwtInv, Sound

LEMMA ParseStep ==
  ASSUME JwtInv, NEW t \in tokens, NEW i \in Issuer, ParseWithClaims(t, i)
  PROVE  JwtInv'
<1> DEFINE b == Verifies(jwtConfig[i], t)
<1>1. b \in BOOLEAN
  BY DEF Verifies
<1>2. b <=> jwtConfig[i].private = t.key
  BY VerifiesOwn DEF JwtInv, TokensInv
<1>3. /\ result' = [token |-> t.number, issuer |-> i, accepted |-> b]
      /\ UNCHANGED << jwtConfig, tokens >>
  BY DEF ParseWithClaims
<1> HIDE DEF b
<1>4. /\ result' \in [token : 1 .. MaxTokens, issuer : Issuer, accepted : BOOLEAN]
      /\ result'.token = t.number /\ result'.issuer = i /\ result'.accepted = b
  <2>1. t.number \in 1 .. MaxTokens
    <3>1. t.number \in 1 .. Cardinality(tokens) /\ t.number <= MaxTokens /\ Cardinality(tokens) \in Nat
      BY FS_CardinalityType DEF JwtInv, TokensInv
    <3> QED BY <3>1, JwtAssumption
  <2> QED BY <1>1, <1>3, <2>1
<1>5. \A s \in tokens : s.number = t.number => s = t
  BY DEF JwtInv, TokensInv
<1>6. AcceptsItsOwn'
  BY <1>2, <1>3, <1>4, <1>5 DEF AcceptsItsOwn
<1>7. TokensInv'
  BY <1>3 DEF JwtInv, TokensInv
<1> QED BY <1>3, <1>4, <1>6, <1>7 DEF JwtInv, Sound

LEMMA JwtStep ==
  ASSUME JwtInv, [JwtNext]_jwtVars
  PROVE  JwtInv'
<1>1. CASE \E i \in Issuer : SignedString(i)
  BY <1>1, SignedStringStep
<1>2. CASE \E i \in Issuer : \E key \in Key \cup {NewRandomKey(method) : method \in SigningMethod} :
             Load(i, key)
  BY <1>2, LoadStep
<1>3. CASE \E t \in tokens, i \in Issuer : ParseWithClaims(t, i)
  BY <1>3, ParseStep
<1>4. CASE UNCHANGED jwtVars
  BY <1>4 DEF jwtVars, JwtInv, TokensInv, Sound, AcceptsItsOwn
<1> QED BY <1>1, <1>2, <1>3, <1>4 DEF JwtNext

\* Every variable of the issuers keeps its type.
THEOREM JwtTypeCorrect == JwtSpec => []JwtTypeOK
<1>1. JwtInit => JwtInv
  BY JwtInvInit
<1>2. JwtInv /\ [JwtNext]_jwtVars => JwtInv'
  BY JwtStep
<1>3. JwtInv => JwtTypeOK
  <2> SUFFICES ASSUME JwtInv
               PROVE  JwtTypeOK
    OBVIOUS
  <2>1. Cardinality(tokens) \in Nat
    BY FS_CardinalityType DEF JwtInv, TokensInv
  <2>2. \A t \in tokens : t.number \in 1 .. MaxTokens /\ t.method \in SigningMethod
    BY <2>1, JwtAssumption DEF JwtInv, TokensInv
  <2> QED BY <2>2 DEF JwtInv, JwtTypeOK, Sound
<1> QED BY <1>1, <1>2, <1>3, PTL DEF JwtSpec

\* Whatever issuers, keys and tokens there are, and however often keys are
\* loaded again: a token is accepted by those who have the key that signed it.
THEOREM AcceptsItsOwnHolds == JwtSpec => []AcceptsItsOwn
<1>1. JwtInit => JwtInv
  BY JwtInvInit
<1>2. JwtInv /\ [JwtNext]_jwtVars => JwtInv'
  BY JwtStep
<1>3. JwtInv => AcceptsItsOwn
  BY DEF JwtInv
<1> QED BY <1>1, <1>2, <1>3, PTL DEF JwtSpec

----------------------------------------------------------------------------
(* Secrets.                                                                *)

SecretOrNone == Secret \cup {NoSecret}

\* A String is kept as a plain text or under a key that fits its algorithm; it
\* can be recovered.
SecretInv ==
  /\ SecretTypeOK
  /\ e = [value |-> e.value, secret |-> e.secret]
  /\ e.value.cipher => NewCipher(e.value.algo, e.value.key.len)
  /\ Recoverable

\* An encryption under any key succeeds, with the key that Decrypt uses.
LEMMA Encrypted ==
  ASSUME NEW text, NEW key
  PROVE  LET c == Encrypt(text, key) IN
         /\ c.cipher /\ c.text = text /\ c.key = CipherKey(key)
         /\ c.algo \in Algorithm /\ NewCipher(c.algo, c.key.len)
         /\ Decrypt(c, key) = text
<1> DEFINE k == fixKey(key)
           a == fixAlgo(key, "3DES")
<1>1. k = CipherKey(key)
  BY DEF fixKey, CipherKey
<1>2. a \in Algorithm /\ NewCipher(a, k.len)
  <2>1. CASE key.len \in {8, 16, 24}
    <3>1. k.len = key.len
      BY <2>1 DEF fixKey
    <3>2. a = CASE key.len = 8 -> "DES" [] key.len = 16 -> "AES" [] key.len = 24 -> "3DES"
      BY <2>1 DEF fixAlgo
    <3> QED BY <2>1, <3>1, <3>2 DEF NewCipher, Algorithm
  <2>2. CASE key.len \notin {8, 16, 24}
    <3>1. k.len = 32
      BY <2>2 DEF fixKey
    <3>2. a = "AES"
      BY <2>2 DEF fixAlgo
    <3> QED BY <3>1, <3>2 DEF NewCipher, Algorithm
  <2> QED BY <2>1, <2>2
<1>3. Encrypt(text, key) = IF NewCipher(a, k.len) THEN [cipher |-> TRUE, text |-> text, key |-> k, algo |-> a]
                           ELSE Plain("error")
  BY DEF Encrypt, EncryptWith
<1> HIDE DEF k, a
<1>4. Encrypt(text, key) = [cipher |-> TRUE, text |-> text, key |-> k, algo |-> a]
  BY <1>2, <1>3
<1> QED BY <1>1, <1>2, <1>4 DEF Decrypt

\* Values that are given: those made elsewhere are under a key that fits.
LEMMA ValuesGiven ==
  ASSUME NEW v \in SecretValue
  PROVE  /\ v.cipher \in BOOLEAN /\ v.text \in Text /\ v.algo \in Algorithm \cup {"none"}
         /\ v.cipher => NewCipher(v.algo, v.key.len)
<1>1. ASSUME NEW t \in Text, v = Plain(t)
      PROVE  v.cipher = FALSE /\ v.text \in Text /\ v.algo = "none"
  BY <1>1 DEF Plain
<1>2. ASSUME NEW t \in Text, NEW s \in Secret, NEW a \in Algorithm, NEW fix \in BOOLEAN,
             v = EncryptWith(t, s, a, fix), v.cipher
      PROVE  v.cipher = TRUE /\ v.text \in Text /\ v.algo \in Algorithm /\ NewCipher(v.algo, v.key.len)
  <2> DEFINE k == IF fix THEN fixKey(s) ELSE s
             b == IF fix THEN fixAlgo(s, a) ELSE a
  <2>1. b \in Algorithm
    <3>1. fixAlgo(s, a) \in Algorithm
      BY DEF fixAlgo, Algorithm
    <3> QED BY <3>1
  <2>2. v = IF NewCipher(b, k.len) THEN [cipher |-> TRUE, text |-> t, key |-> k, algo |-> b] ELSE Plain("error")
    BY <1>2 DEF EncryptWith
  <2> HIDE DEF k, b
  <2>3. NewCipher(b, k.len) /\ v = [cipher |-> TRUE, text |-> t, key |-> k, algo |-> b]
    BY <1>2, <2>2 DEF Plain
  <2> QED BY <2>1, <2>3
<1>3. CASE v \in {Plain(t) : t \in Text}
  BY <1>1, <1>3
<1>4. CASE v.cipher /\ v \in {EncryptWith(t, s, a, fix) : t \in Text, s \in Secret, a \in Algorithm, fix \in BOOLEAN}
  BY <1>2, <1>4
<1> QED BY <1>3, <1>4 DEF SecretValue

LEMMA SecretInvInit == SecretInit => SecretInv
<1> SUFFICES ASSUME SecretInit
             PROVE  SecretInv
  OBVIOUS
<1>1. e.value = Plain("") /\ e.secret = NoSecret
  BY DEF SecretInit
<1>2. e.value.cipher = FALSE /\ e.value.text = "" /\ e.value.algo = "none"
  <2>1. \A t : Plain(t).cipher = FALSE /\ Plain(t).text = t /\ Plain(t).algo = "none"
    BY DEF Plain
  <2> QED BY <1>1, <2>1, Zenon
<1> QED BY <1>1, <1>2, SecretAssumption DEF SecretInit, SecretInv, SecretTypeOK, Recoverable, UnsafeString

\* A String is given a value: it keeps that, or encrypts it under its secret.
LEMMA IsGiven ==
  ASSUME SecretInv, NEW v \in SecretValue, NEW k \in SecretOrNone, NEW w, e' = [value |-> w, secret |-> k],
         w = v \/ (~v.cipher /\ k # NoSecret /\ w = Encrypt(v.text, k)),
         Expect(v), UNCHANGED env
  PROVE  SecretInv'
<1>1. e'.value = w /\ e'.secret = k /\ e' = [value |-> e'.value, secret |-> e'.secret]
  OBVIOUS
<1>2. /\ v.cipher \in BOOLEAN /\ v.text \in Text /\ v.algo \in Algorithm \cup {"none"}
      /\ v.cipher => NewCipher(v.algo, v.key.len)
  BY ValuesGiven
<1>3. expected' = IF ~v.cipher THEN v.text
                  ELSE IF getSecret(e') # NoSecret /\ CipherKey(getSecret(e')) = v.key THEN v.text
                  ELSE NoText
  BY DEF Expect
<1>4. env' \in SecretOrNone /\ expected' \in Text \cup {NoText} /\ getSecret(e)' = getSecret(e')
  BY <1>2, <1>3 DEF SecretInv, SecretTypeOK, SecretOrNone, getSecret
<1>5. CASE w = v
  <2>1. SecretTypeOK'
    BY <1>1, <1>2, <1>4, <1>5 DEF SecretTypeOK, SecretOrNone
  <2>2. UnsafeString(e)' = IF ~v.cipher THEN v.text
                           ELSE IF getSecret(e') = NoSecret THEN Garbage ELSE Decrypt(v, getSecret(e'))
    BY <1>1, <1>4, <1>5 DEF UnsafeString
  <2>3. Recoverable'
    BY <1>2, <1>3, <2>2 DEF Recoverable, Decrypt
  <2> QED BY <1>1, <1>2, <1>5, <2>1, <2>3 DEF SecretInv
<1>6. CASE ~v.cipher /\ k # NoSecret /\ w = Encrypt(v.text, k)
  <2>1. /\ w.cipher /\ w.text = v.text /\ w.algo \in Algorithm /\ NewCipher(w.algo, w.key.len)
        /\ Decrypt(w, k) = v.text
    BY <1>6, Encrypted
  <2>2. w.cipher \in BOOLEAN
    BY <1>6 DEF Encrypt, EncryptWith, Plain
  <2>3. getSecret(e') = k
    BY <1>1, <1>6 DEF getSecret
  <2>4. SecretTypeOK'
    BY <1>1, <1>2, <1>4, <2>1, <2>2 DEF SecretTypeOK, SecretOrNone
  <2>5. Recoverable'
    BY <1>1, <1>3, <1>4, <1>6, <2>1, <2>3 DEF Recoverable, UnsafeString
  <2> QED BY <1>1, <2>1, <2>4, <2>5 DEF SecretInv
<1> QED BY <1>5, <1>6

LEMMA SealedGives ==
  ASSUME SecretInv, NEW v \in SecretValue, NEW val, NEW k \in SecretOrNone,
         e' = Sealed([value |-> val, secret |-> k], v), Expect(v), UNCHANGED env
  PROVE  SecretInv'
<1> DEFINE s == [value |-> val, secret |-> k]
           g == getSecret(s)
<1>1. g \in SecretOrNone /\ [s EXCEPT !.value = v] = [value |-> v, secret |-> k]
  BY DEF getSecret, SecretInv, SecretTypeOK, SecretOrNone
<1>2. CASE ~v.cipher /\ g # NoSecret
  <2>1. e' = [value |-> Encrypt(v.text, g), secret |-> g]
    BY <1>2 DEF Sealed
  <2> HIDE DEF g
  <2> QED BY <1>1, <1>2, <2>1, IsGiven
<1>3. CASE ~(~v.cipher /\ g # NoSecret)
  <2>1. e' = [value |-> v, secret |-> k]
    BY <1>1, <1>3 DEF Sealed
  <2> QED BY <2>1, IsGiven
<1> QED BY <1>2, <1>3

LEMMA ValueStep ==
  ASSUME SecretInv, NEW v \in SecretValue,
         \/ Unmarshal(v) \/ SetValue(v) \/ Hook(v) \/ ScanValue(v)
         \/ \E secret \in Secret \cup {NoSecret} : NewEncryptedString(v, secret)
  PROVE  SecretInv'
<1>1. /\ e = [value |-> e.value, secret |-> e.secret] /\ e.secret \in SecretOrNone
      /\ env \in SecretOrNone /\ [e EXCEPT !.value = v] = [value |-> v, secret |-> e.secret]
  <2>1. e = [value |-> e.value, secret |-> e.secret]
    BY DEF SecretInv
  <2>2. [[value |-> e.value, secret |-> e.secret] EXCEPT !.value = v] = [value |-> v, secret |-> e.secret]
    OBVIOUS
  <2>3. [e EXCEPT !.value = v] = [value |-> v, secret |-> e.secret]
    BY <2>1, <2>2, Zenon
  <2>4. e.secret \in SecretOrNone /\ env \in SecretOrNone
    BY DEF SecretInv, SecretTypeOK, SecretOrNone
  <2> QED BY <2>1, <2>3, <2>4
<1>2. CASE e' = Sealed(e, v) /\ Expect(v) /\ UNCHANGED env
  <2>1. e' = Sealed([value |-> e.value, secret |-> e.secret], v)
    BY <1>1, <1>2, Zenon
  <2> QED BY <1>1, <1>2, <2>1, SealedGives
<1>3. CASE e' = [e EXCEPT !.value = v] /\ Expect(v) /\ UNCHANGED env
  <2>1. e' = [value |-> v, secret |-> e.secret]
    BY <1>1, <1>3, Zenon
  <2> QED BY <1>1, <1>3, <2>1, IsGiven
<1>4. CASE Hook(v)
  BY <1>1, <1>4, SealedGives DEF Hook
<1>5. ASSUME NEW secret \in Secret \cup {NoSecret}, NewEncryptedString(v, secret)
      PROVE  SecretInv'
  <2>1. CASE ~v.cipher /\ secret # NoSecret
    BY <1>5, <2>1, IsGiven DEF NewEncryptedString, SecretOrNone
  <2>2. CASE ~(~v.cipher /\ secret # NoSecret)
    <3>1. e' = [value |-> v, secret |-> secret] /\ Expect(v) /\ UNCHANGED env
      BY <1>5, <2>2 DEF NewEncryptedString
    <3> QED BY <3>1, IsGiven DEF SecretOrNone
  <2> QED BY <2>1, <2>2
<1>6. CASE SetValue(v)
  BY <1>2, <1>3, <1>6 DEF SetValue
<1> QED BY <1>2, <1>3, <1>4, <1>5, <1>6 DEF Unmarshal, ScanValue

\* What a String gives: its text, garbage or a failure.
LEMMA TextGiven ==
  ASSUME SecretInv
  PROVE  UnsafeString(e) \in Text \cup {Garbage, "error"}
BY DEF SecretInv, SecretTypeOK, UnsafeString, Decrypt

LEMMA StringOfStep ==
  ASSUME SecretInv, StringOf
  PROVE  SecretInv'
<1> DEFINE w == Encrypt(e.value.text, e.secret)
<1>1. UNCHANGED env /\ expected' = IF e' # e /\ e.secret = NoSecret THEN NoText ELSE expected
  BY DEF StringOf
<1>2. CASE e.value # Plain("") /\ ~e.value.cipher /\ getSecret(e) # NoSecret
  <2>1. e' = [e EXCEPT !.value = w]
    BY <1>2 DEF StringOf
  <2>2. /\ w.cipher /\ w.text = e.value.text /\ w.algo \in Algorithm /\ NewCipher(w.algo, w.key.len)
        /\ Decrypt(w, e.secret) = e.value.text
    BY Encrypted
  <2>3. w.cipher \in BOOLEAN
    BY DEF Encrypt, EncryptWith, Plain
  <2> HIDE DEF w
  <2>4. e' = [value |-> w, secret |-> e.secret]
    <3>1. e = [value |-> e.value, secret |-> e.secret]
      BY DEF SecretInv
    <3>2. [[value |-> e.value, secret |-> e.secret] EXCEPT !.value = w] = [value |-> w, secret |-> e.secret]
      OBVIOUS
    <3> QED BY <2>1, <3>1, <3>2, Zenon
  <2>5. e'.value = w /\ e'.secret = e.secret /\ e' = [value |-> e'.value, secret |-> e'.secret]
    BY <2>4
  <2>6. SecretTypeOK'
    BY <1>1, <2>2, <2>3, <2>5 DEF SecretInv, SecretTypeOK
  <2>7. e.secret = NoSecret => expected' = NoText
    <3>1. e' # e
      BY <1>2, <2>2, <2>5
    <3> QED BY <1>1, <3>1
  <2>8. e.secret # NoSecret => expected' = expected /\ UnsafeString(e)' = e.value.text /\ UnsafeString(e) = e.value.text
    BY <1>1, <1>2, <2>2, <2>5 DEF UnsafeString, getSecret
  <2>9. Recoverable'
    BY <2>7, <2>8 DEF SecretInv, Recoverable
  <2> QED BY <2>2, <2>5, <2>6, <2>9 DEF SecretInv
<1>3. CASE ~(e.value # Plain("") /\ ~e.value.cipher /\ getSecret(e) # NoSecret)
  <2>1. UNCHANGED << env, e, expected >>
    BY <1>1, <1>3 DEF StringOf
  <2> QED BY <2>1 DEF SecretInv, SecretTypeOK, Recoverable, UnsafeString, getSecret
<1> QED BY <1>2, <1>3

LEMMA UpdateSecretStep ==
  ASSUME SecretInv, NEW secret \in Secret \cup {NoSecret}, UpdateSecret(secret)
  PROVE  SecretInv'
<1> DEFINE text == UnsafeString(e)
           w == Encrypt(text, secret)
<1>1. UNCHANGED env /\ expected' = IF secret = NoSecret /\ e.value.cipher THEN NoText ELSE expected
  BY DEF UpdateSecret
<1>2. CASE text = "error"
  <2>1. e' = e
    BY <1>2 DEF UpdateSecret
  <2>2. UnsafeString(e)' = UnsafeString(e)
    BY <1>1, <2>1 DEF UnsafeString, getSecret
  <2> QED BY <1>1, <2>1, <2>2 DEF SecretInv, SecretTypeOK, Recoverable
<1>3. CASE text # "error" /\ secret # NoSecret
  <2>1. e' = [value |-> w, secret |-> secret]
    BY <1>3 DEF UpdateSecret
  <2>2. /\ w.cipher /\ w.text = text /\ w.algo \in Algorithm /\ NewCipher(w.algo, w.key.len)
        /\ Decrypt(w, secret) = text
    BY Encrypted
  <2>3. w.cipher \in BOOLEAN
    BY DEF Encrypt, EncryptWith, Plain
  <2>4. text \in Text \cup {Garbage}
    BY <1>3, TextGiven
  <2> HIDE DEF w, text
  <2>5. e'.value = w /\ e'.secret = secret /\ e' = [value |-> e'.value, secret |-> e'.secret]
    BY <2>1
  <2>6. SecretTypeOK'
    BY <1>1, <2>2, <2>3, <2>4, <2>5 DEF SecretInv, SecretTypeOK
  <2>7. UnsafeString(e)' = text
    BY <1>3, <2>2, <2>5 DEF UnsafeString, getSecret
  <2>8. Recoverable'
    BY <1>1, <1>3, <2>7 DEF SecretInv, Recoverable, text
  <2> QED BY <2>2, <2>5, <2>6, <2>8 DEF SecretInv
<1>4. CASE text # "error" /\ secret = NoSecret
  <2>1. e' = [value |-> e.value, secret |-> secret]
    BY <1>4 DEF UpdateSecret
  <2>2. e'.value = e.value /\ e'.secret = secret /\ e' = [value |-> e'.value, secret |-> e'.secret]
    BY <2>1
  <2>3. SecretTypeOK'
    BY <1>1, <2>2 DEF SecretInv, SecretTypeOK
  <2>4. Recoverable'
    BY <1>1, <1>4, <2>2 DEF SecretInv, Recoverable, UnsafeString
  <2> QED BY <2>2, <2>3, <2>4 DEF SecretInv
<1> QED BY <1>2, <1>3, <1>4

LEMMA SetSecretStep ==
  ASSUME SecretInv, NEW secret \in Secret \cup {NoSecret}, SetSecret(secret)
  PROVE  SecretInv'
<1>1. UNCHANGED env /\ expected' = IF e.value.cipher THEN NoText ELSE expected
  BY DEF SetSecret
<1>2. e' = [value |-> e.value, secret |-> secret]
  <2>1. e = [value |-> e.value, secret |-> e.secret]
    BY DEF SecretInv
  <2>2. [[value |-> e.value, secret |-> e.secret] EXCEPT !.secret = secret] = [value |-> e.value, secret |-> secret]
    OBVIOUS
  <2>3. e' = [e EXCEPT !.secret = secret]
    BY DEF SetSecret
  <2> QED BY <2>1, <2>2, <2>3, Zenon
<1>3. e'.value = e.value /\ e'.secret = secret /\ e' = [value |-> e'.value, secret |-> e'.secret]
  BY <1>2
<1>4. SecretTypeOK'
  BY <1>1, <1>3 DEF SecretInv, SecretTypeOK
<1>5. Recoverable'
  BY <1>1, <1>3 DEF SecretInv, Recoverable, UnsafeString
<1> QED BY <1>3, <1>4, <1>5 DEF SecretInv

LEMMA SecretStep ==
  ASSUME SecretInv, [SecretNext]_secretVars
  PROVE  SecretInv'
<1>1. CASE \E v \in SecretValue :
             \/ Unmarshal(v) \/ SetValue(v) \/ Hook(v) \/ ScanValue(v)
             \/ \E secret \in Secret \cup {NoSecret} : NewEncryptedString(v, secret)
  BY <1>1, ValueStep
<1>2. CASE StringOf
  BY <1>2, StringOfStep
<1>3. CASE \E secret \in Secret \cup {NoSecret} : UpdateSecret(secret) \/ SetSecret(secret)
  BY <1>3, UpdateSecretStep, SetSecretStep
<1>4. CASE UNCHANGED secretVars
  BY <1>4 DEF secretVars, SecretInv, SecretTypeOK, Recoverable, UnsafeString, getSecret
<1> QED BY <1>1, <1>2, <1>3, <1>4 DEF SecretNext

\* Every variable of a secret keeps its type, and no failure is ever kept.
THEOREM SecretTypeCorrect == SecretSpec => []SecretTypeOK
<1>1. SecretInit => SecretInv
  BY SecretInvInit
<1>2. SecretInv /\ [SecretNext]_secretVars => SecretInv'
  BY SecretStep
<1>3. SecretInv => SecretTypeOK
  BY DEF SecretInv
<1> QED BY <1>1, <1>2, <1>3, PTL DEF SecretSpec

\* Whatever texts, secrets and lengths of keys there are: a String gives the text
\* it was given last, but after the calls that lose it.
THEOREM RecoverableHolds == SecretSpec => []Recoverable
<1>1. SecretInit => SecretInv
  BY SecretInvInit
<1>2. SecretInv /\ [SecretNext]_secretVars => SecretInv'
  BY SecretStep
<1>3. SecretInv => Recoverable
  BY DEF SecretInv
<1> QED BY <1>1, <1>2, <1>3, PTL DEF SecretSpec

----------------------------------------------------------------------------
(* Errors.                                                                 *)

Around == {"404", "500", "msg", "NotFoundError"}
Ending == {"plain", "notFoundError", "ErrRecordNotFound", "Errors404", "Errors500"}

\* A chain: only the last layer is an error of its own kind.
Chain(s) ==
  /\ s \in Seq(Around \cup Ending)
  /\ Len(s) \in Nat \ {0}
  /\ \A i \in 1 .. Len(s) : s[i] \in (IF i = Len(s) THEN Ending ELSE Around)

ErrorsInv == Chain(err) /\ Len(err) <= MaxChain + 3

\* The first index of a set of them is in it, and before the others.
LEMMA FirstOf ==
  ASSUME NEW S, S \subseteq Nat, S # {}
  PROVE  First(S) \in S /\ \A j \in S : First(S) <= j
<1>1. \E i \in S : \A j \in S : i <= j
  BY Least
<1> QED BY <1>1 DEF First

\* The status is that of the first layer that has one.
LEMMA StatusOfFirst ==
  ASSUME NEW s, Chain(s), NEW i \in 1 .. Len(s), StatusOfLayer(s[i]) # 0,
         \A j \in 1 .. Len(s) : j < i => StatusOfLayer(s[j]) = 0
  PROVE  StatusCode(s) = StatusOfLayer(s[i])
<1> DEFINE S == {k \in DOMAIN s : StatusOfLayer(s[k]) # 0}
<1>1. DOMAIN s = 1 .. Len(s) /\ S \subseteq Nat /\ i \in S
  BY DEF Chain
<1>2. First(S) \in S /\ First(S) <= i
  <2> HIDE DEF S
  <2> QED BY <1>1, FirstOf
<1>3. First(S) = i
  BY <1>1, <1>2
<1>4. StatusCode(s) = IF S = {} THEN 0 ELSE StatusOfLayer(s[First(S)])
  BY DEF StatusCode
<1> HIDE DEF S
<1> QED BY <1>1, <1>3, <1>4

LEMMA NoStatus ==
  ASSUME NEW s, Chain(s), \A j \in 1 .. Len(s) : StatusOfLayer(s[j]) = 0
  PROVE  StatusCode(s) = 0
BY DEF StatusCode, Chain

\* Layers around a chain.
LEMMA AroundIt ==
  ASSUME NEW s, Chain(s), NEW p \in Seq(Around)
  PROVE  LET u == p \o s IN
         /\ Chain(u) /\ Len(u) = Len(p) + Len(s)
         /\ \A k \in 1 .. Len(p) : u[k] = p[k]
         /\ \A k \in Len(p) + 1 .. Len(u) : u[k] = s[k - Len(p)]
         /\ Last(u) = Last(s)
<1> DEFINE u == p \o s
<1>1. /\ s \in Seq(Around \cup Ending) /\ p \in Seq(Around \cup Ending)
      /\ Len(s) \in Nat \ {0} /\ Len(p) \in Nat
      /\ \A i \in 1 .. Len(s) : s[i] \in (IF i = Len(s) THEN Ending ELSE Around)
      /\ \A i \in 1 .. Len(p) : p[i] \in Around
  <2>1. s \in Seq(Around \cup Ending) /\ Len(s) \in Nat \ {0}
        /\ \A i \in 1 .. Len(s) : s[i] \in (IF i = Len(s) THEN Ending ELSE Around)
    BY DEF Chain
  <2>2. p \in Seq(Around \cup Ending) /\ Len(p) \in Nat
    OBVIOUS
  <2>3. \A i \in 1 .. Len(p) : p[i] \in Around
    BY ElementOfSeq
  <2> QED BY <2>1, <2>2, <2>3
<1>2. /\ u \in Seq(Around \cup Ending) /\ Len(u) = Len(p) + Len(s)
      /\ \A k \in 1 .. Len(p) : u[k] = p[k]
      /\ \A k \in Len(p) + 1 .. Len(u) : u[k] = s[k - Len(p)]
  BY <1>1
<1> HIDE DEF u
<1>3. ASSUME NEW k \in 1 .. Len(u)
      PROVE  u[k] \in (IF k = Len(u) THEN Ending ELSE Around)
  <2>1. CASE k <= Len(p)
    BY <1>1, <1>2, <2>1
  <2>2. CASE ~(k <= Len(p))
    <3>1. k - Len(p) \in 1 .. Len(s) /\ u[k] = s[k - Len(p)] /\ (k = Len(u) <=> k - Len(p) = Len(s))
      BY <1>1, <1>2, <2>2
    <3> QED BY <1>1, <3>1
  <2> QED BY <2>1, <2>2
<1>4. Last(u) = Last(s)
  <2>1. Len(u) \in Len(p) + 1 .. Len(u) /\ Len(u) - Len(p) = Len(s)
    BY <1>1, <1>2
  <2>2. u[Len(u)] = s[Len(s)]
    BY <1>2, <2>1
  <2> QED BY <2>2 DEF Last
<1>5. Chain(u)
  BY <1>1, <1>2, <1>3 DEF Chain
<1> QED BY <1>2, <1>4, <1>5 DEF u

\* What lies below a layer.
LEMMA Below ==
  ASSUME NEW s, Chain(s), NEW i \in 1 .. Len(s) - 1
  PROVE  /\ Chain(Tail1(s, i)) /\ Len(Tail1(s, i)) = Len(s) - i
         /\ \A k \in 1 .. Len(s) - i : Tail1(s, i)[k] = s[i + k]
         /\ Last(Tail1(s, i)) = Last(s)
<1> DEFINE u == Tail1(s, i)
<1>1. s \in Seq(Around \cup Ending) /\ Len(s) \in Nat \ {0}
      /\ \A k \in 1 .. Len(s) : s[k] \in (IF k = Len(s) THEN Ending ELSE Around)
  BY DEF Chain
<1>2. u \in Seq(Around \cup Ending) /\ Len(u) = Len(s) - i /\ \A k \in 1 .. Len(s) - i : u[k] = s[i + k]
  BY <1>1 DEF Tail1
<1> HIDE DEF u
<1>3. Len(u) \in Nat \ {0}
  BY <1>1, <1>2
<1>4. ASSUME NEW k \in 1 .. Len(u)
      PROVE  u[k] \in (IF k = Len(u) THEN Ending ELSE Around)
  <2>1. i + k \in 1 .. Len(s) /\ (i + k = Len(s) <=> k = Len(u)) /\ u[k] = s[i + k]
    BY <1>1, <1>2
  <2> QED BY <1>1, <2>1
<1>5. Last(u) = Last(s)
  BY <1>1, <1>2, <1>3 DEF Last
<1> QED BY <1>2, <1>3, <1>4, <1>5 DEF Chain, u

\* Layers of a chain with no wrapper are messages, but the last.
LEMMA OnlyMessages ==
  ASSUME NEW s, Chain(s), NEW i \in 1 .. Len(s), i # Len(s), ~IsWrapper(s[i])
  PROVE  s[i] = "msg" /\ StatusOfLayer(s[i]) = 0
BY DEF Chain, Around, IsWrapper, StatusOfLayer

\* What wrappers are, with their status.
LEMMA WrapperStatus ==
  ASSUME NEW l, IsWrapper(l)
  PROVE  /\ StatusOfLayer(l) \in {404, 500} /\ l \in Around /\ l \notin Ending /\ l # "msg"
         /\ StatusOfLayer(l) = 404 <=> l # "500"
BY DEF IsWrapper, StatusOfLayer, Around, Ending

LEMMA WrapperOf ==
  ASSUME NEW n \in {404, 500}
  PROVE  Wrapper(n) \in Around /\ IsWrapper(Wrapper(n)) /\ StatusOfLayer(Wrapper(n)) = n
         /\ Wrapper(n) # "NotFoundError"
BY DEF Wrapper, IsWrapper, StatusOfLayer, Around

\* A status and a message around a chain.
Onto(n, t) == << Wrapper(n), "msg" >> \o t

\* A message on a chain with a wrapper, without one but with a status or a record
\* that is not found, and on any other.
LEMMA WithMessageCases ==
  ASSUME NEW s, Chain(s)
  PROVE  \/ \E i \in 1 .. Len(s) - 1 :
              /\ IsWrapper(s[i]) /\ \A j \in 1 .. i - 1 : ~IsWrapper(s[j])
              /\ WithMessage(s) = Onto(StatusOfLayer(s[i]), Tail1(s, i))
         \/ /\ \A j \in 1 .. Len(s) : ~IsWrapper(s[j])
            /\ \/ StatusCode(s) # 0 /\ WithMessage(s) = Onto(StatusCode(s), s)
               \/ StatusCode(s) = 0 /\ Last(s) = "ErrRecordNotFound" /\ WithMessage(s) = Onto(404, s)
               \/ StatusCode(s) = 0 /\ Last(s) # "ErrRecordNotFound" /\ WithMessage(s) = << "msg" >> \o s
<1> DEFINE i == First(Wrappers(s))
<1>1. DOMAIN s = 1 .. Len(s) /\ Len(s) \in Nat \ {0} /\ Wrappers(s) \subseteq Nat
      /\ Wrappers(s) = {j \in 1 .. Len(s) : IsWrapper(s[j])}
  BY DEF Chain, Wrappers
<1>2. CASE Wrappers(s) # {}
  <2>1. i \in Wrappers(s) /\ \A j \in Wrappers(s) : i <= j
    BY <1>1, <1>2, FirstOf
  <2> HIDE DEF i
  <2>2. i \in 1 .. Len(s) /\ IsWrapper(s[i]) /\ \A j \in 1 .. i - 1 : ~IsWrapper(s[j])
    BY <1>1, <2>1
  <2>3. i # Len(s)
    <3>1. s[i] \notin Ending
      BY <2>2, WrapperStatus
    <3> QED BY <2>2, <3>1 DEF Chain
  <2>4. WithMessage(s) = Onto(StatusOfLayer(s[i]), Tail1(s, i))
    <3>1. WithMessage(s) = << Wrapper(StatusOfLayer(s[i])), "msg" >> \o Tail1(s, i)
      BY <1>2 DEF WithMessage, i
    <3> QED BY <3>1, Zenon DEF Onto
  <2>5. i \in 1 .. Len(s) - 1
    <3>1. i \in 1 .. Len(s) /\ Len(s) \in Nat
      BY <1>1, <2>2
    <3> QED BY <2>3, <3>1
  <2> QED BY <2>2, <2>4, <2>5
<1>3. CASE Wrappers(s) = {}
  <2>1. \A j \in 1 .. Len(s) : ~IsWrapper(s[j])
    BY <1>1, <1>3
  <2>2. Wrapper(404) = "404"
    BY DEF Wrapper
  <2> QED BY <1>3, <2>1, <2>2 DEF WithMessage, Onto
<1> QED BY <1>2, <1>3

\* What makes an error one of something not found, layer by layer.
LEMMA NotFoundLayers ==
  ASSUME NEW s, Chain(s)
  PROVE  IsNotFount(s) <=> \/ Last(s) \in {"ErrRecordNotFound", "notFoundError"}
                           \/ \E k \in 1 .. Len(s) : s[k] \in {"404", "NotFoundError"}
<1>1. DOMAIN s = 1 .. Len(s)
  BY DEF Chain
<1>2. \A l : (l = "NotFoundError" \/ (IsWrapper(l) /\ StatusOfLayer(l) = 404)) <=> l \in {"404", "NotFoundError"}
  BY DEF IsWrapper, StatusOfLayer
<1> QED BY <1>1, <1>2 DEF IsNotFount, Wrappers

\* Layers that make an error one of something not found.
NotFoundIn(s) == \E k \in 1 .. Len(s) : s[k] \in {"404", "NotFoundError"}

LEMMA StatusOnto ==
  ASSUME NEW n \in {404, 500}, NEW t, Chain(t), NEW u, u = Onto(n, t)
  PROVE  /\ Chain(u) /\ Len(u) = Len(t) + 2 /\ StatusCode(u) = n /\ Last(u) = Last(t)
         /\ IsNotFount(u) <=> n = 404 \/ IsNotFount(t)
<1> DEFINE p == << Wrapper(n), "msg" >>
<1>1. p \in Seq(Around) /\ Len(p) = 2 /\ p[1] = Wrapper(n) /\ p[2] = "msg"
  BY WrapperOf DEF Around
<1>2. u = p \o t
  BY DEF Onto
<1> HIDE DEF p
<1>3. Len(t) \in Nat \ {0}
  BY DEF Chain
<1>4. /\ Chain(u) /\ Len(u) = Len(t) + 2 /\ u[1] = Wrapper(n) /\ u[2] = "msg" /\ Last(u) = Last(t)
      /\ \A k \in 3 .. Len(u) : u[k] = t[k - 2]
  <2>0. p \in Seq(Around)
    BY <1>1
  <2>1. /\ Chain(u) /\ Len(u) = Len(p) + Len(t)
        /\ \A k \in 1 .. Len(p) : u[k] = p[k]
        /\ \A k \in Len(p) + 1 .. Len(u) : u[k] = t[k - Len(p)]
        /\ Last(u) = Last(t)
    BY <1>2, <2>0, AroundIt
  <2> QED BY <1>1, <1>3, <2>1
<1>5. StatusCode(u) = n
  <2>1. 1 \in 1 .. Len(u) /\ StatusOfLayer(u[1]) = n /\ n # 0 /\ \A j \in 1 .. Len(u) : ~(j < 1)
    BY <1>3, <1>4, WrapperOf
  <2> QED BY <1>4, <2>1, StatusOfFirst
<1>6. NotFoundIn(u) <=> n = 404 \/ NotFoundIn(t)
  <2>1. u[1] \in {"404", "NotFoundError"} <=> n = 404
    BY <1>4 DEF Wrapper
  <2>2. u[2] \notin {"404", "NotFoundError"}
    BY <1>4
  <2>3. \A k \in 1 .. Len(t) : k + 2 \in 1 .. Len(u) /\ u[k + 2] = t[k]
    BY <1>3, <1>4
  <2>4. \A k \in 1 .. Len(u) : k = 1 \/ k = 2 \/ (k - 2 \in 1 .. Len(t) /\ u[k] = t[k - 2])
    BY <1>3, <1>4
  <2>5. 1 \in 1 .. Len(u)
    BY <1>3, <1>4
  <2>6. NotFoundIn(u) => n = 404 \/ NotFoundIn(t)
    BY <2>1, <2>2, <2>4 DEF NotFoundIn
  <2>7. n = 404 => NotFoundIn(u)
    BY <2>1, <2>5 DEF NotFoundIn
  <2>8. NotFoundIn(t) => NotFoundIn(u)
    BY <2>3 DEF NotFoundIn
  <2> QED BY <2>6, <2>7, <2>8
<1>7. IsNotFount(u) <=> n = 404 \/ IsNotFount(t)
  <2>1. IsNotFount(u) <=> Last(u) \in {"ErrRecordNotFound", "notFoundError"} \/ NotFoundIn(u)
    BY <1>4, NotFoundLayers DEF NotFoundIn
  <2>2. IsNotFount(t) <=> Last(t) \in {"ErrRecordNotFound", "notFoundError"} \/ NotFoundIn(t)
    BY NotFoundLayers DEF NotFoundIn
  <2> QED BY <1>4, <1>6, <2>1, <2>2
<1> QED BY <1>4, <1>5, <1>7

\* The same of a chain, as a name for what a leaf need not expand.
OntoSays(n, t) ==
  LET u == Onto(n, t) IN
  /\ Chain(u) /\ Len(u) = Len(t) + 2 /\ StatusCode(u) = n /\ Last(u) = Last(t)
  /\ IsNotFount(u) <=> n = 404 \/ IsNotFount(t)

LEMMA OntoChain ==
  ASSUME NEW n \in {404, 500}, NEW t, Chain(t)
  PROVE  OntoSays(n, t)
BY StatusOnto DEF OntoSays

\* What a message does to a chain.
Keeps(s, u) ==
  /\ Chain(u) /\ Len(u) <= Len(s) + 2
  /\ StatusCode(s) # 0 => StatusCode(u) = StatusCode(s)
  /\ StatusCode(s) = 0 /\ Last(s) = "ErrRecordNotFound" => StatusCode(u) = 404
  /\ Wrappers(s) # {} \/ Last(s) # "Errors404" => (IsNotFount(u) <=> IsNotFount(s))

\* The layers around the first wrapper are messages.
LEMMA MessageInside ==
  ASSUME NEW s, Chain(s), NEW i \in 1 .. Len(s) - 1, IsWrapper(s[i]),
         \A j \in 1 .. i - 1 : ~IsWrapper(s[j]),
         NEW u, u = Onto(StatusOfLayer(s[i]), Tail1(s, i))
  PROVE  Keeps(s, u)
<1> DEFINE code == StatusOfLayer(s[i])
           rest == Tail1(s, i)
<1>1. Len(s) \in Nat \ {0} /\ i \in 1 .. Len(s)
  BY DEF Chain
<1>2. code \in {404, 500} /\ (code = 404 <=> s[i] # "500") /\ code # 0
  BY WrapperStatus
<1>3. /\ Chain(rest) /\ Len(rest) = Len(s) - i /\ Last(rest) = Last(s)
      /\ \A k \in 1 .. Len(s) - i : rest[k] = s[i + k]
  BY Below
<1>4. \A j \in 1 .. i - 1 : s[j] = "msg" /\ StatusOfLayer(s[j]) = 0
  <2>1. \A j \in 1 .. i - 1 : j \in 1 .. Len(s) /\ j # Len(s)
    BY <1>1
  <2> QED BY <2>1, OnlyMessages
<1>5. StatusCode(s) = code
  <2>1. \A j \in 1 .. Len(s) : j < i => j \in 1 .. i - 1
    BY <1>1
  <2> QED BY <1>1, <1>2, <1>4, <2>1, StatusOfFirst
<1>6. s[i] \in {"404", "NotFoundError"} <=> code = 404
  BY DEF IsWrapper, StatusOfLayer
<1> HIDE DEF code, rest
<1>7. NotFoundIn(s) <=> code = 404 \/ NotFoundIn(rest)
  <2>1. \A k \in 1 .. Len(s) : k \in 1 .. i - 1 \/ k = i \/ (k - i \in 1 .. Len(rest) /\ rest[k - i] = s[k])
    BY <1>1, <1>3
  <2>2. \A k \in 1 .. Len(rest) : i + k \in 1 .. Len(s) /\ s[i + k] = rest[k]
    BY <1>1, <1>3
  <2>3. NotFoundIn(s) => code = 404 \/ NotFoundIn(rest)
    BY <1>4, <1>6, <2>1 DEF NotFoundIn
  <2>4. code = 404 => NotFoundIn(s)
    BY <1>1, <1>6 DEF NotFoundIn
  <2>5. NotFoundIn(rest) => NotFoundIn(s)
    BY <2>2 DEF NotFoundIn
  <2> QED BY <2>3, <2>4, <2>5
<1>8. IsNotFount(s) <=> code = 404 \/ IsNotFount(rest)
  <2>1. IsNotFount(s) <=> Last(s) \in {"ErrRecordNotFound", "notFoundError"} \/ NotFoundIn(s)
    BY NotFoundLayers DEF NotFoundIn
  <2>2. IsNotFount(rest) <=> Last(rest) \in {"ErrRecordNotFound", "notFoundError"} \/ NotFoundIn(rest)
    BY <1>3, NotFoundLayers DEF NotFoundIn
  <2> QED BY <1>3, <1>7, <2>1, <2>2
<1>9. /\ Chain(u) /\ Len(u) = Len(rest) + 2 /\ StatusCode(u) = code /\ Last(u) = Last(rest)
      /\ IsNotFount(u) <=> code = 404 \/ IsNotFount(rest)
  <2>1. u = Onto(code, rest)
    BY DEF code, rest
  <2>2. code \in {404, 500} /\ Chain(rest)
    BY <1>2, <1>3
  <2>3. OntoSays(code, rest)
    BY <2>2, OntoChain
  <2> QED BY <2>1, <2>3 DEF OntoSays
<1>10. Len(u) <= Len(s) + 2
  BY <1>1, <1>3, <1>9
<1> QED BY <1>2, <1>5, <1>8, <1>9, <1>10 DEF Keeps

\* Without a wrapper the last layer says what the error is.
LEMMA NoWrapper ==
  ASSUME NEW s, Chain(s), \A j \in 1 .. Len(s) : ~IsWrapper(s[j])
  PROVE  /\ StatusCode(s) = StatusOfLayer(Last(s)) /\ Wrappers(s) = {} /\ Last(s) \in Ending
         /\ IsNotFount(s) <=> Last(s) \in {"ErrRecordNotFound", "notFoundError"}
<1>1. Len(s) \in Nat \ {0} /\ Len(s) \in 1 .. Len(s) /\ DOMAIN s = 1 .. Len(s)
      /\ Last(s) \in Ending /\ s[Len(s)] = Last(s)
  BY DEF Chain, Last
<1>2. \A j \in 1 .. Len(s) : j # Len(s) => StatusOfLayer(s[j]) = 0
  BY OnlyMessages
<1>3. ASSUME StatusOfLayer(Last(s)) = 0
      PROVE  StatusCode(s) = 0
  <2>1. \A j \in 1 .. Len(s) : StatusOfLayer(s[j]) = 0
    BY <1>1, <1>2, <1>3
  <2> QED BY <2>1, NoStatus
<1>4. ASSUME StatusOfLayer(Last(s)) # 0
      PROVE  StatusCode(s) = StatusOfLayer(Last(s))
  <2>1. \A j \in 1 .. Len(s) : j < Len(s) => StatusOfLayer(s[j]) = 0
    <3>1. \A j \in 1 .. Len(s) : j < Len(s) => j # Len(s)
      OBVIOUS
    <3> QED BY <1>2, <3>1
  <2>2. StatusOfLayer(s[Len(s)]) # 0
    BY <1>1, <1>4
  <2>3. StatusCode(s) = StatusOfLayer(s[Len(s)])
    BY <1>1, <2>1, <2>2, StatusOfFirst
  <2> QED BY <1>1, <2>3
<1>5. StatusCode(s) = StatusOfLayer(Last(s))
  BY <1>3, <1>4
<1>6. Wrappers(s) = {}
  BY <1>1 DEF Wrappers
<1>7. ~ NotFoundIn(s)
  BY DEF NotFoundIn, IsWrapper
<1>8. IsNotFount(s) <=> Last(s) \in {"ErrRecordNotFound", "notFoundError"}
  BY <1>7, NotFoundLayers DEF NotFoundIn
<1> QED BY <1>1, <1>5, <1>6, <1>8

LEMMA MessageAround ==
  ASSUME NEW s, Chain(s), \A j \in 1 .. Len(s) : ~IsWrapper(s[j])
  PROVE  /\ StatusCode(s) # 0 => Keeps(s, Onto(StatusCode(s), s))
         /\ StatusCode(s) = 0 /\ Last(s) = "ErrRecordNotFound" => Keeps(s, Onto(404, s))
         /\ StatusCode(s) = 0 /\ Last(s) # "ErrRecordNotFound" => Keeps(s, << "msg" >> \o s)
<1>1. /\ StatusCode(s) = StatusOfLayer(Last(s)) /\ Wrappers(s) = {} /\ Last(s) \in Ending
      /\ IsNotFount(s) <=> Last(s) \in {"ErrRecordNotFound", "notFoundError"}
  BY NoWrapper
<1>2. Len(s) \in Nat
  BY DEF Chain
<1>3. \A n \in {404, 500} :
        /\ Chain(Onto(n, s)) /\ Len(Onto(n, s)) <= Len(s) + 2
        /\ StatusCode(Onto(n, s)) = n /\ Last(Onto(n, s)) = Last(s)
        /\ IsNotFount(Onto(n, s)) <=> n = 404 \/ IsNotFount(s)
  <2>1. \A n \in {404, 500} : OntoSays(n, s)
    BY OntoChain
  <2> QED BY <1>2, <2>1 DEF OntoSays
<1>4. ASSUME StatusCode(s) # 0
      PROVE  Keeps(s, Onto(StatusCode(s), s))
  <2>1. StatusCode(s) \in {404, 500} /\ (StatusCode(s) = 404 <=> Last(s) = "Errors404")
    BY <1>1, <1>4 DEF StatusOfLayer, Ending
  <2> QED BY <1>1, <1>3, <1>4, <2>1 DEF Keeps
<1>5. ASSUME StatusCode(s) = 0, Last(s) = "ErrRecordNotFound"
      PROVE  Keeps(s, Onto(404, s))
  BY <1>1, <1>3, <1>5 DEF Keeps
<1> DEFINE p == << "msg" >>
           u == p \o s
<1>6. p \in Seq(Around) /\ Len(p) = 1 /\ p[1] = "msg"
  BY DEF Around
<1> HIDE DEF p
<1>7. /\ Chain(u) /\ Len(u) = Len(p) + Len(s)
      /\ \A k \in 1 .. Len(p) : u[k] = p[k]
      /\ \A k \in Len(p) + 1 .. Len(u) : u[k] = s[k - Len(p)]
      /\ Last(u) = Last(s)
  BY <1>6, AroundIt
<1> HIDE DEF u
<1>8. \A k \in 1 .. Len(u) : u[k] = "msg" \/ (k - 1 \in 1 .. Len(s) /\ u[k] = s[k - 1])
  BY <1>2, <1>6, <1>7
<1>9. \A k \in 1 .. Len(s) : k + 1 \in 1 .. Len(u) /\ u[k + 1] = s[k]
  BY <1>2, <1>6, <1>7
<1>10. \A k \in 1 .. Len(u) : ~IsWrapper(u[k])
  BY <1>8 DEF IsWrapper
<1>11. /\ StatusCode(u) = StatusOfLayer(Last(u))
       /\ IsNotFount(u) <=> Last(u) \in {"ErrRecordNotFound", "notFoundError"}
  BY <1>7, <1>10, NoWrapper
<1>12. Len(u) = Len(s) + 1 /\ Len(u) <= Len(s) + 2
  BY <1>2, <1>6, <1>7
<1>13. StatusCode(s) = 0 /\ Last(s) # "ErrRecordNotFound" => Keeps(s, u)
  BY <1>1, <1>7, <1>11, <1>12 DEF Keeps
<1> QED BY <1>4, <1>5, <1>13 DEF u, p

LEMMA MessageOnChain ==
  ASSUME NEW s, Chain(s)
  PROVE  Keeps(s, WithMessage(s))
<1> DEFINE u == WithMessage(s)
<1>1. \/ \E i \in 1 .. Len(s) - 1 :
           /\ IsWrapper(s[i]) /\ \A j \in 1 .. i - 1 : ~IsWrapper(s[j])
           /\ u = Onto(StatusOfLayer(s[i]), Tail1(s, i))
      \/ /\ \A j \in 1 .. Len(s) : ~IsWrapper(s[j])
         /\ \/ StatusCode(s) # 0 /\ u = Onto(StatusCode(s), s)
            \/ StatusCode(s) = 0 /\ Last(s) = "ErrRecordNotFound" /\ u = Onto(404, s)
            \/ StatusCode(s) = 0 /\ Last(s) # "ErrRecordNotFound" /\ u = << "msg" >> \o s
  BY WithMessageCases
<1> HIDE DEF u
<1>2. ASSUME NEW i \in 1 .. Len(s) - 1, IsWrapper(s[i]), \A j \in 1 .. i - 1 : ~IsWrapper(s[j]),
             u = Onto(StatusOfLayer(s[i]), Tail1(s, i))
      PROVE  Keeps(s, u)
  BY <1>2, MessageInside
<1>3. ASSUME \A j \in 1 .. Len(s) : ~IsWrapper(s[j])
      PROVE  /\ StatusCode(s) # 0 => Keeps(s, Onto(StatusCode(s), s))
             /\ StatusCode(s) = 0 /\ Last(s) = "ErrRecordNotFound" => Keeps(s, Onto(404, s))
             /\ StatusCode(s) = 0 /\ Last(s) # "ErrRecordNotFound" => Keeps(s, << "msg" >> \o s)
  BY <1>3, MessageAround
<1>4. Keeps(s, u)
  BY <1>1, <1>2, <1>3
<1> QED BY <1>4 DEF u

LEMMA LeafChains ==
  ASSUME NEW s \in Leaf
  PROVE  Chain(s) /\ Len(s) <= 2
<1>1. CASE s = << "NotFoundError", "plain" >>
  <2>1. s \in Seq(Around \cup Ending) /\ Len(s) = 2 /\ s[1] = "NotFoundError" /\ s[2] = "plain"
    BY <1>1 DEF Around, Ending
  <2>2. \A i \in 1 .. Len(s) : i = 1 \/ i = 2
    BY <2>1
  <2> QED BY <2>1, <2>2 DEF Chain, Around, Ending
<1>2. CASE s # << "NotFoundError", "plain" >>
  <2>1. PICK x \in Ending : s = << x >>
    BY <1>2 DEF Leaf, Ending
  <2>2. s \in Seq(Around \cup Ending) /\ Len(s) = 1 /\ s[1] = x
    BY <2>1
  <2>3. \A i \in 1 .. Len(s) : i = 1
    BY <2>2
  <2> QED BY <2>2, <2>3 DEF Chain
<1> QED BY <1>1, <1>2

LEMMA ErrorsInvInit == ErrorsInit => ErrorsInv
BY LeafChains, ErrorsAssumption DEF ErrorsInit, ErrorsInv, Chain

LEMMA WithChain ==
  ASSUME NEW s, Chain(s), NEW status \in Status, NEW msg \in BOOLEAN
  PROVE  Chain(With(status, s, msg)) /\ Len(With(status, s, msg)) <= Len(s) + 2
<1>1. status \in {404, 500} /\ Len(s) \in Nat
  BY DEF Status, Chain
<1> DEFINE w == << Wrapper(status) >>
           q == IF msg THEN << "msg" >> ELSE << >>
           p == w \o q
<1>2. p \in Seq(Around) /\ Len(p) <= 2 /\ Len(p) \in Nat
  <2>1. w \in Seq(Around) /\ Len(w) = 1
    BY <1>1, WrapperOf DEF Around
  <2>2. q \in Seq(Around) /\ Len(q) <= 1 /\ Len(q) \in Nat
    <3>1. << "msg" >> \in Seq(Around) /\ Len(<< "msg" >>) = 1
      BY DEF Around
    <3>2. << >> \in Seq(Around) /\ Len(<< >>) = 0
      OBVIOUS
    <3> QED BY <3>1, <3>2
  <2> HIDE DEF w, q
  <2>3. p \in Seq(Around) /\ Len(p) = Len(w) + Len(q)
    BY <2>1, <2>2, ConcatProperties
  <2> QED BY <2>1, <2>2, <2>3
<1>3. With(status, s, msg) = p \o s
  BY DEF With
<1> HIDE DEF p
<1>4. Chain(p \o s) /\ Len(p \o s) = Len(p) + Len(s)
  BY <1>2, AroundIt
<1> QED BY <1>1, <1>2, <1>3, <1>4

LEMMA ErrorsStep ==
  ASSUME ErrorsInv, [ErrorsNext]_err
  PROVE  ErrorsInv'
<1>1. Chain(err) /\ Len(err) \in Nat /\ MaxChain \in Nat
  BY ErrorsAssumption DEF ErrorsInv, Chain
<1>2. ASSUME Chain(err'), Len(err') <= Len(err) + 2, Len(err) < MaxChain
      PROVE  ErrorsInv'
  <2>1. Len(err') \in Nat
    BY <1>2 DEF Chain
  <2>2. Len(err') <= MaxChain + 3
    BY <1>1, <1>2, <2>1
  <2> QED BY <1>2, <2>2 DEF ErrorsInv, Chain
<1>3. CASE ErrorsNext /\ err' = WithMessage(err)
  <2>1. Chain(WithMessage(err)) /\ Len(WithMessage(err)) <= Len(err) + 2
    BY <1>1, MessageOnChain DEF Keeps
  <2> QED BY <1>2, <1>3, <2>1 DEF ErrorsNext
<1>4. ASSUME ErrorsNext, NEW status \in Status, NEW msg \in BOOLEAN, err' = With(status, err, msg)
      PROVE  ErrorsInv'
  <2>1. Chain(With(status, err, msg)) /\ Len(With(status, err, msg)) <= Len(err) + 2
    BY <1>1, WithChain
  <2> QED BY <1>2, <1>4, <2>1 DEF ErrorsNext
<1>5. CASE ErrorsNext /\ err' = << "msg" >> \o err
  <2> DEFINE p == << "msg" >>
  <2>1. p \in Seq(Around) /\ Len(p) = 1
    BY DEF Around
  <2>2. err' = p \o err /\ Len(err) < MaxChain
    BY <1>5 DEF ErrorsNext
  <2> HIDE DEF p
  <2>3. Chain(p \o err) /\ Len(p \o err) = Len(p) + Len(err)
    BY <1>1, <2>1, AroundIt
  <2>4. Chain(err') /\ Len(err') <= Len(err) + 2
    BY <1>1, <2>1, <2>2, <2>3
  <2> QED BY <1>2, <2>2, <2>4
<1>6. CASE UNCHANGED err
  BY <1>6 DEF ErrorsInv, Chain
<1> QED BY <1>3, <1>4, <1>5, <1>6 DEF ErrorsNext

\* An error is one of the layers there are, however deep it is wrapped.
THEOREM ErrorsTypeCorrect == ErrorsSpec => []ErrorsTypeOK
<1>1. ErrorsInit => ErrorsInv
  BY ErrorsInvInit
<1>2. ErrorsInv /\ [ErrorsNext]_err => ErrorsInv'
  BY ErrorsStep
<1>3. ErrorsInv => ErrorsTypeOK
  BY DEF ErrorsInv, Chain, ErrorsTypeOK, Around, Ending
<1> QED BY <1>1, <1>2, <1>3, PTL DEF ErrorsSpec

\* On errors of any depth: a message keeps the status, and what is not found.
THEOREM MessageKeepsHolds == ErrorsSpec => []MessageKeeps
<1>1. ErrorsInit => ErrorsInv
  BY ErrorsInvInit
<1>2. ErrorsInv /\ [ErrorsNext]_err => ErrorsInv'
  BY ErrorsStep
<1>3. ErrorsInv => MessageKeeps
  <2> SUFFICES ASSUME ErrorsInv
               PROVE  MessageKeeps
    OBVIOUS
  <2>1. Keeps(err, WithMessage(err))
    BY MessageOnChain DEF ErrorsInv
  <2> QED BY <2>1 DEF Keeps, MessageKeeps
<1> QED BY <1>1, <1>2, <1>3, PTL DEF ErrorsSpec

----------------------------------------------------------------------------
(* The ordered set.                                                        *)

Items(q) == {q[i] : i \in 1 .. Len(q)}
NoRepeat(q) == \A i, j \in 1 .. Len(q) : q[i] = q[j] => i = j

\* The items of s are those of o, with the places they have there as indices.
Ordered(s, o) ==
  /\ o \in Seq(SetItem) /\ NoRepeat(o)
  /\ s \in [Items(o) -> Nat]
  /\ \A i \in 1 .. Len(o) : s[o[i]] = i - 1

\* Without repetition there are as many items as places.
LEMMA ItemsCounted ==
  ASSUME NEW S, NEW o \in Seq(S), NoRepeat(o)
  PROVE  IsFiniteSet(Items(o)) /\ Cardinality(Items(o)) = Len(o)
<1> DEFINE n == Len(o)
<1>0. n \in Nat /\ o \in [1 .. n -> S]
  OBVIOUS
<1>3. o \in [1 .. n -> Items(o)] /\ \A y \in Items(o) : \E i \in 1 .. n : o[i] = y
  BY <1>0 DEF Items
<1>4. \A i, j \in 1 .. n : o[i] = o[j] => i = j
  BY DEF NoRepeat
<1> HIDE DEF n
<1>1. o \in Surjection(1 .. n, Items(o)) /\ o \in Injection(1 .. n, Items(o))
  <2>1. o \in Surjection(1 .. n, Items(o))
    BY <1>3 DEF Surjection
  <2>2. o \in Injection(1 .. n, Items(o))
    BY <1>3, <1>4 DEF Injection, IsInjective
  <2> QED BY <2>1, <2>2
<1>2. IsFiniteSet(1 .. n) /\ Cardinality(1 .. n) = n
  BY <1>0, FS_Interval
<1> QED BY <1>1, <1>2, FS_Surjection DEF n

\* An item that is new gets the next place as its index.
LEMMA InsertOrdered ==
  ASSUME NEW s, NEW o, Ordered(s, o), NEW x \in SetItem, x \notin Items(o)
  PROVE  Ordered(Insert(s, x), Append(o, x)) /\ Items(Append(o, x)) = Items(o) \cup {x}
<1> DEFINE o2 == Append(o, x)
           n == Len(o)
<1>1. o \in Seq(SetItem) /\ n \in Nat /\ DOMAIN s = Items(o) /\ NoRepeat(o)
      /\ s \in [Items(o) -> Nat] /\ \A i \in 1 .. n : s[o[i]] = i - 1
  BY DEF Ordered
<1>2. /\ o2 \in Seq(SetItem) /\ Len(o2) = n + 1 /\ o2[n + 1] = x
      /\ \A i \in 1 .. n : o2[i] = o[i]
  BY <1>1
<1>3. Cardinality(DOMAIN s) = n
  BY <1>1, ItemsCounted
<1>4. Insert(s, x) = [y \in Items(o) \cup {x} |-> IF y = x THEN n ELSE s[y]]
  BY <1>1, <1>3 DEF Insert
<1>5. \A i \in 1 .. n : o[i] \in Items(o) /\ o[i] # x
  BY DEF Items
<1> HIDE DEF o2
<1>6. Items(o2) = Items(o) \cup {x}
  <2>1. ASSUME NEW y \in Items(o2) PROVE y \in Items(o) \cup {x}
    <3>1. PICK i \in 1 .. n + 1 : y = o2[i]
      BY <1>2 DEF Items
    <3>2. CASE i = n + 1
      BY <1>2, <3>1, <3>2
    <3>3. CASE i # n + 1
      <4>1. i \in 1 .. n
        BY <1>1, <3>3
      <4> QED BY <1>2, <1>5, <3>1, <4>1
    <3> QED BY <3>2, <3>3
  <2>2. ASSUME NEW y \in Items(o) PROVE y \in Items(o2)
    <3>1. PICK i \in 1 .. n : y = o[i]
      BY DEF Items
    <3>2. i \in 1 .. Len(o2) /\ y = o2[i]
      BY <1>1, <1>2, <3>1
    <3> QED BY <3>2 DEF Items
  <2>3. x \in Items(o2)
    <3>1. n + 1 \in 1 .. Len(o2)
      BY <1>1, <1>2
    <3> QED BY <1>2, <3>1 DEF Items
  <2> QED BY <2>1, <2>2, <2>3
<1>7. NoRepeat(o2)
  <2>1. ASSUME NEW i \in 1 .. n + 1, NEW j \in 1 .. n + 1, o2[i] = o2[j]
        PROVE  i = j
    <3>1. CASE i \in 1 .. n /\ j \in 1 .. n
      BY <1>1, <1>2, <2>1, <3>1 DEF NoRepeat
    <3>2. CASE i = n + 1 \/ j = n + 1
      BY <1>1, <1>2, <1>5, <2>1, <3>2
    <3> QED BY <1>1, <3>1, <3>2
  <2> QED BY <1>2, <2>1 DEF NoRepeat
<1>8. Insert(s, x) \in [Items(o2) -> Nat]
  BY <1>1, <1>4, <1>6
<1>9. ASSUME NEW i \in 1 .. n + 1
      PROVE  Insert(s, x)[o2[i]] = i - 1
  <2>1. CASE i = n + 1
    BY <1>1, <1>2, <1>4, <2>1
  <2>2. CASE i # n + 1
    <3>1. i \in 1 .. n
      BY <1>1, <2>2
    <3> QED BY <1>1, <1>2, <1>4, <1>5, <3>1
  <2> QED BY <2>1, <2>2
<1>10. Ordered(Insert(s, x), o2)
  BY <1>2, <1>7, <1>8, <1>9 DEF Ordered
<1> QED BY <1>6, <1>10 DEF o2

\* NewSet and Distinct, seen as tables of what they make of the first items.
InsertsFirst(s, q) == s[0] = << >> /\ \A i \in 1 .. Len(q) : s[i] = Insert(s[i - 1], q[i])

DistinctFirst(kept, q) ==
  /\ kept[0] = << >>
  /\ \A i \in 1 .. Len(q) :
       kept[i] = IF \E j \in 1 .. i - 1 : q[j] = q[i] THEN kept[i - 1]
                 ELSE Append(kept[i - 1], q[i])

\* The tables by which they are defined are there: there is no least length
\* without one.
LEMMA NewSetInserts ==
  ASSUME NEW q, Len(q) \in Nat
  PROVE  \E s : InsertsFirst(s, q) /\ NewSet(q) = s[Len(q)]
<1> DEFINE Table(s, n) == s = [i \in 0 .. n |-> IF i = 0 THEN << >> ELSE Insert(s[i - 1], q[i])]
           Bad == {n \in Nat : ~ \E s : Table(s, n)}
<1>1. Bad = {}
  <2>1. SUFFICES ASSUME Bad # {} PROVE FALSE
    OBVIOUS
  <2>2. PICK n \in Bad : \A k \in Bad : n <= k
    <3>1. Bad \subseteq Nat
      OBVIOUS
    <3> HIDE DEF Bad
    <3> QED BY <2>1, <3>1, Least
  <2>3. CASE n = 0
    <3>1. Table([i \in 0 .. 0 |-> << >>], 0)
      OBVIOUS
    <3> QED BY <2>3, <3>1
  <2>4. CASE n # 0
    <3>0. n \in Nat /\ n - 1 \in Nat
      BY <2>4
    <3>1. n \in Nat /\ n - 1 \in Nat /\ n - 1 \notin Bad
      <4> HIDE DEF Bad
      <4> QED BY <2>2, <2>4, <3>0
    <3>2. PICK h : Table(h, n - 1)
      BY <3>1
    <3> DEFINE g == [i \in 0 .. n |-> IF i # n THEN h[i] ELSE Insert(h[n - 1], q[n])]
    <3>3. \A i \in 0 .. n - 1 : h[i] = IF i = 0 THEN << >> ELSE Insert(h[i - 1], q[i])
      BY <3>2
    <3>4. ASSUME NEW i \in 0 .. n
          PROVE  g[i] = IF i = 0 THEN << >> ELSE Insert(g[i - 1], q[i])
      <4>1. i # 0 => i - 1 \in 0 .. n /\ i - 1 # n /\ g[i - 1] = h[i - 1]
        BY <3>1
      <4>2. CASE i = n
        BY <2>4, <4>1, <4>2
      <4>3. CASE i # n
        <5>1. i \in 0 .. n - 1 /\ g[i] = h[i]
          BY <3>1, <4>3
        <5> QED BY <3>3, <4>1, <5>1
      <4> QED BY <4>2, <4>3
    <3>5. Table(g, n)
      BY <3>4
    <3> QED BY <3>1, <3>5
  <2> QED BY <2>3, <2>4
<1> DEFINE table == CHOOSE s : Table(s, Len(q))
<1>2. Table(table, Len(q))
  BY <1>1
<1>3. NewSet(q) = table[Len(q)]
  BY DEF NewSet
<1> HIDE DEF table, Bad
<1>4. \A i \in 0 .. Len(q) : table[i] = IF i = 0 THEN << >> ELSE Insert(table[i - 1], q[i])
  BY <1>2
<1>5. InsertsFirst(table, q)
  BY <1>4 DEF InsertsFirst
<1> QED BY <1>3, <1>5

LEMMA DistinctKeeps ==
  ASSUME NEW q, Len(q) \in Nat
  PROVE  \E kept : DistinctFirst(kept, q) /\ Distinct(q) = kept[Len(q)]
<1> DEFINE Seen(i) == \E j \in 1 .. i - 1 : q[j] = q[i]
           Table(kept, n) ==
             kept = [i \in 0 .. n |-> IF i = 0 THEN << >>
                                      ELSE IF Seen(i) THEN kept[i - 1]
                                      ELSE Append(kept[i - 1], q[i])]
           Bad == {n \in Nat : ~ \E kept : Table(kept, n)}
<1> DEFINE table == CHOOSE kept : Table(kept, Len(q))
<1>3. Distinct(q) = table[Len(q)]
  BY DEF Distinct
<1> HIDE DEF Seen
<1>1. Bad = {}
  <2>1. SUFFICES ASSUME Bad # {} PROVE FALSE
    OBVIOUS
  <2>2. PICK n \in Bad : \A k \in Bad : n <= k
    <3>1. Bad \subseteq Nat
      OBVIOUS
    <3> HIDE DEF Bad
    <3> QED BY <2>1, <3>1, Least
  <2>3. CASE n = 0
    <3>1. Table([i \in 0 .. 0 |-> << >>], 0)
      OBVIOUS
    <3> QED BY <2>3, <3>1
  <2>4. CASE n # 0
    <3>0. n \in Nat /\ n - 1 \in Nat
      BY <2>4
    <3>1. n \in Nat /\ n - 1 \in Nat /\ n - 1 \notin Bad
      <4> HIDE DEF Bad
      <4> QED BY <2>2, <2>4, <3>0
    <3>2. PICK h : Table(h, n - 1)
      BY <3>1
    <3> DEFINE g == [i \in 0 .. n |-> IF i # n THEN h[i]
                                      ELSE IF Seen(n) THEN h[n - 1] ELSE Append(h[n - 1], q[n])]
    <3>3. \A i \in 0 .. n - 1 :
            h[i] = IF i = 0 THEN << >>
                   ELSE IF Seen(i) THEN h[i - 1] ELSE Append(h[i - 1], q[i])
      BY <3>2
    <3>4. ASSUME NEW i \in 0 .. n
          PROVE  g[i] = IF i = 0 THEN << >>
                        ELSE IF Seen(i) THEN g[i - 1] ELSE Append(g[i - 1], q[i])
      <4>1. i # 0 => i - 1 \in 0 .. n /\ i - 1 # n /\ g[i - 1] = h[i - 1]
        BY <3>1
      <4>2. CASE i = n
        BY <2>4, <4>1, <4>2
      <4>3. CASE i # n
        <5>1. i \in 0 .. n - 1 /\ g[i] = h[i]
          BY <3>1, <4>3
        <5> QED BY <3>3, <4>1, <5>1
      <4> QED BY <4>2, <4>3
    <3>5. Table(g, n)
      BY <3>4
    <3> QED BY <3>1, <3>5
  <2> QED BY <2>3, <2>4
<1>2. Table(table, Len(q))
  BY <1>1
<1> HIDE DEF table, Bad
<1>4. \A i \in 0 .. Len(q) :
        table[i] = IF i = 0 THEN << >>
                   ELSE IF Seen(i) THEN table[i - 1] ELSE Append(table[i - 1], q[i])
  BY <1>2
<1>5. DistinctFirst(table, q)
  <2>1. table[0] = << >>
    BY <1>4
  <2>2. ASSUME NEW i \in 1 .. Len(q)
        PROVE  table[i] = IF Seen(i) THEN table[i - 1] ELSE Append(table[i - 1], q[i])
    BY <1>4
  <2> QED BY <2>1, <2>2 DEF DistinctFirst, Seen
<1> QED BY <1>3, <1>5

\* The set made of q has the items of q, in the order they come first.
LEMMA NewSetOrdered ==
  ASSUME NEW q \in Seq(SetItem)
  PROVE  Ordered(NewSet(q), Distinct(q)) /\ DOMAIN NewSet(q) = Items(q)
<1> DEFINE n == Len(q)
<1>1. n \in Nat /\ \A i \in 1 .. n : q[i] \in SetItem
  OBVIOUS
<1>2. PICK s : InsertsFirst(s, q) /\ NewSet(q) = s[n]
  BY <1>1, NewSetInserts
<1>3. PICK kept : DistinctFirst(kept, q) /\ Distinct(q) = kept[n]
  BY <1>1, DistinctKeeps
<1> DEFINE Until(i) == {q[j] : j \in 1 .. i}
           Fine(i) == Ordered(s[i], kept[i]) /\ Items(kept[i]) = Until(i)
<1>4. Fine(0)
  <2>1. s[0] = << >> /\ kept[0] = << >>
    BY <1>2, <1>3 DEF InsertsFirst, DistinctFirst
  <2>2. Items(<< >>) = {} /\ Until(0) = {}
    BY DEF Items
  <2>3. Ordered(<< >>, << >>)
    BY <2>2 DEF Ordered, NoRepeat
  <2> QED BY <2>1, <2>2, <2>3
<1>5. ASSUME NEW i \in 1 .. n, Fine(i - 1)
      PROVE  Fine(i)
  <2>1. s[i] = Insert(s[i - 1], q[i]) /\ i - 1 \in Nat /\ q[i] \in SetItem
    BY <1>1, <1>2 DEF InsertsFirst
  <2>2. kept[i] = IF \E j \in 1 .. i - 1 : q[j] = q[i] THEN kept[i - 1]
                  ELSE Append(kept[i - 1], q[i])
    BY <1>3 DEF DistinctFirst
  <2>3. Until(i) = Until(i - 1) \cup {q[i]}
    <3>1. 1 .. i = (1 .. i - 1) \cup {i}
      BY <2>1
    <3> QED BY <3>1
  <2>4. DOMAIN s[i - 1] = Until(i - 1)
    BY <1>5 DEF Ordered
  <2>5. CASE \E j \in 1 .. i - 1 : q[j] = q[i]
    <3>1. q[i] \in Until(i - 1)
      BY <2>5
    <3> HIDE DEF Until
    <3>2. s[i] = s[i - 1] /\ kept[i] = kept[i - 1] /\ Until(i) = Until(i - 1)
      BY <2>1, <2>2, <2>3, <2>4, <2>5, <3>1 DEF Insert
    <3> QED BY <1>5, <3>2
  <2>6. CASE ~ \E j \in 1 .. i - 1 : q[j] = q[i]
    <3>1. q[i] \notin Until(i - 1)
      BY <2>6
    <3> HIDE DEF Until
    <3>2. kept[i] = Append(kept[i - 1], q[i])
      BY <2>2, <2>6
    <3>3. /\ Ordered(Insert(s[i - 1], q[i]), Append(kept[i - 1], q[i]))
          /\ Items(Append(kept[i - 1], q[i])) = Items(kept[i - 1]) \cup {q[i]}
      BY <1>5, <2>1, <3>1, InsertOrdered
    <3> QED BY <1>5, <2>1, <2>3, <3>2, <3>3
  <2> QED BY <2>5, <2>6
<1> HIDE DEF Fine
<1>6. Fine(n)
  <2> DEFINE Bad == {i \in 0 .. n : ~ Fine(i)}
  <2>1. SUFFICES ASSUME Bad # {} PROVE FALSE
    BY <1>1
  <2>2. PICK b \in Bad : \A i \in Bad : b <= i
    <3>1. Bad \subseteq Nat
      BY <1>1
    <3> HIDE DEF Bad
    <3> QED BY <2>1, <3>1, Least
  <2>3. b \in 1 .. n /\ b - 1 \in 0 .. n /\ b - 1 \notin Bad
    BY <1>1, <1>4, <2>2
  <2> QED BY <1>5, <2>3
<1> QED BY <1>2, <1>3, <1>6 DEF Fine, Ordered, Items

\* With no repetition the items come first where they are.
LEMMA DistinctIsSame ==
  ASSUME NEW q \in Seq(SetItem), NoRepeat(q)
  PROVE  Distinct(q) = q
<1> DEFINE n == Len(q)
<1>1. n \in Nat
  OBVIOUS
<1>2. PICK kept : DistinctFirst(kept, q) /\ Distinct(q) = kept[n]
  BY <1>1, DistinctKeeps
<1> DEFINE Fine(i) == kept[i] \in Seq(SetItem) /\ Len(kept[i]) = i
                      /\ \A j \in 1 .. i : kept[i][j] = q[j]
<1>3. Fine(0)
  BY <1>2 DEF DistinctFirst
<1>4. ASSUME NEW i \in 1 .. n, Fine(i - 1)
      PROVE  Fine(i)
  <2>1. ~ \E j \in 1 .. i - 1 : q[j] = q[i]
    <3>1. ASSUME NEW j \in 1 .. i - 1, q[j] = q[i] PROVE FALSE
      <4>1. j \in 1 .. n /\ j # i
        BY <1>1
      <4> QED BY <3>1, <4>1 DEF NoRepeat
    <3> QED BY <3>1
  <2>2. kept[i] = Append(kept[i - 1], q[i])
    BY <1>2, <2>1 DEF DistinctFirst
  <2>3. q[i] \in SetItem /\ i \in Nat
    BY <1>1
  <2> DEFINE o == kept[i - 1]
  <2>4. o \in Seq(SetItem) /\ Len(o) = i - 1 /\ \A j \in 1 .. i - 1 : o[j] = q[j]
    BY <1>4
  <2> HIDE DEF o
  <2>5. /\ Append(o, q[i]) \in Seq(SetItem) /\ Len(Append(o, q[i])) = i
        /\ \A j \in 1 .. i : Append(o, q[i])[j] = q[j]
    BY <2>3, <2>4
  <2> QED BY <2>2, <2>5 DEF o
<1> HIDE DEF Fine
<1>5. Fine(n)
  <2> DEFINE Bad == {i \in 0 .. n : ~ Fine(i)}
  <2>1. SUFFICES ASSUME Bad # {} PROVE FALSE
    BY <1>1
  <2>2. PICK b \in Bad : \A i \in Bad : b <= i
    <3>1. Bad \subseteq Nat
      BY <1>1
    <3> HIDE DEF Bad
    <3> QED BY <2>1, <3>1, Least
  <2>3. b \in 1 .. n /\ b - 1 \in 0 .. n /\ b - 1 \notin Bad
    BY <1>1, <1>3, <2>2
  <2> QED BY <1>4, <2>3
<1> QED BY <1>2, <1>5 DEF Fine

\* A walk of a finite set meets each of its items once.
LEMMA WalksOnto ==
  ASSUME NEW S, S \subseteq SetItem, IsFiniteSet(S), NEW q \in Walks(S)
  PROVE  q \in Seq(SetItem) /\ NoRepeat(q) /\ Items(q) = S
<1> DEFINE n == Cardinality(S)
<1>1. n \in Nat /\ IsFiniteSet(1 .. n) /\ Cardinality(1 .. n) = n
  BY FS_CardinalityType, FS_Interval
<1>2. q \in [1 .. n -> S] /\ \A i, j \in 1 .. n : q[i] = q[j] => i = j
  BY DEF Walks
<1> HIDE DEF n
<1>3. q \in Injection(1 .. n, S)
  BY <1>2 DEF Injection, IsInjective
<1>4. q \in Surjection(1 .. n, S)
  BY <1>1, <1>3, FS_Injection DEF n
<1>5. \A y \in S : \E i \in 1 .. n : q[i] = y
  BY <1>4 DEF Surjection
<1>6. q \in Seq(SetItem) /\ Len(q) = n
  BY <1>1, <1>2
<1>7. Items(q) = S
  BY <1>2, <1>5, <1>6 DEF Items
<1>8. NoRepeat(q)
  BY <1>2, <1>6 DEF NoRepeat
<1> QED BY <1>6, <1>7, <1>8

\* When the indices are the places of the items, there is one list.
LEMMA OneList ==
  ASSUME NEW s, NEW o, Ordered(s, o)
  PROVE  Lists(s) = {o}
<1> DEFINE n == Len(o)
           S == DOMAIN s
<1>1. /\ o \in Seq(SetItem) /\ n \in Nat /\ NoRepeat(o)
      /\ S = Items(o) /\ s \in [S -> Nat]
      /\ \A i \in 1 .. n : s[o[i]] = i - 1
  BY DEF Ordered
<1>2. S \subseteq SetItem /\ IsFiniteSet(S) /\ Cardinality(S) = n
  BY <1>1, ItemsCounted DEF Items
<1>3. \A x \in S : \E k \in 1 .. n : x = o[k]
  BY <1>1 DEF Items
<1>4. \A i \in 1 .. n : o[i] \in S
  BY <1>1 DEF Items
<1> HIDE DEF S
<1>5. o \in Lists(s)
  <2>1. o \in [1 .. n -> S] /\ DOMAIN o = 1 .. n
    BY <1>1, <1>4
  <2>2. o \in Walks(S)
    BY <1>1, <1>2, <2>1 DEF Walks, NoRepeat
  <2>3. ASSUME NEW i \in 1 .. n, NEW j \in 1 .. n, i < j
        PROVE  s[o[i]] <= s[o[j]]
    <3>1. s[o[i]] = i - 1 /\ s[o[j]] = j - 1
      BY <1>1
    <3> QED BY <2>3, <3>1
  <2> QED BY <2>1, <2>2, <2>3 DEF Lists, S
<1>6. ASSUME NEW q \in Lists(s)
      PROVE  q = o
  <2>1. /\ q \in Walks(S)
        /\ \A i, j \in DOMAIN q : i < j => s[q[i]] <= s[q[j]]
    BY DEF Lists, S
  <2>2. q \in [1 .. n -> S] /\ \A i, j \in 1 .. n : q[i] = q[j] => i = j
    BY <1>2, <2>1 DEF Walks
  <2> DEFINE f == [i \in 1 .. n |-> s[q[i]]]
  <2>3. \A i \in 1 .. n : f[i] \in 0 .. n - 1 /\ q[i] = o[f[i] + 1]
    <3>1. SUFFICES ASSUME NEW i \in 1 .. n
                   PROVE  f[i] \in 0 .. n - 1 /\ q[i] = o[f[i] + 1]
      OBVIOUS
    <3>2. q[i] \in S
      BY <2>2
    <3>3. PICK k \in 1 .. n : q[i] = o[k]
      BY <1>3, <3>2
    <3>4. f[i] = k - 1
      BY <1>1, <3>3
    <3>5. k - 1 \in 0 .. n - 1 /\ (k - 1) + 1 = k
      BY <1>1
    <3> QED BY <3>3, <3>4, <3>5
  <2>4. \A i, j \in 1 .. n : i < j => f[i] < f[j]
    <3>1. SUFFICES ASSUME NEW i \in 1 .. n, NEW j \in 1 .. n, i < j
                   PROVE  f[i] < f[j]
      OBVIOUS
    <3>2. f[i] <= f[j]
      BY <2>1, <2>2, <3>1
    <3>3. f[i] # f[j]
      <4>1. ASSUME f[i] = f[j] PROVE FALSE
        <5>1. q[i] = q[j]
          BY <2>3, <4>1
        <5> QED BY <2>2, <3>1, <5>1
      <4> QED BY <4>1
    <3> HIDE DEF f
    <3>4. f[i] \in 0 .. n - 1 /\ f[j] \in 0 .. n - 1
      BY <2>3
    <3> QED BY <3>2, <3>3, <3>4
  <2> HIDE DEF f
  <2>5. \A i \in 1 .. n : i - 1 <= f[i]
    <3> DEFINE Bad == {i \in 1 .. n : ~ (i - 1 <= f[i])}
    <3>1. SUFFICES ASSUME Bad # {} PROVE FALSE
      OBVIOUS
    <3>2. PICK b \in Bad : \A i \in Bad : b <= i
      <4>1. Bad \subseteq Nat
        BY <1>1
      <4> HIDE DEF Bad
      <4> QED BY <3>1, <4>1, Least
    <3>3. b \in 1 .. n /\ ~ (b - 1 <= f[b]) /\ f[b] \in 0 .. n - 1
      BY <2>3
    <3>4. b # 1
      BY <1>1, <3>3
    <3>5. b - 1 \in 1 .. n /\ b - 1 < b /\ ~ (b <= b - 1)
      BY <1>1, <3>3, <3>4
    <3>6. b - 2 <= f[b - 1] /\ f[b - 1] < f[b] /\ f[b - 1] \in 0 .. n - 1
      <4>1. b - 1 \notin Bad
        <5> HIDE DEF Bad
        <5> QED BY <3>2, <3>5
      <4>2. (b - 1) - 1 <= f[b - 1]
        BY <3>5, <4>1
      <4>3. f[b - 1] < f[b] /\ f[b - 1] \in 0 .. n - 1
        BY <2>3, <2>4, <3>3, <3>5
      <4> QED BY <1>1, <3>3, <4>2, <4>3
    <3> QED BY <1>1, <3>3, <3>6
  <2>6. \A i \in 1 .. n : f[i] <= i - 1
    <3> DEFINE Bad == {k \in 0 .. n - 1 : ~ (f[n - k] <= n - k - 1)}
    <3>1. SUFFICES ASSUME Bad # {} PROVE FALSE
      <4>1. ASSUME NEW i \in 1 .. n, Bad = {} PROVE f[i] <= i - 1
        <5>1. n - i \in 0 .. n - 1 /\ n - (n - i) = i
          BY <1>1
        <5>2. f[n - (n - i)] <= n - (n - i) - 1
          BY <4>1, <5>1
        <5> QED BY <5>1, <5>2
      <4> QED BY <4>1
    <3>2. PICK b \in Bad : \A i \in Bad : b <= i
      <4>1. Bad \subseteq Nat
        BY <1>1
      <4> HIDE DEF Bad
      <4> QED BY <3>1, <4>1, Least
    <3>3. b \in 0 .. n - 1 /\ ~ (f[n - b] <= n - b - 1)
      OBVIOUS
    <3>4. n - b \in 1 .. n
      BY <1>1, <3>3
    <3>5. f[n - b] \in 0 .. n - 1
      BY <2>3, <3>4
    <3>6. b # 0
      BY <1>1, <3>3, <3>5
    <3>7. b - 1 \in 0 .. n - 1 /\ ~ (b <= b - 1) /\ n - (b - 1) \in 1 .. n /\ n - b < n - (b - 1)
      BY <1>1, <3>3, <3>6
    <3>8. f[n - (b - 1)] <= n - (b - 1) - 1
      <4>1. b - 1 \notin Bad
        <5> HIDE DEF Bad
        <5> QED BY <3>2, <3>7
      <4> QED BY <3>7, <4>1
    <3>9. f[n - b] < f[n - (b - 1)] /\ f[n - (b - 1)] \in 0 .. n - 1
      BY <2>3, <2>4, <3>4, <3>7
    <3> QED BY <1>1, <3>3, <3>5, <3>8, <3>9
  <2>7. ASSUME NEW i \in 1 .. n PROVE q[i] = o[i]
    <3>1. f[i] = i - 1
      BY <1>1, <2>3, <2>5, <2>6
    <3>2. f[i] + 1 = i
      BY <1>1, <3>1
    <3> QED BY <2>3, <3>2
  <2>8. o \in [1 .. n -> S]
    BY <1>1, <1>4
  <2> QED BY <2>2, <2>7, <2>8
<1> QED BY <1>5, <1>6

\* Two finite sets with as many items, one in the other, are one.
LEMMA EqualIsEqual ==
  ASSUME NEW s, DOMAIN s \subseteq SetItem
  PROVE  \A T \in SUBSET SetItem : EqualSets(s, T) <=> DOMAIN s = T
<1>1. SUFFICES ASSUME NEW T \in SUBSET SetItem
               PROVE  EqualSets(s, T) <=> DOMAIN s = T
  OBVIOUS
<1>2. IsFiniteSet(DOMAIN s)
  BY OrderedSetAssumption, FS_Subset
<1>3. ASSUME EqualSets(s, T) PROVE DOMAIN s = T
  <2>1. Cardinality(DOMAIN s) = Cardinality(T) /\ T \in SUBSET DOMAIN s
    BY <1>3 DEF EqualSets, IsSuperset
  <2> QED BY <1>2, <2>1, FS_Subset
<1>4. ASSUME DOMAIN s = T PROVE EqualSets(s, T)
  BY <1>4 DEF EqualSets, IsSuperset
<1> QED BY <1>3, <1>4

\* The items are the mathematical set, with indices below the number of items
\* there can be; until one is deleted the index of an item is its place in the
\* order the items came in. A set that was emptied starts afresh.
SetInv ==
  /\ SetTypeOK
  /\ DOMAIN items = members
  /\ items \in [members -> 0 .. Cardinality(SetItem) - 1]
  /\ deleted => members # {}
  /\ ~deleted => Ordered(items, order) /\ Items(order) = members

\* An item that is not in the set gets an index below the number of items.
LEMMA InsertBounded ==
  ASSUME NEW M, M \subseteq SetItem, NEW s \in [M -> 0 .. Cardinality(SetItem) - 1],
         NEW x \in SetItem
  PROVE  Insert(s, x) \in [M \cup {x} -> 0 .. Cardinality(SetItem) - 1]
<1>1. DOMAIN s = M
  OBVIOUS
<1>2. CASE x \in M
  <2>1. Insert(s, x) = s /\ M \cup {x} = M
    BY <1>1, <1>2 DEF Insert
  <2> QED BY <2>1
<1>3. CASE x \notin M
  <2>1. IsFiniteSet(M) /\ Cardinality(M) \in Nat /\ Cardinality(SetItem) \in Nat
    BY OrderedSetAssumption, FS_Subset, FS_CardinalityType
  <2>2. Cardinality(M) <= Cardinality(SetItem) /\ Cardinality(M) # Cardinality(SetItem)
    <3>1. Cardinality(M) <= Cardinality(SetItem) /\ (Cardinality(SetItem) = Cardinality(M) => SetItem = M)
      BY OrderedSetAssumption, FS_Subset
    <3> QED BY <1>3, <3>1
  <2>3. Cardinality(M) \in 0 .. Cardinality(SetItem) - 1
    BY <2>1, <2>2
  <2>4. Insert(s, x) = [y \in M \cup {x} |-> IF y = x THEN Cardinality(M) ELSE s[y]]
    BY <1>1, <1>3 DEF Insert
  <2> QED BY <2>3, <2>4
<1> QED BY <1>2, <1>3

\* Where the indices are places, they are below the number of items there can
\* be.
LEMMA OrderedBounded ==
  ASSUME NEW s, NEW o, Ordered(s, o)
  PROVE  s \in [Items(o) -> 0 .. Cardinality(SetItem) - 1] /\ Items(o) \subseteq SetItem
<1>1. /\ o \in Seq(SetItem) /\ NoRepeat(o) /\ s \in [Items(o) -> Nat]
      /\ \A i \in 1 .. Len(o) : s[o[i]] = i - 1
  BY DEF Ordered
<1>2. Items(o) \subseteq SetItem
  BY <1>1 DEF Items
<1>3. Len(o) <= Cardinality(SetItem) /\ Cardinality(SetItem) \in Nat
  <2>1. Cardinality(Items(o)) = Len(o)
    BY <1>1, ItemsCounted
  <2> QED BY <1>2, <2>1, OrderedSetAssumption, FS_Subset, FS_CardinalityType
<1>4. ASSUME NEW x \in Items(o) PROVE s[x] \in 0 .. Cardinality(SetItem) - 1
  <2>1. PICK i \in 1 .. Len(o) : x = o[i]
    BY DEF Items
  <2>2. s[x] = i - 1 /\ Len(o) \in Nat
    BY <1>1, <2>1
  <2> QED BY <1>3, <2>1, <2>2
<1> QED BY <1>1, <1>2, <1>4

\* A set that a walk makes.
LEMMA BecomesKeeps ==
  ASSUME NEW q \in Seq(SetItem), NEW M, Items(q) = M,
         items' = NewSet(q), members' = M, order' = Distinct(q), deleted' = FALSE
  PROVE  SetInv'
<1>1. Ordered(items', order') /\ DOMAIN items' = members'
  BY NewSetOrdered
<1>2. Items(order') = members'
  BY <1>1 DEF Ordered
<1>3. members' \subseteq SetItem /\ items' \in [members' -> 0 .. Cardinality(SetItem) - 1]
  BY <1>1, <1>2, OrderedBounded
<1>4. order' \in Seq(SetItem)
  BY <1>1 DEF Ordered
<1>5. SetTypeOK'
  BY <1>1, <1>3, <1>4 DEF SetTypeOK
<1> QED BY <1>1, <1>2, <1>3, <1>5 DEF SetInv

\* A set made of a walk of S has the items of S in the order of the walk.
LEMMA WalkKeeps ==
  ASSUME NEW S, S \subseteq SetItem, IsFiniteSet(S), NEW q \in Walks(S), Becomes(q, S)
  PROVE  SetInv'
<1>1. q \in Seq(SetItem) /\ NoRepeat(q) /\ Items(q) = S
  BY WalksOnto
<1>2. order' = Distinct(q)
  BY <1>1, DistinctIsSame DEF Becomes
<1> QED BY <1>1, <1>2, BecomesKeeps DEF Becomes

\* What is in one walk after another is what is in either.
LEMMA ItemsJoined ==
  ASSUME NEW p \in Seq(SetItem), NEW q \in Seq(SetItem)
  PROVE  p \o q \in Seq(SetItem) /\ Items(p \o q) = Items(p) \cup Items(q)
<1> DEFINE r == p \o q
<1>1. /\ r \in Seq(SetItem) /\ Len(r) = Len(p) + Len(q) /\ Len(p) \in Nat /\ Len(q) \in Nat
      /\ \A i \in 1 .. Len(p) : r[i] = p[i]
      /\ \A i \in Len(p) + 1 .. Len(p) + Len(q) : r[i] = q[i - Len(p)]
  OBVIOUS
<1> HIDE DEF r
<1>2. ASSUME NEW y \in Items(r) PROVE y \in Items(p) \cup Items(q)
  <2>1. PICK i \in 1 .. Len(r) : y = r[i]
    BY DEF Items
  <2>2. CASE i \in 1 .. Len(p)
    BY <1>1, <2>1, <2>2 DEF Items
  <2>3. CASE i \notin 1 .. Len(p)
    <3>1. i \in Len(p) + 1 .. Len(p) + Len(q) /\ i - Len(p) \in 1 .. Len(q)
      BY <1>1, <2>1, <2>3
    <3> QED BY <1>1, <2>1, <3>1 DEF Items
  <2> QED BY <2>2, <2>3
<1>3. ASSUME NEW y \in Items(p) PROVE y \in Items(r)
  <2>1. PICK i \in 1 .. Len(p) : y = p[i]
    BY DEF Items
  <2>2. i \in 1 .. Len(r) /\ y = r[i]
    BY <1>1, <2>1
  <2> QED BY <2>2 DEF Items
<1>4. ASSUME NEW y \in Items(q) PROVE y \in Items(r)
  <2>1. PICK i \in 1 .. Len(q) : y = q[i]
    BY DEF Items
  <2>2. Len(p) + i \in 1 .. Len(r) /\ Len(p) + i \in Len(p) + 1 .. Len(p) + Len(q) /\ (Len(p) + i) - Len(p) = i
    BY <1>1, <2>1
  <2>3. y = r[Len(p) + i]
    BY <1>1, <2>1, <2>2
  <2> QED BY <2>2, <2>3 DEF Items
<1> QED BY <1>1, <1>2, <1>3, <1>4 DEF r

LEMMA SetInitInv ==
  ASSUME SetInit
  PROVE  SetInv
<1>1. Items(<< >>) = {}
  BY DEF Items
<1>2. Ordered(<< >>, << >>)
  BY <1>1 DEF Ordered, NoRepeat
<1>3. items = << >> /\ members = {} /\ order = << >> /\ deleted = FALSE
  BY DEF SetInit
<1>4. items \in [members -> 0 .. Cardinality(SetItem) - 1] /\ DOMAIN items = {}
  BY <1>1, <1>2, <1>3, OrderedBounded
<1>5. SetTypeOK
  <2>1. order \in Seq(SetItem)
    BY <1>3
  <2>2. DOMAIN items \subseteq SetItem /\ \A x \in DOMAIN items : items[x] \in 0 .. Cardinality(SetItem) - 1
    BY <1>4
  <2>3. members \subseteq SetItem /\ deleted \in BOOLEAN
    BY <1>3
  <2> QED BY <2>1, <2>2, <2>3 DEF SetTypeOK
<1> QED BY <1>1, <1>2, <1>3, <1>4, <1>5 DEF SetInv

LEMMA InsertItemKeeps ==
  ASSUME SetInv, NEW x \in SetItem, InsertItem(x)
  PROVE  SetInv'
<1>1. /\ members \subseteq SetItem /\ items \in [members -> 0 .. Cardinality(SetItem) - 1]
      /\ order \in Seq(SetItem) /\ deleted \in BOOLEAN
  BY DEF SetInv, SetTypeOK
<1>2. /\ items' = Insert(items, x) /\ members' = members \cup {x} /\ deleted' = deleted
      /\ order' = IF x \in members THEN order ELSE Append(order, x)
  BY DEF InsertItem
<1>3. items' \in [members' -> 0 .. Cardinality(SetItem) - 1]
  BY <1>1, <1>2, InsertBounded
<1>4. SetTypeOK'
  <2>1. order' \in Seq(SetItem)
    BY <1>1, <1>2
  <2> QED BY <1>1, <1>2, <1>3, <2>1 DEF SetTypeOK
<1>5. ASSUME ~deleted
      PROVE  Ordered(items', order') /\ Items(order') = members'
  <2>1. Ordered(items, order) /\ Items(order) = members
    BY <1>5 DEF SetInv
  <2>2. CASE x \in members
    BY <1>1, <1>2, <2>1, <2>2 DEF Insert
  <2>3. CASE x \notin members
    BY <1>2, <2>1, <2>3, InsertOrdered
  <2> QED BY <2>2, <2>3
<1> QED BY <1>1, <1>2, <1>3, <1>4, <1>5 DEF SetInv

LEMMA DeleteKeeps ==
  ASSUME SetInv, NEW x, Delete(x)
  PROVE  SetInv'
<1>1. /\ members \subseteq SetItem /\ items \in [members -> 0 .. Cardinality(SetItem) - 1]
      /\ order \in Seq(SetItem) /\ deleted \in BOOLEAN /\ DOMAIN items = members
      /\ deleted => members # {}
  BY DEF SetInv, SetTypeOK
<1>2. /\ items' = [y \in members \ {x} |-> items[y]] /\ members' = members \ {x}
      /\ order' = IF x \in members THEN << >> ELSE order
      /\ deleted' = (members' # {} /\ (deleted \/ x \in members))
  BY <1>1 DEF Delete
<1>3. items' \in [members' -> 0 .. Cardinality(SetItem) - 1]
  BY <1>1, <1>2
<1>4. SetTypeOK'
  BY <1>1, <1>2, <1>3 DEF SetTypeOK
<1>5. ASSUME ~deleted'
      PROVE  Ordered(items', order') /\ Items(order') = members'
  <2>1. CASE x \in members
    <3>1. members' = {} /\ order' = << >>
      BY <1>2, <1>5, <2>1
    <3>2. Items(<< >>) = {} /\ NoRepeat(<< >>)
      BY DEF Items, NoRepeat
    <3>3. items' \in [{} -> Nat]
      BY <1>3, <3>1
    <3> QED BY <3>1, <3>2, <3>3 DEF Ordered
  <2>2. CASE x \notin members
    <3>1. members' = members /\ order' = order /\ items' = items
      BY <1>1, <1>2, <2>2
    <3>2. ~deleted
      BY <1>1, <1>2, <1>5, <2>2
    <3> QED BY <3>1, <3>2 DEF SetInv
  <2> QED BY <2>1, <2>2
<1> QED BY <1>1, <1>2, <1>3, <1>4, <1>5 DEF SetInv

LEMMA SetStepInv ==
  ASSUME SetInv, [SetNext]_setVars
  PROVE  SetInv'
<1>1. members \subseteq SetItem /\ DOMAIN items = members
  BY DEF SetInv, SetTypeOK
<1>2. \A S \in SUBSET SetItem : IsFiniteSet(S)
  BY OrderedSetAssumption, FS_Subset
<1>3. CASE UNCHANGED setVars
  BY <1>3 DEF setVars, SetInv, SetTypeOK
<1>4. ASSUME NEW x \in SetItem, InsertItem(x) \/ Delete(x) PROVE SetInv'
  BY <1>4, InsertItemKeeps, DeleteKeeps
<1>5. CASE PopAny
  BY <1>5, DeleteKeeps DEF PopAny
<1>6. CASE Clone
  <2>1. PICK q \in Lists(items) : Becomes(q, members)
    BY <1>6 DEF Clone
  <2>2. q \in Walks(members)
    BY <1>1 DEF Lists
  <2> QED BY <1>1, <1>2, <2>1, <2>2, WalkKeeps
<1>7. ASSUME NEW T \in SUBSET SetItem, Union(T) PROVE SetInv'
  <2>1. PICK p \in Walks(members), q \in Walks(T) :
          /\ items' = NewSet(p \o q)
          /\ members' = members \cup T
          /\ order' = Distinct(p \o q)
          /\ deleted' = FALSE
    BY <1>1, <1>7 DEF Union
  <2>2. p \in Seq(SetItem) /\ Items(p) = members
    BY <1>1, <1>2, WalksOnto
  <2>3. q \in Seq(SetItem) /\ Items(q) = T
    BY <1>2, WalksOnto
  <2>4. p \o q \in Seq(SetItem) /\ Items(p \o q) = members \cup T
    BY <2>2, <2>3, ItemsJoined
  <2> QED BY <2>1, <2>4, BecomesKeeps
<1>8. ASSUME NEW T \in SUBSET SetItem, Difference(T) PROVE SetInv'
  <2>1. {x \in DOMAIN items : x \notin T} = members \ T
    BY <1>1
  <2>2. PICK q \in Walks(members \ T) : Becomes(q, members \ T)
    BY <1>8, <2>1 DEF Difference
  <2>3. members \ T \in SUBSET SetItem
    BY <1>1
  <2> HIDE DEF Becomes
  <2> QED BY <1>2, <2>2, <2>3, WalkKeeps
<1>9. ASSUME NEW T \in SUBSET SetItem, Intersection(T) PROVE SetInv'
  <2>1. {x \in DOMAIN items : x \in T} = members \cap T /\ {x \in T : x \in DOMAIN items} = members \cap T
    BY <1>1
  <2>2. PICK q \in Walks(members \cap T) : Becomes(q, members \cap T)
    <3>1. CASE Cardinality(DOMAIN items) < Cardinality(T)
      BY <1>9, <2>1, <3>1 DEF Intersection
    <3>2. CASE ~ (Cardinality(DOMAIN items) < Cardinality(T))
      BY <1>9, <2>1, <3>2 DEF Intersection
    <3> QED BY <3>1, <3>2
  <2>3. members \cap T \in SUBSET SetItem
    BY <1>1
  <2> QED BY <1>2, <2>2, <2>3, WalkKeeps
<1> QED BY <1>3, <1>4, <1>5, <1>6, <1>7, <1>8, <1>9 DEF SetNext

\* Every operation keeps it.
LEMMA SetInvariant == SetSpec => []SetInv
<1>1. SetInit => SetInv
  BY SetInitInv
<1>2. SetInv /\ [SetNext]_setVars => SetInv'
  BY SetStepInv
<1> QED BY <1>1, <1>2, PTL DEF SetSpec

\* The variables of a set keep their types: an index stays below the number of
\* items there can be.
THEOREM SetTypeCorrect == SetSpec => []SetTypeOK
<1>1. SetInv => SetTypeOK
  BY DEF SetInv
<1> QED BY <1>1, SetInvariant, PTL

\* Whatever is done with it a set (sets.go) is the mathematical set, Equal is
\* equality, and until an item is deleted List gives the items in the order
\* they came in and no other.
THEOREM SetsHoldHolds == SetSpec => []SetsHold
<1>1. SetInv => SetsHold
  <2>1. SUFFICES ASSUME SetInv PROVE SetsHold
    OBVIOUS
  <2>2. DOMAIN items = members /\ DOMAIN items \subseteq SetItem
    BY <2>1 DEF SetInv, SetTypeOK
  <2>3. ~deleted => Lists(items) = {order}
    BY <2>1, OneList DEF SetInv
  <2>4. \A T \in SUBSET SetItem : EqualSets(items, T) <=> members = T
    BY <2>2, EqualIsEqual
  <2> QED BY <2>2, <2>3, <2>4 DEF SetsHold
<1> QED BY <1>1, SetInvariant, PTL

----------------------------------------------------------------------------
(* The capacities.                                                         *)

\* Any term with a number before the point, and what it says.
AnyTerm == [v : Nat, f : 0 .. Scale - 1, unit : magicUnit]

TermSays(t) == t.v * unitMap[t.unit] + (t.f * unitMap[t.unit]) \div Scale

\* Each unit is Base of the one before.
LEMMA Units ==
  /\ unitMap[0] = 1
  /\ \A i \in 1 .. 4 : unitMap[i] = unitMap[i - 1] * Base
<1> DEFINE Table(s) == s = [i \in magicUnit |-> IF i = 0 THEN 1 ELSE s[i - 1] * Base]
           one   == Base
           two   == one * Base
           three == two * Base
           four  == three * Base
           table == [i \in magicUnit |-> IF i = 0 THEN 1
                                         ELSE IF i = 1 THEN one
                                         ELSE IF i = 2 THEN two
                                         ELSE IF i = 3 THEN three ELSE four]
<1>1. 1 * Base = one
  BY CapacityAssumption
<1>2. ASSUME NEW i \in magicUnit
      PROVE  table[i] = IF i = 0 THEN 1 ELSE table[i - 1] * Base
  <2> HIDE DEF one, two, three, four
  <2>1. two = one * Base /\ three = two * Base /\ four = three * Base
    BY DEF two, three, four
  <2>2. i \in {0, 1, 2, 3, 4}
    BY DEF magicUnit
  <2>3. table[0] = 1 /\ table[1] = one /\ table[2] = two /\ table[3] = three /\ table[4] = four
    BY DEF magicUnit
  <2> HIDE DEF table
  <2>4. CASE i = 0
    BY <2>3, <2>4
  <2>5. CASE i = 1
    BY <1>1, <2>3, <2>5
  <2>6. CASE i = 2
    BY <2>1, <2>3, <2>6
  <2>7. CASE i = 3
    BY <2>1, <2>3, <2>7
  <2>8. CASE i = 4
    BY <2>1, <2>3, <2>8
  <2> QED BY <2>2, <2>4, <2>5, <2>6, <2>7, <2>8
<1>3. Table(table)
  <2>1. table = [i \in magicUnit |-> table[i]]
    OBVIOUS
  <2> HIDE DEF table
  <2> QED BY <1>2, <2>1
<1>4. Table(unitMap)
  <2> HIDE DEF table
  <2> QED BY <1>3 DEF unitMap
<1> HIDE DEF table
<1>5. \A i \in magicUnit : unitMap[i] = IF i = 0 THEN 1 ELSE unitMap[i - 1] * Base
  BY <1>4
<1>6. unitMap[0] = 1
  BY <1>5 DEF magicUnit
<1>7. ASSUME NEW i \in 1 .. 4
      PROVE  unitMap[i] = unitMap[i - 1] * Base
  <2>1. i \in magicUnit /\ i # 0
    BY DEF magicUnit
  <2> QED BY <1>5, <2>1
<1> QED BY <1>6, <1>7

\* Every unit is a positive number, no larger than the last.
LEMMA UnitsGrow ==
  \A i \in magicUnit :
     unitMap[i] \in Nat /\ 1 <= unitMap[i] /\ unitMap[i] <= unitMap[4] /\ unitMap[i] <= MaxInt
<1>0. Base \in Nat /\ 1 <= Base /\ MaxInt \in Nat /\ unitMap[4] * Base <= MaxInt
  BY CapacityAssumption
<1>1. ASSUME NEW x \in Nat, 1 <= x
      PROVE  x * Base \in Nat /\ x <= x * Base
  <2> DEFINE b == Base - 1
  <2>1. b \in Nat /\ Base = b + 1
    BY <1>0
  <2> HIDE DEF b
  <2>2. x * (b + 1) = x * b + x /\ x * b \in Nat
    BY <2>1
  <2> QED BY <2>1, <2>2
<1>2. unitMap[0] = 1
  BY Units
<1>3. unitMap[1] = unitMap[0] * Base /\ unitMap[2] = unitMap[1] * Base
      /\ unitMap[3] = unitMap[2] * Base /\ unitMap[4] = unitMap[3] * Base
  <2>1. \A i \in 1 .. 4 : unitMap[i] = unitMap[i - 1] * Base
    BY Units
  <2> QED BY <2>1
<1>4. unitMap[1] \in Nat /\ unitMap[0] <= unitMap[1]
  BY <1>1, <1>2, <1>3
<1>5. unitMap[2] \in Nat /\ unitMap[1] <= unitMap[2]
  BY <1>1, <1>2, <1>3, <1>4
<1>6. unitMap[3] \in Nat /\ unitMap[2] <= unitMap[3]
  BY <1>1, <1>2, <1>3, <1>4, <1>5
<1>7. unitMap[4] \in Nat /\ unitMap[3] <= unitMap[4]
  BY <1>1, <1>2, <1>3, <1>4, <1>5, <1>6
<1>8. magicUnit = {0, 1, 2, 3, 4}
  BY DEF magicUnit
<1>9. unitMap[4] <= MaxInt
  <2>1. 1 <= unitMap[4]
    BY <1>2, <1>4, <1>5, <1>6, <1>7
  <2>2. unitMap[4] * Base \in Nat /\ unitMap[4] <= unitMap[4] * Base
    BY <1>1, <1>7, <2>1
  <2> QED BY <1>0, <1>7, <2>2
<1> QED BY <1>0, <1>2, <1>4, <1>5, <1>6, <1>7, <1>8, <1>9

\* A product is above a number where a factor is above the quotient.
LEMMA DivTimes ==
  ASSUME NEW v \in Nat, NEW u \in Nat, 1 <= u, NEW m \in Nat
  PROVE  v > m \div u <=> v * u > m
<1> DEFINE d == m \div u
           rest == m % u
<1>1. d \in Nat /\ rest \in Nat /\ rest < u /\ m = d * u + rest
  OBVIOUS
<1> HIDE DEF d, rest
<1>2. ASSUME v > d PROVE v * u > m
  <2> DEFINE c == v - d - 1
  <2>1. c \in Nat /\ v = c + d + 1
    BY <1>1, <1>2
  <2> HIDE DEF c
  <2>2. (c + d + 1) * u = c * u + d * u + u /\ c * u \in Nat /\ d * u \in Nat
    BY <1>1, <2>1
  <2> QED BY <1>1, <2>1, <2>2
<1>3. ASSUME ~ (v > d) PROVE ~ (v * u > m)
  <2> DEFINE c == d - v
  <2>1. c \in Nat /\ d = c + v
    BY <1>1, <1>3
  <2> HIDE DEF c
  <2>2. (c + v) * u = c * u + v * u /\ c * u \in Nat /\ v * u \in Nat
    BY <1>1, <2>1
  <2> QED BY <1>1, <2>1, <2>2
<1> QED BY <1>2, <1>3 DEF d

\* A text that is read has the numbers and units it had, and parts of units.
ReadTerms == {t \in [v : Nat, part : Nat, unit : magicUnit] : t.part <= unitMap[t.unit]}

ReadSays(t) == t.v * unitMap[t.unit] + t.part

\* A term is refused exactly where it comes to more than the limit: neither the
\* test before the product nor the sign after the sum is mistaken.
LEMMA TermIsSays ==
  ASSUME NEW t \in ReadTerms
  PROVE  /\ ReadSays(t) \in Nat
         /\ TermValue(t) = IF ReadSays(t) > MaxInt THEN NoAmount ELSE ReadSays(t)
<1> DEFINE u == unitMap[t.unit]
           v == t.v
           p == v * u
           r == t.part
<1>0. MaxInt \in Nat
  BY CapacityAssumption
<1>1. u \in Nat /\ 1 <= u /\ u <= MaxInt /\ v \in Nat /\ r \in Nat /\ r <= u
  BY UnitsGrow DEF ReadTerms
<1>2. ReadSays(t) = p + r
  BY DEF ReadSays
<1>3. TermValue(t) = IF leadingInt(v) = NoAmount \/ leadingInt(v) > MaxInt \div u THEN NoAmount
                     ELSE IF Wrap(leadingInt(v) * u + r) < 0 THEN NoAmount
                     ELSE Wrap(leadingInt(v) * u + r)
  BY DEF TermValue
<1> HIDE DEF u, v, r
<1>5. p \in Nat /\ v <= p
  <2> DEFINE a == u - 1
  <2>1. a \in Nat /\ u = a + 1
    BY <1>1
  <2> HIDE DEF a
  <2>2. v * (a + 1) = v * a + v /\ v * a \in Nat
    BY <1>1, <2>1
  <2> QED BY <1>1, <2>1, <2>2
<1>6. v > MaxInt \div u <=> p > MaxInt
  BY <1>0, <1>1, DivTimes
<1> HIDE DEF p
<1>7. CASE v > MaxInt
  BY <1>0, <1>1, <1>2, <1>3, <1>5, <1>7 DEF leadingInt
<1>8. CASE ~ (v > MaxInt)
  <2>1. leadingInt(v) = v /\ v # NoAmount
    BY <1>1, <1>8 DEF leadingInt, NoAmount
  <2>2. TermValue(t) = IF p > MaxInt THEN NoAmount
                       ELSE IF Wrap(p + r) < 0 THEN NoAmount ELSE Wrap(p + r)
    BY <1>3, <1>6, <2>1 DEF p
  <2> QED BY <1>0, <1>1, <1>2, <1>5, <2>2 DEF Wrap
<1> QED BY <1>1, <1>2, <1>5, <1>7, <1>8

\* Less than a divisor more makes the quotient at most one larger.
LEMMA DivNear ==
  ASSUME NEW z \in Int, NEW w \in Nat, NEW m \in Nat, w < m
  PROVE  /\ z \div m \in Int /\ (z + w) \div m \in Int
         /\ (z + w) \div m <= z \div m + 1
<1> DEFINE more == z + w
           a == z \div m
           b == more \div m
           r == z % m
           q == more % m
<1>1. a \in Int /\ r \in 0 .. m - 1 /\ z = m * a + r
  OBVIOUS
<1>2. more \in Int
  OBVIOUS
<1> HIDE DEF more
<1>3. b \in Int /\ q \in 0 .. m - 1 /\ more = m * b + q
  BY <1>2
<1> HIDE DEF a, b, r, q
<1>4. ASSUME ~ (b <= a + 1) PROVE FALSE
  <2> DEFINE c == b - a - 2
  <2>1. c \in Nat /\ b = c + a + 2
    BY <1>1, <1>3, <1>4
  <2> HIDE DEF c
  <2>2. m * (c + a + 2) = m * c + m * a + 2 * m /\ m * c \in Nat /\ m * a \in Int
    BY <1>1, <2>1
  <2>3. more = m * c + m * a + 2 * m + q /\ more < m * a + r + m
    <3>1. more = m * c + m * a + 2 * m + q
      BY <1>3, <2>1, <2>2
    <3>2. more = m * a + r + w
      BY <1>1 DEF more
    <3> QED BY <1>1, <2>2, <3>1, <3>2
  <2> QED BY <1>1, <1>3, <2>2, <2>3
<1> QED BY <1>1, <1>3, <1>4 DEF a, b, more

\* A fraction comes to what it is of the unit, to a byte.
LEMMA FractionIsNear ==
  ASSUME NEW f \in 0 .. Scale - 1, NEW i \in magicUnit, NEW n \in leadingFraction(f, unitMap[i])
  PROVE  /\ (f * unitMap[i]) \div Scale \in Nat
         /\ n \in 0 .. unitMap[i]
         /\ n - (f * unitMap[i]) \div Scale \in -1 .. 1
         /\ f = 0 => n = 0 /\ (f * unitMap[i]) \div Scale = 0
<1> DEFINE u == unitMap[i]
           w == Slack * u
           z == f * u
<1>1. u \in Nat /\ u <= unitMap[4] /\ unitMap[4] \in Nat
  BY UnitsGrow DEF magicUnit
<1>2. Scale \in Nat /\ 1 <= Scale /\ Slack \in Nat /\ Slack * unitMap[4] < Scale /\ f \in Nat
  BY CapacityAssumption
<1>3. n \in IF f = 0 THEN {0}
            ELSE {m \in 0 .. u :
                    m \in ((f - Slack) * u) \div Scale .. ((f + Slack) * u) \div Scale}
  BY DEF leadingFraction
<1> HIDE DEF u
<1>4. w \in Nat /\ w < Scale
  <2> DEFINE a == unitMap[4] - u
             largest == unitMap[4]
  <2>1. a \in Nat /\ largest = u + a /\ largest \in Nat /\ Slack * largest < Scale
    BY <1>1, <1>2
  <2> HIDE DEF a, largest
  <2>2. Slack * (u + a) = Slack * u + Slack * a /\ Slack * u \in Nat /\ Slack * a \in Nat
    BY <1>1, <1>2, <2>1
  <2> QED BY <1>2, <2>1, <2>2
<1>5. z \in Nat /\ (f + Slack) * u = z + w /\ (f - Slack) * u = z - w
  BY <1>1, <1>2
<1> HIDE DEF w, z
<1>6. z \div Scale \in Nat
  BY <1>2, <1>5
<1>7. CASE f = 0
  <2>1. z = 0
    BY <1>1, <1>7 DEF z
  <2>2. z \div Scale = 0
    BY <1>2, <2>1
  <2> QED BY <1>1, <1>3, <1>7, <2>2 DEF u, z
<1>8. CASE f # 0
  <2>1. n \in 0 .. u /\ n \in (z - w) \div Scale .. (z + w) \div Scale
    BY <1>3, <1>5, <1>8
  <2>2. (z + w) \div Scale \in Int /\ (z + w) \div Scale <= z \div Scale + 1
    <3>1. z \in Int /\ w \in Nat /\ Scale \in Nat /\ w < Scale
      BY <1>2, <1>4, <1>5
    <3> QED BY <3>1, DivNear, Zenon
  <2>3. (z - w) \div Scale \in Int /\ z \div Scale <= (z - w) \div Scale + 1
    <3>1. z - w \in Int /\ (z - w) + w = z
      BY <1>4, <1>5
    <3>2. (z - w) \div Scale \in Int /\ ((z - w) + w) \div Scale <= (z - w) \div Scale + 1
      BY <1>2, <1>4, <3>1, DivNear
    <3> QED BY <3>1, <3>2
  <2>4. n - z \div Scale \in -1 .. 1
    BY <1>1, <1>6, <2>1, <2>2, <2>3
  <2> QED BY <1>6, <1>8, <2>1, <2>4 DEF u, z
<1> QED BY <1>7, <1>8

\* A term that is read comes to what it says, to a byte if it has a fraction.
LEMMA ReadIsNear ==
  ASSUME NEW t \in AnyTerm, NEW x \in ReadTerm(t)
  PROVE  /\ x \in ReadTerms /\ TermSays(t) \in Nat
         /\ ReadSays(x) - TermSays(t) \in -1 .. 1
         /\ t.f = 0 => ReadSays(x) = TermSays(t)
<1>1. PICK n \in leadingFraction(t.f, unitMap[t.unit]) :
        x = [v |-> t.v, part |-> n, unit |-> t.unit]
  BY DEF ReadTerm
<1>2. t.v \in Nat /\ t.f \in 0 .. Scale - 1 /\ t.unit \in magicUnit
  BY DEF AnyTerm
<1> DEFINE u == unitMap[t.unit]
           c == (t.f * u) \div Scale
           p == t.v * u
<1>3. c \in Nat /\ n \in 0 .. u /\ n - c \in -1 .. 1 /\ (t.f = 0 => n = 0 /\ c = 0)
  BY <1>1, <1>2, FractionIsNear
<1>4. u \in Nat
  BY <1>2, UnitsGrow
<1>5. TermSays(t) = p + c /\ ReadSays(x) = p + n
  BY <1>1 DEF TermSays, ReadSays
<1>6. x \in ReadTerms
  BY <1>1, <1>2, <1>3, <1>4 DEF ReadTerms
<1> HIDE DEF u, c
<1>7. p \in Nat
  BY <1>2, <1>4
<1> HIDE DEF p
<1> QED BY <1>3, <1>4, <1>5, <1>6, <1>7

\* The loop over the terms and the sum of what they say, seen as tables of what
\* there is after each term.
ParsedFirst(d, q) == d[0] = 0 /\ \A i \in 1 .. Len(q) : d[i] = AddTerm(d[i - 1], q[i])

SummedFirst(s, q) == s[0] = 0 /\ \A i \in 1 .. Len(q) : s[i] = s[i - 1] + TermSays(q[i])

\* There are such tables: there is no least length without one.
LEMMA ParsedTable ==
  ASSUME NEW q, Len(q) \in Nat
  PROVE  \E d : ParsedFirst(d, q) /\ Parsed(q) = d[Len(q)]
<1> DEFINE Table(d, n) == d = [i \in 0 .. n |-> IF i = 0 THEN 0 ELSE AddTerm(d[i - 1], q[i])]
           Bad == {n \in Nat : ~ \E d : Table(d, n)}
<1>1. Bad = {}
  <2>1. SUFFICES ASSUME Bad # {} PROVE FALSE
    OBVIOUS
  <2>2. PICK n \in Bad : \A k \in Bad : n <= k
    <3>1. Bad \subseteq Nat
      OBVIOUS
    <3> HIDE DEF Bad
    <3> QED BY <2>1, <3>1, Least
  <2>3. CASE n = 0
    <3>1. Table([i \in 0 .. 0 |-> 0], 0)
      OBVIOUS
    <3> QED BY <2>3, <3>1
  <2>4. CASE n # 0
    <3>0. n \in Nat /\ n - 1 \in Nat
      BY <2>4
    <3>1. n \in Nat /\ n - 1 \in Nat /\ n - 1 \notin Bad
      <4> HIDE DEF Bad
      <4> QED BY <2>2, <2>4, <3>0
    <3>2. PICK h : Table(h, n - 1)
      BY <3>1
    <3> DEFINE g == [i \in 0 .. n |-> IF i # n THEN h[i] ELSE AddTerm(h[n - 1], q[n])]
    <3>3. \A i \in 0 .. n - 1 : h[i] = IF i = 0 THEN 0 ELSE AddTerm(h[i - 1], q[i])
      BY <3>2
    <3>4. ASSUME NEW i \in 0 .. n
          PROVE  g[i] = IF i = 0 THEN 0 ELSE AddTerm(g[i - 1], q[i])
      <4>1. i # 0 => i - 1 \in 0 .. n /\ i - 1 # n /\ g[i - 1] = h[i - 1]
        BY <3>1
      <4>2. CASE i = n
        BY <2>4, <4>1, <4>2
      <4>3. CASE i # n
        <5>1. i \in 0 .. n - 1 /\ g[i] = h[i]
          BY <3>1, <4>3
        <5> QED BY <3>3, <4>1, <5>1
      <4> QED BY <4>2, <4>3
    <3>5. Table(g, n)
      BY <3>4
    <3> QED BY <3>1, <3>5
  <2> QED BY <2>3, <2>4
<1> DEFINE table == CHOOSE d : Table(d, Len(q))
<1>2. Table(table, Len(q))
  BY <1>1
<1>3. Parsed(q) = table[Len(q)]
  BY DEF Parsed
<1> HIDE DEF table, Bad
<1>4. \A i \in 0 .. Len(q) : table[i] = IF i = 0 THEN 0 ELSE AddTerm(table[i - 1], q[i])
  BY <1>2
<1>5. ParsedFirst(table, q)
  BY <1>4 DEF ParsedFirst
<1> QED BY <1>3, <1>5

LEMMA SummedTable ==
  ASSUME NEW q, Len(q) \in Nat
  PROVE  \E s : SummedFirst(s, q) /\ Amount(q) = s[Len(q)]
<1> DEFINE Table(s, n) == s = [i \in 0 .. n |-> IF i = 0 THEN 0 ELSE s[i - 1] + TermSays(q[i])]
           Bad == {n \in Nat : ~ \E s : Table(s, n)}
           table == CHOOSE s : Table(s, Len(q))
<1>3. Amount(q) = table[Len(q)]
  BY DEF Amount, TermSays
<1>1. Bad = {}
  <2>1. SUFFICES ASSUME Bad # {} PROVE FALSE
    OBVIOUS
  <2>2. PICK n \in Bad : \A k \in Bad : n <= k
    <3>1. Bad \subseteq Nat
      OBVIOUS
    <3> HIDE DEF Bad
    <3> QED BY <2>1, <3>1, Least
  <2>3. CASE n = 0
    <3>1. Table([i \in 0 .. 0 |-> 0], 0)
      OBVIOUS
    <3> QED BY <2>3, <3>1
  <2>4. CASE n # 0
    <3>0. n \in Nat /\ n - 1 \in Nat
      BY <2>4
    <3>1. n \in Nat /\ n - 1 \in Nat /\ n - 1 \notin Bad
      <4> HIDE DEF Bad
      <4> QED BY <2>2, <2>4, <3>0
    <3>2. PICK h : Table(h, n - 1)
      BY <3>1
    <3> DEFINE g == [i \in 0 .. n |-> IF i # n THEN h[i] ELSE h[n - 1] + TermSays(q[n])]
    <3>3. \A i \in 0 .. n - 1 : h[i] = IF i = 0 THEN 0 ELSE h[i - 1] + TermSays(q[i])
      BY <3>2
    <3>4. ASSUME NEW i \in 0 .. n
          PROVE  g[i] = IF i = 0 THEN 0 ELSE g[i - 1] + TermSays(q[i])
      <4>1. i # 0 => i - 1 \in 0 .. n /\ i - 1 # n /\ g[i - 1] = h[i - 1]
        BY <3>1
      <4>2. CASE i = n
        BY <2>4, <4>1, <4>2
      <4>3. CASE i # n
        <5>1. i \in 0 .. n - 1 /\ g[i] = h[i]
          BY <3>1, <4>3
        <5> QED BY <3>3, <4>1, <5>1
      <4> QED BY <4>2, <4>3
    <3>5. Table(g, n)
      BY <3>4
    <3> QED BY <3>1, <3>5
  <2> QED BY <2>3, <2>4
<1>2. Table(table, Len(q))
  BY <1>1
<1> HIDE DEF table, Bad
<1>4. \A i \in 0 .. Len(q) : table[i] = IF i = 0 THEN 0 ELSE table[i - 1] + TermSays(q[i])
  BY <1>2
<1>5. SummedFirst(table, q)
  BY <1>4 DEF SummedFirst
<1> QED BY <1>3, <1>5

\* A reading of a text has a term for each of its terms.
LEMMA ReadingTerms ==
  ASSUME NEW q \in Seq(AnyTerm), NEW x \in Readings(q)
  PROVE  /\ Len(x) = Len(q) /\ Len(q) \in Nat /\ DOMAIN q = 1 .. Len(q)
         /\ \A i \in 1 .. Len(q) : q[i] \in AnyTerm /\ x[i] \in ReadTerm(q[i])
         /\ x = << >> <=> q = << >>
<1> DEFINE n == Len(q)
           T == UNION {ReadTerm(q[i]) : i \in DOMAIN q}
<1>1. n \in Nat /\ DOMAIN q = 1 .. n /\ \A i \in 1 .. n : q[i] \in AnyTerm
  OBVIOUS
<1>2. x \in [1 .. n -> T] /\ \A i \in 1 .. n : x[i] \in ReadTerm(q[i])
  BY <1>1 DEF Readings
<1> HIDE DEF n, T
<1>3. x \in Seq(T) /\ Len(x) = n
  BY <1>1, <1>2
<1>4. x = << >> <=> q = << >>
  BY <1>1, <1>3 DEF n
<1> QED BY <1>1, <1>2, <1>3, <1>4 DEF n

\* A text that is read comes to what it says, to a byte for each fraction, or to
\* none where that is above the limit.
LEMMA ParsedIsNear ==
  ASSUME NEW q \in Seq(AnyTerm), NEW x \in Readings(q)
  PROVE  /\ Amount(q) \in Nat /\ Fractions(q) \in Nat
         /\ \E a \in Nat : /\ Parsed(x) = IF a > MaxInt THEN NoAmount ELSE a
                           /\ a - Amount(q) \in -Fractions(q) .. Fractions(q)
<1> DEFINE n == Len(q)
           F(i) == {j \in 1 .. i : q[j].f > 0}
           K(i) == Cardinality(F(i))
<1>0. MaxInt \in Nat
  BY CapacityAssumption
<1>1. /\ n \in Nat /\ Len(x) = n /\ DOMAIN q = 1 .. n
      /\ \A i \in 1 .. n : q[i] \in AnyTerm /\ x[i] \in ReadTerm(q[i])
  BY ReadingTerms
<1>2. PICK d : ParsedFirst(d, x) /\ Parsed(x) = d[n]
  BY <1>1, ParsedTable
<1>3. PICK s : SummedFirst(s, q) /\ Amount(q) = s[n]
  BY <1>1, SummedTable
<1>4. Fractions(q) = K(n)
  BY <1>1 DEF Fractions
<1>5. K(0) = 0
  <2>1. F(0) = {}
    OBVIOUS
  <2> QED BY <2>1, FS_EmptySet
<1>6. ASSUME NEW i \in 1 .. n
      PROVE  K(i) = (IF q[i].f = 0 THEN K(i - 1) ELSE K(i - 1) + 1) /\ K(i - 1) \in Nat
  <2>1. IsFiniteSet(F(i - 1))
    <3>1. F(i - 1) \subseteq 1 .. i - 1 /\ 1 \in Int /\ i - 1 \in Int
      BY <1>1
    <3>2. IsFiniteSet(1 .. i - 1)
      BY <3>1, FS_Interval, Zenon
    <3> QED BY <3>1, <3>2, FS_Subset
  <2>2. K(i - 1) \in Nat
    BY <2>1, FS_CardinalityType
  <2>3. q[i].f \in Nat
    BY <1>1, CapacityAssumption DEF AnyTerm
  <2>4. CASE q[i].f = 0
    <3>1. F(i) = F(i - 1)
      BY <1>1, <2>4
    <3> QED BY <2>2, <2>4, <3>1
  <2>5. CASE q[i].f # 0
    <3>1. F(i) = F(i - 1) \cup {i} /\ i \notin F(i - 1)
      BY <1>1, <2>3, <2>5
    <3> QED BY <2>1, <2>2, <2>5, <3>1, FS_AddElement
  <2> QED BY <2>4, <2>5
<1> HIDE DEF K
<1> DEFINE Near(i, a) == /\ d[i] = IF a > MaxInt THEN NoAmount ELSE a
                         /\ a - s[i] \in -K(i) .. K(i)
           Fine(i) == s[i] \in Nat /\ K(i) \in Nat /\ \E a \in Nat : Near(i, a)
<1>7. Fine(0)
  <2>1. d[0] = 0 /\ s[0] = 0
    BY <1>2, <1>3 DEF ParsedFirst, SummedFirst
  <2>2. Near(0, 0)
    BY <1>0, <1>5, <2>1
  <2> QED BY <1>5, <2>1, <2>2
<1>8. ASSUME NEW i \in 1 .. n, Fine(i - 1)
      PROVE  Fine(i)
  <2>1. PICK a \in Nat : Near(i - 1, a)
    BY <1>8
  <2> DEFINE b == s[i - 1]
             c == ReadSays(x[i])
             z == TermSays(q[i])
             y == TermValue(x[i])
  <2>2. d[i] = AddTerm(d[i - 1], x[i]) /\ s[i] = b + z
    BY <1>1, <1>2, <1>3 DEF ParsedFirst, SummedFirst
  <2>3. z \in Nat /\ c \in Nat /\ c - z \in -1 .. 1 /\ (q[i].f = 0 => c = z)
        /\ y = IF c > MaxInt THEN NoAmount ELSE c
    BY <1>1, ReadIsNear, TermIsSays
  <2>4. d[i] = IF d[i - 1] = NoAmount \/ y = NoAmount \/ Wrap(d[i - 1] + y) < 0 THEN NoAmount
               ELSE Wrap(d[i - 1] + y)
    BY <2>2 DEF AddTerm
  <2>5. /\ b \in Nat /\ K(i - 1) \in Nat /\ a - b \in -K(i - 1) .. K(i - 1)
        /\ d[i - 1] = IF a > MaxInt THEN NoAmount ELSE a
    BY <1>8, <2>1
  <2> HIDE DEF b, c, z, y
  <2>6. d[i] = IF a + c > MaxInt THEN NoAmount ELSE a + c
    <3>1. CASE a > MaxInt \/ c > MaxInt
      BY <1>0, <2>3, <2>4, <2>5, <3>1
    <3>2. CASE ~ (a > MaxInt) /\ ~ (c > MaxInt)
      <4>1. d[i - 1] = a /\ y = c /\ a # NoAmount /\ c # NoAmount
        BY <2>3, <2>5, <3>2 DEF NoAmount
      <4>2. d[i] = IF Wrap(a + c) < 0 THEN NoAmount ELSE Wrap(a + c)
        BY <2>4, <4>1
      <4> QED BY <1>0, <2>3, <3>2, <4>2 DEF Wrap
    <3> QED BY <3>1, <3>2
  <2>7. K(i) \in Nat /\ (a + c) - s[i] \in -K(i) .. K(i)
    <3>1. CASE q[i].f = 0
      <4>1. K(i) = K(i - 1)
        BY <1>6, <3>1
      <4> QED BY <2>2, <2>3, <2>5, <3>1, <4>1
    <3>2. CASE q[i].f # 0
      <4>1. K(i) = K(i - 1) + 1
        BY <1>6, <3>2
      <4> QED BY <2>2, <2>3, <2>5, <4>1
    <3> QED BY <3>1, <3>2
  <2>8. s[i] \in Nat /\ a + c \in Nat
    BY <2>2, <2>3, <2>5
  <2>9. Near(i, a + c)
    BY <2>6, <2>7
  <2> QED BY <2>7, <2>8, <2>9
<1> HIDE DEF Fine
<1>9. Fine(n)
  <2> DEFINE Bad == {i \in 0 .. n : ~ Fine(i)}
  <2>1. SUFFICES ASSUME Bad # {} PROVE FALSE
    BY <1>1
  <2>2. PICK b \in Bad : \A i \in Bad : b <= i
    <3>1. Bad \subseteq Nat
      BY <1>1
    <3> HIDE DEF Bad
    <3> QED BY <2>1, <3>1, Least
  <2>3. b \in 1 .. n /\ b - 1 \in 0 .. n /\ b - 1 \notin Bad
    BY <1>1, <1>7, <2>2
  <2> QED BY <1>8, <2>3
<1> QED BY <1>2, <1>3, <1>4, <1>9 DEF Fine

\* No terms are nothing.
LEMMA AmountOfNone == Amount(<< >>) = 0
<1>1. Len(<< >>) \in Nat
  OBVIOUS
<1>2. PICK s : SummedFirst(s, << >>) /\ Amount(<< >>) = s[Len(<< >>)]
  BY <1>1, SummedTable
<1> QED BY <1>2 DEF SummedFirst

\* One term more says so much more.
LEMMA AmountAppend ==
  ASSUME NEW q \in Seq(AnyTerm), NEW t \in AnyTerm
  PROVE  Amount(Append(q, t)) = Amount(q) + TermSays(t)
<1> DEFINE n == Len(q)
           r == Append(q, t)
<1>1. n \in Nat /\ Len(r) = n + 1 /\ r[n + 1] = t /\ \A i \in 1 .. n : r[i] = q[i]
  OBVIOUS
<1>2. PICK s : SummedFirst(s, q) /\ Amount(q) = s[n]
  BY <1>1, SummedTable
<1> HIDE DEF r
<1>3. PICK z : SummedFirst(z, r) /\ Amount(r) = z[n + 1]
  BY <1>1, SummedTable
<1> DEFINE Bad == {i \in 0 .. n : z[i] # s[i]}
<1>4. Bad = {}
  <2>1. SUFFICES ASSUME Bad # {} PROVE FALSE
    OBVIOUS
  <2>2. PICK b \in Bad : \A i \in Bad : b <= i
    <3>1. Bad \subseteq Nat
      BY <1>1
    <3> HIDE DEF Bad
    <3> QED BY <2>1, <3>1, Least
  <2>3. b # 0
    BY <1>2, <1>3 DEF SummedFirst
  <2>4. b \in 1 .. n /\ b - 1 \in 0 .. n /\ b - 1 \notin Bad
    BY <1>1, <2>2, <2>3
  <2>5. z[b] = z[b - 1] + TermSays(r[b]) /\ s[b] = s[b - 1] + TermSays(q[b]) /\ r[b] = q[b]
    BY <1>1, <1>2, <1>3, <2>4 DEF SummedFirst
  <2> QED BY <2>4, <2>5
<1>5. z[n + 1] = z[n] + TermSays(t)
  <2>1. n + 1 \in 1 .. Len(r) /\ (n + 1) - 1 = n
    BY <1>1
  <2> QED BY <1>1, <1>3, <2>1 DEF SummedFirst
<1>6. z[n] = s[n]
  BY <1>1, <1>4
<1> QED BY <1>2, <1>3, <1>5, <1>6 DEF r

\* What is left of u is divided once for each unit.
LEMMA LeftSteps ==
  ASSUME NEW u \in Nat
  PROVE  Left(u)[0] = u /\ \A i \in 1 .. 4 : Left(u)[i] = Left(u)[i - 1] \div Base
<1> DEFINE Table(s) == s = [i \in magicUnit |-> IF i = 0 THEN u ELSE s[i - 1] \div Base]
           one   == u \div Base
           two   == one \div Base
           three == two \div Base
           four  == three \div Base
           table == [i \in magicUnit |-> IF i = 0 THEN u
                                         ELSE IF i = 1 THEN one
                                         ELSE IF i = 2 THEN two
                                         ELSE IF i = 3 THEN three ELSE four]
           left == CHOOSE s : Table(s)
<1>1. Left(u) = left
  BY DEF Left
<1>2. ASSUME NEW i \in magicUnit
      PROVE  table[i] = IF i = 0 THEN u ELSE table[i - 1] \div Base
  <2> HIDE DEF one, two, three, four
  <2>1. one = u \div Base /\ two = one \div Base /\ three = two \div Base /\ four = three \div Base
    BY DEF one, two, three, four
  <2>2. i \in {0, 1, 2, 3, 4}
    BY DEF magicUnit
  <2>3. table[0] = u /\ table[1] = one /\ table[2] = two /\ table[3] = three /\ table[4] = four
    BY DEF magicUnit
  <2> HIDE DEF table
  <2>4. CASE i = 0
    BY <2>3, <2>4
  <2>5. CASE i = 1
    BY <2>1, <2>3, <2>5
  <2>6. CASE i = 2
    BY <2>1, <2>3, <2>6
  <2>7. CASE i = 3
    BY <2>1, <2>3, <2>7
  <2>8. CASE i = 4
    BY <2>1, <2>3, <2>8
  <2> QED BY <2>2, <2>4, <2>5, <2>6, <2>7, <2>8
<1>3. Table(table)
  <2>1. table = [i \in magicUnit |-> table[i]]
    OBVIOUS
  <2> HIDE DEF table
  <2> QED BY <1>2, <2>1
<1>4. Table(left)
  <2> HIDE DEF table
  <2> QED BY <1>3
<1> HIDE DEF table, left
<1>5. \A i \in magicUnit : left[i] = IF i = 0 THEN u ELSE left[i - 1] \div Base
  BY <1>4
<1>6. left[0] = u
  BY <1>5 DEF magicUnit
<1>7. ASSUME NEW i \in 1 .. 4
      PROVE  left[i] = left[i - 1] \div Base
  <2>1. i \in magicUnit /\ i # 0
    BY DEF magicUnit
  <2> QED BY <1>5, <2>1
<1> QED BY <1>1, <1>6, <1>7

\* A digit and the digits above it, in their units.
LEMMA DigitStep ==
  ASSUME NEW l \in Nat, NEW unit \in Nat
  PROVE  /\ l \div Base \in Nat /\ l % Base \in 0 .. Base - 1
         /\ l * unit = (l \div Base) * (unit * Base) + (l % Base) * unit
<1> DEFINE d == l \div Base
           rest == l % Base
<1>1. Base \in Nat /\ 1 <= Base
  BY CapacityAssumption
<1>2. d \in Nat /\ rest \in 0 .. Base - 1 /\ l = d * Base + rest
  BY <1>1
<1> HIDE DEF d, rest
<1>3. (d * Base + rest) * unit = d * (unit * Base) + rest * unit
  BY <1>1, <1>2
<1> QED BY <1>2, <1>3 DEF d, rest

\* Of an amount below Base of the largest unit a digit is left in the end.
LEMMA LeftFits ==
  ASSUME NEW u \in Nat, u < unitMap[4] * Base
  PROVE  /\ \A i \in magicUnit : Left(u)[i] \in Nat
         /\ Left(u)[4] < Base
<1> DEFINE L(i) == Left(u)[i]
           Fits(i) == L(i) \in Nat /\ L(i) * unitMap[i] <= u
<1>0. Base \in Nat /\ 1 <= Base
  BY CapacityAssumption
<1>1. \A i \in magicUnit : unitMap[i] \in Nat /\ 1 <= unitMap[i]
  BY UnitsGrow
<1>2. Fits(0)
  <2>1. L(0) = u /\ unitMap[0] = 1
    BY LeftSteps, Units
  <2> QED BY <2>1
<1>3. ASSUME NEW i \in 1 .. 4, Fits(i - 1)
      PROVE  Fits(i)
  <2>1. L(i) = L(i - 1) \div Base /\ unitMap[i] = unitMap[i - 1] * Base
    BY LeftSteps, Units
  <2>2. i - 1 \in magicUnit /\ i \in magicUnit
    BY DEF magicUnit
  <2> DEFINE l == L(i - 1)
             unit == unitMap[i - 1]
  <2>3. l \in Nat /\ unit \in Nat /\ l * unit <= u
    BY <1>1, <1>3, <2>2
  <2> HIDE DEF l, unit
  <2>4. /\ l \div Base \in Nat /\ l % Base \in 0 .. Base - 1
        /\ l * unit = (l \div Base) * (unit * Base) + (l % Base) * unit
    BY <2>3, DigitStep
  <2>5. (l % Base) * unit \in Nat /\ (l \div Base) * (unit * Base) \in Nat /\ l * unit \in Nat
    BY <1>0, <2>3, <2>4
  <2>6. (l \div Base) * (unit * Base) <= u
    BY <2>3, <2>4, <2>5
  <2> QED BY <2>1, <2>4, <2>6 DEF l, unit
<1> HIDE DEF L
<1>4. Fits(1) /\ Fits(2) /\ Fits(3) /\ Fits(4)
  <2> HIDE DEF Fits
  <2>0. \A i \in 1 .. 4 : Fits(i - 1) => Fits(i)
    BY <1>3
  <2>1. Fits(1)
    BY <1>2, <2>0
  <2>2. Fits(2)
    BY <2>0, <2>1
  <2>3. Fits(3)
    BY <2>0, <2>2
  <2>4. Fits(4)
    BY <2>0, <2>3
  <2> QED BY <2>1, <2>2, <2>3, <2>4
<1>5. L(4) < Base
  <2> DEFINE l == L(4)
             unit == unitMap[4]
  <2>1. l \in Nat /\ unit \in Nat /\ l * unit <= u /\ u < unit * Base
    BY <1>1, <1>4 DEF magicUnit
  <2> HIDE DEF l, unit
  <2>2. ASSUME ~ (l < Base) PROVE FALSE
    <3> DEFINE c == l - Base
    <3>1. c \in Nat /\ l = c + Base
      BY <1>0, <2>1, <2>2
    <3> HIDE DEF c
    <3>2. (c + Base) * unit = c * unit + unit * Base /\ c * unit \in Nat /\ unit * Base \in Nat
      BY <1>0, <2>1, <3>1
    <3> QED BY <2>1, <3>1, <3>2
  <2> QED BY <1>0, <2>1, <2>2 DEF l
<1>6. \A i \in magicUnit : L(i) \in Nat
  BY <1>2, <1>4 DEF magicUnit
<1> QED BY <1>5, <1>6 DEF L

\* String, unit by unit from the largest.
WrittenFrom(w, u) ==
  /\ w[5] = << >>
  /\ \A i \in magicUnit :
       w[i] = IF i \in Digits(u) THEN Append(w[i + 1], [v |-> Digit(u, i), f |-> 0, unit |-> i])
              ELSE w[i + 1]

\* There is such a table.
LEMMA WrittenTable ==
  ASSUME NEW u \in Nat
  PROVE  \E w : WrittenFrom(w, u) /\ String(u) = w[0]
<1> DEFINE Step(i, q) == IF i \in Digits(u) THEN Append(q, [v |-> Digit(u, i), f |-> 0, unit |-> i])
                         ELSE q
           Table(w) == w = [i \in 0 .. 5 |-> IF i = 5 THEN << >> ELSE Step(i, w[i + 1])]
           four  == Step(4, << >>)
           three == Step(3, four)
           two   == Step(2, three)
           one   == Step(1, two)
           zero  == Step(0, one)
           table == [i \in 0 .. 5 |-> IF i = 5 THEN << >>
                                      ELSE IF i = 4 THEN four
                                      ELSE IF i = 3 THEN three
                                      ELSE IF i = 2 THEN two
                                      ELSE IF i = 1 THEN one ELSE zero]
           recorded == CHOOSE w : Table(w)
<1>1. String(u) = recorded[0]
  BY DEF String
<1> HIDE DEF Step
<1>2. ASSUME NEW i \in 0 .. 5
      PROVE  table[i] = IF i = 5 THEN << >> ELSE Step(i, table[i + 1])
  <2> HIDE DEF zero, one, two, three, four
  <2>1. /\ zero = Step(0, one) /\ one = Step(1, two) /\ two = Step(2, three)
        /\ three = Step(3, four) /\ four = Step(4, << >>)
    BY DEF zero, one, two, three, four
  <2>3. /\ table[0] = zero /\ table[1] = one /\ table[2] = two /\ table[3] = three
        /\ table[4] = four /\ table[5] = << >>
    OBVIOUS
  <2> HIDE DEF table
  <2>4. CASE i = 0
    BY <2>1, <2>3, <2>4
  <2>5. CASE i = 1
    BY <2>1, <2>3, <2>5
  <2>6. CASE i = 2
    BY <2>1, <2>3, <2>6
  <2>7. CASE i = 3
    BY <2>1, <2>3, <2>7
  <2>8. CASE i = 4
    BY <2>1, <2>3, <2>8
  <2>9. CASE i = 5
    BY <2>3, <2>9
  <2>10. i \in {0, 1, 2, 3, 4, 5}
    OBVIOUS
  <2> QED BY <2>4, <2>5, <2>6, <2>7, <2>8, <2>9, <2>10
<1>3. Table(table)
  <2>1. table = [i \in 0 .. 5 |-> table[i]]
    OBVIOUS
  <2> HIDE DEF table
  <2> QED BY <1>2, <2>1
<1>4. Table(recorded)
  <2> HIDE DEF table
  <2> QED BY <1>3
<1> HIDE DEF table, recorded
<1>5. \A i \in 0 .. 5 : recorded[i] = IF i = 5 THEN << >> ELSE Step(i, recorded[i + 1])
  BY <1>4
<1>6. recorded[5] = << >>
  BY <1>5
<1>7. ASSUME NEW i \in magicUnit
      PROVE  recorded[i] = Step(i, recorded[i + 1])
  <2>1. i \in 0 .. 5 /\ i # 5
    BY DEF magicUnit
  <2> QED BY <1>5, <2>1
<1>8. WrittenFrom(recorded, u)
  BY <1>6, <1>7 DEF WrittenFrom, Step
<1> QED BY <1>1, <1>8

\* No term has a fraction.
Whole(q) == \A j \in DOMAIN q : q[j].f = 0

\* What is written says what it was, in whole numbers.
LEMMA StringIsAmount ==
  ASSUME NEW u \in Nat, u < unitMap[4] * Base
  PROVE  String(u) \in Seq(AnyTerm) /\ Amount(String(u)) = u /\ Whole(String(u))
<1> DEFINE L(i) == Left(u)[i]
<1>0. Base \in Nat /\ 1 <= Base
  BY CapacityAssumption
<1>1. PICK w : WrittenFrom(w, u) /\ String(u) = w[0]
  BY WrittenTable
<1>2. \A i \in magicUnit : unitMap[i] \in Nat
  BY UnitsGrow
<1>3. (\A i \in magicUnit : L(i) \in Nat) /\ L(4) < Base
  BY LeftFits
<1> DEFINE Above(i) == /\ w[i + 1] \in Seq(AnyTerm) /\ Whole(w[i + 1])
                       /\ Amount(w[i + 1]) = (L(i) \div Base) * (unitMap[i] * Base)
           Fine(i)  == w[i] \in Seq(AnyTerm) /\ Whole(w[i]) /\ Amount(w[i]) = L(i) * unitMap[i]
<1>4. ASSUME NEW i \in magicUnit, Above(i)
      PROVE  Fine(i)
  <2> DEFINE t == [v |-> Digit(u, i), f |-> 0, unit |-> i]
             l == L(i)
             unit == unitMap[i]
             rest == Digit(u, i)
  <2>1. l \in Nat /\ unit \in Nat
    BY <1>2, <1>3
  <2>2. rest = l % Base
    BY DEF Digit
  <2>3. /\ l \div Base \in Nat /\ rest \in 0 .. Base - 1
        /\ l * unit = (l \div Base) * (unit * Base) + rest * unit
    <3> HIDE DEF l, unit
    <3> QED BY <2>1, <2>2, DigitStep
  <2>4. w[i] = IF rest > 0 THEN Append(w[i + 1], t) ELSE w[i + 1]
    BY <1>1 DEF WrittenFrom, Digits
  <2>5. /\ w[i + 1] \in Seq(AnyTerm) /\ Whole(w[i + 1])
        /\ Amount(w[i + 1]) = (l \div Base) * (unit * Base)
    BY <1>4
  <2>6. t \in AnyTerm /\ t.f = 0 /\ TermSays(t) = rest * unit
    <3>1. t \in AnyTerm
      <4>1. rest \in Nat /\ 0 \in 0 .. Scale - 1
        BY <1>0, <2>3, CapacityAssumption
      <4> QED BY <4>1 DEF AnyTerm
    <3>2. TermSays(t) = rest * unit + (0 * unit) \div Scale
      BY DEF TermSays
    <3>3. rest * unit \in Nat
      <4> HIDE DEF rest, unit
      <4> QED BY <1>0, <2>1, <2>3
    <3>4. (0 * unit) \div Scale = 0
      <4> HIDE DEF unit
      <4>1. 0 * unit = 0 /\ Scale \in Nat /\ 1 <= Scale
        BY <2>1, CapacityAssumption
      <4>2. 0 \div Scale = 0
        BY <4>1
      <4> QED BY <4>1, <4>2
    <3>5. t.f = 0
      OBVIOUS
    <3> HIDE DEF rest, unit, t
    <3> QED BY <3>1, <3>2, <3>3, <3>4, <3>5
  <2>7. CASE rest > 0
    <3>1. w[i] = Append(w[i + 1], t)
      BY <2>4, <2>7
    <3> HIDE DEF t, l, unit, rest
    <3>2. Amount(w[i]) = Amount(w[i + 1]) + TermSays(t)
      BY <2>5, <2>6, <3>1, AmountAppend
    <3>3. w[i] \in Seq(AnyTerm)
      BY <2>5, <2>6, <3>1
    <3>4. Whole(w[i])
      <4> SUFFICES ASSUME NEW j \in DOMAIN w[i] PROVE w[i][j].f = 0
        BY DEF Whole
      <4>1. CASE j = Len(w[i + 1]) + 1
        BY <2>5, <2>6, <3>1, <4>1
      <4>2. CASE j # Len(w[i + 1]) + 1
        <5>1. j \in DOMAIN w[i + 1] /\ w[i][j] = w[i + 1][j]
          BY <2>5, <2>6, <3>1, <4>2
        <5> QED BY <2>5, <5>1 DEF Whole
      <4> QED BY <4>1, <4>2
    <3> QED BY <2>3, <2>5, <2>6, <3>2, <3>3, <3>4 DEF l, unit
  <2>8. CASE ~ (rest > 0)
    <3> HIDE DEF t, l, unit, rest
    <3>1. rest = 0
      BY <1>0, <2>3, <2>8
    <3>2. rest * unit = 0 /\ (l \div Base) * (unit * Base) \in Nat
      BY <1>0, <2>1, <2>3, <3>1
    <3>3. l * unit = (l \div Base) * (unit * Base)
      BY <2>3, <3>2
    <3> QED BY <2>4, <2>5, <2>8, <3>3 DEF l, unit
  <2> QED BY <2>7, <2>8
<1>5. Above(4)
  <2>1. w[4 + 1] = << >>
    BY <1>1 DEF WrittenFrom
  <2>2. Amount(<< >>) = 0 /\ Whole(<< >>)
    BY AmountOfNone DEF Whole
  <2>3. L(4) \in Nat /\ L(4) < Base /\ unitMap[4] \in Nat
    BY <1>2, <1>3 DEF magicUnit
  <2> HIDE DEF L
  <2>4. L(4) \div Base = 0
    BY <1>0, <2>3
  <2>5. 0 * (unitMap[4] * Base) = 0
    BY <1>0, <2>3
  <2> QED BY <2>1, <2>2, <2>4, <2>5
<1>6. ASSUME NEW i \in 1 .. 4, Fine(i)
      PROVE  Above(i - 1)
  <2>1. L(i) = L(i - 1) \div Base /\ unitMap[i] = unitMap[i - 1] * Base /\ (i - 1) + 1 = i
    BY LeftSteps, Units
  <2> QED BY <1>6, <2>1
<1> HIDE DEF Above, Fine
<1>7. Fine(0)
  <2>0. /\ \A i \in {0, 1, 2, 3, 4} : Above(i) => Fine(i)
        /\ \A i \in 1 .. 4 : Fine(i) => Above(i - 1)
    BY <1>4, <1>6 DEF magicUnit
  <2>1. Fine(4)
    BY <1>5, <2>0
  <2>2. Fine(3)
    <3>1. Above(4 - 1)
      BY <2>0, <2>1
    <3> QED BY <2>0, <3>1
  <2>3. Fine(2)
    <3>1. Above(3 - 1)
      BY <2>0, <2>2
    <3> QED BY <2>0, <3>1
  <2>4. Fine(1)
    <3>1. Above(2 - 1)
      BY <2>0, <2>3
    <3> QED BY <2>0, <3>1
  <2> QED
    <3>1. Above(1 - 1)
      BY <2>0, <2>4
    <3> QED BY <2>0, <3>1
<1>8. L(0) = u /\ unitMap[0] = 1
  BY LeftSteps, Units
<1> HIDE DEF L
<1> QED BY <1>1, <1>7, <1>8 DEF Fine

\* The texts of the model are among those.
LEMMA TermsAreTexts == \A q \in Terms : q \in Seq(AnyTerm)
<1>1. SUFFICES ASSUME NEW q \in Terms PROVE q \in Seq(AnyTerm)
  OBVIOUS
<1>2. PICK n \in 0 .. 2 : q \in [1 .. n -> Term]
  BY DEF Terms
<1>3. Term \subseteq AnyTerm
  BY CapacityAssumption, Zenon DEF Term, AnyTerm
<1>4. n \in Nat /\ q \in [1 .. n -> AnyTerm]
  BY <1>2, <1>3
<1> QED BY <1>4

\* What is written of an amount that is not too large is read back.
LEMMA ReadBack ==
  ASSUME NEW u \in Nat, 1 <= u, u <= MaxInt, u < unitMap[4] * Base, NEW neg \in BOOLEAN,
         NEW x \in Readings(String(u))
  PROVE  ParseCapacities(neg, x) = IF neg THEN -u ELSE u
<1> DEFINE q == String(u)
<1>1. q \in Seq(AnyTerm) /\ Amount(q) = u /\ Whole(q)
  BY StringIsAmount
<1>2. MaxInt \in Nat /\ u # NoAmount
  BY CapacityAssumption DEF NoAmount
<1>3. Fractions(q) = 0
  <2>1. {i \in DOMAIN q : q[i].f > 0} = {}
    BY <1>1 DEF Whole
  <2> QED BY <2>1, FS_EmptySet DEF Fractions
<1>4. q # << >>
  BY <1>1, AmountOfNone
<1> HIDE DEF q
<1>5. x \in Readings(q)
  BY DEF q
<1>6. PICK a \in Nat : /\ Parsed(x) = IF a > MaxInt THEN NoAmount ELSE a
                       /\ a - Amount(q) \in -Fractions(q) .. Fractions(q)
  BY <1>1, <1>5, ParsedIsNear
<1>7. a = u
  BY <1>1, <1>3, <1>6
<1>8. Parsed(x) = u
  BY <1>2, <1>6, <1>7
<1>9. x # << >>
  BY <1>1, <1>4, <1>5, ReadingTerms
<1> QED BY <1>2, <1>8, <1>9 DEF ParseCapacities, Refused

\* What was set last is near what its text says, or nothing.
CapacityInv ==
  /\ CapacityTypeOK
  /\ reply = "parsed" =>
       (IF negative THEN -capacity ELSE capacity) - Amount(terms)
         \in -Fractions(terms) .. Fractions(terms)
  /\ reply = "refused" => terms = << >> \/ Amount(terms) + Fractions(terms) > MaxInt
  /\ reply = "new" => terms = << >>

\* Setting a text, or a number, keeps it.
LEMMA CapacityStep ==
  ASSUME CapacityInv, [CapacityNext]_capacityVars
  PROVE  CapacityInv'
<1>0. MaxInt \in Nat
  BY CapacityAssumption
<1>1. CASE UNCHANGED capacityVars
  BY <1>1 DEF capacityVars, CapacityInv, CapacityTypeOK
<1>2. ASSUME NEW neg \in BOOLEAN, NEW q \in Terms, SetCapacity(neg, q)
      PROVE  CapacityInv'
  <2>1. PICK x \in Readings(q) :
          /\ capacity' = ParseCapacities(neg, x)
          /\ reply' = IF Refused(x) THEN "refused" ELSE "parsed"
    BY <1>2 DEF SetCapacity
  <2>2. negative' = neg /\ terms' = q
    BY <1>2 DEF SetCapacity
  <2>3. q \in Seq(AnyTerm)
    BY TermsAreTexts
  <2>4. Amount(q) \in Nat /\ Fractions(q) \in Nat /\ (x = << >> <=> q = << >>)
    BY <2>3, ParsedIsNear, ReadingTerms
  <2>5. PICK a \in Nat : /\ Parsed(x) = IF a > MaxInt THEN NoAmount ELSE a
                         /\ a - Amount(q) \in -Fractions(q) .. Fractions(q)
    BY <2>3, ParsedIsNear
  <2>6. CASE Refused(x)
    <3>1. q = << >> \/ a > MaxInt
      BY <2>4, <2>5, <2>6 DEF Refused, NoAmount
    <3>2. q = << >> \/ Amount(q) + Fractions(q) > MaxInt
      BY <1>0, <2>4, <2>5, <3>1
    <3>3. capacity' = 0 /\ reply' = "refused"
      BY <2>1, <2>6 DEF ParseCapacities
    <3>4. CapacityTypeOK'
      BY <1>0, <2>2, <3>3 DEF CapacityTypeOK
    <3> QED BY <2>2, <3>2, <3>3, <3>4 DEF CapacityInv
  <2>7. CASE ~Refused(x)
    <3>1. Parsed(x) = a /\ a <= MaxInt
      BY <1>0, <2>5, <2>7 DEF Refused
    <3>2. capacity' = (IF neg THEN -a ELSE a) /\ reply' = "parsed"
      BY <2>1, <2>7, <3>1 DEF ParseCapacities
    <3>3. CapacityTypeOK'
      BY <1>0, <2>2, <3>1, <3>2 DEF CapacityTypeOK
    <3>4. (IF negative' THEN -capacity' ELSE capacity') = a
      BY <2>2, <3>2
    <3> HIDE DEF CapacityTypeOK
    <3> QED BY <2>2, <2>5, <3>2, <3>3, <3>4 DEF CapacityInv
  <2> QED BY <2>6, <2>7
<1>3. ASSUME NEW neg \in BOOLEAN, SetZero(neg)
      PROVE  CapacityInv'
  <2>1. terms' = << >> /\ terms' = terms /\ negative' = neg /\ capacity' = 0 /\ reply' = "parsed"
    BY <1>3 DEF SetZero, CapacityInv
  <2>2. Amount(<< >>) = 0 /\ Fractions(<< >>) = 0
    <3>1. {i \in DOMAIN << >> : << >>[i].f > 0} = {}
      OBVIOUS
    <3> QED BY <3>1, AmountOfNone, FS_EmptySet DEF Fractions
  <2>3. CapacityTypeOK'
    BY <1>0, <2>1 DEF CapacityTypeOK, CapacityInv
  <2>4. (IF negative' THEN -capacity' ELSE capacity') = 0
    <3>1. \A n \in Int : -n = 0 - n
      OBVIOUS
    <3>2. 0 \in Int /\ 0 - 0 = 0
      OBVIOUS
    <3> QED BY <2>1, <3>1, <3>2, Zenon
  <2>5. (IF negative' THEN -capacity' ELSE capacity') - Amount(terms')
          \in -Fractions(terms') .. Fractions(terms')
    <3>1. 0 - 0 \in -0 .. 0
      OBVIOUS
    <3> QED BY <2>1, <2>2, <2>4, <3>1, Zenon
  <2>6. reply' # "refused" /\ reply' # "new"
    BY <2>1
  <2> QED BY <2>3, <2>5, <2>6, Zenon DEF CapacityInv
<1>4. ASSUME NEW neg \in BOOLEAN, NEW n \in Number, SetNumber(neg, n)
      PROVE  CapacityInv'
  <2> DEFINE x == IF neg THEN -n ELSE n
  <2>1. x \in Int
    BY CapacityAssumption
  <2>2. /\ negative' = neg /\ terms' = terms /\ reply' \in {"number", "outside"}
        /\ capacity' = IF x > MaxInt THEN MaxInt ELSE IF x < -MaxInt - 1 THEN -MaxInt - 1 ELSE x
    BY <1>4 DEF SetNumber
  <2> HIDE DEF x
  <2>3. CapacityTypeOK'
    BY <1>0, <2>1, <2>2 DEF CapacityTypeOK, CapacityInv
  <2> QED BY <2>2, <2>3 DEF CapacityInv
<1> QED BY <1>1, <1>2, <1>3, <1>4 DEF CapacityNext

\* It holds throughout.
LEMMA CapacityInvariant == CapacitySpec => []CapacityInv
<1>1. CapacityInit => CapacityInv
  <2>1. SUFFICES ASSUME CapacityInit PROVE CapacityInv
    OBVIOUS
  <2>2. capacity = 0 /\ negative = FALSE /\ terms = << >> /\ reply = "new"
    BY <2>1 DEF CapacityInit
  <2>3. << >> \in Terms
    <3>1. 0 \in 0 .. 2 /\ << >> \in [1 .. 0 -> Term]
      OBVIOUS
    <3> QED BY <3>1 DEF Terms
  <2>4. 0 \in -MaxInt - 1 .. MaxInt
    BY CapacityAssumption
  <2> QED BY <2>2, <2>3, <2>4 DEF CapacityInv, CapacityTypeOK
<1>2. CapacityInv /\ [CapacityNext]_capacityVars => CapacityInv'
  BY CapacityStep
<1> QED BY <1>1, <1>2, PTL DEF CapacitySpec

\* An amount stays within the integers.
THEOREM CapacityTypeCorrect == CapacitySpec => []CapacityTypeOK
<1>1. CapacityInv => CapacityTypeOK
  BY DEF CapacityInv
<1> QED BY <1>1, CapacityInvariant, PTL

\* ParseCapacities (format.go) gives what the text says, to a byte for each
\* fraction, and refuses only texts that are empty or say more than an integer
\* holds, whatever its limit and the base of the units; and what String
\* (capacity.go) writes is read back exactly.
THEOREM CapacityAsSaidHolds == CapacitySpec => []CapacityAsSaid
<1>1. CapacityInv => CapacityAsSaid
  <2>1. SUFFICES ASSUME CapacityInv PROVE CapacityAsSaid
    OBVIOUS
  <2> DEFINE u == IF capacity < 0 THEN -capacity ELSE capacity
  <2>2. ASSUME u \in 1 .. unitMap[4] * Base - 1, NEW x \in Readings(String(u))
        PROVE  ParseCapacities(capacity < 0, x) = capacity
    <3>1. MaxInt \in Nat /\ capacity \in -MaxInt - 1 .. MaxInt /\ unitMap[4] * Base <= MaxInt
      BY <2>1, CapacityAssumption DEF CapacityInv, CapacityTypeOK
    <3>2. unitMap[4] \in Nat /\ Base \in Nat /\ unitMap[4] * Base \in Nat
      <4>1. unitMap[4] \in Nat /\ Base \in Nat
        BY UnitsGrow, CapacityAssumption DEF magicUnit
      <4> QED BY <4>1
    <3>3. u \in Nat /\ 1 <= u /\ u <= MaxInt /\ u < unitMap[4] * Base
      BY <2>2, <3>1, <3>2
    <3>4. (IF capacity < 0 THEN -u ELSE u) = capacity /\ (capacity < 0) \in BOOLEAN
      BY <3>1
    <3>5. x \in Readings(String(u))
      BY <2>2
    <3> HIDE DEF u
    <3> QED BY <3>3, <3>4, <3>5, ReadBack
  <2> QED BY <2>1, <2>2 DEF CapacityInv, CapacityAsSaid
<1> QED BY <1>1, CapacityInvariant, PTL

----------------------------------------------------------------------------
(* The packages side by side.                                              *)

\* What a step of the library does to each package.
LEMMA StepOfEach ==
  ASSUME [LibraryNext]_libraryVars
  PROVE  /\ [ListingNext]_listingVars /\ [ForeachNext]_foreachVars /\ [StoreNext]_storeVars
         /\ [BuffersNext]_buffersVars /\ [ArrayNext]_arrayVars /\ [SetNext]_setVars
         /\ [SecretNext]_secretVars /\ [LoggersNext]_loggerVars
         /\ [CapacityNext]_capacityVars /\ [JwtNext]_jwtVars /\ [ErrorsNext]_err
<1>1. CASE LibraryNext
  BY <1>1 DEF LibraryNext
<1>2. CASE UNCHANGED libraryVars
  BY <1>2 DEF libraryVars
<1> QED BY <1>1, <1>2

\* A package does in the library what it does alone: what is proved of one
\* holds of a behaviour that is one of any of them.
THEOREM LibraryIsItsPackages ==
  LibrarySpec => /\ ListingSpec /\ ForeachSpec /\ StoreSpec /\ BuffersSpec /\ ArraySpec
                 /\ SetSpec /\ SecretSpec /\ LoggersSpec /\ CapacitySpec /\ JwtSpec
                 /\ ErrorsSpec
<1>1. LibraryInit => /\ ListingInit /\ ForeachInit /\ StoreInit /\ BuffersInit /\ ArrayInit
                     /\ SetInit /\ SecretInit /\ LoggersInit /\ CapacityInit /\ JwtInit
                     /\ ErrorsInit
  BY DEF LibraryInit
<1>2. LibrarySpec => LibraryInit /\ [][LibraryNext]_libraryVars
  BY PTL DEF LibrarySpec
<1>3. LibrarySpec => ListingSpec
  BY <1>1, <1>2, StepOfEach, PTL DEF ListingSpec
<1>4. LibrarySpec => ForeachSpec
  BY <1>1, <1>2, StepOfEach, PTL DEF ForeachSpec
<1>5. LibrarySpec => StoreSpec
  BY <1>1, <1>2, StepOfEach, PTL DEF StoreSpec
<1>6. LibrarySpec => BuffersSpec
  BY <1>1, <1>2, StepOfEach, PTL DEF BuffersSpec
<1>7. LibrarySpec => ArraySpec
  BY <1>1, <1>2, StepOfEach, PTL DEF ArraySpec
<1>8. LibrarySpec => SetSpec
  BY <1>1, <1>2, StepOfEach, PTL DEF SetSpec
<1>9. LibrarySpec => SecretSpec
  BY <1>1, <1>2, StepOfEach, PTL DEF SecretSpec
<1>10. LibrarySpec => LoggersSpec
  BY <1>1, <1>2, StepOfEach, PTL DEF LoggersSpec
<1>11. LibrarySpec => CapacitySpec
  BY <1>1, <1>2, StepOfEach, PTL DEF CapacitySpec
<1>12. LibrarySpec => JwtSpec
  BY <1>1, <1>2, StepOfEach, PTL DEF JwtSpec
<1>13. LibrarySpec => ErrorsSpec
  BY <1>1, <1>2, StepOfEach, PTL DEF ErrorsSpec
<1> QED BY <1>3, <1>4, <1>5, <1>6, <1>7, <1>8, <1>9, <1>10, <1>11, <1>12, <1>13

\* Every reachable state of every package has the declared types.
THEOREM LibraryTypeCorrect == LibrarySpec => []LibraryTypeOK
<1>1. LibrarySpec =>
        /\ []ListingTypeOK /\ []ForeachTypeOK /\ []StoreTypeOK /\ []BuffersTypeOK
        /\ []ArrayTypeOK /\ []SetTypeOK /\ []SecretTypeOK /\ []LoggersTypeOK
        /\ []CapacityTypeOK /\ []JwtTypeOK /\ []ErrorsTypeOK
  BY LibraryIsItsPackages, ListingTypeCorrect, ForeachTypeCorrect, StoreTypeCorrect,
     BuffersTypeCorrect, ArrayTypeCorrect, SetTypeCorrect, SecretTypeCorrect,
     LoggersTypeCorrect, CapacityTypeCorrect, JwtTypeCorrect, ErrorsTypeCorrect
<1>2. /\ ListingTypeOK /\ ForeachTypeOK /\ StoreTypeOK /\ BuffersTypeOK /\ ArrayTypeOK
      /\ SetTypeOK /\ SecretTypeOK /\ LoggersTypeOK /\ CapacityTypeOK /\ JwtTypeOK
      /\ ErrorsTypeOK
      => LibraryTypeOK
  BY DEF LibraryTypeOK
<1> QED BY <1>1, <1>2, PTL

==============================================================================
