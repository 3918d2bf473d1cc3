---------------------------- MODULE RingQueue_proofs ----------------------------
(***************************************************************************)
(* Proofs about RingQueue, for queues of any capacity and items of any     *)
(* kind, with one consumer and the restrictions on Remove that findings 2  *)
(* and 3 call for: WindowExact, and that the queue is a bounded FIFO.      *)
(***************************************************************************)
EXTENDS RingQueue, WellFoundedInduction, FiniteSetTheorems, TLAPS

----------------------------------------------------------------------------
(* A ring as the sequence of its nodes.                                    *)

\* j is the place after i.
Follows(i, j) == j = IF i = N THEN 0 ELSE i + 1

\* p is the ring of nx from r on, and all other nodes are alone.
IsRing(nx, p) ==
  /\ nx \in [Node -> Node]
  /\ p \in [0 .. N -> Node]
  /\ p[0] = r
  /\ \A i, j \in 0 .. N : p[i] = p[j] => i = j
  /\ \A i, j \in 0 .. N : Follows(i, j) => nx[p[i]] = p[j]
  /\ \A a \in Node : (\A i \in 0 .. N : p[i] # a) => nx[a] = a

\* The place that k steps from r lead to, at most twice around.
Wrap(k) == IF k < max THEN k ELSE IF k < max + max THEN k - max ELSE 0

LEMMA Sizes == N \in Nat /\ max = N + 1 /\ max \in Nat /\ Node = 0 .. N + 2 /\ r = 0 /\ r \in Node
BY RingQueueAssumption DEF max, Node, r

LEMMA Capacity == N \in Nat
BY RingQueueAssumption

LEMMA RingStep ==
  ASSUME NEW nx, NEW p, IsRing(nx, p), NEW i \in 0 .. N, NEW j \in 0 .. N, Follows(i, j)
  PROVE  nx[p[i]] = p[j]
BY DEF IsRing

LEMMA WrapFollows ==
  ASSUME NEW k \in 1 .. max + max
  PROVE  Wrap(k - 1) \in 0 .. N /\ Wrap(k) \in 0 .. N /\ Follows(Wrap(k - 1), Wrap(k))
BY Capacity DEF max, Wrap, Follows

\* A set of natural numbers that is not empty has a least one.
LEMMA Least ==
  ASSUME NEW T, T \subseteq Nat, T # {}
  PROVE  \E m \in T : \A k \in T : m <= k
<1> DEFINE R == {ss \in Nat \X Nat : ss[1] < ss[2]}
<1>1. IsWellFoundedOn(R, Nat)
  BY NatLessThanWellFounded, Zenon DEF OpToRel
<1> HIDE DEF R
<1>2. PICK m \in T : \A k \in T : ~ (<< k, m >> \in R)
  BY <1>1, WFMin
<1>3. ASSUME NEW k \in T
      PROVE  m <= k
  <2>1. k \in Nat /\ m \in Nat /\ ~ (<< k, m >> \in R)
    BY <1>2
  <2>2. ~ (k < m)
    BY <2>1 DEF R
  <2> QED BY <2>1, <2>2
<1> QED BY <1>3

\* The steps from r go round the ring.
LEMMA MoveOnRing ==
  ASSUME NEW nx, NEW p, IsRing(nx, p), NEW k \in 0 .. max + max
  PROVE  Move(nx, k) = p[Wrap(k)]
<1> USE Sizes
<1> DEFINE Steps(m) == m = [i \in 0 .. k |-> IF i = 0 THEN r ELSE nx[m[i - 1]]]
           f == [i \in 0 .. k |-> p[Wrap(i)]]
           m == CHOOSE m : Steps(m)
<1>1. Steps(f)
  <2>1. ASSUME NEW i \in 0 .. k
        PROVE  p[Wrap(i)] = IF i = 0 THEN r ELSE nx[p[Wrap(i - 1)]]
    <3>1. CASE i = 0
      BY <3>1 DEF IsRing, Wrap
    <3>2. CASE i # 0
      <4>1. i \in 1 .. max + max
        BY <3>2
      <4> QED BY <3>2, <4>1, RingStep, WrapFollows
    <3> QED BY <3>1, <3>2
  <2> QED BY <2>1
<1>2. Steps(m)
  BY <1>1
<1>3. \A i \in 0 .. k : m[i] = IF i = 0 THEN r ELSE nx[m[i - 1]]
  BY <1>2
<1>4. Move(nx, k) = m[k]
  BY DEF Move
<1> HIDE DEF m, Steps
<1> DEFINE Bad == {i \in 0 .. k : m[i] # p[Wrap(i)]}
<1>5. Bad = {}
  <2>1. SUFFICES ASSUME Bad # {} PROVE FALSE
    OBVIOUS
  <2>2. PICK b \in Bad : \A i \in Bad : b <= i
    <3>1. Bad \subseteq Nat
      OBVIOUS
    <3> HIDE DEF Bad
    <3> QED BY <2>1, <3>1, Least
  <2>3. b # 0
    <3>1. m[0] = r /\ p[Wrap(0)] = r
      BY <1>3 DEF IsRing, Wrap
    <3> QED BY <3>1
  <2>4. b - 1 \in 0 .. k /\ b - 1 \notin Bad
    BY <2>2, <2>3
  <2>5. m[b] = nx[p[Wrap(b - 1)]]
    BY <1>3, <2>3, <2>4
  <2>6. nx[p[Wrap(b - 1)]] = p[Wrap(b)]
    <3>1. b \in 1 .. max + max
      BY <2>3
    <3>2. Wrap(b - 1) \in 0 .. N /\ Wrap(b) \in 0 .. N /\ Follows(Wrap(b - 1), Wrap(b))
      BY <3>1, WrapFollows
    <3> HIDE DEF Bad
    <3> QED BY <3>2, RingStep
  <2> QED BY <2>5, <2>6
<1> QED BY <1>4, <1>5

LEMMA RingNodes ==
  ASSUME NEW nx, NEW p, IsRing(nx, p)
  PROVE  Ring(nx) = {p[i] : i \in 0 .. N}
<1> USE Sizes
<1>1. \A i \in Node : i \in 0 .. max + max /\ Move(nx, i) = p[Wrap(i)] /\ Wrap(i) \in 0 .. N
  BY MoveOnRing DEF Wrap
<1>2. \A i \in 0 .. N : i \in Node /\ Wrap(i) = i
  BY DEF Wrap
<1> QED BY <1>1, <1>2 DEF Ring

----------------------------------------------------------------------------
(* The window.                                                             *)

\* Nodes from s on, up to the one before e.
Count(s, e) == IF s <= e THEN e - s ELSE e + max - s

LEMMA WindowOnRing ==
  ASSUME NEW nx, NEW p, IsRing(nx, p), NEW s \in 0 .. N, NEW e \in 0 .. N
  PROVE  Window(nx, s, e) = [i \in 1 .. Count(s, e) |-> p[Wrap(s + i - 1)]]
<1> USE Sizes
<1> DEFINE T == {k \in Node : Move(nx, s + k) = Move(nx, e)}
           n == Count(s, e)
<1>1. Move(nx, e) = p[e]
  BY MoveOnRing DEF Wrap
<1>2. \A k \in Node : Move(nx, s + k) = p[Wrap(s + k)] /\ Wrap(s + k) \in 0 .. N
  <2>1. \A k \in Node : s + k \in 0 .. max + max
    OBVIOUS
  <2> QED BY <2>1, MoveOnRing DEF Wrap
<1>3. n \in T /\ \A k \in T : n <= k
  <2>1. n \in Node /\ Wrap(s + n) = e
    BY DEF Count, Wrap
  <2>2. \A k \in T : k \in Node /\ Wrap(s + k) = e
    BY <1>1, <1>2 DEF IsRing
  <2>3. \A k \in Node : Wrap(s + k) = e => n <= k
    BY DEF Count, Wrap
  <2> QED BY <1>1, <1>2, <2>1, <2>2, <2>3
<1>4. Min(T) = n
  <2>1. \A x \in T : x \in Int
    OBVIOUS
  <2> HIDE DEF T, n
  <2>2. \E x \in T : \A y \in T : x <= y
    BY <1>3
  <2>3. Min(T) \in T /\ \A y \in T : Min(T) <= y
    BY <2>2 DEF Min
  <2> QED BY <1>3, <2>1, <2>3
<1>5. n \in Nat /\ n <= N
  BY DEF Count
<1>6. \A i \in 1 .. n : Move(nx, s + i - 1) = p[Wrap(s + i - 1)]
  <2>1. \A i \in 1 .. n : s + i - 1 \in 0 .. max + max
    BY <1>5
  <2> QED BY <2>1, MoveOnRing
<1>7. Window(nx, s, e) = [i \in 1 .. n |-> Move(nx, s + i - 1)]
  BY <1>4 DEF Window
<1> QED BY <1>6, <1>7

----------------------------------------------------------------------------
(* Remove: a node that is taken out of the ring, and a fresh one in it.    *)

\* Previous finds the only node that leads to b.
LEMMA PreviousIs ==
  ASSUME NEW nx, NEW a \in Node, NEW b, nx[a] = b, \A c \in Node : nx[c] = b => c = a
  PROVE  Previous(nx, b) = a
BY DEF Previous

LEMMA OnRing ==
  ASSUME NEW nx, NEW p, IsRing(nx, p)
  PROVE  \A a, b \in Node : nx[a] = nx[b] => a = b
<1> USE Sizes
<1>1. ASSUME NEW a \in Node, NEW b \in Node, nx[a] = nx[b], \A i \in 0 .. N : p[i] # a
      PROVE  a = b
  <2>1. nx[a] = a
    BY <1>1 DEF IsRing
  <2>2. CASE \A i \in 0 .. N : p[i] # b
    BY <1>1, <2>1, <2>2 DEF IsRing
  <2>3. CASE \E i \in 0 .. N : p[i] = b
    <3>1. PICK i \in 0 .. N : p[i] = b
      BY <2>3
    <3>2. PICK j \in 0 .. N : Follows(i, j)
      BY DEF Follows
    <3>3. nx[b] = p[j]
      BY <3>1, <3>2 DEF IsRing
    <3> QED BY <1>1, <2>1, <3>3
  <2> QED BY <2>2, <2>3
<1>2. ASSUME NEW i \in 0 .. N, NEW j \in 0 .. N, nx[p[i]] = nx[p[j]]
      PROVE  p[i] = p[j]
  <2>1. PICK k \in 0 .. N : Follows(i, k)
    BY DEF Follows
  <2>2. PICK l \in 0 .. N : Follows(j, l)
    BY DEF Follows
  <2>3. k = l
    BY <1>2, <2>1, <2>2 DEF IsRing
  <2>4. i = j
    BY <2>1, <2>2, <2>3 DEF Follows
  <2> QED BY <2>4
<1> QED BY <1>1, <1>2

\* nx2 is nx with a alone and fresh behind last; b is before a in nx.
Relinked(nx, nx2, a, last, fresh, b) ==
  /\ nx2 \in [Node -> Node]
  /\ nx2[a] = a
  /\ nx2[last] = fresh
  /\ nx2[fresh] = IF b = last THEN nx[a] ELSE nx[last]
  /\ b # last => nx2[b] = nx[a]
  /\ \A x \in Node \ {a, last, fresh, b} : nx2[x] = nx[x]

\* What Replace does to the links, when a is not the last of the window.
LEMMA ReplaceLinks ==
  ASSUME NEW nx \in [Node -> Node], \A x, y \in Node : nx[x] = nx[y] => x = y,
         NEW a \in Node, NEW last \in Node, NEW fresh \in Node,
         nx[fresh] = fresh, a # last, a # fresh, last # fresh, nx[a] # a,
         NEW b \in Node, nx[b] = a
  PROVE  Relinked(nx, Replace(nx, a, last, fresh), a, last, fresh, b)
<1> DEFINE grown == [nx EXCEPT ![last] = fresh, ![fresh] = nx[last]]
           n == nx[a]
           q == IF b = last THEN fresh ELSE b
<1>1. Previous(nx, fresh) = fresh
  BY PreviousIs
<1>2. Link(nx, last, fresh) = grown
  BY <1>1 DEF Link
<1>3. /\ grown \in [Node -> Node] /\ grown[a] = n /\ n \in Node /\ n # fresh /\ n # a
      /\ \A x \in Node : grown[x] = IF x = last THEN fresh ELSE IF x = fresh THEN nx[last] ELSE nx[x]
  OBVIOUS
<1>4. b # a /\ b # fresh /\ q \in Node /\ grown[q] = a /\ q # a
  BY <1>3
<1>5. \A c \in Node : grown[c] = a => c = q
  BY <1>3
<1>6. \A c \in Node : grown[c] = n => c = a
  BY <1>3
<1>7. Previous(grown, a) = q
  <2> HIDE DEF grown, q
  <2> QED BY <1>4, <1>5, PreviousIs
<1>8. Previous(grown, n) = a
  <2> HIDE DEF grown, n
  <2> QED BY <1>3, <1>6, PreviousIs
<1>9. Replace(nx, a, last, fresh) = [grown EXCEPT ![q] = n, ![a] = grown[q]]
  <2>1. Replace(nx, a, last, fresh) = Link(grown, Previous(grown, a), grown[a])
    BY <1>2 DEF Replace
  <2>2. Link(grown, q, n) = [grown EXCEPT ![q] = n, ![a] = grown[q]]
    BY <1>8 DEF Link
  <2> QED BY <1>3, <1>7, <2>1, <2>2
<1> DEFINE u == [grown EXCEPT ![q] = n, ![a] = grown[q]]
<1>10. /\ u \in [Node -> Node] /\ u[a] = a /\ u[q] = n
       /\ \A x \in Node \ {a, q} : u[x] = grown[x]
  BY <1>3, <1>4
<1>11. Replace(nx, a, last, fresh) = u
  BY <1>9 DEF u
<1> HIDE DEF u, grown
<1>12. Relinked(nx, u, a, last, fresh, b)
  BY <1>3, <1>4, <1>10 DEF Relinked
<1> QED BY <1>11, <1>12

\* The same in places: the node at c goes, and fresh comes behind the one at e.
Replaced(nx2, p, c, e, fresh) ==
  /\ nx2 \in [Node -> Node] /\ nx2[p[e]] = fresh
  /\ \A j \in 0 .. N : Follows(c, j) /\ c = e + 1 => nx2[fresh] = p[j]
  /\ \A j \in 0 .. N : Follows(e, j) /\ c # e + 1 => nx2[fresh] = p[j]
  /\ \A j \in 0 .. N : Follows(c, j) /\ c # e + 1 => nx2[p[c - 1]] = p[j]
  /\ \A i, j \in 0 .. N : Follows(i, j) /\ i # c /\ i # e /\ i # c - 1 => nx2[p[i]] = p[j]
  /\ \A x \in Node : x # fresh /\ (\A i \in 0 .. N : i # c => p[i] # x) => nx2[x] = x

LEMMA ReplacedSteps ==
  ASSUME NEW nx2, NEW p, NEW c, NEW e, NEW fresh, Replaced(nx2, p, c, e, fresh),
         NEW j \in 0 .. N
  PROVE  /\ nx2[p[e]] = fresh
         /\ Follows(c, j) /\ c = e + 1 => nx2[fresh] = p[j]
         /\ Follows(e, j) /\ c # e + 1 => nx2[fresh] = p[j]
         /\ Follows(c, j) /\ c # e + 1 => nx2[p[c - 1]] = p[j]
BY DEF Replaced

LEMMA OtherSteps ==
  ASSUME NEW nx2, NEW p, NEW c, NEW e, NEW fresh, Replaced(nx2, p, c, e, fresh),
         NEW i \in 0 .. N, NEW j \in 0 .. N, Follows(i, j), i # c, i # e, i # c - 1
  PROVE  nx2[p[i]] = p[j]
BY DEF Replaced

LEMMA ReplacedLinks ==
  ASSUME NEW nx, NEW p, IsRing(nx, p), NEW c \in 1 .. N, NEW e \in 0 .. N, c # e,
         NEW fresh \in Node, \A i \in 0 .. N : p[i] # fresh
  PROVE  Replaced(Replace(nx, p[c], p[e], fresh), p, c, e, fresh)
<1> USE Sizes
<1>1. /\ nx \in [Node -> Node] /\ p \in [0 .. N -> Node] /\ p[0] = r
      /\ \A i, j \in 0 .. N : p[i] = p[j] => i = j
      /\ \A i, j \in 0 .. N : Follows(i, j) => nx[p[i]] = p[j]
      /\ \A x \in Node : (\A i \in 0 .. N : p[i] # x) => nx[x] = x
  BY DEF IsRing
<1>2. c \in 0 .. N /\ c - 1 \in 0 .. N /\ Follows(c - 1, c)
  BY DEF Follows
<1> DEFINE sc == IF c = N THEN 0 ELSE c + 1
           se == IF e = N THEN 0 ELSE e + 1
<1>30. /\ sc \in 0 .. N /\ sc # c /\ \A j : Follows(c, j) <=> j = sc
       /\ se \in 0 .. N /\ \A j : Follows(e, j) <=> j = se
  BY DEF Follows
<1> HIDE DEF sc, se
<1> DEFINE a == p[c]
           last == p[e]
           b == p[c - 1]
           nx2 == Replace(nx, a, last, fresh)
<1>3. a \in Node /\ last \in Node /\ b \in Node /\ a # last /\ a # fresh /\ last # fresh
  BY <1>1, <1>2
<1>4. nx[fresh] = fresh
  BY <1>1
<1>5. nx[b] = a /\ nx[a] = p[sc] /\ nx[last] = p[se] /\ nx[a] # a
  <2>1. nx[p[c - 1]] = p[c]
    BY <1>2, RingStep
  <2>2. nx[p[c]] = p[sc] /\ p[sc] # p[c]
    BY <1>1, <1>2, <1>30, RingStep
  <2>3. nx[p[e]] = p[se]
    BY <1>30, RingStep
  <2> QED BY <2>1, <2>2, <2>3
<1>6. \A i \in 0 .. N : (p[i] = a <=> i = c) /\ (p[i] = last <=> i = e) /\ (p[i] = b <=> i = c - 1)
  BY <1>1, <1>2
<1>7. b = last <=> c = e + 1
  BY <1>2, <1>6
<1>8. \A x, y \in Node : nx[x] = nx[y] => x = y
  BY OnRing
<1> HIDE DEF a, last, b
<1>9. Relinked(nx, nx2, a, last, fresh, b)
  BY <1>1, <1>3, <1>4, <1>5, <1>8, ReplaceLinks
<1> HIDE DEF nx2
<1>10. nx2 \in [Node -> Node] /\ nx2[last] = fresh
  BY <1>9 DEF Relinked
<1>11. nx2[fresh] = IF c = e + 1 THEN p[sc] ELSE p[se]
  BY <1>5, <1>7, <1>9 DEF Relinked
<1>12. c # e + 1 => nx2[b] = p[sc]
  BY <1>2, <1>5, <1>7, <1>9 DEF Relinked
<1>13. ASSUME NEW i \in 0 .. N, NEW j \in 0 .. N, Follows(i, j), i # c, i # e, i # c - 1
       PROVE  nx2[p[i]] = p[j]
  <2>1. p[i] \in Node \ {a, last, fresh, b} /\ nx[p[i]] = p[j]
    BY <1>1, <1>6, <1>13
  <2> QED BY <1>9, <2>1 DEF Relinked
<1>14. ASSUME NEW x \in Node, x # fresh, \A i \in 0 .. N : i # c => p[i] # x
       PROVE  nx2[x] = x
  <2>1. CASE x = a
    BY <1>9, <2>1 DEF Relinked
  <2>2. CASE x # a
    <3>1. \A i \in 0 .. N : p[i] # x
      BY <1>14, <2>2 DEF a
    <3>2. x # last /\ x # b /\ nx[x] = x
      BY <1>1, <1>2, <3>1 DEF last, b
    <3> QED BY <1>9, <1>14, <2>2, <3>2 DEF Relinked
  <2> QED BY <2>1, <2>2
<1>15. Replaced(nx2, p, c, e, fresh)
  BY <1>30, <1>10, <1>11, <1>12, <1>13, <1>14 DEF Replaced, last, b
<1> QED BY <1>15 DEF nx2, a, last

\* When c is before e, the nodes between them move down by one.
MovedDown(p2, p, c, e, fresh) ==
  /\ p2 \in [0 .. N -> Node]
  /\ \A i \in 0 .. c - 1 : p2[i] = p[i]
  /\ \A i \in c .. e - 1 : p2[i] = p[i + 1]
  /\ p2[e] = fresh
  /\ \A i \in e + 1 .. N : p2[i] = p[i]

LEMMA DownOnRing ==
  ASSUME NEW nx, NEW p, IsRing(nx, p), NEW c \in 1 .. N, NEW e \in 0 .. N, c < e,
         NEW fresh \in Node, \A i \in 0 .. N : p[i] # fresh,
         NEW nx2, Replaced(nx2, p, c, e, fresh), NEW p2, MovedDown(p2, p, c, e, fresh)
  PROVE  IsRing(nx2, p2) /\ \A i \in 0 .. N : p2[i] # p[c]
<1> USE Sizes
<1>1. /\ p \in [0 .. N -> Node] /\ p[0] = r
      /\ \A i, j \in 0 .. N : p[i] = p[j] => i = j
  BY DEF IsRing
<1>2. \A i \in 0 .. N - 1 : Follows(i, i + 1)
  BY DEF Follows
<1>3. \A i, j \in 0 .. N : Follows(i, j) => j = i + 1 \/ (i = N /\ j = 0)
  BY DEF Follows
<1>4. p2 \in [0 .. N -> Node] /\ p2[0] = r
  BY <1>1 DEF MovedDown
<1>5. /\ \A i \in 0 .. N : i < c => p2[i] = p[i]
      /\ \A i \in 0 .. N : c <= i /\ i < e => i + 1 \in 0 .. N /\ p2[i] = p[i + 1]
      /\ p2[e] = fresh
      /\ \A i \in 0 .. N : e < i => p2[i] = p[i]
  BY DEF MovedDown
<1> DEFINE was(i) == IF c <= i /\ i < e THEN i + 1 ELSE i
<1>6. \A i \in 0 .. N : i # e => was(i) \in 0 .. N /\ was(i) # c /\ p2[i] = p[was(i)]
  BY <1>5
<1>7. \A i, j \in 0 .. N : i # e /\ j # e /\ was(i) = was(j) => i = j
  OBVIOUS
<1> HIDE DEF was
<1>20. \A i \in 0 .. N : i # e => p2[i] # fresh
  BY <1>6
<1>8. ASSUME NEW i \in 0 .. N, NEW j \in 0 .. N, p2[i] = p2[j]
      PROVE  i = j
  <2>1. i = e <=> j = e
    BY <1>5, <1>8, <1>20
  <2>2. i # e => was(i) = was(j)
    BY <1>1, <1>6, <1>8, <2>1
  <2> QED BY <1>7, <2>1, <2>2
<1>9. ASSUME NEW i \in 0 .. N
      PROVE  p2[i] # p[c]
  <2>1. i # e => p2[i] # p[c]
    BY <1>1, <1>6
  <2>2. i = e => p2[i] # p[c]
    BY <1>5
  <2> QED BY <2>1, <2>2
<1>10. nx2 \in [Node -> Node]
  BY DEF Replaced
<1>21. c + 1 \in 0 .. N /\ Follows(c, c + 1)
  BY <1>2
<1>11. ASSUME NEW i \in 0 .. N, NEW j \in 0 .. N, Follows(i, j)
       PROVE  nx2[p2[i]] = p2[j]
  <2>1. CASE i < c - 1
    <3>1. j = i + 1 /\ p2[i] = p[i] /\ p2[j] = p[j]
      BY <1>3, <1>5, <1>11, <2>1
    <3> QED BY <1>11, <2>1, <3>1, OtherSteps
  <2>2. CASE i = c - 1
    <3>1. j = c /\ p2[i] = p[i] /\ p2[j] = p[c + 1]
      BY <1>3, <1>5, <1>11, <2>2
    <3>2. nx2[p[c - 1]] = p[c + 1]
      BY <1>21, ReplacedSteps
    <3> QED BY <2>2, <3>1, <3>2
  <2>3. CASE c <= i /\ i < e - 1
    <3>1. j = i + 1 /\ j + 1 \in 0 .. N
      BY <1>3, <1>11, <2>3
    <3>2. p2[i] = p[j] /\ p2[j] = p[j + 1] /\ Follows(j, j + 1)
      BY <1>2, <1>5, <2>3, <3>1
    <3>3. nx2[p[j]] = p[j + 1]
      BY <2>3, <3>1, <3>2, OtherSteps
    <3> QED BY <3>2, <3>3
  <2>4. CASE i = e - 1
    <3>1. j = e /\ p2[i] = p[e]
      BY <1>3, <1>5, <1>11, <2>4
    <3> QED BY <1>5, <3>1, ReplacedSteps
  <2>5. CASE i = e
    <3>1. p2[j] = p[j]
      BY <1>1, <1>3, <1>4, <1>5, <1>11, <2>5
    <3> QED BY <1>5, <1>11, <2>5, <3>1, ReplacedSteps
  <2>6. CASE e < i
    <3>1. p2[i] = p[i] /\ p2[j] = p[j]
      BY <1>1, <1>3, <1>4, <1>5, <1>11, <2>6
    <3> QED BY <1>11, <2>6, <3>1, OtherSteps
  <2> QED BY <2>1, <2>2, <2>3, <2>4, <2>5, <2>6
<1>12. ASSUME NEW x \in Node, \A i \in 0 .. N : p2[i] # x
       PROVE  nx2[x] = x
  <2>1. x # fresh
    BY <1>5, <1>12
  <2>2. ASSUME NEW i \in 0 .. N, i # c
        PROVE  p[i] # x
    <3>1. CASE i < c
      BY <1>5, <1>12, <3>1
    <3>2. CASE c < i /\ i <= e
      <4>1. i - 1 \in 0 .. N /\ p2[i - 1] = p[i]
        BY <1>5, <3>2
      <4> QED BY <1>12, <4>1
    <3>3. CASE e < i
      BY <1>5, <1>12, <3>3
    <3> QED BY <2>2, <3>1, <3>2, <3>3
  <2> QED BY <2>1, <2>2 DEF Replaced
<1> QED BY <1>4, <1>8, <1>9, <1>10, <1>11, <1>12 DEF IsRing

\* When e is before c, the nodes between them move up by one.
MovedUp(p2, p, c, e, fresh) ==
  /\ p2 \in [0 .. N -> Node]
  /\ \A i \in 0 .. e : p2[i] = p[i]
  /\ p2[e + 1] = fresh
  /\ \A i \in e + 2 .. c : p2[i] = p[i - 1]
  /\ \A i \in c + 1 .. N : p2[i] = p[i]

LEMMA UpOnRing ==
  ASSUME NEW nx, NEW p, IsRing(nx, p), NEW c \in 1 .. N, NEW e \in 0 .. N, e < c,
         NEW fresh \in Node, \A i \in 0 .. N : p[i] # fresh,
         NEW nx2, Replaced(nx2, p, c, e, fresh), NEW p2, MovedUp(p2, p, c, e, fresh)
  PROVE  IsRing(nx2, p2) /\ \A i \in 0 .. N : p2[i] # p[c]
<1> USE Sizes
<1>1. /\ p \in [0 .. N -> Node] /\ p[0] = r
      /\ \A i, j \in 0 .. N : p[i] = p[j] => i = j
  BY DEF IsRing
<1>2. \A i \in 0 .. N - 1 : Follows(i, i + 1)
  BY DEF Follows
<1>3. \A i, j \in 0 .. N : Follows(i, j) => j = i + 1 \/ (i = N /\ j = 0)
  BY DEF Follows
<1>4. p2 \in [0 .. N -> Node] /\ p2[0] = r
  BY <1>1 DEF MovedUp
<1>5. /\ \A i \in 0 .. N : i <= e => p2[i] = p[i]
      /\ p2[e + 1] = fresh
      /\ \A i \in 0 .. N : e + 1 < i /\ i <= c => i - 1 \in 0 .. N /\ p2[i] = p[i - 1]
      /\ \A i \in 0 .. N : c < i => p2[i] = p[i]
  BY DEF MovedUp
<1> DEFINE was(i) == IF e + 1 < i /\ i <= c THEN i - 1 ELSE i
<1>6. \A i \in 0 .. N : i # e + 1 => was(i) \in 0 .. N /\ was(i) # c /\ p2[i] = p[was(i)]
  BY <1>5
<1>7. \A i, j \in 0 .. N : i # e + 1 /\ j # e + 1 /\ was(i) = was(j) => i = j
  OBVIOUS
<1> HIDE DEF was
<1>20. \A i \in 0 .. N : i # e + 1 => p2[i] # fresh
  BY <1>6
<1>8. ASSUME NEW i \in 0 .. N, NEW j \in 0 .. N, p2[i] = p2[j]
      PROVE  i = j
  <2>1. i = e + 1 <=> j = e + 1
    BY <1>5, <1>8, <1>20
  <2>2. i # e + 1 => was(i) = was(j)
    BY <1>1, <1>6, <1>8, <2>1
  <2> QED BY <1>7, <2>1, <2>2
<1>9. ASSUME NEW i \in 0 .. N
      PROVE  p2[i] # p[c]
  <2>1. i # e + 1 => p2[i] # p[c]
    BY <1>1, <1>6
  <2>2. i = e + 1 => p2[i] # p[c]
    BY <1>5
  <2> QED BY <2>1, <2>2
<1>10. nx2 \in [Node -> Node]
  BY DEF Replaced
<1>21. e + 1 \in 0 .. N /\ Follows(e, e + 1)
  BY <1>2
<1>11. ASSUME NEW i \in 0 .. N, NEW j \in 0 .. N, Follows(i, j)
       PROVE  nx2[p2[i]] = p2[j]
  <2>0. i >= c => p2[j] = p[j]
    BY <1>1, <1>3, <1>4, <1>5, <1>11
  <2>1. CASE i < e
    <3>1. j = i + 1 /\ p2[i] = p[i] /\ p2[j] = p[j]
      BY <1>3, <1>5, <1>11, <2>1
    <3> QED BY <1>11, <2>1, <3>1, OtherSteps
  <2>2. CASE i = e
    <3>1. j = e + 1 /\ p2[i] = p[e]
      BY <1>3, <1>5, <1>11, <2>2
    <3> QED BY <1>5, <3>1, ReplacedSteps
  <2>3. CASE i = e + 1 /\ c = e + 1
    BY <1>5, <1>11, <2>0, <2>3, ReplacedSteps
  <2>4. CASE i = e + 1 /\ c # e + 1
    <3>1. j = e + 2 /\ p2[j] = p[e + 1]
      BY <1>3, <1>5, <1>11, <2>4
    <3>2. nx2[fresh] = p[e + 1]
      BY <1>21, <2>4, ReplacedSteps
    <3> QED BY <1>5, <2>4, <3>1, <3>2
  <2>5. CASE e + 1 < i /\ i < c
    <3>1. j = i + 1 /\ i - 1 \in 0 .. N
      BY <1>3, <1>11, <2>5
    <3>2. p2[i] = p[i - 1] /\ p2[j] = p[i] /\ Follows(i - 1, i)
      BY <1>2, <1>5, <2>5, <3>1
    <3>3. nx2[p[i - 1]] = p[i]
      BY <2>5, <3>1, <3>2, OtherSteps
    <3> QED BY <3>2, <3>3
  <2>6. CASE e + 1 < i /\ i = c
    <3>1. p2[i] = p[c - 1]
      BY <1>5, <2>6
    <3> QED BY <1>11, <2>0, <2>6, <3>1, ReplacedSteps
  <2>7. CASE c < i
    <3>1. p2[i] = p[i]
      BY <1>5, <2>7
    <3> QED BY <1>11, <2>0, <2>7, <3>1, OtherSteps
  <2> QED BY <2>1, <2>2, <2>3, <2>4, <2>5, <2>6, <2>7
<1>12. ASSUME NEW x \in Node, \A i \in 0 .. N : p2[i] # x
       PROVE  nx2[x] = x
  <2>1. x # fresh
    BY <1>5, <1>12
  <2>2. ASSUME NEW i \in 0 .. N, i # c
        PROVE  p[i] # x
    <3>1. CASE i <= e
      BY <1>5, <1>12, <3>1
    <3>2. CASE e < i /\ i < c
      <4>1. i + 1 \in 0 .. N /\ p2[i + 1] = p[i]
        BY <1>5, <3>2
      <4> QED BY <1>12, <4>1
    <3>3. CASE c < i
      BY <1>5, <1>12, <3>3
    <3> QED BY <2>2, <3>1, <3>2, <3>3
  <2> QED BY <2>1, <2>2 DEF Replaced
<1> QED BY <1>4, <1>8, <1>9, <1>10, <1>11, <1>12 DEF IsRing

----------------------------------------------------------------------------
(* The values in the ring.                                                 *)

\* j is a place of the window from s to e.
InWindow(j, s, e) == IF s <= e THEN s <= j /\ j < e ELSE s <= j \/ j < e

\* There are items at the places of the window, and nothing at the others.
Filled(val, p, s, e) ==
  /\ val \in [Node -> Item \cup {Nil}]
  /\ s \in 0 .. N /\ e \in 0 .. N
  /\ \A j \in 0 .. N : val[p[j]] # Nil <=> InWindow(j, s, e)

LEMMA PlacesInWindow ==
  ASSUME NEW s \in 0 .. N, NEW e \in 0 .. N, NEW j \in 0 .. N
  PROVE  InWindow(j, s, e) <=> \E i \in 1 .. Count(s, e) : Wrap(s + i - 1) = j
<1> USE Capacity
<1>1. ASSUME NEW i \in 1 .. Count(s, e), Wrap(s + i - 1) = j
      PROVE  InWindow(j, s, e)
  BY <1>1 DEF Count, Wrap, InWindow, max
<1>2. ASSUME InWindow(j, s, e)
      PROVE  \E i \in 1 .. Count(s, e) : Wrap(s + i - 1) = j
  <2>1. CASE s <= j
    <3>1. j - s + 1 \in 1 .. Count(s, e) /\ Wrap(s + (j - s + 1) - 1) = j
      BY <1>2, <2>1 DEF Count, Wrap, InWindow, max
    <3> QED BY <3>1
  <2>2. CASE j < s
    <3>1. j + max - s + 1 \in 1 .. Count(s, e) /\ Wrap(s + (j + max - s + 1) - 1) = j
      BY <1>2, <2>2 DEF Count, Wrap, InWindow, max
    <3> QED BY <3>1
  <2> QED BY <2>1, <2>2
<1> QED BY <1>1, <1>2

\* Pigeons: some node is not in the ring, and Remove finds one.
LEMMA FreshNode ==
  ASSUME NEW nx, NEW p, IsRing(nx, p)
  PROVE  LET fresh == CHOOSE a \in Node : nx[a] = a /\ a # r
         IN  fresh \in Node /\ \A i \in 0 .. N : p[i] # fresh
<1> DEFINE image == {p[i] : i \in 0 .. N}
<1>1. \E a \in Node : a \notin image
  <2>1. IsFiniteSet(0 .. N) /\ Cardinality(0 .. N) = N + 1
    BY Capacity, FS_Interval
  <2>2. IsFiniteSet(Node) /\ Cardinality(Node) = N + 3
    BY Sizes, FS_Interval
  <2>3. IsFiniteSet(image) /\ Cardinality(image) <= N + 1 /\ Cardinality(image) \in Nat
    <3>1. IsFiniteSet(image) /\ Cardinality(image) <= Cardinality(0 .. N)
      <4>1. p \in Surjection(0 .. N, image)
        BY DEF IsRing, Surjection
      <4> HIDE DEF image
      <4> QED BY <2>1, <4>1, FS_Surjection
    <3> QED BY <2>1, <3>1, FS_CardinalityType
  <2> SUFFICES ASSUME Node \subseteq image PROVE FALSE
    OBVIOUS
  <2> HIDE DEF image
  <2>4. Cardinality(Node) <= Cardinality(image)
    BY <2>3, FS_Subset
  <2> QED BY Capacity, <2>2, <2>3, <2>4
<1>2. \E a \in Node : nx[a] = a /\ a # r
  BY <1>1, Capacity DEF IsRing
<1> DEFINE fresh == CHOOSE a \in Node : nx[a] = a /\ a # r
<1>3. fresh \in Node /\ nx[fresh] = fresh /\ fresh # r
  BY <1>2
<1> HIDE DEF fresh
<1>4. ASSUME NEW i \in 0 .. N, p[i] = fresh
      PROVE  FALSE
  <2>1. PICK j \in 0 .. N : Follows(i, j)
    BY Capacity DEF Follows
  <2>2. p[j] = p[i]
    BY <1>3, <1>4, <2>1, RingStep
  <2>3. i = j
    BY <2>2 DEF IsRing
  <2>4. i = 0
    BY Capacity, <2>1, <2>3 DEF Follows
  <2> QED BY <1>3, <1>4, <2>4 DEF IsRing
<1> QED BY <1>3, <1>4 DEF fresh

LEMMA DownFilled ==
  ASSUME NEW p, p \in [0 .. N -> Node], NEW val, NEW s, NEW e, Filled(val, p, s, e),
         NEW c \in 1 .. N, InWindow(c, s, e), c < e,
         NEW fresh \in Node, \A i \in 0 .. N : p[i] # fresh,
         NEW p2, MovedDown(p2, p, c, e, fresh)
  PROVE  Filled([val EXCEPT ![fresh] = Nil], p2, s, e - 1)
<1> USE Capacity
<1> DEFINE val2 == [val EXCEPT ![fresh] = Nil]
<1>1. val \in [Node -> Item \cup {Nil}] /\ s \in 0 .. N /\ e \in 0 .. N /\ e - 1 \in 0 .. N
  BY DEF Filled
<1>2. val2 \in [Node -> Item \cup {Nil}] /\ val2[fresh] = Nil
      /\ \A x \in Node : x # fresh => val2[x] = val[x]
  BY <1>1
<1>3. \A i \in 0 .. N : val2[p[i]] = val[p[i]]
  BY <1>2
<1>4. \A j \in 0 .. N : val2[p[j]] # Nil <=> InWindow(j, s, e)
  BY <1>3 DEF Filled
<1> HIDE DEF val2
<1>5. ASSUME NEW j \in 0 .. N
      PROVE  val2[p2[j]] # Nil <=> InWindow(j, s, e - 1)
  <2>1. CASE j < c
    <3>1. p2[j] = p[j] /\ (InWindow(j, s, e) <=> InWindow(j, s, e - 1))
      BY <1>1, <2>1 DEF MovedDown, InWindow
    <3> QED BY <1>4, <3>1
  <2>2. CASE c <= j /\ j < e
    <3>1. p2[j] = p[j + 1] /\ j + 1 \in 0 .. N
      BY <1>1, <2>2 DEF MovedDown
    <3>2. InWindow(j + 1, s, e) <=> InWindow(j, s, e - 1)
      BY <1>1, <2>2 DEF InWindow
    <3> QED BY <1>4, <3>1, <3>2
  <2>3. CASE j = e
    <3>1. p2[j] = fresh /\ ~ InWindow(j, s, e - 1)
      BY <1>1, <2>3 DEF MovedDown, InWindow
    <3> QED BY <1>2, <3>1
  <2>4. CASE e < j
    <3>1. p2[j] = p[j] /\ (InWindow(j, s, e) <=> InWindow(j, s, e - 1))
      BY <1>1, <2>4 DEF MovedDown, InWindow
    <3> QED BY <1>4, <3>1
  <2> QED BY <1>1, <2>1, <2>2, <2>3, <2>4
<1>6. Filled(val2, p2, s, e - 1)
  BY <1>1, <1>2, <1>5 DEF Filled
<1> QED BY <1>6 DEF val2

LEMMA UpFilled ==
  ASSUME NEW p, p \in [0 .. N -> Node], NEW val, NEW s, NEW e, Filled(val, p, s, e),
         NEW c \in 1 .. N, InWindow(c, s, e), e < c, e < s,
         NEW fresh \in Node, \A i \in 0 .. N : p[i] # fresh,
         NEW p2, MovedUp(p2, p, c, e, fresh)
  PROVE  Filled([val EXCEPT ![fresh] = Nil], p2, Up(s), e)
<1> USE Capacity
<1> DEFINE val2 == [val EXCEPT ![fresh] = Nil]
<1>1. val \in [Node -> Item \cup {Nil}] /\ s \in 0 .. N /\ e \in 0 .. N /\ Up(s) \in 0 .. N
      /\ Up(s) = (IF s = N THEN 0 ELSE s + 1)
  BY DEF Filled, Up, max
<1>2. val2 \in [Node -> Item \cup {Nil}] /\ val2[fresh] = Nil
      /\ \A x \in Node : x # fresh => val2[x] = val[x]
  BY <1>1
<1>3. \A i \in 0 .. N : val2[p[i]] = val[p[i]]
  BY <1>2
<1>4. \A j \in 0 .. N : val2[p[j]] # Nil <=> InWindow(j, s, e)
  BY <1>3 DEF Filled
<1> HIDE DEF val2
<1>5. ASSUME NEW j \in 0 .. N
      PROVE  val2[p2[j]] # Nil <=> InWindow(j, Up(s), e)
  <2>1. CASE j <= e
    <3>1. p2[j] = p[j]
      BY <1>1, <2>1 DEF MovedUp
    <3>2. InWindow(j, s, e) <=> InWindow(j, Up(s), e)
      BY <1>1, <2>1 DEF InWindow
    <3> QED BY <1>4, <3>1, <3>2
  <2>2. CASE j = e + 1
    <3>1. p2[j] = fresh
      BY <1>1, <2>2 DEF MovedUp
    <3>2. ~ InWindow(j, Up(s), e)
      BY <1>1, <2>2 DEF InWindow
    <3> QED BY <1>2, <3>1, <3>2
  <2>3. CASE e + 1 < j /\ j <= c
    <3>1. p2[j] = p[j - 1] /\ j - 1 \in 0 .. N
      BY <1>1, <2>3 DEF MovedUp
    <3>2. InWindow(j - 1, s, e) <=> InWindow(j, Up(s), e)
      BY <1>1, <2>3 DEF InWindow
    <3> QED BY <1>4, <3>1, <3>2
  <2>4. CASE c < j
    <3>1. p2[j] = p[j]
      BY <1>1, <2>4 DEF MovedUp
    <3>2. InWindow(j, s, e) <=> InWindow(j, Up(s), e)
      BY <1>1, <2>4 DEF InWindow
    <3> QED BY <1>4, <3>1, <3>2
  <2> QED BY <1>1, <2>1, <2>2, <2>3, <2>4
<1>6. Filled(val2, p2, Up(s), e)
  BY <1>1, <1>2, <1>5 DEF Filled
<1> QED BY <1>6 DEF val2

\* The item at place t of the queue.
At(val, p, s, t) == val[p[Wrap(s + t - 1)]]

\* The queue has lost its item at place k + 1, and no other.
Dropped(val2, p2, s2, e2, val, p, s, e, k) ==
  /\ Count(s2, e2) = Count(s, e) - 1
  /\ \A t \in 1 .. k : At(val2, p2, s2, t) = At(val, p, s, t)
  /\ \A t \in k + 1 .. Count(s2, e2) : At(val2, p2, s2, t) = At(val, p, s, t + 1)

LEMMA DownDropped ==
  ASSUME NEW p, p \in [0 .. N -> Node], NEW val \in [Node -> Item \cup {Nil}],
         NEW s \in 0 .. N, NEW e \in 0 .. N, NEW k \in 0 .. Count(s, e) - 1,
         NEW c \in 1 .. N, c = Wrap(s + k), c < e,
         NEW fresh \in Node, \A i \in 0 .. N : p[i] # fresh,
         NEW p2, MovedDown(p2, p, c, e, fresh)
  PROVE  Dropped([val EXCEPT ![fresh] = Nil], p2, s, e - 1, val, p, s, e, k)
<1> USE Capacity
<1> DEFINE val2 == [val EXCEPT ![fresh] = Nil]
<1>1. \A i \in 0 .. N : val2[p[i]] = val[p[i]]
  OBVIOUS
<1> HIDE DEF val2
<1>2. Count(s, e - 1) = Count(s, e) - 1 /\ Count(s, e) \in Nat /\ Count(s, e) <= N
  BY DEF Count, Wrap, max
<1>3. ASSUME NEW t \in 1 .. k
      PROVE  At(val2, p2, s, t) = At(val, p, s, t)
  <2>1. Wrap(s + t - 1) \in 0 .. N /\ (Wrap(s + t - 1) < c \/ e < Wrap(s + t - 1))
    BY <1>2 DEF Count, Wrap, max
  <2>2. p2[Wrap(s + t - 1)] = p[Wrap(s + t - 1)]
    BY <2>1 DEF MovedDown
  <2> QED BY <1>1, <2>1, <2>2 DEF At
<1>4. ASSUME NEW t \in k + 1 .. Count(s, e - 1)
      PROVE  At(val2, p2, s, t) = At(val, p, s, t + 1)
  <2>1. /\ Wrap(s + t - 1) \in c .. e - 1 /\ Wrap(s + t - 1) + 1 \in 0 .. N
        /\ Wrap(s + (t + 1) - 1) = Wrap(s + t - 1) + 1
    BY <1>2 DEF Count, Wrap, max
  <2>2. p2[Wrap(s + t - 1)] = p[Wrap(s + t - 1) + 1]
    BY <2>1 DEF MovedDown
  <2> QED BY <1>1, <2>1, <2>2 DEF At
<1>5. Dropped(val2, p2, s, e - 1, val, p, s, e, k)
  BY <1>2, <1>3, <1>4 DEF Dropped
<1> QED BY <1>5 DEF val2

LEMMA UpDropped ==
  ASSUME NEW p, p \in [0 .. N -> Node], NEW val \in [Node -> Item \cup {Nil}],
         NEW s \in 0 .. N, NEW e \in 0 .. N, NEW k \in 0 .. Count(s, e) - 1,
         NEW c \in 1 .. N, c = Wrap(s + k), e < c, e < s,
         NEW fresh \in Node, \A i \in 0 .. N : p[i] # fresh,
         NEW p2, MovedUp(p2, p, c, e, fresh)
  PROVE  Dropped([val EXCEPT ![fresh] = Nil], p2, Up(s), e, val, p, s, e, k)
<1> USE Capacity
<1> DEFINE val2 == [val EXCEPT ![fresh] = Nil]
<1>1. \A i \in 0 .. N : val2[p[i]] = val[p[i]]
  OBVIOUS
<1> HIDE DEF val2
<1>2. /\ Count(Up(s), e) = Count(s, e) - 1 /\ Count(s, e) \in Nat /\ Count(s, e) <= N
      /\ c = s + k /\ Up(s) = (IF s = N THEN 0 ELSE s + 1)
  BY DEF Count, Wrap, max, Up
<1>3. ASSUME NEW t \in 1 .. k
      PROVE  At(val2, p2, Up(s), t) = At(val, p, s, t)
  <2>1. s + t - 1 \in 0 .. N /\ Wrap(s + t - 1) = s + t - 1 /\ Wrap(Up(s) + t - 1) = s + t
        /\ s + t \in e + 2 .. c
    BY <1>2 DEF Wrap, max
  <2>2. p2[s + t] = p[s + t - 1]
    BY <2>1 DEF MovedUp
  <2> QED BY <1>1, <2>1, <2>2 DEF At
<1>4. ASSUME NEW t \in k + 1 .. Count(Up(s), e)
      PROVE  At(val2, p2, Up(s), t) = At(val, p, s, t + 1)
  <2>1. /\ Wrap(Up(s) + t - 1) \in 0 .. N
        /\ Wrap(Up(s) + t - 1) <= e \/ c < Wrap(Up(s) + t - 1)
        /\ Wrap(s + (t + 1) - 1) = Wrap(Up(s) + t - 1)
    BY <1>2 DEF Count, Wrap, max
  <2>2. p2[Wrap(Up(s) + t - 1)] = p[Wrap(Up(s) + t - 1)]
    BY <2>1 DEF MovedUp
  <2> QED BY <1>1, <2>1, <2>2 DEF At
<1>5. Dropped(val2, p2, Up(s), e, val, p, s, e, k)
  BY <1>2, <1>3, <1>4 DEF Dropped
<1> QED BY <1>5 DEF val2

----------------------------------------------------------------------------
(* The loop of Remove.                                                     *)

LoopState ==
  [next : [Node -> Node], value : [Node -> Item \cup {Nil}], cur : Node, last : Node,
   isPrev : BOOLEAN, start : 0 .. N, end : 0 .. N]

\* The loop is at place k + 1 of the queue, and has kept the k items before.
\* Once the queue goes over r, isPrev tells whether the loop has.
AtPlace(q, p, k) ==
  /\ q \in LoopState
  /\ IsRing(q.next, p)
  /\ Filled(q.value, p, q.start, q.end)
  /\ k \in 0 .. Count(q.start, q.end)
  /\ q.cur = p[Wrap(q.start + k)]
  /\ q.last = p[q.end]
  /\ q.start > q.end => (q.isPrev <=> q.start + k > max)

LEMMA Places ==
  ASSUME NEW q, NEW p, NEW k, AtPlace(q, p, k)
  PROVE  /\ Wrap(q.start + k) \in 0 .. N
         /\ q.cur = q.last <=> k = Count(q.start, q.end)
         /\ k \in Nat /\ Count(q.start, q.end) \in 0 .. N
<1> USE Capacity
<1> DEFINE s == q.start
           e == q.end
<1>1. s \in 0 .. N /\ e \in 0 .. N /\ k \in 0 .. Count(s, e) /\ Count(s, e) \in 0 .. N
  BY DEF AtPlace, LoopState, Count, max
<1> HIDE DEF s, e
<1>2. Wrap(s + k) \in 0 .. N /\ (Wrap(s + k) = e <=> k = Count(s, e))
  BY <1>1 DEF Count, Wrap, max
<1>3. p[Wrap(s + k)] = p[e] <=> Wrap(s + k) = e
  BY <1>1, <1>2 DEF AtPlace, IsRing
<1> QED BY <1>1, <1>2, <1>3 DEF AtPlace, s, e

\* An item that is not selected stays, and the loop goes to the next place.
LEMMA KeepStep ==
  ASSUME NEW S, NEW q, NEW p, NEW k, AtPlace(q, p, k),
         q.cur # q.last, q.value[q.cur] \notin S
  PROVE  /\ AtPlace(Iterate(q, S), p, k + 1)
         /\ Iterate(q, S).value = q.value
         /\ Iterate(q, S).start = q.start /\ Iterate(q, S).end = q.end
<1> USE Capacity
<1> DEFINE q2 == [q EXCEPT !.cur = q.next[q.cur], !.isPrev = q.isPrev \/ q.cur = r]
<1>1. Iterate(q, S) = q2
  BY DEF Iterate
<1>2. q \in LoopState /\ q.next \in [Node -> Node] /\ q.cur \in Node
  BY DEF AtPlace, LoopState
<1>3. /\ q2 \in LoopState
      /\ q2.next = q.next /\ q2.value = q.value /\ q2.last = q.last
      /\ q2.start = q.start /\ q2.end = q.end
      /\ q2.cur = q.next[q.cur] /\ q2.isPrev = (q.isPrev \/ q.cur = r)
  BY <1>2 DEF LoopState
<1> HIDE DEF q2
<1>4. /\ k \in Nat /\ k + 1 \in 0 .. Count(q.start, q.end)
      /\ q.start \in 0 .. N /\ q.end \in 0 .. N /\ Wrap(q.start + k) \in 0 .. N
  BY <1>2, Places DEF AtPlace, LoopState
<1>5. q.next[q.cur] = p[Wrap(q.start + (k + 1))]
  <2>1. q.start + k + 1 \in 1 .. max + max
    BY <1>4 DEF Count, max
  <2>2. /\ Wrap(q.start + k + 1) \in 0 .. N
        /\ Follows(Wrap(q.start + k), Wrap(q.start + k + 1))
    <3>1. (q.start + k + 1) - 1 = q.start + k
      BY <1>4
    <3> QED BY <2>1, <3>1, WrapFollows
  <2>3. q.cur = p[Wrap(q.start + k)] /\ IsRing(q.next, p)
    BY DEF AtPlace
  <2>4. q.start + (k + 1) = q.start + k + 1
    BY <1>4
  <2> QED BY <1>4, <2>2, <2>3, <2>4, RingStep
<1>6. q.cur = r <=> Wrap(q.start + k) = 0
  BY <1>4 DEF AtPlace, IsRing
<1>7. q.start > q.end => (q2.isPrev <=> q.start + (k + 1) > max)
  <2>1. q.start > q.end => (q.isPrev <=> q.start + k > max)
    BY DEF AtPlace
  <2>2. q.start > q.end => (Wrap(q.start + k) = 0 <=> q.start + k = max)
    BY <1>4 DEF Count, Wrap, max
  <2>3. q.start > q.end => (q.start + (k + 1) > max <=> q.start + k > max \/ q.start + k = max)
    BY <1>4 DEF max
  <2> QED BY <1>3, <1>6, <2>1, <2>2, <2>3
<1>8. AtPlace(q2, p, k + 1)
  BY <1>3, <1>4, <1>5, <1>7 DEF AtPlace
<1> QED BY <1>1, <1>3, <1>8

\* A selected item goes. The loop stays at its place, where the next item is now.
LEMMA DropStep ==
  ASSUME NEW S, NEW q, NEW p, NEW k, AtPlace(q, p, k),
         q.cur # q.last, q.value[q.cur] \in S, q.value[r] \notin S
  PROVE  LET q2 == Iterate(q, S) IN
         /\ q2.value[r] = q.value[r]
         /\ \E p2 : /\ AtPlace(q2, p2, k)
                    /\ Dropped(q2.value, p2, q2.start, q2.end, q.value, p, q.start, q.end, k)
<1> USE Capacity
<1> DEFINE fresh == CHOOSE a \in Node : q.next[a] = a /\ a # r
           s == q.start
           e == q.end
           c == Wrap(s + k)
           isPrev == q.isPrev \/ q.cur = r
           links == Replace(q.next, q.cur, q.last, fresh)
           val2 == [q.value EXCEPT ![fresh] = Nil]
           s2 == IF MovesStart(q, isPrev) THEN Up(s) ELSE s
           e2 == IF MovesStart(q, isPrev) THEN e ELSE Down(e)
           u == [q EXCEPT !.next = links, !.value[fresh] = Nil, !.cur = q.next[q.cur],
                  !.isPrev = isPrev, !.start = s2, !.end = e2]
<1>1. Iterate(q, S) = u
  BY DEF Iterate
<1>2. /\ q \in LoopState /\ q.next \in [Node -> Node] /\ q.cur \in Node /\ q.last \in Node
      /\ q.value \in [Node -> Item \cup {Nil}] /\ s \in 0 .. N /\ e \in 0 .. N /\ q.isPrev \in BOOLEAN
  BY DEF AtPlace, LoopState
<1>3. /\ IsRing(q.next, p) /\ p \in [0 .. N -> Node] /\ p[0] = r
      /\ q.cur = p[c] /\ q.last = p[e] /\ Filled(q.value, p, s, e)
      /\ \A i, j \in 0 .. N : p[i] = p[j] => i = j
      /\ s > e => (q.isPrev <=> s + k > max)
  BY DEF AtPlace, IsRing
<1>4. fresh \in Node /\ \A i \in 0 .. N : p[i] # fresh
  <2>1. IsRing(q.next, p)
    BY <1>3
  <2> QED BY <2>1, FreshNode
<1>5. k \in 0 .. Count(s, e) - 1 /\ c \in 0 .. N /\ Count(s, e) \in 0 .. N
  BY Places DEF AtPlace
<1> HIDE DEF fresh, links
<1>6. /\ u.next = links /\ u.value = val2 /\ u.cur = q.next[q.cur] /\ u.last = q.last
      /\ u.isPrev = isPrev /\ u.start = s2 /\ u.end = e2
      /\ links \in [Node -> Node] /\ s2 \in 0 .. N /\ e2 \in 0 .. N => u \in LoopState
  <2>1. q.next[q.cur] \in Node /\ isPrev \in BOOLEAN
    BY <1>2
  <2>2. Nil \in Item \cup {Nil}
    OBVIOUS
  <2> HIDE DEF isPrev, s2, e2, s, e, c
  <2> QED BY <1>2, <2>1, <2>2 DEF LoopState
<1>7. c \in 1 .. N /\ q.cur # r /\ (isPrev <=> q.isPrev)
  BY <1>3, <1>5
<1>8. InWindow(c, s, e) /\ c # e
  BY <1>2, <1>5 DEF InWindow, Count, Wrap, max
<1>9. val2 \in [Node -> Item \cup {Nil}] /\ val2[r] = q.value[r]
  <2>1. r # fresh
    BY <1>3, <1>4
  <2> QED BY <1>2, <1>4, <2>1, Sizes
<1>10. Replaced(links, p, c, e, fresh)
  BY <1>2, <1>3, <1>4, <1>7, <1>8, ReplacedLinks DEF links
<1> HIDE DEF c, s, e, val2, isPrev, s2, e2, u
<1>11. ASSUME c < e
       PROVE  \E p2 : AtPlace(u, p2, k) /\ Dropped(val2, p2, s2, e2, q.value, p, s, e, k)
  <2>1. ~ MovesStart(q, isPrev)
    <3>1. s > e => s + k > max
      BY <1>2, <1>5, <1>7, <1>11 DEF c, Count, Wrap, max
    <3> QED BY <1>3, <1>7, <3>1 DEF MovesStart, s, e
  <2>2. s2 = s /\ e2 = e - 1
    BY <1>2, <1>7, <1>11, <2>1 DEF s2, e2, Down
  <2> DEFINE p2 == [i \in 0 .. N |-> IF i < c THEN p[i] ELSE IF i < e THEN p[i + 1]
                                     ELSE IF i = e THEN fresh ELSE p[i]]
  <2>3. MovedDown(p2, p, c, e, fresh)
    BY <1>2, <1>3, <1>4, <1>7, <1>11 DEF MovedDown
  <2> HIDE DEF p2
  <2>4. IsRing(links, p2)
    BY <1>2, <1>3, <1>4, <1>7, <1>10, <1>11, <2>3, DownOnRing
  <2>5. Filled(val2, p2, s, e - 1)
    BY <1>3, <1>4, <1>7, <1>8, <1>11, <2>3, DownFilled DEF val2
  <2>6. Dropped(val2, p2, s, e - 1, q.value, p, s, e, k)
    BY <1>2, <1>3, <1>4, <1>5, <1>7, <1>11, <2>3, DownDropped DEF val2, c
  <2>7. q.next[q.cur] = p2[c] /\ q.last = p2[e - 1]
    <3>1. c + 1 \in 0 .. N /\ Follows(c, c + 1)
      BY <1>2, <1>7, <1>11 DEF Follows
    <3>3. c \in c .. e - 1 /\ e - 1 \in c .. e - 1 /\ (e - 1) + 1 = e
      BY <1>2, <1>7, <1>11
    <3>4. p2[c] = p[c + 1] /\ p2[e - 1] = p[e]
      BY <2>3, <3>3 DEF MovedDown
    <3>2. q.next[p[c]] = p[c + 1]
      BY <1>3, <1>5, <3>1, RingStep
    <3> QED BY <1>3, <3>2, <3>4
  <2>8. s > e - 1 => (isPrev <=> s + k > max)
    <3>1. s > e - 1 => s > e
      BY <1>2, <1>8, <1>11, <1>7 DEF InWindow
    <3> QED BY <1>3, <1>7, <3>1
  <2>9. k \in 0 .. Count(s, e - 1)
    BY <1>5, <2>6 DEF Dropped
  <2>10. u \in LoopState
    BY <1>6, <2>2, <2>4, <2>5 DEF IsRing, Filled
  <2>11. AtPlace(u, p2, k)
    BY <1>6, <2>2, <2>4, <2>5, <2>7, <2>8, <2>9, <2>10 DEF AtPlace, c, s
  <2> QED BY <2>2, <2>6, <2>11
<1>12. ASSUME e < c
       PROVE  \E p2 : AtPlace(u, p2, k) /\ Dropped(val2, p2, s2, e2, q.value, p, s, e, k)
  <2>1. e < s /\ s + k < max
    BY <1>2, <1>5, <1>7, <1>8, <1>12 DEF c, InWindow, Count, Wrap, max
  <2>2. MovesStart(q, isPrev)
    <3>1. ~ (s + k > max) /\ s > e
      BY <1>2, <1>5, <2>1, Capacity DEF max
    <3>2. ~ isPrev
      BY <1>3, <1>7, <3>1
    <3> QED BY <3>1, <3>2 DEF MovesStart, s, e
  <2>3. s2 = Up(s) /\ e2 = e
    BY <2>2 DEF s2, e2
  <2> DEFINE p2 == [i \in 0 .. N |-> IF i <= e THEN p[i] ELSE IF i = e + 1 THEN fresh
                                     ELSE IF i <= c THEN p[i - 1] ELSE p[i]]
  <2>4. MovedUp(p2, p, c, e, fresh)
    BY <1>2, <1>3, <1>4, <1>7, <1>12 DEF MovedUp
  <2> HIDE DEF p2
  <2>5. IsRing(links, p2)
    BY <1>2, <1>3, <1>4, <1>7, <1>10, <1>12, <2>4, UpOnRing
  <2>6. Filled(val2, p2, Up(s), e)
    BY <1>3, <1>4, <1>7, <1>8, <1>12, <2>1, <2>4, UpFilled DEF val2
  <2>7. /\ Dropped(val2, p2, Up(s), e, q.value, p, s, e, k)
        /\ Wrap(Up(s) + k) = IF c = N THEN 0 ELSE c + 1
    <3>1. c = Wrap(s + k)
      BY DEF c
    <3>2. p \in [0 .. N -> Node] /\ q.value \in [Node -> Item \cup {Nil}] /\ e < s
      BY <1>2, <1>3, <2>1
    <3>3. Dropped(val2, p2, Up(s), e, q.value, p, s, e, k)
      BY <1>2, <1>4, <1>5, <1>7, <1>12, <2>4, <3>1, <3>2, UpDropped DEF val2
    <3>4. Wrap(Up(s) + k) = IF c = N THEN 0 ELSE c + 1
      BY <1>2, <1>5, <1>7, <2>1, <3>1 DEF Up, Wrap, max
    <3> QED BY <3>3, <3>4
  <2>8. q.next[q.cur] = p2[Wrap(Up(s) + k)] /\ q.last = p2[e]
    <3> DEFINE d == IF c = N THEN 0 ELSE c + 1
    <3>1. d \in 0 .. N /\ Follows(c, d) /\ p2[d] = p[d] /\ p2[e] = p[e]
      BY <1>2, <1>7, <1>12, <2>4 DEF MovedUp, Follows
    <3>2. q.next[p[c]] = p[d]
      BY <1>3, <1>5, <3>1, RingStep
    <3> QED BY <1>3, <2>7, <3>1, <3>2
  <2>9. Up(s) > e => (isPrev <=> Up(s) + k > max)
    <3>1. Up(s) + k <= max /\ ~ (s + k > max) /\ s > e
      BY <1>2, <1>5, <2>1 DEF Up, max
    <3> QED BY <1>2, <1>3, <1>5, <1>7, <3>1, <2>1, <2>2, Sizes DEF MovesStart, Up
  <2>10. k \in 0 .. Count(Up(s), e)
    BY <1>5, <2>7 DEF Dropped
  <2>11. u \in LoopState
    BY <1>6, <2>3, <2>5, <2>6 DEF IsRing, Filled
  <2>12. AtPlace(u, p2, k)
    BY <1>6, <2>3, <2>5, <2>6, <2>8, <2>9, <2>10, <2>11 DEF AtPlace
  <2> QED BY <2>3, <2>7, <2>12
<1>14. c < e \/ e < c
  BY <1>2, <1>5, <1>8
<1>15. /\ u.value = val2 /\ u.start = s2 /\ u.end = e2
  BY <1>6
<1>16. /\ u.value[r] = q.value[r]
       /\ \E p2 : AtPlace(u, p2, k)
                  /\ Dropped(u.value, p2, u.start, u.end, q.value, p, q.start, q.end, k)
  BY <1>9, <1>14, <1>11, <1>12, <1>15 DEF s, e
<1> QED BY <1>1, <1>16

\* Without, seen as a table of what is kept of the first i elements.
KeepsFirst(kept, s, S) ==
  /\ kept[0] = << >>
  /\ \A i \in 1 .. Len(s) :
       kept[i] = IF s[i] \in S THEN kept[i - 1] ELSE Append(kept[i - 1], s[i])

LEMMA WithoutIsKept ==
  ASSUME NEW s, Len(s) \in Nat, NEW S
  PROVE  \E kept : KeepsFirst(kept, s, S) /\ Fifo!Without(s, S) = kept[Len(s)]
<1> DEFINE Table(kept, n) ==
             kept = [i \in 0 .. n |->
                       IF i = 0 THEN << >>
                       ELSE IF s[i] \in S THEN kept[i - 1] ELSE Append(kept[i - 1], s[i])]
           Bad == {n \in Nat : ~ \E kept : Table(kept, n)}
<1>1. Bad = {}
  <2>1. SUFFICES ASSUME Bad # {} PROVE FALSE
    OBVIOUS
  <2>2. PICK n \in Bad : \A k \in Bad : n <= k
    <3>1. Bad \subseteq Nat
      OBVIOUS
    <3> HIDE DEF Bad
    <3> QED BY <2>1, <3>1, Least
  <2>3. CASE n = 0
    <3>1. Table([i \in 0 .. 0 |-> << >>], 0)
      OBVIOUS
    <3> QED BY <2>3, <3>1
  <2>4. CASE n # 0
    <3>0. n \in Nat /\ n - 1 \in Nat
      BY <2>4
    <3>1. n \in Nat /\ n - 1 \in Nat /\ n - 1 \notin Bad
      <4> HIDE DEF Bad
      <4> QED BY <2>2, <2>4, <3>0
    <3>2. PICK h : Table(h, n - 1)
      BY <3>1
    <3> DEFINE g == [i \in 0 .. n |->
                       IF i # n THEN h[i]
                       ELSE IF s[n] \in S THEN h[n - 1] ELSE Append(h[n - 1], s[n])]
    <3>3. \A i \in 0 .. n - 1 :
            h[i] = IF i = 0 THEN << >>
                   ELSE IF s[i] \in S THEN h[i - 1] ELSE Append(h[i - 1], s[i])
      BY <3>2
    <3>4. ASSUME NEW i \in 0 .. n
          PROVE  g[i] = IF i = 0 THEN << >>
                        ELSE IF s[i] \in S THEN g[i - 1] ELSE Append(g[i - 1], s[i])
      <4>1. i # 0 => i - 1 \in 0 .. n /\ i - 1 # n /\ g[i - 1] = h[i - 1]
        BY <3>1
      <4>2. CASE i = n
        BY <2>4, <4>1, <4>2
      <4>3. CASE i # n
        <5>1. i \in 0 .. n - 1 /\ g[i] = h[i]
          BY <3>1, <4>3
        <5> QED BY <3>3, <4>1, <5>1
      <4> QED BY <4>2, <4>3
    <3>5. Table(g, n)
      BY <3>4
    <3> QED BY <3>1, <3>5
  <2> QED BY <2>3, <2>4
<1> DEFINE table == CHOOSE kept : Table(kept, Len(s))
<1>2. Table(table, Len(s))
  BY <1>1
<1>3. Fifo!Without(s, S) = table[Len(s)]
  BY DEF Fifo!Without
<1> HIDE DEF table, Bad
<1>4. \A i \in 0 .. Len(s) :
        table[i] = IF i = 0 THEN << >>
                   ELSE IF s[i] \in S THEN table[i - 1] ELSE Append(table[i - 1], s[i])
  BY <1>2
<1>5. KeepsFirst(table, s, S)
  BY <1>4 DEF KeepsFirst
<1> QED BY <1>3, <1>5

\* Loop, seen as the table of its iterations.
First ==
  [next |-> next, value |-> value, cur |-> Move(next, start),
   last |-> Move(next, end), isPrev |-> FALSE, start |-> start, end |-> end]

Iterations(q, S) == q[0] = First /\ \A i \in 1 .. max : q[i] = Iterate(q[i - 1], S)

LEMMA LoopIterates ==
  ASSUME NEW S
  PROVE  \E q : Iterations(q, S) /\ Loop(S) = q[max]
<1> USE Sizes
<1> DEFINE Table(q, n) == q = [i \in 0 .. n |-> IF i = 0 THEN First ELSE Iterate(q[i - 1], S)]
           Bad == {n \in Nat : ~ \E q : Table(q, n)}
<1>1. Bad = {}
  <2>1. SUFFICES ASSUME Bad # {} PROVE FALSE
    OBVIOUS
  <2>2. PICK n \in Bad : \A k \in Bad : n <= k
    <3>1. Bad \subseteq Nat
      OBVIOUS
    <3> HIDE DEF Bad
    <3> QED BY <2>1, <3>1, Least
  <2>3. CASE n = 0
    <3>1. Table([i \in 0 .. 0 |-> First], 0)
      OBVIOUS
    <3> QED BY <2>3, <3>1
  <2>4. CASE n # 0
    <3>0. n \in Nat /\ n - 1 \in Nat
      BY <2>4
    <3>1. n \in Nat /\ n - 1 \in Nat /\ n - 1 \notin Bad
      <4> HIDE DEF Bad
      <4> QED BY <2>2, <2>4, <3>0
    <3>2. PICK h : Table(h, n - 1)
      BY <3>1
    <3> DEFINE g == [i \in 0 .. n |-> IF i # n THEN h[i] ELSE Iterate(h[n - 1], S)]
    <3>3. \A i \in 0 .. n - 1 : h[i] = IF i = 0 THEN First ELSE Iterate(h[i - 1], S)
      BY <3>2
    <3>4. ASSUME NEW i \in 0 .. n
          PROVE  g[i] = IF i = 0 THEN First ELSE Iterate(g[i - 1], S)
      <4>1. i # 0 => i - 1 \in 0 .. n /\ i - 1 # n /\ g[i - 1] = h[i - 1]
        BY <3>1
      <4>2. CASE i = n
        BY <2>4, <4>1, <4>2
      <4>3. CASE i # n
        <5>1. i \in 0 .. n - 1 /\ g[i] = h[i]
          BY <3>1, <4>3
        <5> QED BY <3>3, <4>1, <5>1
      <4> QED BY <4>2, <4>3
    <3>5. Table(g, n)
      BY <3>4
    <3> QED BY <3>1, <3>5
  <2> QED BY <2>3, <2>4
<1> DEFINE table == CHOOSE q : Table(q, max)
<1>2. Table(table, max)
  <2>1. max \notin Bad
    BY <1>1
  <2>2. \E q : Table(q, max)
    BY <2>1
  <2> HIDE DEF Table
  <2> QED BY <2>2
<1>3. Loop(S) = table[max]
  BY DEF Loop, First
<1> HIDE DEF table, Bad
<1>4. Iterations(table, S)
  BY <1>2 DEF Iterations
<1> QED BY <1>3, <1>4

\* After i iterations the queue is what was kept of the first i items of L,
\* and the others.
LoopAt(u, p, kept, L, i) ==
  /\ kept \in Seq(Item \cup {Nil})
  /\ AtPlace(u, p, Len(kept))
  /\ Count(u.start, u.end) - Len(kept) = Len(L) - i
  /\ \A t \in 1 .. Len(kept) : At(u.value, p, u.start, t) = kept[t]
  /\ \A t \in Len(kept) + 1 .. Count(u.start, u.end) :
       At(u.value, p, u.start, t) = L[t - Len(kept) + i]

LEMMA LoopStep ==
  ASSUME NEW S, NEW u, NEW p, NEW kept, NEW L \in Seq(Item \cup {Nil}),
         NEW i \in 1 .. Len(L), LoopAt(u, p, kept, L, i - 1), u.value[r] \notin S
  PROVE  /\ Iterate(u, S).value[r] = u.value[r]
         /\ \E p2 : LoopAt(Iterate(u, S), p2,
                           IF L[i] \in S THEN kept ELSE Append(kept, L[i]), L, i)
<1> USE Capacity
<1> DEFINE k == Len(kept)
           n == Count(u.start, u.end)
           w == Iterate(u, S)
<1>1. /\ kept \in Seq(Item \cup {Nil}) /\ AtPlace(u, p, k)
      /\ n - k = Len(L) - (i - 1)
      /\ \A t \in 1 .. k : At(u.value, p, u.start, t) = kept[t]
      /\ \A t \in k + 1 .. n : At(u.value, p, u.start, t) = L[t - k + (i - 1)]
  BY DEF LoopAt
<1>2. k \in Nat /\ n \in 0 .. N /\ Len(L) \in Nat /\ i \in Nat /\ L[i] \in Item \cup {Nil}
  BY <1>1, Places
<1>3. k + 1 <= n
  BY <1>1, <1>2
<1>4. u.cur # u.last
  BY <1>1, <1>2, <1>3, Places
<1>5. u.value[u.cur] = L[i]
  <2>1. u.start \in Nat /\ u.start + (k + 1) - 1 = u.start + k
    BY <1>1, <1>2 DEF AtPlace, LoopState
  <2>2. At(u.value, p, u.start, k + 1) = u.value[u.cur]
    BY <1>1, <2>1 DEF At, AtPlace
  <2>3. k + 1 - k + (i - 1) = i /\ k + 1 \in k + 1 .. n
    BY <1>2, <1>3
  <2>4. At(u.value, p, u.start, k + 1) = L[k + 1 - k + (i - 1)]
    BY <1>1, <2>3
  <2> QED BY <2>2, <2>3, <2>4
<1> HIDE DEF n, w
<1>6. CASE L[i] \in S
  <2>1. /\ w.value[r] = u.value[r]
        /\ \E p2 : /\ AtPlace(w, p2, k)
                   /\ Dropped(w.value, p2, w.start, w.end, u.value, p, u.start, u.end, k)
    BY <1>1, <1>4, <1>5, <1>6, DropStep DEF w
  <2>2. PICK p2 : /\ AtPlace(w, p2, k)
                  /\ Dropped(w.value, p2, w.start, w.end, u.value, p, u.start, u.end, k)
    BY <2>1
  <2>3. Count(w.start, w.end) = n - 1
    BY <2>2 DEF Dropped, n
  <2>4. ASSUME NEW t \in 1 .. k
        PROVE  At(w.value, p2, w.start, t) = kept[t]
    BY <1>1, <2>2 DEF Dropped
  <2>5. ASSUME NEW t \in k + 1 .. Count(w.start, w.end)
        PROVE  At(w.value, p2, w.start, t) = L[t - k + i]
    <3>1. At(w.value, p2, w.start, t) = At(u.value, p, u.start, t + 1)
      BY <2>2 DEF Dropped
    <3>2. t + 1 \in k + 1 .. n /\ (t + 1) - k + (i - 1) = t - k + i
      BY <1>2, <2>3, <2>5
    <3>3. At(u.value, p, u.start, t + 1) = L[(t + 1) - k + (i - 1)]
      BY <1>1, <3>2
    <3> QED BY <3>1, <3>2, <3>3
  <2>6. Count(w.start, w.end) - k = Len(L) - i
    BY <1>1, <1>2, <2>3
  <2>7. LoopAt(w, p2, kept, L, i)
    BY <1>1, <2>2, <2>4, <2>5, <2>6 DEF LoopAt
  <2> QED BY <1>6, <2>1, <2>7 DEF w
<1>7. CASE L[i] \notin S
  <2>1. /\ AtPlace(w, p, k + 1)
        /\ w.value = u.value /\ w.start = u.start /\ w.end = u.end
    BY <1>1, <1>4, <1>5, <1>7, KeepStep DEF w
  <2> DEFINE longer == Append(kept, L[i])
  <2>2. /\ longer \in Seq(Item \cup {Nil}) /\ Len(longer) = k + 1 /\ longer[k + 1] = L[i]
        /\ \A t \in 1 .. k : longer[t] = kept[t]
    BY <1>1, <1>2
  <2> HIDE DEF longer
  <2>3. ASSUME NEW t \in 1 .. k + 1
        PROVE  At(w.value, p, w.start, t) = longer[t]
    <3>1. CASE t \in 1 .. k
      BY <1>1, <2>1, <2>2, <3>1
    <3>2. CASE t = k + 1
      <4>1. k + 1 - k + (i - 1) = i /\ k + 1 \in k + 1 .. n
        BY <1>2, <1>3
      <4>2. At(u.value, p, u.start, k + 1) = L[k + 1 - k + (i - 1)]
        BY <1>1, <4>1
      <4> QED BY <2>1, <2>2, <3>2, <4>1, <4>2
    <3> QED BY <1>2, <3>1, <3>2
  <2>4. ASSUME NEW t \in k + 1 + 1 .. n
        PROVE  At(w.value, p, w.start, t) = L[t - (k + 1) + i]
    <3>1. t \in k + 1 .. n /\ t - (k + 1) + i = t - k + (i - 1)
      BY <1>2
    <3>2. At(u.value, p, u.start, t) = L[t - k + (i - 1)]
      BY <1>1, <3>1
    <3> QED BY <2>1, <3>1, <3>2
  <2>5. n - (k + 1) = Len(L) - i
    BY <1>1, <1>2
  <2>6. LoopAt(w, p, longer, L, i)
    BY <2>1, <2>2, <2>3, <2>4, <2>5 DEF LoopAt, n
  <2> QED BY <1>7, <2>1, <2>6 DEF w, longer
<1> QED BY <1>6, <1>7

\* The queue as a sequence.
Queue(val, p, s, e) == [t \in 1 .. Count(s, e) |-> At(val, p, s, t)]

LEMMA QueueTyped ==
  ASSUME NEW p \in [0 .. N -> Node], NEW val, NEW s, NEW e, Filled(val, p, s, e)
  PROVE  /\ Queue(val, p, s, e) \in Seq(Item \cup {Nil})
         /\ Len(Queue(val, p, s, e)) = Count(s, e)
         /\ Count(s, e) \in 0 .. N
<1> USE Capacity
<1>1. /\ s \in 0 .. N /\ e \in 0 .. N /\ Count(s, e) \in 0 .. N
      /\ val \in [Node -> Item \cup {Nil}]
  BY DEF Filled, Count, max
<1>2. \A t \in 1 .. Count(s, e) : Wrap(s + t - 1) \in 0 .. N
  BY <1>1 DEF Count, Wrap, max
<1>3. \A t \in 1 .. Count(s, e) : At(val, p, s, t) \in Item \cup {Nil}
  BY <1>1, <1>2 DEF At
<1> QED BY <1>1, <1>3 DEF Queue

LEMMA FirstAt ==
  ASSUME NEW p, IsRing(next, p), Filled(value, p, start, end)
  PROVE  LoopAt(First, p, << >>, Queue(value, p, start, end), 0)
<1> USE Capacity
<1>1. /\ start \in 0 .. N /\ end \in 0 .. N /\ value \in [Node -> Item \cup {Nil}]
      /\ next \in [Node -> Node] /\ p \in [0 .. N -> Node]
  BY DEF Filled, IsRing
<1>2. Move(next, start) = p[start] /\ Move(next, end) = p[end]
  <2>1. start \in 0 .. max + max /\ end \in 0 .. max + max /\ Wrap(start) = start /\ Wrap(end) = end
    BY <1>1 DEF Wrap, max
  <2> QED BY <2>1, MoveOnRing
<1>3. /\ First.next = next /\ First.value = value /\ First.cur = p[start]
      /\ First.last = p[end] /\ First.isPrev = FALSE /\ First.start = start /\ First.end = end
  BY <1>2 DEF First
<1>4. First \in LoopState
  BY <1>1, <1>2 DEF First, LoopState
<1>5. 0 \in 0 .. Count(start, end) /\ Wrap(start + 0) = start /\ ~ (start + 0 > max)
  BY <1>1 DEF Count, Wrap, max
<1>6. AtPlace(First, p, 0)
  <2> HIDE DEF First
  <2> QED BY <1>3, <1>4, <1>5 DEF AtPlace
<1> DEFINE L == Queue(value, p, start, end)
<1>7. Len(L) = Count(start, end) /\ Count(start, end) \in Nat
  BY <1>1, QueueTyped
<1>8. \A t \in 1 .. Count(start, end) : L[t] = At(value, p, start, t) /\ t - 0 + 0 = t
  BY <1>7 DEF Queue
<1> HIDE DEF L
<1>9. LoopAt(First, p, << >>, L, 0)
  BY <1>3, <1>6, <1>7, <1>8 DEF LoopAt
<1> QED BY <1>9 DEF L

\* Remove takes the selected items out of the queue, and keeps the ring.
LEMMA WholeLoop ==
  ASSUME NEW p, IsRing(next, p), Filled(value, p, start, end), NEW S, value[r] \notin S
  PROVE  LET u == Loop(S) IN
         \E p2 : /\ IsRing(u.next, p2)
                 /\ Filled(u.value, p2, u.start, u.end)
                 /\ Queue(u.value, p2, u.start, u.end)
                      = Fifo!Without(Queue(value, p, start, end), S)
<1> USE Capacity
<1> DEFINE L == Queue(value, p, start, end)
           n == Len(L)
<1>1. L \in Seq(Item \cup {Nil}) /\ n \in Nat /\ n <= N
  <2>1. p \in [0 .. N -> Node]
    BY DEF IsRing
  <2> QED BY <2>1, QueueTyped
<1>2. LoopAt(First, p, << >>, L, 0) /\ First.value[r] = value[r]
  BY FirstAt DEF First
<1> HIDE DEF L
<1>3. PICK kept : KeepsFirst(kept, L, S) /\ Fifo!Without(L, S) = kept[n]
  BY <1>1, WithoutIsKept
<1>4. PICK q : Iterations(q, S) /\ Loop(S) = q[max]
  BY LoopIterates
<1> DEFINE Fine(i) == q[i].value[r] \notin S /\ \E p2 : LoopAt(q[i], p2, kept[i], L, i)
<1>5. Fine(0)
  BY <1>2, <1>3, <1>4 DEF Iterations, KeepsFirst
<1>6. ASSUME NEW i \in 1 .. n, Fine(i - 1)
      PROVE  Fine(i)
  <2>1. PICK p2 : LoopAt(q[i - 1], p2, kept[i - 1], L, i - 1)
    BY <1>6
  <2>2. q[i] = Iterate(q[i - 1], S)
    BY <1>1, <1>4 DEF Iterations, max
  <2>3. kept[i] = IF L[i] \in S THEN kept[i - 1] ELSE Append(kept[i - 1], L[i])
    BY <1>3 DEF KeepsFirst
  <2>4. /\ Iterate(q[i - 1], S).value[r] = q[i - 1].value[r]
        /\ \E p3 : LoopAt(Iterate(q[i - 1], S), p3,
                          IF L[i] \in S THEN kept[i - 1] ELSE Append(kept[i - 1], L[i]), L, i)
    BY <1>1, <1>6, <2>1, LoopStep
  <2> QED BY <1>6, <2>2, <2>3, <2>4
<1> HIDE DEF Fine
<1>7. \A i \in 0 .. n : Fine(i)
  <2> DEFINE Bad == {i \in 0 .. n : ~ Fine(i)}
  <2>1. SUFFICES ASSUME Bad # {} PROVE FALSE
    OBVIOUS
  <2>2. PICK b \in Bad : \A i \in Bad : b <= i
    <3>1. Bad \subseteq Nat
      BY <1>1
    <3> HIDE DEF Bad
    <3> QED BY <2>1, <3>1, Least
  <2>3. b \in 1 .. n /\ b - 1 \in 0 .. n /\ b - 1 \notin Bad
    BY <1>1, <1>5, <2>2
  <2> QED BY <1>6, <2>3
<1>8. PICK p2 : LoopAt(q[n], p2, kept[n], L, n)
  BY <1>1, <1>7 DEF Fine
<1> DEFINE u == q[n]
<1>9. /\ AtPlace(u, p2, Len(kept[n])) /\ kept[n] \in Seq(Item \cup {Nil})
      /\ Count(u.start, u.end) = Len(kept[n])
      /\ \A t \in 1 .. Len(kept[n]) : At(u.value, p2, u.start, t) = kept[n][t]
  <2>1. Count(u.start, u.end) - Len(kept[n]) = 0 /\ AtPlace(u, p2, Len(kept[n]))
    BY <1>1, <1>8 DEF LoopAt
  <2>2. Count(u.start, u.end) \in Nat /\ Len(kept[n]) \in Nat
    BY <2>1, Places
  <2> QED BY <1>8, <2>1, <2>2 DEF LoopAt
<1>10. Iterate(u, S) = u
  <2>1. u.cur = u.last
    BY <1>9, Places
  <2> QED BY <2>1 DEF Iterate
<1>11. q[max] = u
  <2> DEFINE Bad == {i \in n .. max : q[i] # u}
  <2>1. SUFFICES ASSUME Bad # {} PROVE FALSE
    BY <1>1 DEF max
  <2>2. PICK b \in Bad : \A i \in Bad : b <= i
    <3>1. Bad \subseteq Nat
      BY <1>1
    <3> HIDE DEF Bad
    <3> QED BY <2>1, <3>1, Least
  <2>3. b \in 1 .. max /\ b - 1 \in n .. max /\ b - 1 \notin Bad
    <3>1. b \in n .. max /\ q[b] # u
      OBVIOUS
    <3>2. b # n
      BY <3>1
    <3> HIDE DEF Bad, u, n
    <3>3. n \in Nat /\ n <= N /\ max \in Nat
      BY <1>1 DEF max, n
    <3>4. b \in 1 .. max /\ b - 1 \in n .. max /\ ~ (b <= b - 1)
      BY <3>1, <3>2, <3>3
    <3> QED BY <2>2, <3>4
  <2>4. q[b] = Iterate(q[b - 1], S)
    BY <1>4, <2>3 DEF Iterations
  <2> QED BY <1>10, <2>3, <2>4
<1>12. Queue(u.value, p2, u.start, u.end) = kept[n]
  BY <1>9 DEF Queue
<1>13. IsRing(u.next, p2) /\ Filled(u.value, p2, u.start, u.end)
  BY <1>9 DEF AtPlace
<1> HIDE DEF u
<1> QED BY <1>3, <1>4, <1>11, <1>12, <1>13 DEF L

----------------------------------------------------------------------------
(* The invariant.                                                          *)

RingInv == \E p : IsRing(next, p) /\ Filled(value, p, start, end)

\* What a Get has read without the mutex is still so.
GetterInv ==
  \A g \in Getter : /\ pc[g] = "started" => seen[g] = start
                    /\ pc[g] = "locking" => start # end

RingState == TypeOK /\ RingInv

QueueInv == RingState /\ GetterInv /\ answer # Panic

\* List is the queue, whatever the order of the nodes.
LEMMA ListIs ==
  ASSUME NEW nx, NEW p, IsRing(nx, p), NEW val, NEW s, NEW e, Filled(val, p, s, e)
  PROVE  LET w == Window(nx, s, e) IN [i \in DOMAIN w |-> val[w[i]]] = Queue(val, p, s, e)
<1> DEFINE n == Count(s, e)
<1>1. s \in 0 .. N /\ e \in 0 .. N /\ n \in Nat
  BY Capacity DEF Filled, Count, max
<1> HIDE DEF n
<1>2. Window(nx, s, e) = [t \in 1 .. n |-> p[Wrap(s + t - 1)]]
  BY <1>1, WindowOnRing DEF n
<1> QED BY <1>2 DEF Queue, At, n

LEMMA ExactWindow ==
  ASSUME RingInv
  PROVE  WindowExact
<1>1. PICK p : IsRing(next, p) /\ Filled(value, p, start, end)
  BY DEF RingInv
<1> DEFINE n == Count(start, end)
           w == Window(next, start, end)
<1>2. start \in 0 .. N /\ end \in 0 .. N /\ p \in [0 .. N -> Node] /\ n \in 0 .. N
  BY <1>1, Capacity DEF Filled, IsRing, Count, max
<1>3. w = [t \in 1 .. n |-> p[Wrap(start + t - 1)]]
  <2> HIDE DEF n
  <2>1. IsRing(next, p) /\ start \in 0 .. N /\ end \in 0 .. N
    BY <1>1, <1>2
  <2>2. Window(next, start, end) = [t \in 1 .. Count(start, end) |-> p[Wrap(start + t - 1)]]
    BY <2>1, WindowOnRing
  <2> QED BY <2>2 DEF n
<1>4. \A t \in 1 .. n : Wrap(start + t - 1) \in 0 .. N
  BY Capacity, <1>2 DEF Count, Wrap, max
<1>5. Ring(next) = {p[j] : j \in 0 .. N}
  BY <1>1, RingNodes
<1> HIDE DEF n, w
<1>6. ASSUME NEW j \in 0 .. N
      PROVE  value[p[j]] # Nil <=> \E t \in DOMAIN w : w[t] = p[j]
  <2>1. value[p[j]] # Nil <=> InWindow(j, start, end)
    BY <1>1 DEF Filled
  <2>2. InWindow(j, start, end) <=> \E t \in 1 .. n : Wrap(start + t - 1) = j
    BY <1>2, PlacesInWindow DEF n
  <2>3. \A t \in 1 .. n : w[t] = p[j] <=> Wrap(start + t - 1) = j
    BY <1>1, <1>3, <1>4 DEF IsRing
  <2>4. DOMAIN w = 1 .. n
    BY <1>3
  <2> QED BY <2>1, <2>2, <2>3, <2>4
<1> QED BY <1>5, <1>6 DEF WindowExact, w

----------------------------------------------------------------------------
(* Put and Get on the queue.                                               *)

LEMMA PutAppends ==
  ASSUME NEW nx, NEW p, IsRing(nx, p), NEW val, NEW s, NEW e, Filled(val, p, s, e),
         Count(s, e) # N, NEW x \in Item
  PROVE  LET e2   == IF e + 1 = max THEN 0 ELSE e + 1
             val2 == [val EXCEPT ![p[e]] = x]
         IN  /\ Filled(val2, p, s, e2)
             /\ Queue(val2, p, s, e2) = Append(Queue(val, p, s, e), x)
             /\ s # e2
<1> USE Capacity
<1> DEFINE e2 == IF e + 1 = max THEN 0 ELSE e + 1
           val2 == [val EXCEPT ![p[e]] = x]
           n == Count(s, e)
<1>1. /\ s \in 0 .. N /\ e \in 0 .. N /\ n \in 0 .. N - 1 /\ val \in [Node -> Item \cup {Nil}]
  BY DEF Filled, Count, max
<1>2. p \in [0 .. N -> Node] /\ \A i, j \in 0 .. N : p[i] = p[j] => i = j
  BY DEF IsRing
<1>3. e2 \in 0 .. N /\ s # e2 /\ Count(s, e2) = n + 1
  BY <1>1 DEF Count, max
<1>4. /\ val2 \in [Node -> Item \cup {Nil}] /\ val2[p[e]] = x /\ x # Nil
      /\ \A j \in 0 .. N : j # e => val2[p[j]] = val[p[j]]
  BY <1>1, <1>2, RingQueueAssumption
<1>5. /\ InWindow(e, s, e2)
      /\ \A j \in 0 .. N : j # e => (InWindow(j, s, e2) <=> InWindow(j, s, e))
  BY <1>1 DEF InWindow, Count, max
<1> HIDE DEF val2, e2
<1>6. Filled(val2, p, s, e2)
  BY <1>1, <1>3, <1>4, <1>5 DEF Filled
<1>7. /\ Wrap(s + (n + 1) - 1) = e
      /\ \A t \in 1 .. n : Wrap(s + t - 1) \in 0 .. N /\ Wrap(s + t - 1) # e
  BY <1>1 DEF Wrap, Count, max
<1>8. At(val2, p, s, n + 1) = x /\ \A t \in 1 .. n : At(val2, p, s, t) = At(val, p, s, t)
  BY <1>4, <1>7 DEF At
<1> DEFINE L == Queue(val, p, s, e)
           M == Queue(val2, p, s, e2)
<1>9. L \in Seq(Item \cup {Nil}) /\ Len(L) = n /\ M \in Seq(Item \cup {Nil}) /\ Len(M) = n + 1
  BY <1>2, <1>3, <1>6, QueueTyped
<1>10. \A t \in 1 .. n + 1 : M[t] = IF t = n + 1 THEN x ELSE L[t]
  BY <1>1, <1>3, <1>8 DEF Queue
<1> HIDE DEF L, M
<1>11. M = Append(L, x)
  <2>1. Append(L, x) \in Seq(Item \cup {Nil}) /\ Len(Append(L, x)) = n + 1
    BY <1>9
  <2>2. \A t \in 1 .. n + 1 : Append(L, x)[t] = IF t = n + 1 THEN x ELSE L[t]
    BY <1>1, <1>9
  <2> HIDE DEF n
  <2> QED BY <1>9, <1>10, <2>1, <2>2
<1> QED BY <1>3, <1>6, <1>11 DEF e2, val2, L, M

LEMMA StartHolds ==
  ASSUME NEW p, NEW val, NEW s, NEW e, Filled(val, p, s, e), s # e
  PROVE  val[p[s]] # Nil
BY Capacity DEF Filled, InWindow

\* The queue val2 from s2 on is the queue val from s on without its first item.
Taken(val2, p, s2, e, val, s) ==
  /\ Filled(val2, p, s2, e)
  /\ Queue(val, p, s, e) # << >>
  /\ Head(Queue(val, p, s, e)) = val[p[s]]
  /\ Queue(val2, p, s2, e) = Tail(Queue(val, p, s, e))

LEMMA GetTakes ==
  ASSUME NEW nx, NEW p, IsRing(nx, p), NEW val, NEW s, NEW e, Filled(val, p, s, e), s # e,
         NEW s2, s2 = (IF s + 1 = max THEN 0 ELSE s + 1),
         NEW val2, val2 = [val EXCEPT ![p[s]] = Nil]
  PROVE  Taken(val2, p, s2, e, val, s)
<1> USE Capacity
<1> DEFINE n == Count(s, e)
<1>1. /\ s \in 0 .. N /\ e \in 0 .. N /\ n \in 1 .. N /\ val \in [Node -> Item \cup {Nil}]
  BY DEF Filled, Count, max
<1>2. p \in [0 .. N -> Node] /\ \A i, j \in 0 .. N : p[i] = p[j] => i = j
  BY DEF IsRing
<1>3. s2 \in 0 .. N /\ Count(s2, e) = n - 1
  BY <1>1 DEF Count, max
<1>4. /\ val2 \in [Node -> Item \cup {Nil}] /\ val2[p[s]] = Nil
      /\ \A j \in 0 .. N : j # s => val2[p[j]] = val[p[j]]
  BY <1>1, <1>2
<1>5. /\ InWindow(s, s, e) /\ ~ InWindow(s, s2, e)
      /\ \A j \in 0 .. N : j # s => (InWindow(j, s2, e) <=> InWindow(j, s, e))
  BY <1>1 DEF InWindow, max
<1>7. Filled(val2, p, s2, e)
  BY <1>1, <1>3, <1>4, <1>5 DEF Filled
<1>8. /\ Wrap(s + 1 - 1) = s
      /\ \A t \in 1 .. n - 1 : /\ Wrap(s + (t + 1) - 1) \in 0 .. N
                               /\ Wrap(s + (t + 1) - 1) # s
                               /\ Wrap(s2 + t - 1) = Wrap(s + (t + 1) - 1)
  BY <1>1 DEF Wrap, Count, max
<1>9. At(val, p, s, 1) = val[p[s]] /\ \A t \in 1 .. n - 1 : At(val2, p, s2, t) = At(val, p, s, t + 1)
  BY <1>4, <1>8 DEF At
<1> DEFINE L == Queue(val, p, s, e)
           M == Queue(val2, p, s2, e)
<1>10. L \in Seq(Item \cup {Nil}) /\ Len(L) = n /\ M \in Seq(Item \cup {Nil}) /\ Len(M) = n - 1
  BY <1>2, <1>3, <1>7, QueueTyped
<1>11. L[1] = val[p[s]] /\ \A t \in 1 .. n - 1 : M[t] = L[t + 1]
  <2>1. \A t \in 1 .. n : L[t] = At(val, p, s, t)
    BY <1>1 DEF Queue
  <2>2. \A t \in 1 .. n - 1 : M[t] = At(val2, p, s2, t) /\ t + 1 \in 1 .. n
    BY <1>1, <1>3 DEF Queue
  <2>3. 1 \in 1 .. n
    BY <1>1
  <2>4. L[1] = val[p[s]]
    BY <1>9, <2>1, <2>3
  <2>5. ASSUME NEW t \in 1 .. n - 1
        PROVE  M[t] = L[t + 1]
    <3> HIDE DEF L, M, n
    <3>1. M[t] = At(val2, p, s2, t) /\ L[t + 1] = At(val, p, s, t + 1)
      BY <2>1, <2>2
    <3>2. At(val2, p, s2, t) = At(val, p, s, t + 1)
      BY <1>9
    <3> QED BY <3>1, <3>2
  <2> QED BY <2>4, <2>5
<1> HIDE DEF L, M, n
<1>12. L # << >> /\ Head(L) = val[p[s]]
  BY <1>1, <1>10, <1>11
<1>13. M = Tail(L)
  <2>1. Tail(L) \in Seq(Item \cup {Nil}) /\ Len(Tail(L)) = n - 1
    BY <1>10, <1>12
  <2>2. \A t \in 1 .. n - 1 : Tail(L)[t] = L[t + 1]
    BY <1>1, <1>10, <1>12
  <2> QED BY <1>10, <1>11, <2>1, <2>2
<1> QED BY <1>7, <1>12, <1>13 DEF Taken, L, M

----------------------------------------------------------------------------
(* The operations keep the ring, whoever calls them, and do to the list    *)
(* what the bounded FIFO does.                                             *)

OneConsumer == (\A g, h \in Getter : g = h) /\ ~ Shared /\ ~ RemoveHandle

\* The ring and what is in it, as the operations need them.
LEMMA RingOf ==
  ASSUME RingState
  PROVE  \E p : /\ IsRing(next, p) /\ Filled(value, p, start, end)
                /\ List = Queue(value, p, start, end)
                /\ List \in Seq(Item \cup {Nil}) /\ Len(List) = Count(start, end)
                /\ p \in [0 .. N -> Node]
                /\ Move(next, start) = p[start] /\ Move(next, end) = p[end]
                /\ start \in 0 .. N /\ end \in 0 .. N
<1>1. PICK p : IsRing(next, p) /\ Filled(value, p, start, end)
  BY DEF RingState, RingInv
<1>2. List = Queue(value, p, start, end)
  BY <1>1, ListIs DEF List
<1>3. p \in [0 .. N -> Node] /\ start \in 0 .. N /\ end \in 0 .. N
  BY <1>1 DEF IsRing, Filled
<1>4. List \in Seq(Item \cup {Nil}) /\ Len(List) = Count(start, end)
  BY <1>1, <1>2, <1>3, QueueTyped
<1>5. Move(next, start) = p[start] /\ Move(next, end) = p[end]
  <2>1. start \in 0 .. max + max /\ end \in 0 .. max + max /\ Wrap(start) = start /\ Wrap(end) = end
    BY <1>3, Capacity DEF Wrap, max
  <2> QED BY <1>1, <2>1, MoveOnRing
<1> QED BY <1>1, <1>2, <1>3, <1>4, <1>5

LEMMA InitRing == Init => QueueInv /\ Fifo!Init
<1> SUFFICES ASSUME Init PROVE QueueInv /\ Fifo!Init
  OBVIOUS
<1> USE Sizes
<1> DEFINE p == [i \in 0 .. N |-> i]
<1>1. IsRing(next, p)
  BY DEF Init, IsRing, Follows
<1>2. Filled(value, p, start, end)
  BY DEF Init, Filled, InWindow
<1>3. TypeOK /\ GetterInv /\ answer # Panic
  BY RingQueueAssumption DEF Init, TypeOK, GetterInv
<1> HIDE DEF p
<1>4. QueueInv
  BY <1>1, <1>2, <1>3 DEF QueueInv, RingState, RingInv
<1>5. List = Queue(value, p, start, end)
  BY <1>1, <1>2, ListIs DEF List
<1>6. List = << >>
  BY <1>5 DEF Init, Queue, Count
<1> QED BY <1>4, <1>6 DEF Init, Fifo!Init

LEMMA PutStep ==
  ASSUME RingState, NEW x \in Item, Put(x)
  PROVE  RingState' /\ Fifo!Put(x) /\ (end' = end \/ start' # end')
<1> USE Capacity
<1>1. PICK p : /\ IsRing(next, p) /\ Filled(value, p, start, end)
               /\ List = Queue(value, p, start, end)
               /\ Len(List) = Count(start, end)
               /\ p \in [0 .. N -> Node] /\ Move(next, end) = p[end]
               /\ start \in 0 .. N /\ end \in 0 .. N
  BY RingOf
<1>2. start = end + 1 \/ (end + 1 = max /\ start = 0) <=> Count(start, end) = N
  BY <1>1 DEF Count, max
<1>3. Count(start, end) \in 0 .. N
  BY <1>1 DEF Count, max
<1>4. CASE Count(start, end) = N
  <2>1. answer' = QueueFull /\ UNCHANGED << next, value, start, end, pc, seen >>
    BY <1>2, <1>4 DEF Put
  <2>2. List' = List
    BY <2>1 DEF List
  <2>3. RingState'
    BY <2>1, RingQueueAssumption DEF RingState, TypeOK, RingInv
  <2> QED BY <1>1, <1>4, <2>1, <2>2, <2>3 DEF Fifo!Put
<1>5. CASE Count(start, end) # N
  <2>1. /\ value' = [value EXCEPT ![p[end]] = x]
        /\ end' = (IF end + 1 = max THEN 0 ELSE end + 1)
        /\ answer' = Ok /\ UNCHANGED << next, start, pc, seen >>
    BY <1>1, <1>2, <1>5 DEF Put
  <2>2. /\ Filled(value', p, start', end')
        /\ Queue(value', p, start', end') = Append(Queue(value, p, start, end), x)
        /\ start' # end'
    <3> DEFINE e2 == IF end + 1 = max THEN 0 ELSE end + 1
               val2 == [value EXCEPT ![p[end]] = x]
    <3>1. /\ Filled(val2, p, start, e2)
          /\ Queue(val2, p, start, e2) = Append(Queue(value, p, start, end), x)
          /\ start # e2
      BY <1>1, <1>5, PutAppends
    <3>2. value' = val2 /\ end' = e2 /\ start' = start
      BY <2>1
    <3> HIDE DEF val2, e2
    <3> QED BY <3>1, <3>2
  <2>3. IsRing(next', p)
    BY <1>1, <2>1
  <2>4. List' = Append(List, x)
    BY <1>1, <2>2, <2>3, ListIs DEF List
  <2>5. TypeOK'
    BY <2>1, <2>2, <2>3 DEF RingState, TypeOK, Filled, IsRing
  <2>6. Count(start, end) < N
    BY <1>3, <1>5
  <2> QED BY <1>1, <2>1, <2>2, <2>3, <2>4, <2>5, <2>6 DEF RingState, RingInv, Fifo!Put
<1> QED BY <1>4, <1>5

LEMMA GetStartStep ==
  ASSUME RingState, NEW g \in Getter, GetStart(g)
  PROVE  RingState' /\ UNCHANGED << List, answer >>
<1>1. UNCHANGED << next, value, start, end, answer >>
  BY DEF GetStart
<1>2. TypeOK'
  BY DEF GetStart, RingState, TypeOK
<1> QED BY <1>1, <1>2 DEF RingState, RingInv, List

LEMMA GetEndStep ==
  ASSUME RingState, NEW g \in Getter, GetEnd(g)
  PROVE  RingState' /\ List' = List /\ (answer' = answer \/ answer' = QueueNull)
<1>1. UNCHANGED << next, value, start, end, seen >> /\ (answer' = answer \/ answer' = QueueNull)
  BY DEF GetEnd
<1>2. TypeOK'
  BY <1>1 DEF GetEnd, RingState, TypeOK
<1> QED BY <1>1, <1>2 DEF RingState, RingInv, List

\* The emptiness a Get has tested may be out of date when it has the mutex:
\* it then finds no item, and leaves the queue as it is.
LEMMA GetTakeStep ==
  ASSUME RingState, NEW g \in Getter, GetTake(g)
  PROVE  /\ RingState'
         /\ start = end => List' = List /\ answer' = Panic
         /\ start # end => Fifo!Get /\ answer' \in Item
<1> USE Capacity
<1>1. PICK p : /\ IsRing(next, p) /\ Filled(value, p, start, end)
               /\ List = Queue(value, p, start, end)
               /\ p \in [0 .. N -> Node] /\ Move(next, start) = p[start]
               /\ start \in 0 .. N /\ end \in 0 .. N
  BY RingOf
<1>2. CASE start = end
  <2>1. ~ InWindow(start, start, end)
    BY <1>1, <1>2 DEF InWindow
  <2>2. value[p[start]] = Nil
    BY <1>1, <2>1 DEF Filled
  <2>3. answer' = Panic /\ UNCHANGED << next, value, start, end, seen >>
    BY <1>1, <2>2 DEF GetTake
  <2>4. TypeOK'
    BY <2>3 DEF GetTake, RingState, TypeOK
  <2> QED BY <1>2, <2>3, <2>4 DEF RingState, RingInv, List
<1>3. CASE start # end
  <2>1. value[p[start]] # Nil
    BY <1>1, <1>3, StartHolds
  <2>2. /\ answer' = value[p[start]] /\ value' = [value EXCEPT ![p[start]] = Nil]
        /\ start' = (IF start + 1 = max THEN 0 ELSE start + 1)
        /\ pc' = [pc EXCEPT ![g] = "idle"] /\ UNCHANGED << next, end, seen >>
    BY <1>1, <2>1 DEF GetTake
  <2>3. /\ Filled(value', p, start', end')
        /\ List # << >> /\ Head(List) = value[p[start]]
        /\ Queue(value', p, start', end') = Tail(List)
    <3>1. IsRing(next, p) /\ Filled(value, p, start, end)
      BY <1>1
    <3>2. start' = (IF start + 1 = max THEN 0 ELSE start + 1) /\ end' = end
      BY <2>2
    <3>3. value' = [value EXCEPT ![p[start]] = Nil]
      BY <2>2
    <3>4. Taken(value', p, start', end, value, start)
      BY <1>3, <3>1, <3>2, <3>3, GetTakes
    <3> QED BY <1>1, <3>2, <3>4 DEF Taken
  <2>4. IsRing(next', p)
    BY <1>1, <2>2
  <2>5. List' = Tail(List)
    <3>1. List' = Queue(value', p, start', end')
      <4>1. Filled(value', p, start', end')
        BY <2>3
      <4> QED BY <2>4, <4>1, ListIs DEF List
    <3> QED BY <2>3, <3>1
  <2>6. answer' \in Item
    BY <1>1, <2>1, <2>2 DEF Filled
  <2>7. TypeOK'
    BY <2>2, <2>3, <2>4, <2>6 DEF RingState, TypeOK, Filled, IsRing
  <2> QED BY <1>3, <2>2, <2>3, <2>4, <2>5, <2>6, <2>7 DEF RingState, RingInv, Fifo!Get
<1> QED BY <1>2, <1>3

LEMMA RemoveStep ==
  ASSUME RingState, ~ RemoveHandle, NEW S, Remove(S)
  PROVE  RingState' /\ Fifo!Remove(S)
<1>1. PICK p : /\ IsRing(next, p) /\ Filled(value, p, start, end)
               /\ List = Queue(value, p, start, end)
  BY RingOf
<1> DEFINE u == Loop(S)
<1>2. /\ next' = [a \in Node |-> IF a \in Ring(u.next) THEN u.next[a] ELSE a]
      /\ value' = [a \in Node |-> IF a \in Ring(u.next) THEN u.value[a] ELSE Nil]
      /\ start' = u.start /\ end' = u.end /\ answer' = Ok /\ UNCHANGED << pc, seen >>
      /\ value[r] \notin S
  BY DEF Remove
<1>3. PICK p2 : /\ IsRing(u.next, p2)
                /\ Filled(u.value, p2, u.start, u.end)
                /\ Queue(u.value, p2, u.start, u.end) = Fifo!Without(List, S)
  BY <1>1, <1>2, WholeLoop
<1> HIDE DEF u
<1>4. Ring(u.next) = {p2[i] : i \in 0 .. N}
  BY <1>3, RingNodes
<1>5. next' = u.next
  BY <1>2, <1>3, <1>4 DEF IsRing
<1>6. p2 \in [0 .. N -> Node] /\ \A j \in 0 .. N : value'[p2[j]] = u.value[p2[j]]
  BY <1>2, <1>3, <1>4 DEF IsRing
<1>7. value' \in [Node -> Item \cup {Nil}]
  BY <1>2, <1>3 DEF Filled
<1>8. IsRing(next', p2) /\ Filled(value', p2, start', end')
  BY <1>2, <1>3, <1>5, <1>6, <1>7 DEF Filled
<1>9. Queue(value', p2, start', end') = Queue(u.value, p2, u.start, u.end)
  <2>1. u.start \in 0 .. N /\ u.end \in 0 .. N
    BY <1>3 DEF Filled
  <2>2. \A t \in 1 .. Count(u.start, u.end) : Wrap(u.start + t - 1) \in 0 .. N
    BY <2>1, Capacity DEF Count, Wrap, max
  <2> QED BY <1>2, <1>6, <2>2 DEF Queue, At
<1>10. List' = Fifo!Without(List, S)
  BY <1>3, <1>8, <1>9, ListIs DEF List
<1>11. TypeOK'
  BY <1>2, <1>8 DEF RingState, TypeOK, Filled, IsRing
<1> QED BY <1>2, <1>8, <1>10, <1>11 DEF RingState, RingInv, Fifo!Remove

LEMMA LengthStep ==
  ASSUME RingState, Length
  PROVE  RingState' /\ Fifo!Count /\ answer' \in 0 .. N
<1>1. /\ UNCHANGED << next, value, start, end, pc, seen >>
      /\ answer' = IF start < end THEN end - start
                   ELSE IF start = end THEN 0 ELSE end + max - start
  BY DEF Length
<1>2. PICK p : Len(List) = Count(start, end) /\ start \in 0 .. N /\ end \in 0 .. N
  BY RingOf
<1>3. answer' = Count(start, end) /\ answer' \in 0 .. N
  BY <1>1, <1>2, Capacity DEF Count, max
<1>4. List' = List
  BY <1>1 DEF List
<1>5. TypeOK'
  BY <1>1, <1>3 DEF RingState, TypeOK
<1> QED BY <1>1, <1>2, <1>3, <1>4, <1>5 DEF RingState, RingInv, Fifo!Count

\* The steps of the bounded FIFO, and a Get that leaves the list alone and
\* answers what it should not.
FifoOrWrongGet == Fifo!Next \/ (List' = List /\ answer' \in {Panic, QueueNull})

LEMMA CallStep ==
  ASSUME RingState, ~ RemoveHandle, [Next]_vars
  PROVE  RingState' /\ [FifoOrWrongGet]_<< List, answer >>
<1>1. CASE \E x \in Item : Put(x)
  BY <1>1, PutStep DEF FifoOrWrongGet, Fifo!Next
<1>2. CASE \E g \in Getter : GetStart(g)
  BY <1>2, GetStartStep
<1>3. CASE \E g \in Getter : GetEnd(g)
  BY <1>3, GetEndStep DEF FifoOrWrongGet
<1>4. CASE \E g \in Getter : GetTake(g)
  BY <1>4, GetTakeStep DEF FifoOrWrongGet, Fifo!Next
<1>5. CASE \E S \in SUBSET Item : Remove(S)
  BY <1>5, RemoveStep DEF FifoOrWrongGet, Fifo!Next
<1>6. CASE Length
  BY <1>6, LengthStep DEF FifoOrWrongGet, Fifo!Next
<1>7. CASE UNCHANGED vars
  BY <1>7 DEF vars, RingState, TypeOK, RingInv, List
<1> QED BY <1>1, <1>2, <1>3, <1>4, <1>5, <1>6, <1>7 DEF Next

----------------------------------------------------------------------------
(* With one consumer no Get answers what it should not.                    *)

\* A Get that finds the queue empty says so, and no Get that has found it
\* with an item loses that item to another.
LEMMA GetterStep ==
  ASSUME QueueInv, OneConsumer, [Next]_vars
  PROVE  QueueInv' /\ [Fifo!Next]_(Fifo!vars)
<1>1. RingState /\ GetterInv /\ answer # Panic /\ ~ RemoveHandle /\ ~ Shared
  BY DEF QueueInv, OneConsumer
<1>2. RingState'
  BY <1>1, CallStep
<1>3. ASSUME NEW x \in Item, Put(x)
      PROVE  QueueInv' /\ Fifo!Next
  <2>1. Fifo!Put(x) /\ (end' = end \/ start' # end')
    BY <1>1, <1>3, PutStep
  <2>2. UNCHANGED << pc, seen, start >> /\ answer' # Panic
    BY <1>3, RingQueueAssumption DEF Put
  <2> QED BY <1>1, <1>2, <2>1, <2>2 DEF QueueInv, GetterInv, Fifo!Next
<1>4. ASSUME NEW g \in Getter, GetStart(g)
      PROVE  QueueInv' /\ UNCHANGED Fifo!vars
  <2>1. UNCHANGED << List, answer >>
    BY <1>1, <1>4, GetStartStep
  <2>2. GetterInv'
    BY <1>1, <1>4 DEF GetStart, RingState, TypeOK, GetterInv
  <2> QED BY <1>1, <1>2, <2>1, <2>2 DEF QueueInv, Fifo!vars
<1>5. ASSUME NEW g \in Getter, GetEnd(g)
      PROVE  QueueInv' /\ [Fifo!Next]_(Fifo!vars)
  <2>1. UNCHANGED << next, value, start, end, seen >> /\ seen[g] = start
    BY <1>1, <1>5 DEF GetEnd, GetterInv
  <2>2. GetterInv' /\ answer' # Panic
    BY <1>1, <1>5, <2>1, RingQueueAssumption DEF GetEnd, RingState, TypeOK, GetterInv
  <2>3. List' = List
    BY <1>1, <1>5, GetEndStep
  <2>4. CASE start = end
    <3>1. answer' = QueueNull
      BY <1>5, <2>1, <2>4 DEF GetEnd
    <3>2. PICK p : List = Queue(value, p, start, end) /\ start \in 0 .. N
      BY <1>1, RingOf
    <3>3. List = << >>
      BY <2>4, <3>2 DEF Queue, Count
    <3> QED BY <1>2, <2>2, <2>3, <3>1, <3>3 DEF QueueInv, Fifo!Get, Fifo!Next
  <2>5. CASE start # end
    BY <1>2, <1>5, <2>1, <2>2, <2>3, <2>5 DEF GetEnd, QueueInv, Fifo!vars
  <2> QED BY <2>4, <2>5
<1>6. ASSUME NEW g \in Getter, GetTake(g)
      PROVE  QueueInv' /\ Fifo!Next
  <2>1. start # end
    BY <1>1, <1>6 DEF GetterInv, GetTake
  <2>2. Fifo!Get /\ answer' # Panic
    BY <1>1, <1>6, <2>1, GetTakeStep, RingQueueAssumption
  <2>3. GetterInv'
    BY <1>1, <1>6 DEF GetTake, RingState, TypeOK, GetterInv, OneConsumer
  <2> QED BY <1>2, <2>2, <2>3 DEF QueueInv, Fifo!Next
<1>7. ASSUME NEW S \in SUBSET Item, Remove(S)
      PROVE  QueueInv' /\ Fifo!Next
  <2>1. Fifo!Remove(S)
    BY <1>1, <1>7, RemoveStep
  <2>2. UNCHANGED << pc, seen >> /\ answer' # Panic /\ \A g \in Getter : pc[g] = "idle"
    BY <1>1, <1>7, RingQueueAssumption DEF Remove
  <2> QED BY <1>2, <2>1, <2>2 DEF QueueInv, GetterInv, Fifo!Next
<1>8. ASSUME Length
      PROVE  QueueInv' /\ Fifo!Next
  <2>1. Fifo!Count /\ answer' # Panic
    BY <1>1, <1>8, LengthStep, RingQueueAssumption
  <2>2. UNCHANGED << start, end, pc, seen >>
    BY <1>8 DEF Length
  <2> QED BY <1>1, <1>2, <2>1, <2>2 DEF QueueInv, GetterInv, Fifo!Next
<1>9. CASE UNCHANGED vars
  BY <1>1, <1>2, <1>9 DEF vars, QueueInv, GetterInv, List, Fifo!vars
<1> QED BY <1>3, <1>4, <1>5, <1>6, <1>7, <1>8, <1>9 DEF Next

----------------------------------------------------------------------------
(* The theorems.                                                           *)

\* The ring stays a ring, filled at the window and nowhere else, whatever calls
\* Put, Get, Len and Remove, as long as Remove spares the item of node r.
THEOREM RingInvariant ==
  ASSUME ~ RemoveHandle
  PROVE  Spec => []RingState
<1>1. Init => RingState
  BY InitRing DEF QueueInv
<1>2. RingState /\ [Next]_vars => RingState'
  BY CallStep
<1> QED BY <1>1, <1>2, PTL DEF Spec

\* With one consumer, what a Get has read before it locks is still so then.
THEOREM QueueInvariant ==
  ASSUME OneConsumer
  PROVE  Spec => []QueueInv
<1>1. QueueInv /\ [Next]_vars => QueueInv'
  BY GetterStep
<1> QED BY <1>1, InitRing, PTL DEF Spec

\* The indices, links and values keep their types, for queues of any
\* capacity and any number of consumers.
THEOREM QueueTypeCorrect ==
  ASSUME ~ RemoveHandle
  PROVE  Spec => []TypeOK
<1>1. RingState => TypeOK
  BY DEF RingState
<1> QED BY <1>1, RingInvariant, PTL

\* The nodes of the window hold items and the other nodes none, whatever
\* Remove has relinked and however many consumers call Get: a Get that panics
\* leaves no hole.
THEOREM WindowExactHolds ==
  ASSUME ~ RemoveHandle
  PROVE  Spec => []WindowExact
<1>1. RingState => WindowExact
  BY ExactWindow DEF RingState
<1> QED BY <1>1, RingInvariant, PTL

\* However many consumers test for emptiness without the mutex, and though
\* Remove runs between their test and their lock, the contents go through the
\* queue first in, first out, each item to one Get. What can go wrong is the
\* answer of a Get: a panic, or QueueNull from an index that is out of date.
THEOREM ConsumersKeepOrder ==
  ASSUME ~ RemoveHandle
  PROVE  Spec => [][FifoOrWrongGet]_<< List, answer >>
<1>1. RingState /\ [Next]_vars => [FifoOrWrongGet]_<< List, answer >>
  BY CallStep
<1> QED BY <1>1, RingInvariant, PTL DEF Spec

\* A single consumer's Get never panics, though it tests for emptiness
\* without the mutex.
THEOREM OneConsumerNeverPanics ==
  ASSUME OneConsumer
  PROVE  Spec => []GetNeverPanics
<1>1. QueueInv => GetNeverPanics
  BY DEF QueueInv, GetNeverPanics
<1> QED BY <1>1, QueueInvariant, PTL

\* With one consumer every call does to the list, at one moment, what it does
\* to a bounded FIFO, and answers the same.
THEOREM IsBoundedQueueHolds ==
  ASSUME OneConsumer
  PROVE  Spec => IsBoundedQueue
<1>1. QueueInv /\ [Next]_vars => [Fifo!Next]_(Fifo!vars)
  BY GetterStep
<1>2. Init => Fifo!Init
  BY InitRing
<1> QED BY <1>1, <1>2, QueueInvariant, PTL DEF Spec, IsBoundedQueue, Fifo!Spec

==============================================================================
