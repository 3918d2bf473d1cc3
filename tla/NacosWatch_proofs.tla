-------------------------- MODULE NacosWatch_proofs --------------------------
(***************************************************************************)
(* Proofs about NacosWatch, for any keys, listeners and number of          *)
(* versions: the watcher keeps one target for a key with all its           *)
(* listeners, gives a listener what was published under its key only, gives *)
(* its listeners last what it has noted, and lets no backoff go further    *)
(* than the calls of ListenConfig take it.                                 *)
(***************************************************************************)
EXTENDS NacosWatch, FiniteSetTheorems, TLAPS

----------------------------------------------------------------------------
(* The inductive invariant.                                                *)

\* Where a query is in runItemWatch.
Running ==
  {"asking", "answered", "comparing", "first", "changed", "calling"} \cup InQueryItem

\* Every listener has a key, and loopWatch while it looks at a target.
KeyInv ==
  /\ \A l \in Listener : key[l] \in Key
  /\ pc[Loop] \in Running => key[Loop] \in Key /\ Of(key[Loop]) # {}

\* What the server has was published, each version under one key.
ContentInv ==
  \A k \in Key : content[k] # Nothing =>
    content[k] \in DOMAIN published /\ published[content[k]] = k

\* Where it has been answered with a configuration.
Answered == {"comparing", "first", "changed", "calling"}

\* So was what a query was answered, under the key it asked for; a query that
\* backs off has no answer, and loopWatch has forgotten its own before it goes to
\* another key.
DataInv ==
  /\ \A p \in Query : data[p] \in Version =>
       data[p] \in DOMAIN published /\ published[data[p]] = key[p]
  /\ \A p \in Query : pc[p] \in Answered \cup {"returning"} => data[p] # Nothing
  /\ \A p \in Query : pc[p] \in InQueryItem => data[p] = Nothing
  /\ pc[Loop] \notin Running => data[Loop] = Nothing

\* No two targets have the same key.
UniqueInv ==
  \A i, j \in DOMAIN targets : targets[i].key = targets[j].key => i = j

\* A listener past Register is in a target of its key, and in no other.
PlacedInv ==
  /\ \A l \in Listener : pc[l] \notin {"idle", "missing"} =>
       \E i \in Of(key[l]) : l \in targets[i].onChanges
  /\ \A i \in DOMAIN targets : \A l \in targets[i].onChanges : key[l] = targets[i].key

\* A query calls listeners of its own key, and between two rounds nobody.
TodoInv ==
  \A p \in Query :
    /\ \A l \in todo[p] : key[l] = key[p]
    /\ pc[p] # "calling" => todo[p] = {}

\* A configuration a listener was given last was published under its key.
GivenInv ==
  \A l \in Listener : given[l] \in Version =>
    given[l] \in DOMAIN published /\ published[given[l]] = key[l]

WatchInv ==
  /\ TypeOK
  /\ Len(published) <= MaxVersion
  /\ KeyInv /\ ContentInv /\ DataInv /\ UniqueInv /\ PlacedInv /\ TodoInv /\ GivenInv

\* The calls of ListenConfig that do nothing to a backoff any more.
SpentPoint ==
  {"comparing", "first", "changed", "calling", "returning", "listening", "unanswered"}

Spent == {l \in Listener : pc[l] \in SpentPoint}

\* How far the backoffs have gone. What loopWatch is about to double is one less,
\* since it was within the limit when loopWatch looked and each call that has
\* stored something since then is spent.
BackoffInv ==
  /\ \A i \in DOMAIN targets :
       targets[i].backoff <= BackoffLimit + 1 + 2 * Cardinality(Spent)
  /\ \A l \in Listener : pc[l] = "storing" =>
       read[l] <= BackoffLimit + 1 + 2 * Cardinality(Spent)
  /\ pc[Loop] = "storing" => read[Loop] <= BackoffLimit + 2 * Cardinality(Spent)
  /\ pc[Loop] = "doubling" => \A i \in Of(key[Loop]) :
       targets[i].backoff <= BackoffLimit + 2 * Cardinality(Spent)

----------------------------------------------------------------------------
(* Lemmas about the targets.                                               *)

\* Sets of listeners are finite.
LEMMA ListenersFinite ==
  /\ Cardinality(Listener) \in Nat /\ BackoffLimit \in Nat
  /\ \A S \in SUBSET Listener : /\ IsFiniteSet(S) /\ Cardinality(S) \in Nat
                               /\ Cardinality(S) <= Cardinality(Listener)
                               /\ \A T \in SUBSET S : Cardinality(T) <= Cardinality(S)
<1>1. IsFiniteSet(Listener) /\ BackoffLimit \in Nat
  BY NacosWatchAssumption
<1>2. ASSUME NEW S \in SUBSET Listener
      PROVE  /\ IsFiniteSet(S) /\ Cardinality(S) \in Nat
             /\ Cardinality(S) <= Cardinality(Listener)
  BY <1>1, FS_Subset, FS_CardinalityType
<1>3. ASSUME NEW S \in SUBSET Listener, NEW T \in SUBSET S
      PROVE  Cardinality(T) <= Cardinality(S)
  BY <1>2, FS_Subset
<1> QED BY <1>1, <1>2, <1>3, FS_CardinalityType

\* The target of a key is the only one.
LEMMA TheTarget ==
  ASSUME targets \in Seq(TargetType), UniqueInv, NEW k, NEW i \in Of(k)
  PROVE  Of(k) = {i} /\ First(k) = i
<1>1. Of(k) = {i}
  BY DEF Of, UniqueInv
<1>2. First(k) = CHOOSE j \in {i} : \A m \in {i} : j <= m
  BY <1>1 DEF First
<1>3. i \in Nat
  BY DEF Of
<1> QED BY <1>1, <1>2, <1>3

\* What the type of the targets says of each.
LEMMA TargetTypes ==
  ASSUME WatchInv
  PROVE  \A i \in DOMAIN targets :
           /\ targets[i] \in TargetType
           /\ targets[i].key \in Key /\ targets[i].onChanges \subseteq Listener
           /\ targets[i].backoff \in 0 .. MaxBackoff
<1>1. \A i \in DOMAIN targets : targets[i] \in TargetType
  BY DEF WatchInv, TypeOK
<1>2. \A t \in TargetType : /\ t.key \in Key /\ t.onChanges \subseteq Listener
                            /\ t.backoff \in 0 .. MaxBackoff
  BY DEF TargetType
<1> QED BY <1>1, <1>2

\* What a step that changes hashes and backoffs leaves as it was.
Kept ==
  /\ targets' \in Seq(TargetType)
  /\ DOMAIN targets' = DOMAIN targets
  /\ \A i \in DOMAIN targets :
       targets'[i].key = targets[i].key /\ targets'[i].onChanges = targets[i].onChanges

LEMMA KeptTargets ==
  ASSUME Kept
  PROVE  /\ \A k : Of(k)' = Of(k)
         /\ UniqueInv => UniqueInv'
         /\ (\A l \in Listener : pc'[l] \notin {"idle", "missing"} => pc[l] \notin {"idle", "missing"})
            /\ key' = key /\ PlacedInv => PlacedInv'
<1>1. \A k : Of(k)' = Of(k)
  BY DEF Kept, Of
<1>2. UniqueInv => UniqueInv'
  BY DEF Kept, UniqueInv
<1>3. ASSUME \A l \in Listener : pc'[l] \notin {"idle", "missing"} => pc[l] \notin {"idle", "missing"},
             key' = key, PlacedInv
      PROVE  PlacedInv'
  <2>1. ASSUME NEW l \in Listener, pc'[l] \notin {"idle", "missing"}
        PROVE  \E i \in DOMAIN targets' : targets'[i].key = key'[l] /\ l \in targets'[i].onChanges
    <3>1. PICK i \in Of(key[l]) : l \in targets[i].onChanges
      BY <1>3, <2>1 DEF PlacedInv
    <3> QED BY <1>3, <3>1 DEF Kept, Of
  <2>2. \A i \in DOMAIN targets' : \A l \in targets'[i].onChanges : key'[l] = targets'[i].key
    BY <1>3 DEF Kept, PlacedInv
  <2> QED BY <2>1, <2>2 DEF PlacedInv, Of
<1> QED BY <1>1, <1>2, <1>3

----------------------------------------------------------------------------
(* One step for each action.                                               *)

LEMMA WatchInvInit == Init => WatchInv
<1> SUFFICES ASSUME Init
             PROVE  WatchInv
  OBVIOUS
<1>1. published = << >> /\ Len(published) = 0 /\ targets = << >> /\ DOMAIN targets = {}
      /\ items = << >>
  BY DEF Init
<1>2. TypeOK
  <2>1. 0 \in 0 .. MaxBackoff
    BY ListenersFinite DEF MaxBackoff
  <2> QED BY <1>1, <2>1 DEF Init, TypeOK, TargetType, Query, Tick, Point
<1>3. KeyInv
  BY NacosWatchAssumption DEF Init, KeyInv, Running, InQueryItem, Query
<1>4. ContentInv /\ DataInv /\ TodoInv /\ GivenInv
  BY NacosWatchAssumption DEF Init, ContentInv, DataInv, TodoInv, GivenInv, Query, Answered
<1>5. UniqueInv /\ PlacedInv
  BY <1>1 DEF Init, UniqueInv, PlacedInv, Query
<1> QED BY <1>1, <1>2, <1>3, <1>4, <1>5, NacosWatchAssumption DEF WatchInv

\* A version is published once, after all those that are there.
LEMMA PublishStep ==
  ASSUME NEW k \in Key, WatchInv, PublishConfig(k)
  PROVE  WatchInv'
<1>1. /\ published \in Seq(Key) /\ Len(published) \in Nat /\ Len(published) < MaxVersion
      /\ DOMAIN published = 1 .. Len(published)
      /\ published' = Append(published, k)
      /\ content' = [content EXCEPT ![k] = Len(published) + 1]
      /\ UNCHANGED << targets, pc, key, data, todo, loopVars, read, given >>
  BY DEF WatchInv, TypeOK, PublishConfig
<1>2. /\ published' \in Seq(Key) /\ Len(published') = Len(published) + 1
      /\ DOMAIN published' = 1 .. Len(published) + 1
      /\ published'[Len(published) + 1] = k
      /\ \A v \in DOMAIN published : v \in DOMAIN published' /\ published'[v] = published[v]
  BY <1>1
<1>3. Len(published) + 1 \in Version /\ Len(published') <= MaxVersion
  BY <1>1, <1>2, NacosWatchAssumption DEF Version
<1>4. TypeOK'
  BY <1>1, <1>2, <1>3 DEF WatchInv, TypeOK, loopVars
<1>5. ContentInv'
  <2>1. ASSUME NEW j \in Key, content'[j] # Nothing
        PROVE  content'[j] \in DOMAIN published' /\ published'[content'[j]] = j
    <3>1. CASE j = k
      BY <1>1, <1>2, <3>1 DEF WatchInv, TypeOK
    <3>2. CASE j # k
      <4>1. content'[j] = content[j]
        BY <1>1, <3>2 DEF WatchInv, TypeOK
      <4> QED BY <1>2, <2>1, <4>1 DEF WatchInv, ContentInv
    <3> QED BY <3>1, <3>2
  <2> QED BY <2>1 DEF ContentInv
<1>6. DataInv'
  BY <1>1, <1>2 DEF WatchInv, DataInv
<1>7. GivenInv'
  BY <1>1, <1>2 DEF WatchInv, GivenInv
<1>8. KeyInv' /\ UniqueInv' /\ PlacedInv' /\ TodoInv'
  BY <1>1 DEF WatchInv, KeyInv, UniqueInv, PlacedInv, TodoInv, Of
<1> QED BY <1>3, <1>4, <1>5, <1>6, <1>7, <1>8 DEF WatchInv

LEMMA DeleteStep ==
  ASSUME NEW k \in Key, WatchInv, DeleteConfig(k)
  PROVE  WatchInv'
<1>1. /\ content' = [content EXCEPT ![k] = Nothing]
      /\ UNCHANGED << published, targets, pc, key, data, todo, loopVars, read, given >>
  BY DEF DeleteConfig
<1>2. TypeOK'
  BY <1>1 DEF WatchInv, TypeOK, loopVars
<1>3. ContentInv'
  BY <1>1 DEF WatchInv, TypeOK, ContentInv
<1> QED BY <1>1, <1>2, <1>3 DEF WatchInv, KeyInv, DataInv, UniqueInv, PlacedInv, TodoInv, GivenInv, Of

\* What Registered does to the calls of the others: a listener of the same key
\* may be called.
LEMMA RegisteredStep ==
  ASSUME NEW l \in Listener, WatchInv, Registered(l), key' = key
  PROVE  /\ pc' \in [Query -> Point]
         /\ todo' \in [Query -> SUBSET Listener]
         /\ pc'[l] = "asking"
         /\ \A p \in Query \ {l} : pc'[p] = pc[p] \/ (pc[p] = "idle" /\ pc'[p] = "select" /\ p = Loop)
         /\ pc[l] \in {"idle", "missing"} => TodoInv'
<1>1. PICK S \in SUBSET {p \in Query : pc[p] = "calling" /\ key[p] = key[l]} :
        todo' = [p \in Query |-> IF p \in S THEN todo[p] \cup {l} ELSE todo[p]]
  BY DEF Registered
<1>2. pc' = [pc EXCEPT ![l] = "asking", ![Loop] = IF @ = "idle" THEN "select" ELSE @]
  BY DEF Registered
<1>3. l \in Query /\ Loop \in Query /\ l # Loop
  BY NacosWatchAssumption DEF Query
<1>4. /\ pc' \in [Query -> Point]
      /\ pc'[l] = "asking"
      /\ \A p \in Query \ {l} : pc'[p] = pc[p] \/ (pc[p] = "idle" /\ pc'[p] = "select" /\ p = Loop)
  <2>1. pc \in [Query -> Point]
    BY DEF WatchInv, TypeOK
  <2>2. /\ pc' = [[pc EXCEPT ![l] = "asking"] EXCEPT
                  ![Loop] = IF pc[Loop] = "idle" THEN "select" ELSE pc[Loop]]
    BY <1>2, <1>3, <2>1
  <2> QED BY <1>3, <2>1, <2>2 DEF Point
<1>5. todo' \in [Query -> SUBSET Listener]
  <2>1. ASSUME NEW p \in Query
        PROVE  (IF p \in S THEN todo[p] \cup {l} ELSE todo[p]) \in SUBSET Listener
    <3>1. todo[p] \subseteq Listener
      BY DEF WatchInv, TypeOK
    <3> QED BY <3>1
  <2> QED BY <1>1, <2>1
<1>6. ASSUME pc[l] \in {"idle", "missing"}
      PROVE  TodoInv'
  <2>1. ASSUME NEW p \in Query
        PROVE  /\ \A m \in todo'[p] : key[m] = key[p]
               /\ pc'[p] # "calling" => todo'[p] = {}
    <3>1. \A m \in todo[p] : key[m] = key[p]
      BY DEF WatchInv, TodoInv
    <3>2. pc[p] # "calling" => todo[p] = {}
      BY DEF WatchInv, TodoInv
    <3>3. p \in S => pc[p] = "calling" /\ key[p] = key[l] /\ p # l
      BY <1>1, <1>6
    <3>4. pc[p] = "calling" => pc'[p] = "calling"
      BY <1>4, <1>6
    <3> QED BY <1>1, <3>1, <3>2, <3>3, <3>4
  <2> QED BY <2>1 DEF TodoInv
<1> QED BY <1>4, <1>5, <1>6

\* loopWatch goes on looking at a target that is there.
LEMMA KeyStep ==
  ASSUME WatchInv, key' = key, pc'[Loop] \in Running => pc[Loop] \in Running,
         Of(key[Loop]) # {} => Of(key[Loop])' # {}
  PROVE  KeyInv'
BY DEF WatchInv, KeyInv

\* A listener is added to the target of its key.
LEMMA AddListenerStep ==
  ASSUME NEW l \in Listener, WatchInv, pc[l] \in {"idle", "missing"}, Of(key[l]) # {},
         AddListener(First(key[l]), l), Registered(l),
         UNCHANGED << serverVars, key, data, loopVars, read, given >>
  PROVE  WatchInv'
<1>1. PICK i \in Of(key[l]) : First(key[l]) = i
  BY TheTarget DEF WatchInv, TypeOK
<1>2. /\ i \in DOMAIN targets /\ targets[i].key = key[l]
      /\ targets' = [targets EXCEPT ![i].onChanges = @ \cup {l}]
      /\ targets \in Seq(TargetType)
  BY <1>1 DEF Of, AddListener, WatchInv, TypeOK
<1> DEFINE t == [targets[i] EXCEPT !.onChanges = @ \cup {l}]
<1>10. targets[i] \in TargetType
  BY <1>2
<1>11. t \in TargetType /\ t.key = targets[i].key /\ t.onChanges = targets[i].onChanges \cup {l}
  <2>1. targets[i].onChanges \cup {l} \in SUBSET Listener
    BY <1>10 DEF TargetType
  <2> QED BY <1>10, <2>1 DEF TargetType
<1>12. targets' = [targets EXCEPT ![i] = t]
  BY <1>2
<1> HIDE DEF t
<1>3. /\ DOMAIN targets' = DOMAIN targets
      /\ \A j \in DOMAIN targets : targets'[j].key = targets[j].key
      /\ \A j \in DOMAIN targets \ {i} : targets'[j].onChanges = targets[j].onChanges
      /\ targets'[i].onChanges = targets[i].onChanges \cup {l}
  BY <1>2, <1>11, <1>12
<1>4. targets' \in Seq(TargetType)
  <2>1. targets \in Seq(TargetType) /\ i \in DOMAIN targets
    BY <1>2
  <2>2. t \in TargetType
    BY <1>11
  <2> QED BY <1>12, <2>1, <2>2
<1>5. TypeOK'
  BY <1>3, <1>4, RegisteredStep DEF WatchInv, TypeOK, serverVars, loopVars
<1>6. UniqueInv'
  BY <1>3 DEF WatchInv, UniqueInv
<1>7. PlacedInv'
  <2>1. ASSUME NEW m \in Listener, pc'[m] \notin {"idle", "missing"}
        PROVE  \E j \in DOMAIN targets' : targets'[j].key = key'[m] /\ m \in targets'[j].onChanges
    <3>1. CASE m = l
      BY <1>2, <1>3, <3>1
    <3>2. CASE m # l
      <4>1. pc[m] \notin {"idle", "missing"}
        BY <2>1, <3>2, RegisteredStep, NacosWatchAssumption DEF Query
      <4>2. PICK j \in Of(key[m]) : m \in targets[j].onChanges
        BY <4>1 DEF WatchInv, PlacedInv
      <4> QED BY <1>3, <4>2 DEF Of
    <3> QED BY <3>1, <3>2
  <2>2. \A j \in DOMAIN targets' : \A m \in targets'[j].onChanges : key'[m] = targets'[j].key
    BY <1>2, <1>3 DEF WatchInv, PlacedInv
  <2> QED BY <2>1, <2>2 DEF PlacedInv, Of
<1>8. KeyInv'
  <2>1. Of(key[Loop])' = Of(key[Loop])
    BY <1>3 DEF Of
  <2>2. pc'[Loop] \in Running => pc[Loop] \in Running
    BY RegisteredStep, NacosWatchAssumption DEF Query, Running, InQueryItem
  <2> QED BY <2>1, <2>2, KeyStep
<1>9. DataInv'
  BY RegisteredStep, NacosWatchAssumption DEF WatchInv, DataInv, serverVars, Query, Running, InQueryItem, Answered
<1> QED BY <1>5, <1>6, <1>7, <1>8, <1>9, RegisteredStep
        DEF WatchInv, ContentInv, GivenInv, serverVars

\* A target is appended for a key that has none.
LEMMA AppendTargetStep ==
  ASSUME NEW l \in Listener, WatchInv, pc[l] = "missing", Of(key[l]) = {},
         AppendTarget(l), Registered(l),
         UNCHANGED << serverVars, key, data, loopVars, read, given >>
  PROVE  WatchInv'
<1> DEFINE t == [key |-> key[l], lastHash |-> Nothing, backoff |-> 0, onChanges |-> {l}]
           n == Len(targets) + 1
<1>1. /\ targets \in Seq(TargetType) /\ Len(targets) \in Nat /\ DOMAIN targets = 1 .. Len(targets)
      /\ targets' = Append(targets, t)
  BY DEF AppendTarget, WatchInv, TypeOK
<1>2. t \in TargetType /\ t.key = key[l] /\ t.onChanges = {l}
  BY ListenersFinite DEF WatchInv, KeyInv, TargetType, MaxBackoff
<1> HIDE DEF t
<1>3. /\ targets' \in Seq(TargetType) /\ DOMAIN targets' = 1 .. n
      /\ targets'[n] = t
      /\ \A i \in DOMAIN targets : i \in DOMAIN targets' /\ i # n /\ targets'[i] = targets[i]
      /\ \A i \in DOMAIN targets' : i = n \/ i \in DOMAIN targets
  BY <1>1, <1>2
<1>4. \A i \in DOMAIN targets : targets[i].key # key[l]
  BY DEF Of
<1> HIDE DEF n
<1>5. TypeOK'
  <2>1. items' \in Seq(DOMAIN targets')
    <3>1. items \in Seq(DOMAIN targets) /\ items' = items
      BY DEF WatchInv, TypeOK, loopVars
    <3>2. DOMAIN targets \subseteq DOMAIN targets'
      BY <1>3
    <3> HIDE DEF n
    <3> QED BY <3>1, <3>2
  <2> QED BY <1>3, <2>1, RegisteredStep DEF WatchInv, TypeOK, serverVars, loopVars
<1>6. UniqueInv'
  BY <1>2, <1>3, <1>4 DEF WatchInv, UniqueInv
<1>7. PlacedInv'
  <2>1. ASSUME NEW m \in Listener, pc'[m] \notin {"idle", "missing"}
        PROVE  \E j \in DOMAIN targets' : targets'[j].key = key'[m] /\ m \in targets'[j].onChanges
    <3>1. CASE m = l
      <4>1. n \in DOMAIN targets'
        BY <1>1, <1>3 DEF n
      <4> QED BY <1>2, <1>3, <3>1, <4>1
    <3>2. CASE m # l
      <4>1. pc[m] \notin {"idle", "missing"}
        BY <2>1, <3>2, RegisteredStep, NacosWatchAssumption DEF Query
      <4>2. PICK j \in Of(key[m]) : m \in targets[j].onChanges
        BY <4>1 DEF WatchInv, PlacedInv
      <4> QED BY <1>3, <4>2 DEF Of
    <3> QED BY <3>1, <3>2
  <2>2. \A j \in DOMAIN targets' : \A m \in targets'[j].onChanges : key'[m] = targets'[j].key
    BY <1>2, <1>3 DEF WatchInv, PlacedInv
  <2> QED BY <2>1, <2>2 DEF PlacedInv, Of
<1>8. KeyInv'
  <2>1. Of(key[Loop]) # {} => Of(key[Loop])' # {}
    BY <1>3 DEF Of
  <2>2. pc'[Loop] \in Running => pc[Loop] \in Running
    BY RegisteredStep, NacosWatchAssumption DEF Query, Running, InQueryItem
  <2> QED BY <2>1, <2>2, KeyStep
<1>9. DataInv'
  BY RegisteredStep, NacosWatchAssumption DEF WatchInv, DataInv, serverVars, Query, Running, InQueryItem, Answered
<1> QED BY <1>5, <1>6, <1>7, <1>8, <1>9, RegisteredStep
        DEF WatchInv, ContentInv, GivenInv, serverVars

LEMMA RegisterStep ==
  ASSUME NEW l \in Listener, WatchInv, RegisterShared(l) \/ RegisterExclusive(l)
  PROVE  WatchInv'
<1>1. ASSUME pc' = [pc EXCEPT ![l] = "missing"], pc[l] = "idle",
             UNCHANGED << targets, todo, serverVars, key, data, loopVars, read, given >>
      PROVE  WatchInv'
  <2>1. TypeOK'
    BY <1>1 DEF WatchInv, TypeOK, Point, serverVars, loopVars
  <2>2. /\ pc'[Loop] = pc[Loop]
        /\ \A p \in Query : pc'[p] # pc[p] => pc'[p] = "missing" /\ pc[p] = "idle"
    BY <1>1, NacosWatchAssumption DEF WatchInv, TypeOK, Query
  <2>3. KeyInv' /\ DataInv' /\ UniqueInv' /\ TodoInv'
    BY <1>1, <2>2 DEF WatchInv, KeyInv, DataInv, UniqueInv, TodoInv, Of, serverVars, Answered,
                      InQueryItem
  <2>4. PlacedInv'
    BY <1>1, <2>2 DEF WatchInv, PlacedInv, Of, Query
  <2> QED BY <1>1, <2>1, <2>3, <2>4 DEF WatchInv, ContentInv, GivenInv, serverVars
<1> QED BY <1>1, AddListenerStep, AppendTargetStep DEF RegisterShared, RegisterExclusive

----------------------------------------------------------------------------
(* loopWatch.                                                              *)

\* Steps of loopWatch that change nothing but its own variables.
LEMMA LoopStep ==
  ASSUME WatchInv, pc[Loop] \notin Running,
         pc' = [pc EXCEPT ![Loop] = pc'[Loop]],
         pc'[Loop] \in {"select", "items", "asking"},
         key' = [key EXCEPT ![Loop] = key'[Loop]],
         key'[Loop] \in Key \cup {Nothing},
         pc'[Loop] = "asking" => key'[Loop] \in Key /\ Of(key'[Loop]) # {},
         tick' \in Tick \cup {"none"}, items' \in Seq(DOMAIN targets),
         UNCHANGED << serverVars, targets, data, todo, read, given >>
  PROVE  WatchInv'
<1>1. Loop \in Query /\ \A l \in Listener : l \in Query /\ l # Loop
  BY NacosWatchAssumption DEF Query
<1>2. /\ \A p \in Query \ {Loop} : pc'[p] = pc[p] /\ key'[p] = key[p]
      /\ \A l \in Listener : pc'[l] = pc[l] /\ key'[l] = key[l]
  BY <1>1 DEF WatchInv, TypeOK
<1>3. TypeOK'
  BY <1>1 DEF WatchInv, TypeOK, Point, serverVars
<1>4. KeyInv'
  BY <1>2 DEF WatchInv, KeyInv, Running, InQueryItem, Of
<1>5. DataInv'
  BY <1>1, <1>2, NacosWatchAssumption DEF WatchInv, DataInv, serverVars, Answered
<1>6. UniqueInv' /\ ContentInv' /\ Len(published') <= MaxVersion
  BY DEF WatchInv, UniqueInv, ContentInv, serverVars
<1>7. PlacedInv'
  <2>1. \A l \in Listener : (pc'[l] = pc[l] /\ key'[l] = key[l])
    BY <1>2
  <2>2. \A k : Of(k)' = Of(k)
    BY DEF Of
  <2> QED BY <2>1, <2>2, TargetTypes DEF WatchInv, PlacedInv, Of
<1>8. TodoInv'
  <2>1. todo[Loop] = {}
    BY <1>1 DEF WatchInv, TodoInv, Running, InQueryItem
  <2>2. \A p \in Query : todo[p] \subseteq Listener
    BY DEF WatchInv, TypeOK
  <2> QED BY <1>2, <2>1, <2>2 DEF WatchInv, TodoInv
<1>9. GivenInv'
  BY <1>2 DEF WatchInv, GivenInv, serverVars
<1> QED BY <1>3, <1>4, <1>5, <1>6, <1>7, <1>8, <1>9 DEF WatchInv

LEMMA LoopSteps ==
  ASSUME WatchInv, (\E t \in Tick : Ticks(t)) \/ WatchItem \/ PassItem \/ EndItems
  PROVE  WatchInv'
<1> USE DEF Running, InQueryItem, Answered
<1>1. /\ Loop \in Query /\ pc \in [Query -> Point]
      /\ key \in [Query -> Key \cup {Nothing}]
      /\ targets \in Seq(TargetType)
      /\ items \in Seq(DOMAIN targets)
      /\ tick \in Tick \cup {"none"}
  BY DEF WatchInv, TypeOK, Query
<1>2. ASSUME NEW t \in Tick, Ticks(t)
      PROVE  WatchInv'
  <2>1. items' \in Seq(DOMAIN targets)
    BY <1>1, <1>2 DEF Ticks
  <2> QED BY <1>1, <1>2, <2>1, LoopStep DEF Ticks
<1>3. CASE WatchItem
  <2>1. Head(items) \in DOMAIN targets /\ Tail(items) \in Seq(DOMAIN targets)
    BY <1>1, <1>3 DEF WatchItem
  <2>2. Item.key \in Key /\ Head(items) \in Of(Item.key)
    <3>1. targets[Head(items)] \in TargetType
      BY <1>1, <2>1
    <3> QED BY <2>1, <3>1 DEF Item, TargetType, Of
  <2>3. key'[Loop] = Item.key
    BY <1>1, <1>3 DEF WatchItem
  <2>4. pc'[Loop] = "asking" /\ pc[Loop] = "items"
    BY <1>1, <1>3 DEF WatchItem
  <2> HIDE DEF Item
  <2> QED BY <1>1, <1>3, <2>1, <2>2, <2>3, <2>4, LoopStep DEF WatchItem
<1>4. CASE PassItem
  <2>1. Tail(items) \in Seq(DOMAIN targets)
    BY <1>1, <1>4 DEF PassItem
  <2> QED BY <1>1, <1>4, <2>1, LoopStep DEF PassItem
<1>5. CASE EndItems
  BY <1>1, <1>5, LoopStep DEF EndItems
<1> QED BY <1>2, <1>3, <1>4, <1>5

----------------------------------------------------------------------------
(* runItemWatch.                                                           *)

\* A query under way has a key with a target.
LEMMA HasTarget ==
  ASSUME WatchInv, NEW p \in Query, pc[p] \in Running
  PROVE  /\ key[p] \in Key
         /\ \E i \in DOMAIN targets : First(key[p]) = i /\ targets[i].key = key[p]
<1>1. key[p] \in Key /\ Of(key[p]) # {}
  <2>1. CASE p = Loop
    BY <2>1 DEF WatchInv, KeyInv
  <2>2. CASE p \in Listener
    BY <2>2 DEF WatchInv, KeyInv, PlacedInv, Running, InQueryItem
  <2> QED BY <2>1, <2>2 DEF Query
<1>2. PICK i \in Of(key[p]) : TRUE
  BY <1>1
<1>3. First(key[p]) = i
  BY TheTarget DEF WatchInv, TypeOK
<1> QED BY <1>1, <1>3 DEF Of

\* A query goes on, or is over; what it was answered is what it found or a
\* configuration of its key.
LEMMA QueryStep ==
  ASSUME WatchInv, NEW p \in Query, Kept,
         pc[p] \in Running \/ (p # Loop /\ pc[p] = "returning"),
         pc' = [pc EXCEPT ![p] = pc'[p]],
         pc'[p] \in Running \cup
           (IF p = Loop THEN {"items"} ELSE {"returning", "listening", "unanswered"}),
         key' = [key EXCEPT ![p] = key'[p]], data' = [data EXCEPT ![p] = data'[p]],
         key'[p] = key[p] \/ (p = Loop /\ pc'[p] = "items" /\ key'[p] = Nothing),
         data'[p] \in Reply \cup {Nothing},
         data'[p] \in Version =>
           data'[p] \in DOMAIN published /\ published[data'[p]] = key'[p],
         (pc'[p] \notin Running /\ p = Loop) => data'[p] = Nothing,
         pc'[p] \in Answered \cup {"returning"} => data'[p] # Nothing,
         pc'[p] \in InQueryItem => data'[p] = Nothing,
         todo' = [todo EXCEPT ![p] = todo'[p]],
         todo'[p] \subseteq Listener,
         \A l \in todo'[p] : key[l] = key[p],
         pc'[p] # "calling" => todo'[p] = {},
         given' \in [Listener -> Reply \cup {Nothing}],
         \A l \in Listener : given'[l] \in Version =>
           given'[l] = given[l] \/ (given'[l] \in DOMAIN published /\ published[given'[l]] = key[l]),
         read' \in [Query -> 0 .. MaxBackoff],
         UNCHANGED << serverVars, loopVars >>
  PROVE  WatchInv'
<1>1. /\ \A q \in Query \ {p} : pc'[q] = pc[q] /\ key'[q] = key[q] /\ data'[q] = data[q] /\ todo'[q] = todo[q]
  BY DEF WatchInv, TypeOK
<1>2. \A l \in Listener : l \in Query /\ l # Loop /\ key'[l] = key[l]
  BY <1>1, NacosWatchAssumption DEF Query
<1>3. \A v \in DOMAIN published : v \in Version
  BY NacosWatchAssumption DEF WatchInv, TypeOK, Version
<1>4. TypeOK'
  <2>1. pc'[p] \in Point
    BY DEF Running, Answered, InQueryItem, Point
  <2>2. key'[p] \in Key \cup {Nothing} /\ data'[p] \in Reply \cup {Nothing}
    BY <1>3 DEF WatchInv, TypeOK
  <2>3. /\ pc' \in [Query -> Point]
        /\ key' \in [Query -> Key \cup {Nothing}]
        /\ data' \in [Query -> Reply \cup {Nothing}]
        /\ todo' \in [Query -> SUBSET Listener]
    <3>1. \A S, T : \A f \in [S -> T], x \in S, v \in T : [f EXCEPT ![x] = v] \in [S -> T]
      OBVIOUS
    <3>2. pc' \in [Query -> Point]
      BY <2>1, <3>1, Zenon DEF WatchInv, TypeOK
    <3>3. key' \in [Query -> Key \cup {Nothing}]
      <4>1. key'[p] \in Key \cup {Nothing}
        BY <2>2
      <4>2. key \in [Query -> Key \cup {Nothing}]
        BY DEF WatchInv, TypeOK
      <4>3. [key EXCEPT ![p] = key'[p]] \in [Query -> Key \cup {Nothing}]
        BY <3>1, <4>1, <4>2, Zenon
      <4> QED BY <4>3, Zenon
    <3>4. data' \in [Query -> Reply \cup {Nothing}]
      <4>1. data'[p] \in Reply \cup {Nothing}
        BY <2>2
      <4>2. data \in [Query -> Reply \cup {Nothing}]
        BY DEF WatchInv, TypeOK
      <4>3. [data EXCEPT ![p] = data'[p]] \in [Query -> Reply \cup {Nothing}]
        BY <3>1, <4>1, <4>2, Zenon
      <4> QED BY <4>3, Zenon
    <3>5. todo' \in [Query -> SUBSET Listener]
      <4>1. todo'[p] \in SUBSET Listener
        OBVIOUS
      <4>2. todo \in [Query -> SUBSET Listener]
        BY DEF WatchInv, TypeOK
      <4>3. [todo EXCEPT ![p] = todo'[p]] \in [Query -> SUBSET Listener]
        BY <3>1, <4>1, <4>2, Zenon
      <4> QED BY <4>3, Zenon
    <3> QED BY <3>2, <3>3, <3>4, <3>5
  <2>4. targets' \in Seq(TargetType) /\ items' \in Seq(DOMAIN targets') /\ tick' \in Tick \cup {"none"}
    BY DEF WatchInv, TypeOK, loopVars, Kept
  <2>5. content' \in [Key -> Version \cup {Nothing}] /\ published' \in Seq(Key)
    BY DEF WatchInv, TypeOK, serverVars
  <2> QED BY <2>3, <2>4, <2>5 DEF TypeOK
<1>5. KeyInv'
  <2>1. pc'[Loop] \in Running => pc[Loop] \in Running /\ key'[Loop] = key[Loop]
    BY <1>1 DEF Query, Running, InQueryItem
  <2>2. \A k : Of(k)' = Of(k)
    BY KeptTargets
  <2>3. pc'[Loop] \in Running => key'[Loop] \in Key /\ Of(key[Loop])' # {}
    BY <2>1, <2>2 DEF WatchInv, KeyInv
  <2> QED BY <1>2, <2>1, <2>3 DEF WatchInv, KeyInv
<1>6. ContentInv' /\ Len(published') <= MaxVersion
  BY DEF WatchInv, ContentInv, serverVars
<1>7. DataInv'
  <2>1. published' = published
    BY DEF serverVars
  <2>2. ASSUME NEW q \in Query, data'[q] \in Version
        PROVE  data'[q] \in DOMAIN published /\ published[data'[q]] = key'[q]
    BY <1>1, <2>2 DEF WatchInv, DataInv
  <2>3. \A q \in Query : pc'[q] \in Answered \cup {"returning"} => data'[q] # Nothing
    BY <1>1 DEF WatchInv, DataInv
  <2>4. pc'[Loop] \notin Running => data'[Loop] = Nothing
    BY <1>1 DEF WatchInv, DataInv, Query
  <2>5. \A q \in Query : pc'[q] \in InQueryItem => data'[q] = Nothing
    BY <1>1 DEF WatchInv, DataInv
  <2> QED BY <2>1, <2>2, <2>3, <2>4, <2>5 DEF DataInv
<1>8. UniqueInv'
  BY KeptTargets DEF WatchInv
<1>9. PlacedInv'
  <2>1. ASSUME NEW m \in Listener, pc'[m] \notin {"idle", "missing"}
        PROVE  \E j \in DOMAIN targets' : targets'[j].key = key'[m] /\ m \in targets'[j].onChanges
    <3>1. pc[m] \notin {"idle", "missing"}
      BY <1>1, <1>2, <2>1 DEF Running, InQueryItem, Answered
    <3>2. PICK j \in Of(key[m]) : m \in targets[j].onChanges
      BY <3>1 DEF WatchInv, PlacedInv
    <3> QED BY <1>2, <3>2 DEF Kept, Of
  <2>2. \A j \in DOMAIN targets' : \A m \in targets'[j].onChanges : key'[m] = targets'[j].key
    BY <1>2, TargetTypes DEF Kept, WatchInv, PlacedInv
  <2> QED BY <2>1, <2>2 DEF PlacedInv, Of
<1>10. TodoInv'
  <2>1. ASSUME NEW q \in Query
        PROVE  /\ \A l \in todo'[q] : key'[l] = key'[q]
               /\ pc'[q] # "calling" => todo'[q] = {}
    <3>1. todo[q] \subseteq Listener
      BY DEF WatchInv, TypeOK
    <3>2. CASE q = p
      <4>1. ASSUME NEW l \in todo'[p]
            PROVE  key'[l] = key'[p]
        BY <1>2, <4>1 DEF Running, InQueryItem, Answered
      <4> QED BY <3>2, <4>1
    <3>3. CASE q # p
      BY <1>1, <1>2, <3>1, <3>3 DEF WatchInv, TodoInv
    <3> QED BY <3>2, <3>3
  <2> QED BY <2>1 DEF TodoInv
<1>11. GivenInv'
  BY <1>2 DEF WatchInv, GivenInv, serverVars
<1> QED BY <1>4, <1>5, <1>6, <1>7, <1>8, <1>9, <1>10, <1>11 DEF WatchInv

LEMMA NothingGiven ==
  ASSUME WatchInv, given' = given
  PROVE  /\ given' \in [Listener -> Reply \cup {Nothing}]
         /\ \A l \in Listener : given'[l] \in Version =>
              given'[l] = given[l] \/ (given'[l] \in DOMAIN published /\ published[given'[l]] = key[l])
BY DEF WatchInv, TypeOK

LEMMA NothingRead ==
  ASSUME WatchInv, read' = read
  PROVE  read' \in [Query -> 0 .. MaxBackoff]
BY DEF WatchInv, TypeOK

\* The end of a query, in terms of QueryStep.
LEMMA FinishStep ==
  ASSUME WatchInv, NEW p \in Query, pc[p] \in Running, Finish(p), Kept, todo[p] = {},
         read' \in [Query -> 0 .. MaxBackoff],
         UNCHANGED << serverVars, todo, loopVars, given >>
  PROVE  WatchInv'
<1>1. /\ pc \in [Query -> Point]
      /\ key \in [Query -> Key \cup {Nothing}]
      /\ data \in [Query -> Reply \cup {Nothing}]
      /\ todo \in [Query -> SUBSET Listener]
      /\ Nothing \notin Version
  BY NacosWatchAssumption DEF WatchInv, TypeOK
<1>2. /\ data[p] \in Version => data[p] \in DOMAIN published /\ published[data[p]] = key[p]
      /\ \A l \in todo[p] : key[l] = key[p]
  BY DEF WatchInv, DataInv, TodoInv
<1>3. CASE p = Loop
  <2>1. /\ pc' = [pc EXCEPT ![p] = "items"] /\ key' = [key EXCEPT ![p] = Nothing]
        /\ data' = [data EXCEPT ![p] = Nothing]
    BY <1>3 DEF Finish
  <2>2. pc'[p] = "items" /\ key'[p] = Nothing /\ data'[p] = Nothing /\ todo'[p] = {}
    BY <1>1, <2>1
  <2> QED BY <1>1, <1>2, <1>3, <2>1, <2>2, NothingGiven, QueryStep DEF Running, Answered, InQueryItem
<1>4. CASE p # Loop
  <2>1. /\ pc' = [pc EXCEPT ![p] = IF data[p] = Nothing THEN "unanswered" ELSE "returning"]
        /\ key' = key /\ data' = data
    BY <1>4 DEF Finish
  <2>2. /\ pc' = [pc EXCEPT ![p] = pc'[p]]
        /\ pc'[p] = IF data[p] = Nothing THEN "unanswered" ELSE "returning"
        /\ key' = [key EXCEPT ![p] = key'[p]] /\ key'[p] = key[p]
        /\ data' = [data EXCEPT ![p] = data'[p]] /\ data'[p] = data[p]
        /\ todo' = [todo EXCEPT ![p] = todo'[p]] /\ todo'[p] = {}
    BY <1>1, <2>1
  <2> QED BY <1>1, <1>2, <1>4, <2>2, NothingGiven, QueryStep DEF Running, Answered, InQueryItem
<1> QED BY <1>3, <1>4

\* A query goes on with what it has.
LEMMA ProceedStep ==
  ASSUME WatchInv, NEW p \in Query, NEW point \in Running, pc[p] \in Running, Kept,
         pc' = [pc EXCEPT ![p] = point],
         data' = [data EXCEPT ![p] = data'[p]],
         data'[p] \in Reply \cup {Nothing},
         data'[p] \in Version =>
           data'[p] \in DOMAIN published /\ published[data'[p]] = key[p],
         point \in Answered => data'[p] # Nothing,
         point \in InQueryItem => data'[p] = Nothing,
         todo' = [todo EXCEPT ![p] = todo'[p]],
         todo'[p] \subseteq Listener, \A l \in todo'[p] : key[l] = key[p],
         point # "calling" => todo'[p] = {},
         given' \in [Listener -> Reply \cup {Nothing}],
         \A l \in Listener : given'[l] \in Version =>
           given'[l] = given[l] \/ (given'[l] \in DOMAIN published /\ published[given'[l]] = key[l]),
         read' \in [Query -> 0 .. MaxBackoff],
         UNCHANGED << serverVars, key, loopVars >>
  PROVE  WatchInv'
<1>1. /\ pc'[p] = point /\ key' = [key EXCEPT ![p] = key'[p]] /\ key'[p] = key[p]
  BY DEF WatchInv, TypeOK
<1>2. pc'[p] # "returning"
  BY <1>1 DEF Running, InQueryItem
<1> QED BY <1>1, <1>2, QueryStep

\* Nothing of a target changes.
LEMMA KeptUnchanged == WatchInv /\ targets' = targets => Kept
BY DEF WatchInv, TypeOK, Kept

LEMMA AnswerStep ==
  ASSUME WatchInv, NEW p \in Query, QueryConfig(p) \/ QueryFails(p) \/ QueryRefused(p)
  PROVE  WatchInv'
<1>1. /\ pc[p] = "asking" /\ pc' = [pc EXCEPT ![p] = "answered"]
      /\ data' = [data EXCEPT ![p] = data'[p]]
      /\ data'[p] \in {content[key[p]], Nothing, Blank}
      /\ UNCHANGED << serverVars, targets, key, todo, loopVars, read, given >>
  BY DEF QueryConfig, QueryFails, QueryRefused, Answer, WatchInv, TypeOK
<1>2. key[p] \in Key
  BY <1>1, HasTarget DEF Running, InQueryItem
<1>3. /\ data'[p] \in Reply \cup {Nothing}
      /\ data'[p] \in Version => data'[p] \in DOMAIN published /\ published[data'[p]] = key[p]
  BY <1>1, <1>2, NacosWatchAssumption DEF WatchInv, TypeOK, ContentInv, Reply
<1>4. todo[p] = {} /\ todo' = [todo EXCEPT ![p] = todo'[p]]
  BY <1>1 DEF WatchInv, TypeOK, TodoInv
<1>5. Kept
  BY <1>1, KeptUnchanged
<1> QED BY <1>1, <1>3, <1>4, <1>5, NothingGiven, NothingRead, ProceedStep DEF Running, InQueryItem, Answered

\* A backoff or a hash of a target changes: keys and listeners do not.
LEMMA FieldKept ==
  ASSUME WatchInv, NEW i \in DOMAIN targets, NEW h \in Reply \cup {Nothing},
         NEW b \in 0 .. MaxBackoff,
         \/ targets' = [targets EXCEPT ![i].backoff = b]
         \/ targets' = [targets EXCEPT ![i].lastHash = h]
  PROVE  Kept
<1>1. targets \in Seq(TargetType) /\ targets[i] \in TargetType
  BY TargetTypes DEF WatchInv, TypeOK
<1> DEFINE t == [targets[i] EXCEPT !.backoff = b]
           u == [targets[i] EXCEPT !.lastHash = h]
<1>2. t \in TargetType /\ t.key = targets[i].key /\ t.onChanges = targets[i].onChanges
  BY <1>1 DEF TargetType
<1>3. u \in TargetType /\ u.key = targets[i].key /\ u.onChanges = targets[i].onChanges
  BY <1>1 DEF TargetType
<1>4. targets' = [targets EXCEPT ![i] = t] \/ targets' = [targets EXCEPT ![i] = u]
  OBVIOUS
<1> HIDE DEF t, u
<1> QED BY <1>1, <1>2, <1>3, <1>4 DEF Kept

\* What SetBackoff does to the target of the key, and to no other.
LEMMA SetBackoffSets ==
  ASSUME WatchInv, NEW p \in Query, pc[p] \in Running, NEW b \in 0 .. MaxBackoff, SetBackoff(p, b)
  PROVE  /\ Kept
         /\ \A i \in DOMAIN targets :
              /\ targets'[i].backoff = IF targets[i].key = key[p] THEN b ELSE targets[i].backoff
              /\ targets'[i].lastHash = targets[i].lastHash
<1>1. PICK i \in DOMAIN targets : First(key[p]) = i /\ targets[i].key = key[p]
  BY HasTarget
<1>2. /\ targets' = [targets EXCEPT ![i].backoff = b]
      /\ targets \in Seq(TargetType) /\ targets[i] \in TargetType
  BY <1>1, TargetTypes DEF SetBackoff, WatchInv, TypeOK
<1>3. Kept
  BY <1>2, FieldKept
<1>4. \A j \in DOMAIN targets : targets[j].key = key[p] => j = i
  BY <1>1 DEF WatchInv, UniqueInv
<1>5. /\ \A j \in DOMAIN targets \ {i} : targets'[j] = targets[j]
      /\ targets'[i].backoff = b /\ targets'[i].lastHash = targets[i].lastHash
  BY <1>2 DEF TargetType
<1> QED BY <1>1, <1>3, <1>4, <1>5

\* A query under way calls nobody, but while it goes through the listeners.
LEMMA NothingTodo ==
  ASSUME WatchInv, NEW p \in Query, pc[p] # "calling"
  PROVE  todo[p] = {}
BY DEF WatchInv, TodoInv

LEMMA HasData ==
  ASSUME WatchInv, NEW p \in Query
  PROVE  /\ data[p] \in Reply \cup {Nothing}
         /\ data' = data => data' = [data EXCEPT ![p] = data'[p]]
         /\ todo' = todo => todo' = [todo EXCEPT ![p] = todo'[p]]
         /\ data[p] \in Version => data[p] \in DOMAIN published /\ published[data[p]] = key[p]
         /\ pc[p] \in Answered \cup {"returning"} => data[p] # Nothing
         /\ pc[p] \in InQueryItem => data[p] = Nothing
BY DEF WatchInv, TypeOK, DataInv

\* What is stored as a backoff is in its bound: the call that stores it is not
\* spent yet.
LEMMA StoredBackoff ==
  ASSUME WatchInv, BackoffInv, NEW p \in Query, pc[p] = "storing"
  PROVE  /\ read[p] \in Nat /\ Doubled(read[p]) \in 0 .. MaxBackoff
         /\ p = Loop => Doubled(read[p]) <= BackoffLimit + 1 + 2 * Cardinality(Spent)
         /\ p # Loop => Doubled(read[p]) <= BackoffLimit + 2 + 2 * Cardinality(Spent)
<1>1. read[p] \in Nat
  BY ListenersFinite DEF WatchInv, TypeOK, MaxBackoff
<1>2. /\ Spent \in SUBSET Listener /\ Cardinality(Spent) \in Nat
      /\ Cardinality(Spent) <= Cardinality(Listener)
  BY ListenersFinite DEF Spent
<1>3. CASE p = Loop
  <2>1. read[p] <= BackoffLimit + 2 * Cardinality(Spent)
    BY <1>3 DEF BackoffInv
  <2> QED BY <1>1, <1>2, <1>3, <2>1, ListenersFinite DEF Doubled, MaxBackoff
<1>4. CASE p # Loop
  <2>1. p \in Listener /\ p \notin Spent
    BY <1>4 DEF Query, Spent, SpentPoint
  <2>2. read[p] <= BackoffLimit + 1 + 2 * Cardinality(Spent)
    BY <2>1 DEF BackoffInv
  <2>3. Cardinality(Spent) + 1 <= Cardinality(Listener)
    <3>1. Cardinality(Spent \cup {p}) = Cardinality(Spent) + 1
      BY <1>2, <2>1, ListenersFinite, FS_AddElement
    <3>2. Spent \cup {p} \in SUBSET Listener
      BY <1>2, <2>1
    <3> HIDE DEF Spent
    <3> QED BY <3>1, <3>2, ListenersFinite
  <2> QED BY <1>1, <1>2, <1>4, <2>2, <2>3, ListenersFinite DEF Doubled, MaxBackoff
<1> QED BY <1>3, <1>4

LEMMA QueryItemStep ==
  ASSUME WatchInv, BackoffInv, NEW p \in Query, QueryItem(p)
  PROVE  WatchInv'
<1> USE DEF Running, Answered, InQueryItem
<1>1. /\ pc[p] \in {"answered"} \cup InQueryItem /\ UNCHANGED << serverVars, todo, loopVars, given >>
      /\ todo[p] = {}
  BY NothingTodo
     DEF QueryItem, TakeAnswer, TestBackoff, StartBackoff, TestLimit, ReadBackoff, StoreBackoff
<1>2. 0 \in 0 .. MaxBackoff /\ 1 \in 0 .. MaxBackoff
  BY ListenersFinite DEF MaxBackoff
<1>3. ASSUME NEW point \in {"starting", "testing", "doubling", "storing"}, Proceed(p, point),
             data[p] = Nothing, UNCHANGED targets, read' \in [Query -> 0 .. MaxBackoff]
      PROVE  WatchInv'
  <2>1. pc' = [pc EXCEPT ![p] = point] /\ UNCHANGED << key, data >>
    BY <1>3 DEF Proceed
  <2> QED BY <1>1, <1>3, <2>1, KeptUnchanged, HasData, NothingGiven, ProceedStep
<1>4. CASE TakeAnswer(p)
  <2>1. /\ pc' = [pc EXCEPT ![p] = "comparing"] /\ UNCHANGED << key, data, read >>
        /\ data'[p] # Nothing /\ SetBackoff(p, 0)
    BY <1>4 DEF TakeAnswer, Proceed
  <2>2. Kept
    BY <1>1, <1>2, <2>1, SetBackoffSets
  <2> QED BY <1>1, <2>1, <2>2, HasData, NothingGiven, NothingRead, ProceedStep
<1>5. CASE TestBackoff(p)
  BY <1>3, <1>5, NothingRead DEF TestBackoff
<1>6. CASE StartBackoff(p)
  BY <1>1, <1>2, <1>6, SetBackoffSets, NothingRead, FinishStep DEF StartBackoff
<1>7. CASE TestLimit(p)
  BY <1>1, <1>3, <1>7, KeptUnchanged, HasData, NothingRead, FinishStep DEF TestLimit
<1>8. CASE ReadBackoff(p)
  <2>1. PICK i \in DOMAIN targets : First(key[p]) = i
    BY <1>1, HasTarget
  <2>2. read' = [read EXCEPT ![p] = targets[i].backoff]
    BY <1>8, <2>1 DEF ReadBackoff, Target
  <2>3. read' \in [Query -> 0 .. MaxBackoff]
    BY <2>2, TargetTypes DEF WatchInv, TypeOK
  <2> QED BY <1>3, <1>8, <2>3, HasData DEF ReadBackoff
<1>9. CASE StoreBackoff(p)
  <2>1. SetBackoff(p, Doubled(read[p])) /\ Finish(p) /\ Doubled(read[p]) \in 0 .. MaxBackoff
    BY <1>9, StoredBackoff DEF StoreBackoff
  <2>2. read' \in [Query -> 0 .. MaxBackoff]
    BY <1>2, <1>9 DEF StoreBackoff, WatchInv, TypeOK
  <2> QED BY <1>1, <2>1, <2>2, SetBackoffSets, FinishStep
<1> QED BY <1>4, <1>5, <1>6, <1>7, <1>8, <1>9 DEF QueryItem

LEMMA CompareStep ==
  ASSUME WatchInv, NEW p \in Query, Compare(p)
  PROVE  WatchInv'
<1> USE DEF Running, InQueryItem, Answered
<1>1. /\ pc[p] = "comparing" /\ UNCHANGED << serverVars, targets, todo, loopVars, read, given >>
      /\ todo[p] = {} /\ Kept
  BY NothingTodo, KeptUnchanged DEF Compare
<1>2. CASE Target(p).lastHash = data[p]
  <2>1. Finish(p)
    BY <1>2 DEF Compare
  <2> QED BY <1>1, <2>1, NothingRead, FinishStep
<1>3. CASE Target(p).lastHash # data[p]
  <2>1. PICK point \in {"first", "changed"} : Proceed(p, point)
    BY <1>3 DEF Compare
  <2>2. pc' = [pc EXCEPT ![p] = point] /\ UNCHANGED << key, data >>
    BY <2>1 DEF Proceed
  <2> QED BY <1>1, <2>2, HasData, NothingGiven, NothingRead, ProceedStep
<1> QED BY <1>2, <1>3

\* Noting a hash keeps the targets.
LEMMA SetHashKept ==
  ASSUME WatchInv, NEW p \in Query, pc[p] \in Running, SetHash(p)
  PROVE  Kept
<1>1. PICK i \in DOMAIN targets : First(key[p]) = i
  BY HasTarget
<1>2. targets' = [targets EXCEPT ![i].lastHash = data[p]]
  BY <1>1 DEF SetHash
<1>3. 0 \in 0 .. MaxBackoff
  BY ListenersFinite DEF MaxBackoff
<1> QED BY <1>2, <1>3, HasData, FieldKept

LEMMA NoteStep ==
  ASSUME WatchInv, NEW p \in Query, NoteFirst(p) \/ NoteChange(p)
  PROVE  WatchInv'
<1> USE DEF Running, InQueryItem, Answered
<1>1. CASE NoteFirst(p)
  BY <1>1, SetHashKept, NothingTodo, NothingRead, FinishStep DEF NoteFirst
<1>2. CASE NoteChange(p)
  <2>1. /\ pc[p] = "changed" /\ SetHash(p) /\ pc' = [pc EXCEPT ![p] = "calling"]
        /\ todo' = [todo EXCEPT ![p] = Target(p).onChanges]
        /\ UNCHANGED << serverVars, key, data, loopVars, read, given >>
    BY <1>2 DEF NoteChange
  <2>2. Kept
    BY <2>1, SetHashKept
  <2>3. PICK i \in DOMAIN targets : First(key[p]) = i /\ targets[i].key = key[p]
    BY <2>1, HasTarget
  <2>4. todo' = [todo EXCEPT ![p] = todo'[p]] /\ todo'[p] = targets[i].onChanges
    BY <2>1, <2>3 DEF Target, WatchInv, TypeOK
  <2>5. todo'[p] \subseteq Listener /\ \A l \in todo'[p] : key[l] = key[p]
    BY <2>3, <2>4, TargetTypes DEF WatchInv, PlacedInv
  <2> QED BY <2>1, <2>2, <2>4, <2>5, HasData, NothingGiven, NothingRead, ProceedStep
<1> QED BY <1>1, <1>2

LEMMA CallListenerStep ==
  ASSUME WatchInv, NEW p \in Query, NEW l \in Listener, CallListener(p, l)
  PROVE  WatchInv'
<1>1. /\ pc[p] = "calling" /\ l \in todo[p]
      /\ todo' = [todo EXCEPT ![p] = @ \ {l}]
      /\ given' = [given EXCEPT ![l] = data[p]]
      /\ UNCHANGED << serverVars, targets, pc, key, data, loopVars, read >>
  BY DEF CallListener
<1>2. key[l] = key[p] /\ todo[p] \subseteq Listener /\ \A m \in todo[p] : key[m] = key[p]
  BY <1>1 DEF WatchInv, TypeOK, TodoInv
<1>3. todo' = [todo EXCEPT ![p] = todo'[p]] /\ todo'[p] = todo[p] \ {l}
  BY <1>1 DEF WatchInv, TypeOK
<1>4. /\ given' \in [Listener -> Reply \cup {Nothing}]
      /\ \A m \in Listener : given'[m] \in Version =>
           given'[m] = given[m] \/ (given'[m] \in DOMAIN published /\ published[given'[m]] = key[m])
  BY <1>1, <1>2, HasData DEF WatchInv, TypeOK
<1>5. pc' = [pc EXCEPT ![p] = "calling"]
  BY <1>1 DEF WatchInv, TypeOK
<1>6. Kept
  BY <1>1, KeptUnchanged
<1>7. /\ "calling" \in Running /\ data'[p] = data[p] /\ todo'[p] \subseteq Listener
      /\ \A m \in todo'[p] : key[m] = key[p]
      /\ data[p] # Nothing /\ read' \in [Query -> 0 .. MaxBackoff]
  BY <1>1, <1>2, <1>3, HasData, NothingRead DEF Running, Answered
<1>8. pc[p] = "calling" /\ UNCHANGED << serverVars, key, data, loopVars >>
  BY <1>1
<1> QED BY <1>3, <1>4, <1>5, <1>6, <1>7, <1>8, HasData, ProceedStep

LEMMA ReturnAnswerStep ==
  ASSUME WatchInv, NEW l \in Listener, ReturnAnswer(l)
  PROVE  WatchInv'
<1>1. /\ pc[l] = "returning" /\ pc' = [pc EXCEPT ![l] = "listening"]
      /\ given' = [given EXCEPT ![l] = data[l]]
      /\ data' = [data EXCEPT ![l] = Nothing]
      /\ UNCHANGED << serverVars, targets, key, todo, loopVars, read >>
  BY DEF ReturnAnswer
<1>2. l \in Query /\ l # Loop /\ todo[l] = {} /\ Kept /\ Nothing \notin Version
  BY <1>1, NothingTodo, KeptUnchanged, NacosWatchAssumption DEF Query
<1>3. /\ pc' = [pc EXCEPT ![l] = pc'[l]] /\ pc'[l] = "listening"
      /\ key' = [key EXCEPT ![l] = key'[l]] /\ key'[l] = key[l]
      /\ data' = [data EXCEPT ![l] = data'[l]] /\ data'[l] = Nothing
      /\ todo' = [todo EXCEPT ![l] = todo'[l]] /\ todo'[l] = {}
  BY <1>1, <1>2 DEF WatchInv, TypeOK
<1>4. /\ given' \in [Listener -> Reply \cup {Nothing}]
      /\ \A m \in Listener : given'[m] \in Version =>
           given'[m] = given[m] \/ (given'[m] \in DOMAIN published /\ published[given'[m]] = key[m])
  BY <1>1, <1>2, HasData DEF WatchInv, TypeOK
<1>5. pc'[l] \notin Running \cup Answered \cup {"returning", "calling"}
  BY <1>3 DEF Running, Answered, InQueryItem
<1>6. read' \in [Query -> 0 .. MaxBackoff]
  BY <1>1, NothingRead
<1>7. pc[l] = "returning" /\ UNCHANGED << serverVars, loopVars >>
  BY <1>1
<1> QED BY <1>2, <1>3, <1>4, <1>5, <1>6, <1>7, QueryStep, Zenon

\* Every step keeps this part of the invariant.
LEMMA WatchInvStep == WatchInv /\ BackoffInv /\ [Next]_vars => WatchInv'
<1> SUFFICES ASSUME WatchInv, BackoffInv, [Next]_vars
             PROVE  WatchInv'
  OBVIOUS
<1>1. ASSUME UNCHANGED vars
      PROVE  WatchInv'
  BY <1>1 DEF vars, serverVars, loopVars, WatchInv, TypeOK, KeyInv, ContentInv, DataInv, UniqueInv,
              PlacedInv, TodoInv, GivenInv, Of
<1>2. ASSUME NEW p \in Query, AllCalled(p)
      PROVE  WatchInv'
  <2>1. /\ pc[p] = "calling" /\ todo[p] = {} /\ Finish(p)
        /\ UNCHANGED << serverVars, targets, todo, loopVars, read, given >>
    BY <1>2 DEF AllCalled
  <2> QED BY <2>1, KeptUnchanged, NothingRead, FinishStep DEF Running, InQueryItem
<1> QED BY <1>1, <1>2, PublishStep, DeleteStep, RegisterStep, LoopSteps, AnswerStep, QueryItemStep,
           CompareStep, NoteStep, CallListenerStep, ReturnAnswerStep DEF Next, RunItemWatch

\* Only the query that goes on moves, and a call that is spent stays so.
LEMMA QueryMoves ==
  ASSUME WatchInv, NEW p \in Query,
         RunItemWatch(p) \/ QueryFails(p) \/ QueryRefused(p) \/ (p \in Listener /\ ReturnAnswer(p))
  PROVE  /\ \A q \in Query \ {p} : pc'[q] = pc[q] /\ key'[q] = key[q] /\ data'[q] = data[q]
         /\ p # Loop => key'[p] = key[p]
         /\ p # Loop /\ pc[p] \in SpentPoint => pc'[p] \in SpentPoint
<1>1. /\ pc \in [Query -> Point] /\ key \in [Query -> Key \cup {Nothing}]
      /\ data \in [Query -> Reply \cup {Nothing}]
  BY DEF WatchInv, TypeOK
<1>2. ASSUME Finish(p)
      PROVE  /\ \A q \in Query \ {p} : pc'[q] = pc[q] /\ key'[q] = key[q] /\ data'[q] = data[q]
             /\ p # Loop => key'[p] = key[p] /\ pc'[p] \in SpentPoint
  BY <1>1, <1>2 DEF Finish, SpentPoint
<1>3. ASSUME NEW point, Proceed(p, point)
      PROVE  /\ \A q \in Query \ {p} : pc'[q] = pc[q] /\ key'[q] = key[q] /\ data'[q] = data[q]
             /\ key'[p] = key[p] /\ pc'[p] = point
  BY <1>1, <1>3 DEF Proceed
<1>4. CASE QueryConfig(p) \/ QueryFails(p) \/ QueryRefused(p)
  BY <1>1, <1>4 DEF QueryConfig, QueryFails, QueryRefused, Answer, SpentPoint
<1>5. CASE QueryItem(p)
  <2>1. pc[p] \notin SpentPoint
    BY <1>5 DEF QueryItem, TakeAnswer, TestBackoff, StartBackoff, TestLimit, ReadBackoff,
                StoreBackoff, SpentPoint
  <2>2. Finish(p) \/ \E point \in Point : Proceed(p, point)
    BY <1>5 DEF QueryItem, TakeAnswer, TestBackoff, StartBackoff, TestLimit, ReadBackoff,
                StoreBackoff, Point
  <2> QED BY <1>2, <1>3, <2>1, <2>2
<1>6. CASE Compare(p)
  <2>1. Finish(p) \/ \E point \in {"first", "changed"} : Proceed(p, point)
    BY <1>6 DEF Compare
  <2> QED BY <1>2, <1>3, <2>1 DEF SpentPoint
<1>7. CASE NoteFirst(p) \/ AllCalled(p)
  BY <1>2, <1>7 DEF NoteFirst, AllCalled
<1>8. CASE NoteChange(p)
  BY <1>1, <1>8 DEF NoteChange, SpentPoint
<1>9. CASE \E l \in Listener : CallListener(p, l)
  BY <1>1, <1>9 DEF CallListener
<1>10. CASE p \in Listener /\ ReturnAnswer(p)
  BY <1>1, <1>10 DEF ReturnAnswer, SpentPoint
<1> QED BY <1>4, <1>5, <1>6, <1>7, <1>8, <1>9, <1>10 DEF RunItemWatch

\* The spent calls are counted, and one that becomes spent counts.
LEMMA SpentCount ==
  ASSUME Spent \subseteq Spent'
  PROVE  /\ Cardinality(Spent) \in Nat /\ Cardinality(Spent') \in Nat
         /\ Cardinality(Spent) <= Cardinality(Spent')
         /\ \A l \in Spent' \ Spent : Cardinality(Spent) + 1 <= Cardinality(Spent')
<1>1. Spent \in SUBSET Listener /\ Spent' \in SUBSET Listener
  BY DEF Spent
<1>2. ASSUME NEW l \in Spent' \ Spent
      PROVE  Cardinality(Spent) + 1 <= Cardinality(Spent')
  <2>1. Cardinality(Spent \cup {l}) = Cardinality(Spent) + 1
    BY <1>1, <1>2, ListenersFinite, FS_AddElement
  <2>2. Spent \cup {l} \in SUBSET Spent'
    BY <1>2
  <2> HIDE DEF Spent
  <2> QED BY <1>1, <2>1, <2>2, ListenersFinite
<1> QED BY <1>1, <1>2, ListenersFinite

\* A step that neither doubles a backoff nor lets it be doubled.
LEMMA BackoffKept ==
  ASSUME WatchInv, BackoffInv, Spent \subseteq Spent',
         \A i \in DOMAIN targets' :
           \/ targets'[i].backoff = 0
           \/ i \in DOMAIN targets /\ targets'[i].backoff = targets[i].backoff
              /\ targets'[i].key = targets[i].key,
         \A q \in Query : pc'[q] = "storing" => pc[q] = "storing" /\ read'[q] = read[q],
         pc'[Loop] = "doubling" => pc[Loop] = "doubling" /\ key'[Loop] = key[Loop]
  PROVE  BackoffInv'
<1> DEFINE c == Cardinality(Spent)
           d == Cardinality(Spent')
<1>1. c \in Nat /\ d \in Nat /\ c <= d /\ BackoffLimit \in Nat
  BY SpentCount, ListenersFinite
<1>2. /\ \A i \in DOMAIN targets : targets[i].backoff \in Nat
      /\ \A q \in Query : read[q] \in Nat
  BY TargetTypes, ListenersFinite DEF WatchInv, TypeOK, MaxBackoff
<1>3. /\ \A i \in DOMAIN targets : targets[i].backoff <= BackoffLimit + 1 + 2 * c
      /\ \A l \in Listener : pc[l] = "storing" => read[l] <= BackoffLimit + 1 + 2 * c
      /\ pc[Loop] = "storing" => read[Loop] <= BackoffLimit + 2 * c
      /\ pc[Loop] = "doubling" => \A i \in Of(key[Loop]) : targets[i].backoff <= BackoffLimit + 2 * c
  BY DEF BackoffInv
<1>4. Loop \in Query /\ \A l \in Listener : l \in Query
  BY DEF Query
<1> HIDE DEF c, d
<1>5. \A i \in DOMAIN targets' : targets'[i].backoff <= BackoffLimit + 1 + 2 * d
  BY <1>1, <1>2, <1>3
<1>6. \A l \in Listener : pc'[l] = "storing" => read'[l] <= BackoffLimit + 1 + 2 * d
  BY <1>1, <1>2, <1>3, <1>4
<1>7. pc'[Loop] = "storing" => read'[Loop] <= BackoffLimit + 2 * d
  BY <1>1, <1>2, <1>3, <1>4
<1>8. ASSUME pc'[Loop] = "doubling", NEW i \in DOMAIN targets', targets'[i].key = key'[Loop]
      PROVE  targets'[i].backoff <= BackoffLimit + 2 * d
  BY <1>1, <1>2, <1>3, <1>8 DEF Of
<1> QED BY <1>5, <1>6, <1>7, <1>8 DEF BackoffInv, Of, c, d

\* What TestLimit lets through is within the limit, and what is stored after it
\* is a call's or loopWatch's.
LEMMA QueryItemBackoff ==
  ASSUME WatchInv, BackoffInv, NEW p \in Query, QueryItem(p)
  PROVE  BackoffInv'
<1> DEFINE c == Cardinality(Spent)
           d == Cardinality(Spent')
<1> USE DEF Running, Answered, InQueryItem
<1>1. pc[p] \in {"answered"} \cup InQueryItem /\ pc[p] \in Running /\ pc \in [Query -> Point]
      /\ read \in [Query -> 0 .. MaxBackoff]
  BY DEF QueryItem, TakeAnswer, TestBackoff, StartBackoff, TestLimit, ReadBackoff, StoreBackoff,
         WatchInv, TypeOK
<1>2. /\ \A q \in Query \ {p} : pc'[q] = pc[q] /\ key'[q] = key[q]
      /\ p # Loop => key'[p] = key[p]
      /\ Spent \subseteq Spent'
  BY <1>1, QueryMoves, NacosWatchAssumption DEF RunItemWatch, Spent, Query, SpentPoint
<1>3. c \in Nat /\ d \in Nat /\ c <= d /\ BackoffLimit \in Nat
      /\ \A l \in Spent' \ Spent : c + 1 <= d
  BY <1>2, SpentCount, ListenersFinite
<1>4. PICK i \in DOMAIN targets : First(key[p]) = i /\ targets[i].key = key[p]
  BY <1>1, HasTarget
<1>5. /\ \A j \in DOMAIN targets : targets[j].backoff \in Nat
      /\ \A q \in Query : read[q] \in Nat
      /\ 0 \in 0 .. MaxBackoff /\ 1 \in 0 .. MaxBackoff
  BY TargetTypes, ListenersFinite DEF WatchInv, TypeOK, MaxBackoff
<1>6. /\ \A j \in DOMAIN targets : targets[j].backoff <= BackoffLimit + 1 + 2 * c
      /\ \A l \in Listener : pc[l] = "storing" => read[l] <= BackoffLimit + 1 + 2 * c
      /\ pc[Loop] = "storing" => read[Loop] <= BackoffLimit + 2 * c
      /\ pc[Loop] = "doubling" => \A j \in Of(key[Loop]) : targets[j].backoff <= BackoffLimit + 2 * c
  BY DEF BackoffInv
<1>7. Loop \in Query /\ \A l \in Listener : l \in Query /\ l # Loop
  BY NacosWatchAssumption DEF Query
<1>8. ASSUME Finish(p), pc[p] \in InQueryItem
      PROVE  /\ pc'[p] \notin {"storing", "doubling"}
             /\ p # Loop => c + 1 <= d
  <2>1. pc'[p] \notin {"storing", "doubling"} /\ (p # Loop => pc'[p] \in SpentPoint)
    BY <1>1, <1>8 DEF Finish, SpentPoint
  <2>2. p # Loop => p \in Spent' \ Spent
    BY <1>8, <2>1 DEF Spent, Query, SpentPoint
  <2> QED BY <1>3, <2>1, <2>2
<1>9. CASE TakeAnswer(p)
  <2>1. SetBackoff(p, 0) /\ read' = read /\ pc'[p] = "comparing"
    BY <1>1, <1>9 DEF TakeAnswer, Proceed
  <2>2. /\ DOMAIN targets' = DOMAIN targets
        /\ \A j \in DOMAIN targets : targets'[j].key = targets[j].key
        /\ \A j \in DOMAIN targets : targets'[j].backoff \in {0, targets[j].backoff}
    BY <1>1, <1>5, <2>1, SetBackoffSets DEF Kept
  <2> QED BY <1>2, <1>7, <2>1, <2>2, BackoffKept
<1>10. CASE TestBackoff(p)
  <2>1. /\ UNCHANGED << targets, read >> /\ pc'[p] \in {"starting", "testing"}
    BY <1>1, <1>10 DEF TestBackoff, Proceed
  <2> QED BY <1>2, <1>7, <2>1, BackoffKept
<1>11. CASE TestLimit(p)
  <2>1. UNCHANGED << targets, read >> /\ pc[p] = "testing"
    BY <1>11 DEF TestLimit
  <2>2. CASE BelowLimit(Target(p).backoff)
    <3>1. pc'[p] = "doubling" /\ key' = key /\ targets[i].backoff <= BackoffLimit
      BY <1>1, <1>4, <1>11, <2>2 DEF TestLimit, Proceed, BelowLimit, Target
    <3>2. \A q \in Query : pc'[q] = "storing" => pc[q] = "storing"
      BY <1>2, <3>1
    <3>3. CASE p # Loop
      BY <1>2, <1>7, <2>1, <3>1, <3>2, <3>3, BackoffKept
    <3>4. CASE p = Loop
      <4>1. \A j \in DOMAIN targets : targets[j].backoff <= BackoffLimit + 1 + 2 * d
        BY <1>3, <1>5, <1>6
      <4>2. \A l \in Listener : pc'[l] = "storing" => read[l] <= BackoffLimit + 1 + 2 * d
        BY <1>3, <1>5, <1>6, <1>7, <3>2
      <4>3. pc'[Loop] # "storing"
        BY <3>1, <3>4
      <4>4. \A j \in DOMAIN targets : targets[j].key = key[Loop] =>
              targets[j].backoff <= BackoffLimit + 2 * d
        <5>1. \A j \in DOMAIN targets : targets[j].key = key[Loop] => j = i
          BY <1>4, <3>4 DEF WatchInv, UniqueInv
        <5> QED BY <1>3, <1>5, <3>1, <5>1
      <4> QED BY <2>1, <3>1, <4>1, <4>2, <4>3, <4>4 DEF BackoffInv, Of
    <3> QED BY <3>3, <3>4
  <2>3. CASE ~BelowLimit(Target(p).backoff)
    <3>1. Finish(p)
      BY <1>11, <2>3 DEF TestLimit
    <3> QED BY <1>2, <1>7, <1>8, <2>1, <3>1, BackoffKept
  <2> QED BY <2>2, <2>3
<1>12. CASE ReadBackoff(p)
  <2>1. /\ pc[p] = "doubling" /\ read' = [read EXCEPT ![p] = targets[i].backoff]
        /\ pc'[p] = "storing" /\ UNCHANGED << targets, key >>
    BY <1>1, <1>4, <1>12 DEF ReadBackoff, Proceed, Target
  <2>2. read'[p] = targets[i].backoff /\ \A q \in Query \ {p} : read'[q] = read[q]
    BY <1>1, <2>1
  <2>3. i \in Of(key[p])
    BY <1>4 DEF Of
  <2>4. \A j \in DOMAIN targets : targets[j].backoff <= BackoffLimit + 1 + 2 * d
    BY <1>3, <1>5, <1>6
  <2>5. ASSUME NEW l \in Listener, pc'[l] = "storing"
        PROVE  read'[l] <= BackoffLimit + 1 + 2 * d
    <3>1. CASE l = p
      BY <2>2, <2>4, <3>1
    <3>2. CASE l # p
      BY <1>2, <1>3, <1>5, <1>6, <1>7, <2>2, <2>5, <3>2
    <3> QED BY <3>1, <3>2
  <2>6. pc'[Loop] = "storing" => read'[Loop] <= BackoffLimit + 2 * d
    <3>1. CASE p = Loop
      BY <1>3, <1>5, <1>6, <2>1, <2>2, <2>3, <3>1
    <3>2. CASE p # Loop
      BY <1>2, <1>3, <1>5, <1>6, <1>7, <2>2, <3>2
    <3> QED BY <3>1, <3>2
  <2>7. pc'[Loop] = "doubling" => \A j \in Of(key[Loop]) : targets[j].backoff <= BackoffLimit + 2 * d
    <3>1. CASE p = Loop
      BY <2>1, <3>1
    <3>2. CASE p # Loop
      BY <1>2, <1>3, <1>5, <1>6, <1>7, <3>2 DEF Of
    <3> QED BY <3>1, <3>2
  <2> QED BY <2>1, <2>4, <2>5, <2>6, <2>7 DEF BackoffInv, Of
<1>13. ASSUME NEW b \in 0 .. MaxBackoff, SetBackoff(p, b), Finish(p), pc[p] \in InQueryItem,
              p = Loop => b <= BackoffLimit + 1 + 2 * c,
              p # Loop => b <= BackoffLimit + 2 + 2 * c,
              \A q \in Query \ {p} : read'[q] = read[q]
       PROVE  BackoffInv'
  <2>1. b \in Nat /\ pc'[p] \notin {"storing", "doubling"} /\ (p # Loop => c + 1 <= d)
    BY <1>8, <1>13, ListenersFinite DEF MaxBackoff
  <2>2. /\ DOMAIN targets' = DOMAIN targets
        /\ \A j \in DOMAIN targets : targets'[j].key = targets[j].key
        /\ \A j \in DOMAIN targets : targets'[j].backoff \in {b, targets[j].backoff}
    BY <1>1, <1>13, SetBackoffSets DEF Kept
  <2>3. b <= BackoffLimit + 1 + 2 * d /\ (p # Loop => b <= BackoffLimit + 2 * d)
    BY <1>3, <1>13, <2>1
  <2>4. \A j \in DOMAIN targets' : targets'[j].backoff <= BackoffLimit + 1 + 2 * d
    BY <1>3, <1>5, <1>6, <2>2, <2>3
  <2>5. \A l \in Listener : pc'[l] = "storing" => read'[l] <= BackoffLimit + 1 + 2 * d
    BY <1>2, <1>3, <1>5, <1>6, <1>7, <1>13, <2>1
  <2>6. pc'[Loop] = "storing" => read'[Loop] <= BackoffLimit + 2 * d
    BY <1>2, <1>3, <1>5, <1>6, <1>7, <1>13, <2>1
  <2>7. ASSUME pc'[Loop] = "doubling", NEW j \in DOMAIN targets', targets'[j].key = key'[Loop]
        PROVE  targets'[j].backoff <= BackoffLimit + 2 * d
    <3>1. p # Loop /\ pc[Loop] = "doubling" /\ key'[Loop] = key[Loop]
      BY <1>2, <1>7, <2>1, <2>7
    <3>2. targets[j].backoff <= BackoffLimit + 2 * c
      BY <1>6, <2>2, <2>7, <3>1 DEF Of
    <3> QED BY <1>3, <1>5, <2>2, <2>3, <3>1, <3>2
  <2> QED BY <2>4, <2>5, <2>6, <2>7 DEF BackoffInv, Of
<1>14. CASE StartBackoff(p)
  BY <1>3, <1>5, <1>13, <1>14 DEF StartBackoff
<1>15. CASE StoreBackoff(p)
  <2>1. \A q \in Query \ {p} : read'[q] = read[q]
    BY <1>1, <1>15 DEF StoreBackoff
  <2> QED BY <1>13, <1>15, <2>1, StoredBackoff DEF StoreBackoff
<1> QED BY <1>9, <1>10, <1>11, <1>12, <1>14, <1>15 DEF QueryItem

\* Every step keeps the bound of the backoffs.
LEMMA BackoffStep == WatchInv /\ BackoffInv /\ [Next]_vars => BackoffInv'
<1> SUFFICES ASSUME WatchInv, BackoffInv, [Next]_vars
             PROVE  BackoffInv'
  OBVIOUS
<1>1. Loop \in Query /\ \A l \in Listener : l \in Query /\ l # Loop
  BY NacosWatchAssumption DEF Query
<1>2. pc \in [Query -> Point] /\ key \in [Query -> Key \cup {Nothing}] /\ targets \in Seq(TargetType)
  BY DEF WatchInv, TypeOK
<1>3. CASE UNCHANGED << targets, pc, key, read >>
  BY <1>3 DEF BackoffInv, Spent, Of
<1>4. CASE (\E t \in Tick : Ticks(t)) \/ WatchItem \/ PassItem \/ EndItems
  <2>1. /\ UNCHANGED << targets, read >>
        /\ \A q \in Query \ {Loop} : pc'[q] = pc[q]
        /\ pc'[Loop] \in {"select", "items", "asking"}
    BY <1>1, <1>2, <1>4 DEF Ticks, WatchItem, PassItem, EndItems
  <2>2. Spent \subseteq Spent'
    BY <1>1, <2>1 DEF Spent
  <2> QED BY <1>1, <2>1, <2>2, BackoffKept
<1>5. ASSUME NEW l \in Listener, RegisterShared(l) \/ RegisterExclusive(l)
      PROVE  BackoffInv'
  <2>1. pc[l] \in {"idle", "missing"} /\ UNCHANGED << key, read >>
    BY <1>5 DEF RegisterShared, RegisterExclusive
  <2>2. /\ \A q \in Query \ {l} : pc'[q] = pc[q] \/ (pc[q] = "idle" /\ pc'[q] = "select")
        /\ pc'[l] \in {"missing", "asking"}
    <3>1. CASE Registered(l)
      BY <2>1, <3>1, RegisteredStep
    <3>2. CASE pc' = [pc EXCEPT ![l] = "missing"]
      BY <1>1, <1>2, <3>2
    <3> QED BY <1>5, <3>1, <3>2 DEF RegisterShared, RegisterExclusive
  <2>3. \A j \in DOMAIN targets' :
          \/ targets'[j].backoff = 0
          \/ j \in DOMAIN targets /\ targets'[j].backoff = targets[j].backoff
             /\ targets'[j].key = targets[j].key
    <3>1. CASE UNCHANGED targets
      BY <3>1
    <3>2. CASE AppendTarget(l)
      BY <1>2, <3>2 DEF AppendTarget
    <3>3. CASE Of(key[l]) # {} /\ AddListener(First(key[l]), l)
      <4>1. PICK i \in Of(key[l]) : First(key[l]) = i
        BY <3>3, TheTarget DEF WatchInv, TypeOK
      <4>2. /\ i \in DOMAIN targets
            /\ targets' = [targets EXCEPT ![i].onChanges = @ \cup {l}]
            /\ targets[i] \in TargetType
        BY <3>3, <4>1, TargetTypes DEF Of, AddListener
      <4> QED BY <1>2, <4>2 DEF TargetType
    <3> QED BY <1>5, <3>1, <3>2, <3>3 DEF RegisterShared, RegisterExclusive
  <2>4. Spent \subseteq Spent'
    BY <1>1, <2>1, <2>2 DEF Spent, SpentPoint
  <2> QED BY <1>1, <2>1, <2>2, <2>3, <2>4, BackoffKept
<1>6. ASSUME NEW p \in Query,
             \/ QueryConfig(p) \/ QueryFails(p) \/ QueryRefused(p)
             \/ Compare(p) \/ NoteFirst(p) \/ NoteChange(p) \/ AllCalled(p)
             \/ (\E l \in Listener : CallListener(p, l)) \/ (p \in Listener /\ ReturnAnswer(p))
      PROVE  BackoffInv'
  <2>1. /\ \A q \in Query \ {p} : pc'[q] = pc[q] /\ key'[q] = key[q]
        /\ p # Loop /\ pc[p] \in SpentPoint => pc'[p] \in SpentPoint
    BY <1>6, QueryMoves DEF RunItemWatch
  <2>2. Spent \subseteq Spent'
    BY <1>1, <2>1 DEF Spent
  <2>3. pc'[p] \notin {"storing", "doubling"} /\ read' = read
    BY <1>2, <1>6 DEF QueryConfig, QueryFails, QueryRefused, Answer, Compare, NoteFirst, NoteChange,
                      AllCalled, CallListener, ReturnAnswer, Finish, Proceed
  <2>4. /\ DOMAIN targets' = DOMAIN targets
        /\ \A j \in DOMAIN targets :
             targets'[j].backoff = targets[j].backoff /\ targets'[j].key = targets[j].key
    <3>1. CASE UNCHANGED targets
      BY <3>1
    <3>2. CASE SetHash(p) /\ pc[p] \in Running
      <4>1. PICK i \in DOMAIN targets : First(key[p]) = i
        BY <3>2, HasTarget
      <4>2. targets' = [targets EXCEPT ![i].lastHash = data[p]] /\ targets[i] \in TargetType
        BY <3>2, <4>1, TargetTypes DEF SetHash
      <4> QED BY <1>2, <4>2 DEF TargetType
    <3> QED BY <1>6, <3>1, <3>2
            DEF QueryConfig, QueryFails, QueryRefused, Answer, Compare, NoteFirst, NoteChange,
                AllCalled, CallListener, ReturnAnswer, Running, InQueryItem
  <2> QED BY <1>1, <2>1, <2>2, <2>3, <2>4, BackoffKept
<1> QED BY <1>1, <1>3, <1>4, <1>5, <1>6, QueryItemBackoff
        DEF Next, RunItemWatch, vars, PublishConfig, DeleteConfig

LEMMA BackoffInit == Init => BackoffInv
BY ListenersFinite DEF Init, BackoffInv, Query, Of

LEMMA WatchInvHolds == Spec => [](WatchInv /\ BackoffInv)
<1>1. Init => WatchInv /\ BackoffInv
  BY WatchInvInit, BackoffInit
<1>2. WatchInv /\ BackoffInv /\ [Next]_vars => WatchInv' /\ BackoffInv'
  BY WatchInvStep, BackoffStep
<1> QED BY <1>1, <1>2, PTL DEF Spec

----------------------------------------------------------------------------
(* What the watcher has noted, its listeners are given last.               *)

Hashes(k) == {targets[i].lastHash : i \in Of(k)}

\* A query still goes through its listeners and has v for l.
BeingGiven(l, v) ==
  \E p \in Query : pc[p] = "calling" /\ key[p] = key[l] /\ data[p] = v /\ l \in todo[p]

\* What a query that gives out its answer knows of the hash, and what a listener
\* was given last.
NotedInv(k) ==
  /\ \A p \in Query : pc[p] = "first" /\ key[p] = k => Hashes(k) \subseteq {Nothing, data[p]}
  /\ \A p \in Query : pc[p] = "changed" /\ key[p] = k => Nothing \notin Hashes(k)
  /\ \A p \in Query : pc[p] \in {"calling", "returning"} /\ key[p] = k => Hashes(k) \subseteq {data[p]}
  /\ \A l \in Listener : key[l] = k /\ pc[l] = "listening" =>
       \A h \in Hashes(k) : h # Nothing /\ (given[l] = h \/ BeingGiven(l, h))

\* Once its ListenConfig has returned an answer, the last a listener was given is
\* what is noted, or it is about to be: the next query passes over no listener.
NotedIsGiven(k) ==
  \A l \in Listener : key[l] = k /\ pc[l] = "listening" =>
    \A h \in Hashes(k) : given[l] = h \/ BeingGiven(l, h)

\* The target a query looks up is the one of its key.
LEMMA TheHash ==
  ASSUME WatchInv, NEW p \in Query, pc[p] \in Running
  PROVE  /\ Hashes(key[p]) = {Target(p).lastHash}
         /\ \A l \in Listener :
              key[l] = key[p] /\ pc[l] \notin {"idle", "missing"} => l \in Target(p).onChanges
<1>1. PICK i \in DOMAIN targets : First(key[p]) = i /\ targets[i].key = key[p]
  BY HasTarget
<1>2. i \in Of(key[p])
  BY <1>1 DEF Of
<1>3. Of(key[p]) = {i}
  BY <1>2, TheTarget DEF WatchInv, TypeOK
<1> QED BY <1>1, <1>3 DEF Hashes, Target, WatchInv, PlacedInv

\* Targets that keep their keys and hashes.
LEMMA SameHashes ==
  ASSUME NEW k, DOMAIN targets' = DOMAIN targets,
         \A i \in DOMAIN targets : /\ targets'[i].key = targets[i].key
                                   /\ targets'[i].key = k => targets'[i].lastHash = targets[i].lastHash
  PROVE  Hashes(k)' = Hashes(k)
<1>1. Of(k)' = Of(k)
  BY DEF Of
<1>2. \A i \in Of(k) : targets'[i].lastHash = targets[i].lastHash
  BY DEF Of
<1> QED BY <1>1, <1>2 DEF Hashes

\* A step of p that notes nothing for k, and gives the listeners of k nothing but
\* what is noted.
LEMMA NotesNothing ==
  ASSUME NEW k, NotedInv(k), NEW p \in Query, Hashes(k)' \subseteq Hashes(k),
         \A q \in Query \ {p} :
           /\ pc'[q] = pc[q] \/ (pc[q] = "idle" /\ pc'[q] = "select")
           /\ key'[q] = key[q] /\ data'[q] = data[q] /\ todo[q] \subseteq todo'[q],
         \A l \in Listener : key'[l] = key[l],
         \A l \in Listener : key[l] = k => given'[l] = given[l] \/ Hashes(k) \subseteq {given'[l]},
         key'[p] = k /\ pc'[p] = "first" => Hashes(k) \subseteq {Nothing, data'[p]},
         key'[p] = k /\ pc'[p] = "changed" => Nothing \notin Hashes(k),
         key'[p] = k /\ pc'[p] \in {"calling", "returning"} => Hashes(k) \subseteq {data'[p]},
         \A l \in todo[p] : pc[p] = "calling" /\ l \in Listener =>
           \/ data[p] = given'[l]
           \/ pc'[p] = "calling" /\ key'[p] = key[p] /\ data'[p] = data[p] /\ l \in todo'[p],
         p \in Listener /\ key[p] = k /\ pc'[p] = "listening" =>
           \/ pc[p] = "listening"
           \/ \A h \in Hashes(k) : h # Nothing /\ h = given'[p]
  PROVE  NotedInv(k)'
<1>1. ASSUME NEW q \in Query, key'[q] = k
      PROVE  /\ pc'[q] = "first" => Hashes(k)' \subseteq {Nothing, data'[q]}
             /\ pc'[q] = "changed" => Nothing \notin Hashes(k)'
             /\ pc'[q] \in {"calling", "returning"} => Hashes(k)' \subseteq {data'[q]}
  <2>1. CASE q = p
    BY <1>1, <2>1
  <2>2. CASE q # p
    BY <1>1, <2>2 DEF NotedInv
  <2> QED BY <2>1, <2>2
<1>2. ASSUME NEW l \in Listener, NEW h, BeingGiven(l, h)
      PROVE  h = given'[l] \/ BeingGiven(l, h)'
  <2>1. PICK q \in Query : pc[q] = "calling" /\ key[q] = key[l] /\ data[q] = h /\ l \in todo[q]
    BY <1>2 DEF BeingGiven
  <2>2. CASE q = p
    BY <2>1, <2>2 DEF BeingGiven
  <2>3. CASE q # p
    BY <2>1, <2>3 DEF BeingGiven
  <2> QED BY <2>2, <2>3
<1>3. ASSUME NEW l \in Listener, key'[l] = k, pc'[l] = "listening", NEW h \in Hashes(k)'
      PROVE  h # Nothing /\ (given'[l] = h \/ BeingGiven(l, h)')
  <2>1. h \in Hashes(k) /\ key[l] = k
    BY <1>3
  <2>2. CASE pc[l] = "listening"
    <3>1. h # Nothing /\ (given[l] = h \/ BeingGiven(l, h))
      BY <2>1, <2>2 DEF NotedInv
    <3> QED BY <1>2, <2>1, <3>1
  <2>3. CASE pc[l] # "listening"
    <3>1. l = p
      BY <1>3, <2>3 DEF Query
    <3> QED BY <1>3, <2>1, <2>3, <3>1
  <2> QED BY <2>2, <2>3
<1> QED BY <1>1, <1>3 DEF NotedInv

\* Publishing and deleting.
LEMMA OthersNoted ==
  ASSUME NEW k, NotedInv(k), UNCHANGED << targets, pc, key, data, todo, given >>
  PROVE  NotedInv(k)'
BY DEF NotedInv, Hashes, Of, BeingGiven

\* Steps of loopWatch that query nothing.
LEMMA LoopNoted ==
  ASSUME NEW k, WatchInv, NotedInv(k),
         (\E t \in Tick : Ticks(t)) \/ WatchItem \/ PassItem \/ EndItems
  PROVE  NotedInv(k)'
<1>1. /\ pc[Loop] \in {"select", "items"} /\ UNCHANGED << targets, data, todo, given >>
      /\ \A q \in Query \ {Loop} : pc'[q] = pc[q] /\ key'[q] = key[q]
      /\ pc'[Loop] \in {"select", "items", "asking"}
  BY DEF Ticks, WatchItem, PassItem, EndItems, WatchInv, TypeOK, Query
<1>2. Hashes(k)' = Hashes(k)
  BY <1>1, SameHashes
<1>3. Loop \in Query /\ Loop \notin Listener /\ \A l \in Listener : l \in Query \ {Loop}
  BY NacosWatchAssumption DEF Query
<1> QED BY <1>1, <1>2, <1>3, NotesNothing

\* A new target has no hash, and nobody of its key looks at one yet.
LEMMA RegisterNoted ==
  ASSUME NEW k, WatchInv, NotedInv(k), NEW l \in Listener,
         RegisterShared(l) \/ RegisterExclusive(l)
  PROVE  NotedInv(k)'
<1>1. /\ pc[l] \in {"idle", "missing"} /\ l \in Query /\ l # Loop
      /\ UNCHANGED << key, data, given >>
  BY NacosWatchAssumption DEF RegisterShared, RegisterExclusive, Query
<1>2. /\ \A q \in Query \ {l} :
           pc'[q] = pc[q] \/ (pc[q] = "idle" /\ pc'[q] = "select")
      /\ \A q \in Query \ {l} : todo[q] \subseteq todo'[q]
      /\ pc'[l] \in {"missing", "asking"}
  <2>1. CASE Registered(l)
    <3>1. \A q \in Query : todo[q] \subseteq todo'[q]
      BY <2>1 DEF Registered
    <3> QED BY <1>1, <2>1, <3>1, RegisteredStep
  <2>2. CASE pc' = [pc EXCEPT ![l] = "missing"] /\ UNCHANGED todo
    BY <1>1, <2>2 DEF WatchInv, TypeOK
  <2> QED BY <2>1, <2>2 DEF RegisterShared, RegisterExclusive
<1>3. CASE Hashes(k)' \subseteq Hashes(k)
  BY <1>1, <1>2, <1>3, NotesNothing
<1>4. CASE ~(Hashes(k)' \subseteq Hashes(k))
  <2>1. AppendTarget(l) /\ Of(key[l]) = {}
    <3>1. CASE UNCHANGED targets
      BY <1>4, <3>1, SameHashes
    <3>2. CASE Of(key[l]) # {} /\ AddListener(First(key[l]), l)
      <4>1. PICK i \in Of(key[l]) : First(key[l]) = i
        BY <3>2, TheTarget DEF WatchInv, TypeOK
      <4>2. /\ i \in DOMAIN targets
            /\ targets' = [targets EXCEPT ![i].onChanges = @ \cup {l}]
            /\ targets \in Seq(TargetType) /\ targets[i] \in TargetType
        BY <3>2, <4>1, TargetTypes DEF Of, AddListener, WatchInv, TypeOK
      <4>3. /\ DOMAIN targets' = DOMAIN targets
            /\ \A j \in DOMAIN targets : /\ targets'[j].key = targets[j].key
                                         /\ targets'[j].lastHash = targets[j].lastHash
        BY <4>2 DEF TargetType
      <4> QED BY <1>4, <4>3, SameHashes
    <3> QED BY <3>1, <3>2 DEF RegisterShared, RegisterExclusive
  <2>2. /\ \A i \in DOMAIN targets : i \in DOMAIN targets' /\ targets'[i] = targets[i]
        /\ \A i \in DOMAIN targets' : i \in DOMAIN targets \/ (targets'[i].key = key[l]
                                                             /\ targets'[i].lastHash = Nothing)
    <3>1. targets \in Seq(TargetType)
      BY DEF WatchInv, TypeOK
    <3> QED BY <2>1, <3>1 DEF AppendTarget
  <2>3. k = key[l] /\ Hashes(k)' \subseteq {Nothing}
    BY <1>4, <2>1, <2>2 DEF Hashes, Of
  <2>4. \A p \in Query : key[p] = k => pc[p] \notin Running
    BY <2>1, <2>3, HasTarget DEF Of
  <2>5. \A m \in Listener : key[m] = k => pc[m] \in {"idle", "missing"}
    BY <2>1, <2>3 DEF WatchInv, PlacedInv
  <2>6. \A p \in Query : key[p] = k => pc'[p] \notin {"first", "changed", "calling"}
    BY <1>2, <2>4 DEF Running
  <2>7. /\ \A m \in Listener : key[m] = k => pc'[m] \notin {"returning", "listening"}
        /\ pc'[Loop] # "returning"
    <3>1. pc[Loop] # "returning"
      BY DEF WatchInv, DataInv, Query, Running, InQueryItem
    <3> QED BY <1>1, <1>2, <2>5, <3>1, NacosWatchAssumption DEF Query
  <2> QED BY <1>1, <2>3, <2>6, <2>7 DEF NotedInv, Query
<1> QED BY <1>3, <1>4

\* The end of a query.
LEMMA FinishNoted ==
  ASSUME NEW k, WatchInv, NotedInv(k), NEW p \in Query, Finish(p), Hashes(k)' = Hashes(k),
         todo[p] = {}, UNCHANGED << todo, given >>,
         key[p] = k /\ data[p] # Nothing => Hashes(k) \subseteq {data[p]}
  PROVE  NotedInv(k)'
<1>1. /\ \A q \in Query \ {p} : pc'[q] = pc[q] /\ key'[q] = key[q] /\ data'[q] = data[q]
      /\ pc'[p] \in {"items", "unanswered", "returning"}
      /\ pc'[p] = "returning" => key'[p] = key[p] /\ data'[p] = data[p] /\ data[p] # Nothing
  BY DEF Finish, WatchInv, TypeOK
<1>2. \A l \in Listener : l \in Query /\ key'[l] = key[l]
  BY NacosWatchAssumption DEF Finish, WatchInv, TypeOK, Query
<1> QED BY <1>1, <1>2, NotesNothing

\* A query goes on without noting anything.
LEMMA ProceedNoted ==
  ASSUME NEW k, WatchInv, NotedInv(k), NEW p \in Query, todo[p] = {},
         NEW point \in Running \ {"calling"},
         pc' = [pc EXCEPT ![p] = point],
         point = "first" /\ key[p] = k => Hashes(k) \subseteq {Nothing},
         point = "changed" /\ key[p] = k => Nothing \notin Hashes(k),
         \A q \in Query \ {p} : data'[q] = data[q],
         Hashes(k)' = Hashes(k), UNCHANGED << key, todo, given >>
  PROVE  NotedInv(k)'
<1>1. /\ \A q \in Query \ {p} : pc'[q] = pc[q]
      /\ pc'[p] = point
  BY DEF WatchInv, TypeOK
<1>2. point \notin {"calling", "returning", "listening"}
  BY DEF Running, InQueryItem
<1> QED BY <1>1, <1>2, NotesNothing

LEMMA QueryItemNoted ==
  ASSUME NEW k, WatchInv, BackoffInv, NotedInv(k), NEW p \in Query, QueryItem(p)
  PROVE  NotedInv(k)'
<1> USE DEF Running, InQueryItem
<1>1. /\ pc[p] \in {"answered"} \cup InQueryItem /\ UNCHANGED << todo, given >>
      /\ todo[p] = {}
  BY NothingTodo
     DEF QueryItem, TakeAnswer, TestBackoff, StartBackoff, TestLimit, ReadBackoff, StoreBackoff
<1>2. 0 \in 0 .. MaxBackoff /\ 1 \in 0 .. MaxBackoff
  BY ListenersFinite DEF MaxBackoff
<1>3. Hashes(k)' = Hashes(k)
  <2>1. CASE \E b \in 0 .. MaxBackoff : SetBackoff(p, b)
    BY <1>1, <2>1, SetBackoffSets, SameHashes DEF Kept
  <2>2. CASE UNCHANGED targets
    BY <2>2, SameHashes
  <2>3. ASSUME StoreBackoff(p)
        PROVE  \E b \in 0 .. MaxBackoff : SetBackoff(p, b)
    BY <2>3, StoredBackoff DEF StoreBackoff
  <2> QED BY <1>2, <2>1, <2>2, <2>3
          DEF QueryItem, TakeAnswer, TestBackoff, StartBackoff, TestLimit, ReadBackoff
<1>4. ASSUME NEW point \in {"starting", "testing", "doubling", "storing", "comparing"},
             Proceed(p, point)
      PROVE  NotedInv(k)'
  <2>1. pc' = [pc EXCEPT ![p] = point] /\ UNCHANGED << key, data >>
    BY <1>4 DEF Proceed
  <2> QED BY <1>1, <1>3, <2>1, ProceedNoted
<1>5. ASSUME Finish(p), data[p] = Nothing
      PROVE  NotedInv(k)'
  BY <1>1, <1>3, <1>5, FinishNoted
<1>6. pc[p] \in InQueryItem => data[p] = Nothing
  BY DEF WatchInv, DataInv
<1>7. CASE TakeAnswer(p) \/ TestBackoff(p) \/ ReadBackoff(p)
  BY <1>4, <1>7 DEF TakeAnswer, TestBackoff, ReadBackoff
<1>8. CASE StartBackoff(p) \/ StoreBackoff(p)
  BY <1>5, <1>6, <1>8 DEF StartBackoff, StoreBackoff
<1>9. CASE TestLimit(p)
  BY <1>4, <1>5, <1>6, <1>9 DEF TestLimit
<1> QED BY <1>7, <1>8, <1>9 DEF QueryItem

LEMMA CompareNoted ==
  ASSUME NEW k, WatchInv, NotedInv(k), NEW p \in Query,
         QueryConfig(p) \/ QueryFails(p) \/ QueryRefused(p) \/ Compare(p)
  PROVE  NotedInv(k)'
<1> USE DEF Running
<1>1. /\ pc[p] \in {"asking", "comparing"} /\ UNCHANGED << targets, todo, given >> /\ todo[p] = {}
  BY NothingTodo DEF QueryConfig, QueryFails, QueryRefused, Answer, Compare
<1>2. Hashes(k)' = Hashes(k)
  BY <1>1, SameHashes
<1>3. CASE QueryConfig(p) \/ QueryFails(p) \/ QueryRefused(p)
  <2>1. /\ \A q \in Query \ {p} : data'[q] = data[q]
        /\ pc' = [pc EXCEPT ![p] = "answered"] /\ key' = key
    BY <1>3 DEF QueryConfig, QueryFails, QueryRefused, Answer, WatchInv, TypeOK
  <2> QED BY <1>1, <1>2, <2>1, ProceedNoted
<1>4. CASE Compare(p)
  <2>1. Hashes(key[p]) = {Target(p).lastHash}
    BY <1>1, TheHash
  <2>2. CASE Target(p).lastHash = data[p]
    BY <1>1, <1>2, <1>4, <2>1, <2>2, FinishNoted DEF Compare
  <2>3. CASE Target(p).lastHash # data[p]
    BY <1>1, <1>2, <1>4, <2>1, <2>3, ProceedNoted DEF Compare, Proceed
  <2> QED BY <2>2, <2>3
<1> QED BY <1>3, <1>4

\* What SetHash does to each key.
LEMMA SetHashes ==
  ASSUME NEW k, WatchInv, NEW p \in Query, pc[p] \in Running, SetHash(p)
  PROVE  Hashes(k)' = IF k = key[p] THEN {data[p]} ELSE Hashes(k)
<1>1. PICK i \in DOMAIN targets : First(key[p]) = i /\ targets[i].key = key[p]
  BY HasTarget
<1>2. /\ targets \in Seq(TargetType) /\ targets[i] \in TargetType
      /\ targets' = [targets EXCEPT ![i].lastHash = data[p]]
  BY <1>1, TargetTypes DEF SetHash, WatchInv, TypeOK
<1>3. /\ DOMAIN targets' = DOMAIN targets
      /\ \A j \in DOMAIN targets : targets'[j].key = targets[j].key
      /\ \A j \in DOMAIN targets \ {i} : targets'[j] = targets[j]
      /\ targets'[i].lastHash = data[p]
  BY <1>2 DEF TargetType
<1>4. CASE k = key[p]
  <2>1. i \in Of(k)
    BY <1>1, <1>4 DEF Of
  <2>2. Of(k) = {i}
    BY <2>1, TheTarget DEF WatchInv, TypeOK
  <2>3. Of(k)' = {i}
    BY <1>3, <2>2 DEF Of
  <2> QED BY <1>3, <1>4, <2>3 DEF Hashes
<1>5. CASE k # key[p]
  BY <1>1, <1>3, <1>5, SameHashes
<1> QED BY <1>4, <1>5

\* The first hash is noted: no listener of the key has been given another.
LEMMA NoteFirstNoted ==
  ASSUME NEW k \in Key, WatchInv, NotedInv(k), ~Overlap(k), NEW p \in Query, NoteFirst(p)
  PROVE  NotedInv(k)'
<1>1. /\ pc[p] = "first" /\ SetHash(p) /\ Finish(p) /\ UNCHANGED << todo, given >>
      /\ todo[p] = {} /\ data[p] # Nothing
  BY NothingTodo, HasData DEF NoteFirst, Answered
<1>2. Hashes(k)' = IF k = key[p] THEN {data[p]} ELSE Hashes(k)
  BY <1>1, SetHashes DEF Running
<1>3. CASE key[p] # k
  BY <1>1, <1>2, <1>3, FinishNoted
<1>4. CASE key[p] = k
  <2>1. \A q \in Query : key[q] = k /\ GivesOut(q) => data[q] = data[p]
    BY <1>1, <1>4 DEF Overlap, GivesOut
  <2>2. Hashes(k) = {Target(p).lastHash} /\ Hashes(k) \subseteq {Nothing, data[p]}
    BY <1>1, <1>4, TheHash DEF NotedInv, Running
  <2>3. \A l \in Listener : key[l] = k /\ pc[l] = "listening" => Hashes(k) = {data[p]}
    BY <2>2 DEF NotedInv
  <2>4. /\ \A q \in Query \ {p} : pc'[q] = pc[q] /\ key'[q] = key[q] /\ data'[q] = data[q]
        /\ pc'[p] \in {"items", "returning"}
        /\ pc'[p] = "returning" => data'[p] = data[p]
    BY <1>1 DEF Finish, WatchInv, TypeOK
  <2>5. \A q \in Query : key'[q] = k /\ pc'[q] \in {"first", "changed", "calling", "returning"} =>
          data'[q] = data[p]
    BY <2>1, <2>4 DEF GivesOut
  <2>6. ASSUME NEW l \in Listener, key'[l] = k, pc'[l] = "listening",
              NEW v, v = data[p]
        PROVE  given'[l] = v \/ BeingGiven(l, v)'
    <3>1. l \in Query /\ l # p /\ key[l] = k /\ pc[l] = "listening"
      BY <2>4, <2>6 DEF Query
    <3>2. given[l] = v \/ BeingGiven(l, v)
      BY <2>3, <2>6, <3>1 DEF NotedInv
    <3>3. ASSUME BeingGiven(l, v)
          PROVE  BeingGiven(l, v)'
      <4>1. PICK q \in Query : pc[q] = "calling" /\ key[q] = key[l] /\ data[q] = v /\ l \in todo[q]
        BY <3>3 DEF BeingGiven
      <4>2. q # p
        BY <1>1, <4>1
      <4>3. /\ pc'[q] = "calling" /\ key'[q] = key'[l] /\ data'[q] = v /\ l \in todo'[q]
        BY <1>1, <2>4, <3>1, <4>1, <4>2
      <4> QED BY <4>3 DEF BeingGiven
    <3> QED BY <1>1, <3>2, <3>3
  <2>7. Hashes(k)' = {data[p]}
    BY <1>2, <1>4
  <2> QED BY <1>1, <2>5, <2>6, <2>7 DEF NotedInv
<1> QED BY <1>3, <1>4

\* A change is noted by a query that will go through all listeners of the target.
LEMMA NoteChangeNoted ==
  ASSUME NEW k, WatchInv, NotedInv(k), ~Overlap(k), NEW p \in Query, NoteChange(p)
  PROVE  NotedInv(k)'
<1>1. /\ pc[p] = "changed" /\ SetHash(p) /\ pc' = [pc EXCEPT ![p] = "calling"]
      /\ todo' = [todo EXCEPT ![p] = Target(p).onChanges]
      /\ todo[p] = {} /\ data[p] # Nothing
      /\ UNCHANGED << key, data, given >>
  BY NothingTodo, HasData DEF NoteChange, Answered
<1>2. Hashes(k)' = IF k = key[p] THEN {data[p]} ELSE Hashes(k)
  BY <1>1, SetHashes DEF Running
<1>3. /\ \A q \in Query \ {p} : pc'[q] = pc[q] /\ todo'[q] = todo[q]
      /\ pc'[p] = "calling" /\ todo'[p] = Target(p).onChanges
  BY <1>1 DEF WatchInv, TypeOK
<1>4. CASE key[p] # k
  BY <1>1, <1>2, <1>3, <1>4, NotesNothing
<1>5. CASE key[p] = k
  <2>1. \A q \in Query : key[q] = k /\ GivesOut(q) => data[q] = data[p]
    BY <1>1, <1>5 DEF Overlap, GivesOut
  <2>2. \A q \in Query : key[q] = k /\ pc'[q] \in {"first", "changed", "calling", "returning"} =>
          data[q] = data[p]
    BY <1>3, <2>1 DEF GivesOut
  <2>3. ASSUME NEW l \in Listener, key[l] = k, pc'[l] = "listening"
        PROVE  BeingGiven(l, data[p])'
    <3>1. pc[l] \notin {"idle", "missing"}
      BY <1>1, <1>3, <2>3 DEF Query
    <3>2. l \in Target(p).onChanges
      BY <1>1, <1>5, <2>3, <3>1, TheHash DEF Running
    <3> QED BY <1>1, <1>3, <1>5, <2>3, <3>2 DEF BeingGiven
  <2> QED BY <1>1, <1>2, <1>5, <2>2, <2>3 DEF NotedInv
<1> QED BY <1>4, <1>5

LEMMA CallNoted ==
  ASSUME NEW k, WatchInv, NotedInv(k), NEW p \in Query,
         (\E l \in Listener : CallListener(p, l)) \/ AllCalled(p)
  PROVE  NotedInv(k)'
<1>1. UNCHANGED targets /\ pc[p] = "calling"
  BY DEF CallListener, AllCalled
<1>2. Hashes(k)' = Hashes(k) /\ (key[p] = k => Hashes(k) \subseteq {data[p]})
  BY <1>1, SameHashes DEF NotedInv
<1>3. CASE AllCalled(p)
  BY <1>1, <1>2, <1>3, FinishNoted DEF AllCalled
<1>4. ASSUME NEW l \in Listener, CallListener(p, l)
      PROVE  NotedInv(k)'
  <2>1. /\ l \in todo[p] /\ todo' = [todo EXCEPT ![p] = @ \ {l}]
        /\ given' = [given EXCEPT ![l] = data[p]]
        /\ UNCHANGED << pc, key, data >>
    BY <1>4 DEF CallListener
  <2>2. /\ \A q \in Query \ {p} : todo'[q] = todo[q]
        /\ todo'[p] = todo[p] \ {l}
        /\ \A m \in Listener \ {l} : given'[m] = given[m]
        /\ given'[l] = data[p] /\ key[l] = key[p]
    BY <2>1 DEF WatchInv, TypeOK, TodoInv
  <2> QED BY <1>1, <1>2, <2>1, <2>2, NotesNothing
<1> QED BY <1>3, <1>4

LEMMA ReturnAnswerNoted ==
  ASSUME NEW k, WatchInv, NotedInv(k), NEW l \in Listener, ReturnAnswer(l)
  PROVE  NotedInv(k)'
<1>1. /\ pc[l] = "returning" /\ l \in Query
      /\ pc' = [pc EXCEPT ![l] = "listening"]
      /\ given' = [given EXCEPT ![l] = data[l]]
      /\ data' = [data EXCEPT ![l] = Nothing]
      /\ UNCHANGED << targets, key, todo >>
  BY DEF ReturnAnswer, Query
<1>2. Hashes(k)' = Hashes(k) /\ (key[l] = k => Hashes(k) \subseteq {data[l]}) /\ data[l] # Nothing
  BY <1>1, SameHashes, HasData DEF NotedInv
<1>3. /\ \A q \in Query \ {l} : pc'[q] = pc[q] /\ data'[q] = data[q]
      /\ \A m \in Listener \ {l} : given'[m] = given[m]
      /\ pc'[l] = "listening" /\ given'[l] = data[l]
  BY <1>1 DEF WatchInv, TypeOK
<1> QED BY <1>1, <1>2, <1>3, NotesNothing

LEMMA NotedStep ==
  ASSUME NEW k \in Key, WatchInv, BackoffInv, NotedInv(k), ~Overlap(k), [Next]_vars
  PROVE  NotedInv(k)'
<1>1. CASE UNCHANGED vars \/ \E c \in Key : PublishConfig(c) \/ DeleteConfig(c)
  BY <1>1, OthersNoted DEF vars, PublishConfig, DeleteConfig
<1> QED BY <1>1, RegisterNoted, LoopNoted, QueryItemNoted, CompareNoted, NoteFirstNoted,
           NoteChangeNoted, CallNoted, ReturnAnswerNoted DEF Next, RunItemWatch

----------------------------------------------------------------------------
(* The theorems.                                                           *)

\* Every reachable state of the watcher has the declared types. In particular no
\* backoff goes further past the limit of sixteen seconds than two doublings for
\* each call of ListenConfig, though queries test, read and store it one beside
\* the other under a lock they share.
THEOREM WatchTypeCorrect == Spec => []TypeOK
<1>1. WatchInv => TypeOK
  BY DEF WatchInv
<1> QED BY <1>1, WatchInvHolds, PTL

\* However the registrations of any number of listeners race, a key has one
\* target and each listener past Register is in it.
THEOREM OneTargetPerKeyHolds == Spec => []OneTargetPerKey
<1>1. WatchInv => OneTargetPerKey
  <2> SUFFICES ASSUME WatchInv
               PROVE  OneTargetPerKey
    OBVIOUS
  <2>1. ASSUME NEW k \in Key
        PROVE  Cardinality(Of(k)) <= 1
    <3>1. CASE Of(k) = {}
      BY <3>1, FS_EmptySet
    <3>2. CASE Of(k) # {}
      <4>1. PICK i \in Of(k) : TRUE
        BY <3>2
      <4>2. Of(k) = {i}
        BY TheTarget DEF WatchInv, TypeOK
      <4>3. Cardinality({i}) = 1
        BY FS_Singleton
      <4> QED BY <4>2, <4>3
    <3> QED BY <3>1, <3>2
  <2> QED BY <2>1 DEF OneTargetPerKey, WatchInv, PlacedInv
<1> QED BY <1>1, WatchInvHolds, PTL

\* However answers, changes and calls are ordered, a configuration that a listener
\* is given was published under its key; what else it is given is the answer of
\* JSON without a code.
THEOREM GivenWasPublishedHolds == Spec => []GivenWasPublished
<1>1. WatchInv => GivenWasPublished
  BY DEF WatchInv, GivenInv, GivenWasPublished
<1> QED BY <1>1, WatchInvHolds, PTL

\* Unless two queries of a key give out different answers at once, the last that
\* a listener was given whose ListenConfig has returned an answer is the one
\* whose hash the watcher has noted, or a query is about to give it: what is no
\* change to the watcher any more is what the listeners have, however queries,
\* registrations and changes interleave. InformedUnlessOverlap rests on this.
THEOREM NotedIsGivenHolds ==
  ASSUME NEW k \in Key
  PROVE  Spec /\ [](~Overlap(k)) => [](NotedIsGiven(k))
<1>1. Init => NotedInv(k)
  BY DEF Init, NotedInv, Query
<1>2. WatchInv /\ BackoffInv /\ NotedInv(k) /\ ~Overlap(k) /\ [Next]_vars => NotedInv(k)'
  BY NotedStep
<1>3. NotedInv(k) => NotedIsGiven(k)
  BY DEF NotedInv, NotedIsGiven
<1> QED BY <1>1, <1>2, <1>3, WatchInvHolds, PTL DEF Spec

============================================================================
