------------------------------ MODULE ForeachSet ------------------------------
(***************************************************************************)
(* ForeachSet of clients/redis/redis.go: a function is called with the     *)
(* members of a Redis set, which SSCAN answers page by page, while others  *)
(* add and remove members.                                                 *)
(*                                                                         *)
(* Redis is external. A member is a number, the place in the hash table at *)
(* which the scan meets it; the cursor says which places are done, zero is *)
(* the beginning and the end. A page may be of any size, pageSize being a  *)
(* hint, and may hold members that were in a page before.                  *)
(***************************************************************************)
EXTENDS Naturals, FiniteSets

CONSTANTS
  Member,     \* places of the members
  pageSize

ASSUME ForeachAssumption ==
  /\ Member \subseteq Nat \ {0}
  /\ IsFiniteSet(Member)
  /\ pageSize \in Nat \ {0}

VARIABLES
  set,        \* Redis: members of the set
  foreach,    \* where the call is
  done,       \* the context is done
  cursor,
  ret,        \* members of the page still to be passed to f
  length,     \* members of the page
  early,      \* history: the page was shorter than pageSize but not the last
  wraps,      \* history: a full page was the last, the scan began again
  stopped,    \* history: f returned ErrStopLoop
  called,     \* history: members f was called with
  stays       \* history: members of the set all the time

pageVars == << cursor, ret, length, early, wraps, stopped >>
foreachVars == << set, foreach, done, pageVars, called, stays >>

----------------------------------------------------------------------------
ForeachInit ==
  /\ set \in SUBSET Member
  /\ foreach = "idle"
  /\ done = FALSE
  /\ cursor = 0 /\ ret = {} /\ length = 0
  /\ early = FALSE /\ wraps = FALSE /\ stopped = FALSE
  /\ called = {} /\ stays = {}

SAdd(m) ==
  /\ m \notin set
  /\ set' = set \cup {m}
  /\ UNCHANGED << foreach, done, pageVars, called, stays >>

SRem(m) ==
  /\ m \in set
  /\ set' = set \ {m}
  /\ stays' = stays \ {m}
  /\ UNCHANGED << foreach, done, pageVars, called >>

ContextDone ==
  /\ ~done
  /\ done' = TRUE
  /\ UNCHANGED << set, foreach, pageVars, called, stays >>

\* SCARD, which may fail: nothing is done with an empty set.
SCard ==
  /\ foreach = "idle"
  /\ foreach' \in {"failed", IF set = {} THEN "returned" ELSE "scanning"}
  /\ stays' = set
  /\ UNCHANGED << set, done, pageVars, called >>

\* Mutant: the cursor of the answer is dropped.
ScanAgain ==
  /\ foreach = "scanning"
  /\ ~done
  /\ \E next \in Member \cup {0}, Again \in SUBSET set :
       ret' = {m \in set : m \in Again \/ next = 0 \/ m <= next}
  /\ cursor' = 0
  /\ length' = Cardinality(ret')
  /\ foreach' = "page"
  /\ UNCHANGED << set, done, early, wraps, stopped, called, stays >>

\* SSCAN from the cursor. While the context is done the loop goes round
\* without it, and without returning.
Scan ==
  /\ foreach = "scanning"
  /\ ~done
  /\ cursor' \in {n \in Member : n > cursor} \cup {0}
  /\ \E Again \in SUBSET {m \in set : m <= cursor} :
       ret' = Again \cup {m \in set : m > cursor /\ (cursor' = 0 \/ m <= cursor')}
  /\ length' = Cardinality(ret')
  /\ foreach' = "page"
  /\ UNCHANGED << set, done, early, wraps, stopped, called, stays >>

\* SSCAN fails, or f returns an error that is not ErrStopLoop.
ScanFails ==
  /\ (foreach = "scanning" /\ ~done) \/ (foreach = "page" /\ ret # {})
  /\ foreach' = "failed"
  /\ UNCHANGED << set, done, pageVars, called, stays >>

\* f is called; ErrStopLoop leaves the loop over this page.
CallF(m) ==
  /\ foreach = "page"
  /\ m \in ret
  /\ called' = called \cup {m}
  /\ \/ ret' = ret \ {m} /\ UNCHANGED stopped
     \/ ret' = {} /\ stopped' = TRUE
  /\ UNCHANGED << set, foreach, done, cursor, length, early, wraps, stays >>

\* Mutant: an empty page ends the loop.
EndPageOnEmpty ==
  /\ foreach = "page"
  /\ ret = {}
  /\ foreach' = IF length = 0 THEN "returned" ELSE "scanning"
  /\ early' = (length = 0 /\ cursor # 0)
  /\ wraps' = (wraps \/ (length >= pageSize /\ cursor = 0))
  /\ UNCHANGED << set, done, cursor, ret, length, stopped, called, stays >>

\* A page shorter than pageSize ends the loop, whatever the cursor is.
EndPage ==
  /\ foreach = "page"
  /\ ret = {}
  /\ foreach' = IF length < pageSize THEN "returned" ELSE "scanning"
  /\ early' = (length < pageSize /\ cursor # 0)
  /\ wraps' = (wraps \/ (length >= pageSize /\ cursor = 0))
  /\ UNCHANGED << set, done, cursor, ret, length, stopped, called, stays >>

----------------------------------------------------------------------------
ForeachStep == Scan \/ ScanFails \/ EndPage \/ \E m \in Member : CallF(m)

ForeachNext ==
  \/ \E m \in Member : SAdd(m) \/ SRem(m)
  \/ ContextDone
  \/ SCard
  \/ ForeachStep

ForeachSpec == ForeachInit /\ [][ForeachNext]_foreachVars

\* Redis answers and f returns.
ForeachFairSpec == ForeachSpec /\ WF_foreachVars(ForeachStep)

----------------------------------------------------------------------------
(* Properties.                                                             *)

\* Every variable has its type.
ForeachTypeOK ==
  /\ set \in SUBSET Member
  /\ foreach \in {"idle", "scanning", "page", "returned", "failed"}
  /\ cursor \in Member \cup {0}
  /\ ret \in SUBSET Member
  /\ length \in Nat
  /\ {done, early, wraps, stopped} \subseteq BOOLEAN
  /\ called \in SUBSET Member /\ stays \in SUBSET Member

\* A call that returns nil has passed f every member that stayed in the set,
\* whatever was added, removed or answered twice meanwhile, unless f stopped
\* it or Redis answered a short page before the last.
ForeachComplete ==
  foreach = "returned" /\ ~early /\ ~stopped => stays \subseteq called

\* A call ends, though Redis pages as it likes, unless its context is done,
\* in which case it spins, or a full page is the last, after which it starts
\* again.
ForeachEnds ==
  foreach = "scanning" ~> foreach \in {"returned", "failed"} \/ done \/ wraps

============================================================================
