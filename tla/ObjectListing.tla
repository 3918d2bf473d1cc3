---------------------------- MODULE ObjectListing ----------------------------
(***************************************************************************)
(* ListObject of clients/storage/fs, oss and s3, while others put and      *)
(* delete objects. The object stores answer pages, each beginning after    *)
(* the continuation token of the one before; the file system is walked,    *)
(* one directory being read at a time.                                     *)
(*                                                                         *)
(* An object is its rank in the order of the store. Some are in the one    *)
(* directory, which is a prefix that ends in "/" in the object stores and  *)
(* takes one place among the other names. The stores are external.         *)
(***************************************************************************)
EXTENDS Naturals, FiniteSets, Sequences

CONSTANTS
  Object,     \* ranks of the objects
  Inside,     \* those in the directory
  PageSize    \* MaxKeys

Backend == {"fs", "oss", "s3"}
Prefix  == {"root", "dir"}

ASSUME ListingAssumption ==
  /\ Object \subseteq Nat \ {0}
  /\ Inside \subseteq Object
  /\ \A o \in Object \ Inside : (\A i \in Inside : o < i) \/ (\A i \in Inside : i < o)
  /\ PageSize \in Nat \ {0}

VARIABLES
  backend,
  stored,      \* objects of the store
  list,        \* the call: where it is, and what it is to list
  page,        \* objects read and not yet handed to the callback
  unread,      \* fs: the directory is still to be read
  token,       \* oss, s3: continueToken, an object or zero for nil
  nextToken,   \* oss, s3: NextContinuationToken of the last answer
  cancelled,   \* the context is done
  late,        \* history: callbacks since the context is done
  visited, seen, stable   \* history, as in Enumeration

readVars    == << page, unread, token, nextToken >>
historyVars == << visited, seen, stable >>
listingVars == << backend, stored, list, readVars, cancelled, late, historyVars >>

\* What a listing is to visit. A walk from a directory without recursion
\* passes over the directory it starts from.
Wanted(prefix, recursion) ==
  CASE prefix = "root" /\ recursion  -> Object
    [] prefix = "root" /\ ~recursion -> Object \ Inside
    [] prefix = "dir" -> IF backend = "fs" /\ ~recursion THEN {} ELSE Inside

ListTarget == Wanted(list.prefix, list.recursion)

ListOpen == list.state \in {"reading", "items", "calling"}

----------------------------------------------------------------------------
ListingInit ==
  /\ backend \in Backend
  /\ stored = {}
  /\ list = [state |-> "idle", prefix |-> "root", recursion |-> FALSE]
  /\ page = {} /\ unread = FALSE /\ token = 0 /\ nextToken = 0
  /\ cancelled = FALSE /\ late = 0
  /\ visited = << >> /\ seen = {} /\ stable = {}

AddObject(o) ==
  /\ o \notin stored
  /\ stored' = stored \cup {o}
  /\ seen' = IF ListOpen /\ o \in ListTarget THEN seen \cup {o} ELSE seen
  /\ UNCHANGED << backend, list, readVars, cancelled, late, visited, stable >>

RemoveObject(o) ==
  /\ o \in stored
  /\ stored' = stored \ {o}
  /\ stable' = stable \ {o}
  /\ UNCHANGED << backend, list, readVars, cancelled, late, visited, seen >>

CancelList ==
  /\ ~cancelled
  /\ cancelled' = TRUE
  /\ UNCHANGED << backend, stored, list, readVars, late, historyVars >>

\* A listing is called. ReadDir of oss and s3 is one without recursion; that of
\* fs, which reads the directory and no more, is not modelled.
ListObject(prefix, recursion) ==
  /\ list.state = "idle"
  /\ list' = [state |-> "reading", prefix |-> prefix, recursion |-> recursion]
  /\ seen' = stored \cap Wanted(prefix, recursion)
  /\ stable' = seen'
  /\ UNCHANGED << backend, stored, readVars, cancelled, late, visited >>

\* Steps of the call that neither hand over an object nor read.
Goto(state) ==
  /\ list' = [list EXCEPT !.state = state]
  /\ UNCHANGED << backend, stored, cancelled, historyVars >>

----------------------------------------------------------------------------
(* fs: fs.WalkDir.                                                         *)

\* The root is read: its files, and the directory if that is among them.
WalkRoot ==
  /\ backend = "fs"
  /\ list.state = "reading"
  /\ page' = stored \cap IF list.prefix = "root" THEN Object \ Inside ELSE ListTarget
  /\ unread' = (list.prefix = "root" /\ list.recursion /\ Inside # {})
  /\ Goto("items")
  /\ UNCHANGED << token, nextToken, late >>

\* The directory is read when its place among the files is reached.
WalkDirectory ==
  /\ list.state = "items"
  /\ unread
  /\ \A o \in page, i \in Inside : i < o
  /\ page' = page \cup (stored \cap Inside)
  /\ unread' = FALSE
  /\ Goto("items")
  /\ UNCHANGED << token, nextToken, late >>

----------------------------------------------------------------------------
(* oss, s3: one request for each page.                                     *)

After(t) == {o \in stored \cap ListTarget : o > t}

\* ListObjectsV2 answers the objects after the token, up to MaxKeys of them
\* and leaving none out, and where to go on when there are more.
ListPage ==
  /\ backend # "fs"
  /\ list.state = "reading"
  /\ ~cancelled
  /\ \/ nextToken' = 0 /\ page' = After(token)
     \/ /\ nextToken' \in Object /\ nextToken' > token /\ After(nextToken') # {}
        /\ page' = After(token) \ After(nextToken')
  /\ Cardinality(page') <= PageSize
  /\ Goto("items")
  /\ UNCHANGED << unread, token, late >>

\* Mutant: the next request begins where this one did.
NextPageSameToken ==
  /\ backend # "fs"
  /\ list.state = "items"
  /\ page = {}
  /\ nextToken # 0
  /\ Goto("reading")
  /\ UNCHANGED << page, unread, token, nextToken, late >>

\* The page is handed over and there is another one.
NextPage ==
  /\ backend # "fs"
  /\ list.state = "items"
  /\ page = {}
  /\ nextToken # 0
  /\ token' = nextToken
  /\ Goto("reading")
  /\ UNCHANGED << page, unread, nextToken, late >>

----------------------------------------------------------------------------
(* The objects read, in their order.                                       *)

\* o is the next one.
AtItem(o) ==
  /\ o \in page
  /\ \A p \in page : o <= p
  /\ unread => \A i \in Inside : o < i

\* Mutant: the context is looked at before a page only.
CheckItemPageOnly(o) ==
  /\ list.state = "items"
  /\ AtItem(o)
  /\ Goto("calling")
  /\ UNCHANGED << readVars, late >>

\* The context is looked at before each object ...
CheckItem(o) ==
  /\ list.state = "items"
  /\ AtItem(o)
  /\ ~cancelled
  /\ Goto("calling")
  /\ UNCHANGED << readVars, late >>

\* ... and the object is handed to the callback.
CallbackItem(o) ==
  /\ list.state = "calling"
  /\ AtItem(o)
  /\ visited' = Append(visited, o)
  /\ page' = page \ {o}
  /\ late' = IF cancelled THEN late + 1 ELSE late
  /\ list' = [list EXCEPT !.state = "items"]
  /\ UNCHANGED << backend, stored, unread, token, nextToken, cancelled, seen, stable >>

\* Nothing is left: nil is returned.
ListReturns ==
  /\ list.state = "items"
  /\ page = {} /\ ~unread /\ nextToken = 0
  /\ Goto("complete")
  /\ UNCHANGED << readVars, late >>

\* The context is done, a request fails, or a directory cannot be read.
ListFails ==
  /\ \/ list.state = "items" /\ cancelled /\ \E o \in page : AtItem(o)
     \/ list.state = "items" /\ unread
     \/ list.state = "reading"
  /\ Goto("failed")
  /\ UNCHANGED << readVars, late >>

----------------------------------------------------------------------------
ListStep ==
  \/ WalkRoot \/ WalkDirectory
  \/ ListPage \/ NextPage
  \/ \E o \in Object : CheckItem(o) \/ CallbackItem(o)
  \/ ListReturns
  \/ ListFails

ListingNext ==
  \/ \E o \in Object : AddObject(o) \/ RemoveObject(o)
  \/ CancelList
  \/ \E prefix \in Prefix, recursion \in BOOLEAN : ListObject(prefix, recursion)
  \/ ListStep

ListingSpec == ListingInit /\ [][ListingNext]_listingVars

\* Requests and directories are answered, and callbacks return.
ListingFairSpec == ListingSpec /\ WF_listingVars(ListStep)

----------------------------------------------------------------------------
(* Properties.                                                             *)

\* Every variable has its type.
ListingTypeOK ==
  /\ backend \in Backend
  /\ stored \in SUBSET Object
  /\ list \in [state : {"idle", "reading", "items", "calling", "complete", "failed"},
               prefix : Prefix, recursion : BOOLEAN]
  /\ page \in SUBSET Object
  /\ unread \in BOOLEAN
  /\ token \in Object \cup {0} /\ nextToken \in Object \cup {0}
  /\ cancelled \in BOOLEAN
  /\ late \in Nat
  /\ visited \in Seq(Object) /\ seen \in SUBSET Object /\ stable \in SUBSET Object

\* A listing of any backend is an enumeration, whatever is put and deleted
\* between its pages or while it walks: in order, each object at most once,
\* only what was there, and all that stayed if it returns nil. After its
\* context is done it calls back at most once, for an object checked before.
Enumerates ==
  INSTANCE Enumeration WITH status <- IF ListOpen THEN "open" ELSE list.state
ListsObjects == Enumerates!EnumSpec

\* A listing returns, however many objects are put while it runs.
ListingReturns == (list.state = "reading") ~> list.state \in {"complete", "failed"}

============================================================================
