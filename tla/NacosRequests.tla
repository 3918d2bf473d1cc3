---------------------------- MODULE NacosRequests ----------------------------
(***************************************************************************)
(* The requests of clients/nacos/client.go: PublishConfig, DeleteConfig    *)
(* and QueryConfig each work on a copy of the client (value receivers), so *)
(* the token that doRequest renews is renewed for the one call.            *)
(*                                                                         *)
(* A token is the number of the login that issued it. The Nacos server is  *)
(* external; there is one configuration, and what a call publishes is      *)
(* named by the call. Messages take any time, the client has no timeout.   *)
(***************************************************************************)
EXTENDS Integers, Sequences

CONSTANTS
  Call,      \* calls of the three methods
  None,   \* no configuration, no answer, no result
  Refused,   \* no effect
  Empty,     \* the content "" of an answer that has none
  TTL,       \* how long the server accepts a token
  Margin,    \* time.Minute
  MaxTime    \* bound: the clock stops here

Method == {"Publish", "Delete", "Query"}

\* Codes of an answer; zero is success.
NotFound == 20004
Failed   == 1

ASSUME RequestsAssumption ==
  /\ TTL \in Nat /\ Margin \in Nat /\ MaxTime \in Nat
  /\ None \notin Call \cup {Empty, Refused}
  /\ Empty \notin Call \cup {Refused}
  /\ Refused \notin Call
  /\ {"true", "error", "notfound"} \cap (Call \cup {Empty, None, Refused}) = {}

VARIABLES
  now,
  config,    \* server: the configuration
  issued,    \* server: when each token was issued
  received,  \* client: when each token was received
  token,     \* token and tokenExpireAt of the client
  request,   \* each call: state, method and copy of the client
  answer,    \* each call: code and data of the answer
  effect,    \* history: the configuration a call met at the server
  result     \* each call: what it returned

requestVars == << now, config, issued, received, token, request, answer, effect, result >>

----------------------------------------------------------------------------
\* NewConfigClient: the client begins with the token of a first login.
RequestsInit ==
  /\ now \in 0 .. Margin
  /\ config = None
  /\ issued = << 0 >>
  /\ received = << now >>
  /\ token = [id |-> 1, expireAt |-> now + TTL]
  /\ request = [c \in Call |-> [state |-> "idle", method |-> "Query", token |-> token, sent |-> 0]]
  /\ answer = [c \in Call |-> None]
  /\ effect = [c \in Call |-> Refused]
  /\ result = [c \in Call |-> None]

ClockTicks ==
  /\ now < MaxTime
  /\ now' = now + 1
  /\ UNCHANGED << config, issued, received, token, request, answer, effect, result >>

\* Mutant: a token is renewed when it has expired.
ExpiredOnly(t) == t.expireAt < now

Expires(t) == t.expireAt - now < Margin

\* A method is called and copies the client; doRequest looks at the token.
Begin(c, m) ==
  /\ request[c].state = "idle"
  /\ request' = [request EXCEPT ![c] =
       [state |-> IF Expires(token) THEN "login" ELSE "sending",
        method |-> m, token |-> token, sent |-> now]]
  /\ UNCHANGED << now, config, issued, received, token, answer, effect, result >>

Returns(c, r) ==
  /\ request' = [request EXCEPT ![c].state = "returned"]
  /\ result' = [result EXCEPT ![c] = r]

\* Authorization: the server issues a token ...
Login(c) ==
  /\ request[c].state = "login"
  /\ issued' = Append(issued, now)
  /\ received' = Append(received, now)
  /\ request' = [request EXCEPT ![c] =
       [state |-> "authorizing", method |-> @.method,
        token |-> [id |-> Len(issued) + 1, expireAt |-> @.token.expireAt], sent |-> @.sent]]
  /\ UNCHANGED << now, config, token, answer, effect, result >>

\* ... and the client has it; the life of the token is counted from here.
Authorized(c) ==
  /\ request[c].state = "authorizing"
  /\ received' = [received EXCEPT ![request[c].token.id] = now]
  /\ request' = [request EXCEPT ![c] =
       [state |-> "sending", method |-> @.method,
        token |-> [id |-> @.token.id, expireAt |-> now + TTL], sent |-> now]]
  /\ UNCHANGED << now, config, issued, token, answer, effect, result >>

\* The login fails: refused, not JSON, no token in it, or no answer.
LoginFails(c) ==
  /\ request[c].state \in {"login", "authorizing"}
  /\ Returns(c, "error")
  /\ UNCHANGED << now, config, issued, received, token, answer, effect >>

----------------------------------------------------------------------------
(* The request at the server.                                              *)

Accepted(c) == now < issued[request[c].token.id] + TTL

Answers(c, code, data, carriedOut) ==
  /\ request[c].state = "sending"
  /\ request' = [request EXCEPT ![c].state = "answered"]
  /\ answer' = [answer EXCEPT ![c] = [code |-> code, data |-> data]]
  /\ effect' = [effect EXCEPT ![c] = IF carriedOut THEN config ELSE Refused]
  /\ UNCHANGED << now, issued, received, token, result >>

\* The request is carried out ...
Handle(c) ==
  /\ Accepted(c)
  /\ CASE request[c].method = "Publish" -> Answers(c, 0, "true", TRUE) /\ config' = c
       [] request[c].method = "Delete"  -> Answers(c, 0, "true", TRUE) /\ config' = None
       [] request[c].method = "Query"   ->
            /\ IF config = None THEN Answers(c, NotFound, Empty, TRUE)
                                   ELSE Answers(c, 0, config, TRUE)
            /\ UNCHANGED config

\* ... or refused, as a failure of the server or for its token: with a code, or
\* by a filter whose answer has none, which decodes as zero.
Refuse(c) ==
  /\ \/ Answers(c, Failed, Empty, FALSE)
     \/ ~Accepted(c) /\ Answers(c, 0, Empty, FALSE)
  /\ UNCHANGED config

\* The answer is lost, or cannot be decoded.
Lose(c) ==
  /\ request[c].state = "answered"
  /\ answer[c] # None
  /\ answer' = [answer EXCEPT ![c] = None]
  /\ UNCHANGED << now, config, issued, received, token, request, effect, result >>

\* Mutant: the code of an answer is not looked at.
OutcomeUnchecked(c) ==
  IF answer[c] = None THEN "error" ELSE answer[c].data

\* What a method makes of the answer: only QueryConfig knows NotFound.
PublishReturns(c) == IF answer[c] = None \/ answer[c].code # 0 THEN "error" ELSE answer[c].data

DeleteReturns(c) == IF answer[c] = None \/ answer[c].code # 0 THEN "error" ELSE answer[c].data

QueryReturns(c) ==
  IF answer[c] = None THEN "error"
  ELSE IF answer[c].code = NotFound THEN "notfound"
  ELSE IF answer[c].code # 0 THEN "error"
  ELSE answer[c].data

Outcome(c) ==
  CASE request[c].method = "Publish" -> PublishReturns(c)
    [] request[c].method = "Delete"  -> DeleteReturns(c)
    [] request[c].method = "Query"   -> QueryReturns(c)

Return(c) ==
  /\ request[c].state = "answered"
  /\ Returns(c, Outcome(c))
  /\ UNCHANGED << now, config, issued, received, token, answer, effect >>

----------------------------------------------------------------------------
RequestsNext ==
  \/ ClockTicks
  \/ \E c \in Call, m \in Method : Begin(c, m)
  \/ \E c \in Call :
       \/ Login(c) \/ Authorized(c) \/ LoginFails(c)
       \/ Handle(c) \/ Refuse(c) \/ Lose(c) \/ Return(c)

RequestsSpec == RequestsInit /\ [][RequestsNext]_requestVars

----------------------------------------------------------------------------
(* Properties.                                                             *)

Token == [id : 1 .. Len(issued), expireAt : Int]

\* Every variable has its type.
RequestsTypeOK ==
  /\ now \in Nat
  /\ config \in Call \cup {None}
  /\ issued \in Seq(Nat) /\ received \in Seq(Nat) /\ Len(received) = Len(issued)
  /\ token \in Token
  /\ request \in [Call -> [state : {"idle", "login", "authorizing", "sending", "answered",
                                    "returned"},
                           method : Method, token : Token, sent : Nat]]
  /\ answer \in [Call -> [code : {0, NotFound, Failed}, data : Call \cup {Empty, "true"}] \cup {None}]
  /\ effect \in [Call -> Call \cup {None, Refused}]
  /\ result \in [Call -> Call \cup {None, Empty, "error", "notfound", "true"}]

\* How long the token and then the request were on their way.
Delay(c) ==
  LET id == request[c].token.id
  IN  (received[id] - issued[id]) + (now - request[c].sent)

\* The server refuses no token of a request unless the login and the request
\* were under way for a minute, or for as long as a token lives: renewing a
\* token a minute early, counted from its receipt, makes up for the delays.
AuthorizedInTime ==
  \A c \in Call :
    request[c].state = "sending" /\ Delay(c) < Margin /\ Delay(c) < TTL => Accepted(c)

\* What a method returns is what the server did, whatever was lost, refused or
\* published at the same time: true only for what was carried out, not found
\* only when there was nothing, data only when they were the configuration. A
\* success without data (false, or an empty content) is a refusal in disguise.
AnswersHold ==
  \A c \in Call :
    /\ result[c] = "true" => effect[c] # Refused
    /\ result[c] = "notfound" => effect[c] = None
    /\ result[c] \in Call => effect[c] = result[c]
    /\ result[c] = Empty => effect[c] = Refused

============================================================================
