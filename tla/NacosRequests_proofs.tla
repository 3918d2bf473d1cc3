------------------------- MODULE NacosRequests_proofs -------------------------
(***************************************************************************)
(* Proofs about NacosRequests, for any calls, any life of a token and any  *)
(* margin: types, that tokens are renewed in time, and that the answers of *)
(* the methods hold; then of both halves of the client side by side.       *)
(***************************************************************************)
EXTENDS MCNacos, NacosWatch_proofs

----------------------------------------------------------------------------
(* The inductive invariant.                                                *)

\* The client keeps the token of the first login for ever. A token was
\* received after it was issued. A call that looks at the token of the client
\* has a copy of it; one that sends has a token with more than the margin to
\* live, or one it has just received.
TokenInv ==
  /\ token = [id |-> 1, expireAt |-> received[1] + TTL]
  /\ \A i \in 1 .. Len(issued) : issued[i] <= received[i] /\ received[i] <= now
  /\ \A c \in Call :
       LET r == request[c] IN
       /\ r.state \in {"idle", "login"} => r.token = token
       /\ r.state = "authorizing" => r.token.id > 1
       /\ r.state = "sending" =>
            /\ r.token.expireAt = received[r.token.id] + TTL
            /\ r.sent <= now
            /\ r.token.expireAt - r.sent >= Margin \/ r.sent = received[r.token.id]

\* Two calls share no token but the first.
OwnTokenInv ==
  \A c, d \in Call :
    c # d /\ request[c].token.id = request[d].token.id => request[c].token.id = 1

\* An answer that is on its way says what the server did.
AnswerInv ==
  \A c \in Call :
    /\ request[c].state # "returned" => result[c] = None
    /\ request[c].state # "answered" /\ result[c] = None => answer[c] = None
    /\ request[c].state \in {"idle", "login", "authorizing", "sending"} =>
         answer[c] = None /\ effect[c] = Refused
    /\ answer[c] # None =>
         /\ answer[c].code = 0 /\ answer[c].data = "true" => effect[c] # Refused
         /\ answer[c].code = 0 /\ answer[c].data \in Call => effect[c] = answer[c].data
         /\ answer[c].code = 0 /\ answer[c].data = Empty => effect[c] = Refused
         /\ answer[c].code = NotFound => effect[c] = None

RequestsInv ==
  RequestsTypeOK /\ TokenInv /\ OwnTokenInv /\ AnswerInv /\ AnswersHold

----------------------------------------------------------------------------
LEMMA RequestsInvInit == RequestsInit => RequestsInv
<1> SUFFICES ASSUME RequestsInit
             PROVE  RequestsInv
  OBVIOUS
<1> USE RequestsAssumption DEF RequestsInit
<1>1. Len(issued) = 1 /\ Len(received) = 1 /\ issued[1] = 0 /\ received[1] = now
      /\ issued \in Seq(Nat) /\ received \in Seq(Nat) /\ now \in Nat
  OBVIOUS
<1>2. token \in Token
  BY <1>1 DEF Token
<1>3. RequestsTypeOK
  BY <1>1, <1>2 DEF RequestsTypeOK, Method
<1>4. TokenInv /\ OwnTokenInv
  BY <1>1 DEF TokenInv, OwnTokenInv
<1>5. AnswerInv /\ AnswersHold
  BY DEF AnswerInv, AnswersHold
<1> QED BY <1>3, <1>4, <1>5 DEF RequestsInv


\* What a type invariant says of one call.
LEMMA CallTypes ==
  ASSUME RequestsTypeOK
  PROVE  /\ now \in Nat /\ issued \in Seq(Nat) /\ received \in Seq(Nat)
         /\ Len(received) = Len(issued) /\ Len(issued) \in Nat
         /\ token \in Token
         /\ \A c \in Call :
              /\ request[c].state \in {"idle", "login", "authorizing", "sending", "answered",
                                       "returned"}
              /\ request[c].method \in Method
              /\ request[c].token \in Token
              /\ request[c].token.id \in 1 .. Len(issued)
              /\ request[c].token.expireAt \in Int
              /\ request[c].sent \in Nat
<1>1. /\ now \in Nat /\ issued \in Seq(Nat) /\ received \in Seq(Nat)
      /\ Len(received) = Len(issued) /\ Len(issued) \in Nat
      /\ token \in Token
  BY DEF RequestsTypeOK
<1>2. ASSUME NEW c \in Call
      PROVE  /\ request[c].state \in {"idle", "login", "authorizing", "sending", "answered",
                                      "returned"}
             /\ request[c].method \in Method
             /\ request[c].token \in Token
             /\ request[c].sent \in Nat
  BY DEF RequestsTypeOK
<1>3. \A t \in Token : t.id \in 1 .. Len(issued) /\ t.expireAt \in Int
  BY DEF Token
<1> QED BY <1>1, <1>2, <1>3

\* The clock ticks.
LEMMA TickStep == RequestsInv /\ ClockTicks => RequestsInv'
<1> SUFFICES ASSUME RequestsInv, ClockTicks
             PROVE  RequestsInv'
  OBVIOUS
<1>1. RequestsTypeOK'
  BY DEF RequestsInv, ClockTicks, RequestsTypeOK, Token
<1>2. now' = now + 1 /\ now \in Nat
      /\ UNCHANGED << config, issued, received, token, request, answer, effect, result >>
  BY DEF RequestsInv, ClockTicks, RequestsTypeOK
<1>3. TokenInv'
  <2>1. \A i \in 1 .. Len(issued) : issued[i] <= received[i] /\ received[i] <= now + 1
    <3>1. \A i \in 1 .. Len(issued) : issued[i] \in Nat /\ received[i] \in Nat
      BY CallTypes DEF RequestsInv
    <3> QED BY <1>2, <3>1 DEF RequestsInv, TokenInv
  <2>2. \A c \in Call : request[c].sent \in Nat
    BY CallTypes DEF RequestsInv
  <2> QED BY <1>2, <2>1, <2>2 DEF RequestsInv, TokenInv
<1>4. OwnTokenInv' /\ AnswerInv' /\ AnswersHold'
  BY <1>2 DEF RequestsInv, OwnTokenInv, AnswerInv, AnswersHold
<1> QED BY <1>1, <1>3, <1>4 DEF RequestsInv

\* A call begins with a copy of the token of the client.
LEMMA BeginStep ==
  ASSUME NEW c \in Call, NEW m \in Method, RequestsInv, Begin(c, m)
  PROVE  RequestsInv'
<1>1. /\ request[c].state = "idle"
      /\ request' = [request EXCEPT ![c] =
           [state |-> IF Expires(token) THEN "login" ELSE "sending",
            method |-> m, token |-> token, sent |-> now]]
      /\ UNCHANGED << now, config, issued, received, token, answer, effect, result >>
  BY DEF Begin
<1>2. request'[c] = [state |-> IF Expires(token) THEN "login" ELSE "sending",
                     method |-> m, token |-> token, sent |-> now]
      /\ \A d \in Call \ {c} : request'[d] = request[d]
  BY <1>1 DEF RequestsInv, RequestsTypeOK
<1>3. now \in Nat /\ token \in Token /\ token.id = 1
      /\ token.expireAt = received[1] + TTL /\ token.expireAt \in Int
  BY DEF RequestsInv, RequestsTypeOK, TokenInv, Token
<1>4. RequestsTypeOK'
  BY <1>1, <1>3 DEF RequestsInv, RequestsTypeOK, Token
<1>5. request'[c].state = "sending" => token.expireAt - now >= Margin
  BY <1>2, <1>3, RequestsAssumption DEF Expires
<1>6. TokenInv'
  BY <1>1, <1>2, <1>3, <1>5 DEF RequestsInv, TokenInv
<1>7. OwnTokenInv'
  BY <1>2, <1>3 DEF RequestsInv, OwnTokenInv
<1>8. AnswerInv' /\ AnswersHold'
  BY <1>1, <1>2 DEF RequestsInv, AnswerInv, AnswersHold
<1> QED BY <1>4, <1>6, <1>7, <1>8 DEF RequestsInv

\* The server issues a token of its own for the call.
LEMMA LoginStep ==
  ASSUME NEW c \in Call, RequestsInv, Login(c)
  PROVE  RequestsInv'
<1> DEFINE n == Len(issued) + 1
           r == [state |-> "authorizing", method |-> request[c].method,
                 token |-> [id |-> n, expireAt |-> request[c].token.expireAt],
                 sent |-> request[c].sent]
<1>1. /\ issued \in Seq(Nat) /\ received \in Seq(Nat) /\ Len(received) = Len(issued)
      /\ now \in Nat /\ Len(issued) \in Nat
      /\ \A d \in Call : request[d].token.id \in 1 .. Len(issued)
  BY CallTypes DEF RequestsInv
<1>2. /\ issued' \in Seq(Nat) /\ received' \in Seq(Nat) /\ Len(issued') = n /\ Len(received') = n
      /\ issued'[n] = now /\ received'[n] = now
      /\ \A i \in 1 .. Len(issued) : issued'[i] = issued[i] /\ received'[i] = received[i]
  BY <1>1 DEF Login
<1>3. n \in Nat /\ n > 1 /\ 1 \in 1 .. Len(issued)
  BY <1>1
<1>4. request' = [request EXCEPT ![c] = r]
  BY DEF Login
<1>5. /\ request[c].state = "login"
      /\ UNCHANGED << now, config, token, answer, effect, result >>
  BY DEF Login
<1>6. /\ request'[c] = r /\ \A d \in Call \ {c} : request'[d] = request[d]
  BY <1>4 DEF RequestsInv, RequestsTypeOK
<1> HIDE DEF n
<1>7. RequestsTypeOK'
  <2>1. \A t \in Token : t \in Token'
    BY <1>1, <1>2, <1>3 DEF Token, n
  <2>2. r.token \in Token'
    BY <1>2, <1>3, CallTypes DEF Token, RequestsInv
  <2>3. request' \in [Call -> [state : {"idle", "login", "authorizing", "sending", "answered",
                                        "returned"},
                               method : Method, token : Token', sent : Nat]]
    <3>1. r \in [state : {"idle", "login", "authorizing", "sending", "answered", "returned"},
                 method : Method, token : Token', sent : Nat]
      BY <2>2, CallTypes DEF RequestsInv
    <3>2. request \in [Call -> [state : {"idle", "login", "authorizing", "sending", "answered",
                                         "returned"},
                                method : Method, token : Token', sent : Nat]]
      BY <2>1 DEF RequestsInv, RequestsTypeOK
    <3> HIDE DEF r
    <3> QED BY <1>4, <3>1, <3>2
  <2> QED BY <1>2, <1>5, <2>1, <2>3 DEF RequestsInv, RequestsTypeOK
<1>8. TokenInv'
  <2>1. \A i \in 1 .. Len(issued') : issued'[i] <= received'[i] /\ received'[i] <= now
    <3>1. \A i \in 1 .. Len(issued) : issued[i] <= received[i] /\ received[i] <= now
      BY DEF RequestsInv, TokenInv
    <3>2. 1 .. Len(issued') = 1 .. Len(issued) \cup {n}
      BY <1>1, <1>2 DEF n
    <3>3. issued'[n] <= received'[n] /\ received'[n] <= now
      BY <1>1, <1>2
    <3>4. \A i \in 1 .. Len(issued) : issued'[i] <= received'[i] /\ received'[i] <= now
      BY <1>2, <3>1
    <3> QED BY <3>2, <3>3, <3>4
  <2>2. token' = [id |-> 1, expireAt |-> received'[1] + TTL]
    BY <1>2, <1>3, <1>5 DEF TokenInv, RequestsInv
  <2>3. \A d \in Call \ {c} : received'[request[d].token.id] = received[request[d].token.id]
    BY <1>1, <1>2
  <2> QED BY <1>3, <1>5, <1>6, <2>1, <2>2, <2>3 DEF RequestsInv, TokenInv
<1>9. OwnTokenInv'
  <2>1. \A d \in Call \ {c} : request'[d].token.id # request'[c].token.id
    <3>1. request'[c].token.id = n
      BY <1>6
    <3> QED BY <1>1, <1>6, <3>1 DEF n
  <2> QED BY <1>6, <2>1 DEF RequestsInv, OwnTokenInv
<1>10. AnswerInv' /\ AnswersHold'
  BY <1>5, <1>6 DEF RequestsInv, AnswerInv, AnswersHold
<1> QED BY <1>7, <1>8, <1>9, <1>10 DEF RequestsInv

\* The client has the token; no other call looks at when it was received.
LEMMA AuthorizedStep ==
  ASSUME NEW c \in Call, RequestsInv, Authorized(c)
  PROVE  RequestsInv'
<1> DEFINE id == request[c].token.id
           r == [state |-> "sending", method |-> request[c].method,
                 token |-> [id |-> id, expireAt |-> now + TTL], sent |-> now]
<1>1. /\ issued \in Seq(Nat) /\ received \in Seq(Nat) /\ Len(received) = Len(issued)
      /\ now \in Nat /\ id \in 1 .. Len(issued) /\ Len(issued) \in Nat
      /\ \A d \in Call : request[d].token.id \in 1 .. Len(issued)
  BY CallTypes DEF RequestsInv
<1>2. id > 1
  BY DEF RequestsInv, TokenInv, Authorized
<1>3. /\ received' \in Seq(Nat) /\ Len(received') = Len(issued) /\ received'[id] = now
      /\ \A i \in 1 .. Len(issued) : i # id => received'[i] = received[i]
  BY <1>1 DEF Authorized
<1>4. request' = [request EXCEPT ![c] = r]
  BY DEF Authorized
<1>5. /\ request[c].state = "authorizing"
      /\ UNCHANGED << now, config, issued, token, answer, effect, result >>
  BY DEF Authorized
<1>6. /\ request'[c] = r /\ \A d \in Call \ {c} : request'[d] = request[d]
  BY <1>4 DEF RequestsInv, RequestsTypeOK
<1>7. \A d \in Call \ {c} : request[d].token.id # id
  BY <1>2 DEF RequestsInv, OwnTokenInv
<1> HIDE DEF id
<1>8. RequestsTypeOK'
  <2>1. r \in [state : {"idle", "login", "authorizing", "sending", "answered", "returned"},
               method : Method, token : Token, sent : Nat]
    BY <1>1, CallTypes, RequestsAssumption DEF RequestsInv, Token
  <2> HIDE DEF r
  <2>2. request' \in [Call -> [state : {"idle", "login", "authorizing", "sending", "answered",
                                        "returned"},
                               method : Method, token : Token, sent : Nat]]
    BY <1>4, <2>1 DEF RequestsInv, RequestsTypeOK
  <2>3. Token' = Token
    BY <1>5 DEF Token
  <2>4. RequestsTypeOK
    BY DEF RequestsInv
  <2>5. now' \in Nat /\ config' \in Call \cup {None} /\ token' \in Token'
    BY <1>5, <2>3, <2>4 DEF RequestsTypeOK
  <2>6. /\ answer' \in [Call -> [code : {0, NotFound, Failed},
                               data : Call \cup {Empty, "true"}] \cup {None}]
        /\ effect' \in [Call -> Call \cup {None, Refused}]
        /\ result' \in [Call -> Call \cup {None, Empty, "error", "notfound", "true"}]
    BY <1>5, <2>4 DEF RequestsTypeOK
  <2>7. issued' \in Seq(Nat) /\ received' \in Seq(Nat) /\ Len(received') = Len(issued')
    BY <1>1, <1>3, <1>5
  <2> QED BY <2>2, <2>3, <2>5, <2>6, <2>7 DEF RequestsTypeOK
<1>9. TokenInv'
  <2>1. \A i \in 1 .. Len(issued) : issued[i] <= received'[i] /\ received'[i] <= now
    <3>1. \A i \in 1 .. Len(issued) : /\ issued[i] \in Nat /\ received[i] \in Nat
                                      /\ issued[i] <= received[i] /\ received[i] <= now
      BY <1>1 DEF RequestsInv, TokenInv
    <3>2. issued[id] <= now
      BY <1>1, <3>1
    <3> SUFFICES ASSUME NEW i \in 1 .. Len(issued)
                 PROVE  issued[i] <= received'[i] /\ received'[i] <= now
      OBVIOUS
    <3>3. CASE i = id
      BY <1>1, <1>3, <3>2, <3>3
    <3>4. CASE i # id
      BY <1>3, <3>1, <3>4
    <3> QED BY <3>3, <3>4
  <2>2. token' = [id |-> 1, expireAt |-> received'[1] + TTL]
    <3>1. token = [id |-> 1, expireAt |-> received[1] + TTL]
      BY DEF RequestsInv, TokenInv
    <3>2. received'[1] = received[1]
      BY <1>1, <1>2, <1>3
    <3> QED BY <1>5, <3>1, <3>2
  <2>3. \A d \in Call \ {c} : received'[request[d].token.id] = received[request[d].token.id]
    BY <1>1, <1>3, <1>7
  <2>4. /\ r.state = "sending" /\ r.token.id = id /\ r.token.expireAt = now + TTL /\ r.sent = now
    OBVIOUS
  <2> HIDE DEF r
  <2>5. /\ r.token.expireAt = received'[r.token.id] + TTL
        /\ r.sent <= now
        /\ r.sent = received'[r.token.id]
    BY <1>1, <1>3, <2>4
  <2>6. \A d \in Call \ {c} : request'[d] = request[d]
    BY <1>6
  <2> QED BY <1>5, <1>6, <2>1, <2>2, <2>3, <2>4, <2>5, <2>6 DEF RequestsInv, TokenInv
<1>10. OwnTokenInv'
  BY <1>6, <1>7 DEF RequestsInv, OwnTokenInv, id
<1>11. AnswerInv' /\ AnswersHold'
  BY <1>5, <1>6 DEF RequestsInv, AnswerInv, AnswersHold
<1> QED BY <1>8, <1>9, <1>10, <1>11 DEF RequestsInv


\* A call that has returned, or whose request was answered, looks at no token;
\* what it keeps has its types.
LEMMA StateStep ==
  ASSUME NEW c \in Call, NEW x \in {"answered", "returned"}, RequestsInv,
         request' = [request EXCEPT ![c].state = x],
         UNCHANGED << now, issued, received, token >>
  PROVE  /\ request' \in [Call -> [state : {"idle", "login", "authorizing", "sending", "answered",
                                            "returned"},
                                   method : Method, token : Token', sent : Nat]]
         /\ request'[c].state = x
         /\ request'[c].method = request[c].method
         /\ \A d \in Call \ {c} : request'[d] = request[d]
         /\ TokenInv' /\ OwnTokenInv'
<1>1. Token' = Token
  BY DEF Token
<1>2. /\ request'[c].state = x
      /\ \A d \in Call : request'[d].token = request[d].token
      /\ request'[c].method = request[c].method
      /\ \A d \in Call \ {c} : request'[d] = request[d]
  BY DEF RequestsInv, RequestsTypeOK
<1>3. request' \in [Call -> [state : {"idle", "login", "authorizing", "sending", "answered",
                                      "returned"},
                             method : Method, token : Token', sent : Nat]]
  <2>1. request \in [Call -> [state : {"idle", "login", "authorizing", "sending", "answered",
                                      "returned"},
                             method : Method, token : Token, sent : Nat]]
    BY DEF RequestsInv, RequestsTypeOK
  <2>2. [request[c] EXCEPT !.state = x] \in
          [state : {"idle", "login", "authorizing", "sending", "answered", "returned"},
           method : Method, token : Token, sent : Nat]
    BY <2>1
  <2>3. request' = [request EXCEPT ![c] = [request[c] EXCEPT !.state = x]]
    OBVIOUS
  <2> QED BY <1>1, <2>1, <2>2, <2>3
<1>4. TokenInv'
  BY <1>2 DEF RequestsInv, TokenInv
<1>5. OwnTokenInv'
  BY <1>2 DEF RequestsInv, OwnTokenInv
<1> QED BY <1>2, <1>3, <1>4, <1>5

\* A call returns an error of the login.
LEMMA LoginFailsStep ==
  ASSUME NEW c \in Call, RequestsInv, LoginFails(c)
  PROVE  RequestsInv'
<1>1. /\ request' = [request EXCEPT ![c].state = "returned"]
      /\ result' = [result EXCEPT ![c] = "error"]
      /\ UNCHANGED << now, config, issued, received, token, answer, effect >>
      /\ request[c].state \in {"login", "authorizing"}
  BY DEF LoginFails, Returns
<1>2. TokenInv' /\ OwnTokenInv' /\ request'[c].state = "returned"
      /\ \A d \in Call \ {c} : request'[d] = request[d]
  BY <1>1, StateStep
<1>3. result'[c] = "error" /\ \A d \in Call \ {c} : result'[d] = result[d]
  BY <1>1 DEF RequestsInv, RequestsTypeOK
<1>4. RequestsTypeOK'
  BY <1>1, StateStep DEF RequestsInv, RequestsTypeOK, Token
<1>5. AnswerInv' /\ AnswersHold'
  BY <1>1, <1>2, <1>3, RequestsAssumption DEF RequestsInv, AnswerInv, AnswersHold
<1> QED BY <1>2, <1>4, <1>5 DEF RequestsInv

\* The server answers: what it says of the configuration is so.
LEMMA AnswersStep ==
  ASSUME NEW c \in Call, NEW code \in {0, NotFound, Failed}, NEW body \in Call \cup {Empty, "true"},
         NEW carriedOut \in BOOLEAN, RequestsInv, Answers(c, code, body, carriedOut),
         config' \in Call \cup {None},
         code = 0 /\ body = "true" => carriedOut,
         code = 0 /\ body \in Call => carriedOut /\ body = config,
         code = 0 /\ body = Empty => ~carriedOut,
         code = NotFound => carriedOut /\ config = None
  PROVE  RequestsInv'
<1> DEFINE met == IF carriedOut THEN config ELSE Refused
<1>1. /\ request' = [request EXCEPT ![c].state = "answered"]
      /\ answer' = [answer EXCEPT ![c] = [code |-> code, data |-> body]]
      /\ effect' = [effect EXCEPT ![c] = met]
      /\ UNCHANGED << now, issued, received, token, result >>
      /\ request[c].state = "sending"
  BY DEF Answers
<1>2. met \in Call \cup {None, Refused} /\ (met = Refused <=> ~carriedOut)
      /\ (carriedOut => met = config)
  BY RequestsAssumption DEF RequestsInv, RequestsTypeOK
<1> HIDE DEF met
<1>3. TokenInv' /\ OwnTokenInv' /\ request'[c].state = "answered"
      /\ \A d \in Call \ {c} : request'[d] = request[d]
  BY <1>1, StateStep
<1>4. RequestsTypeOK'
  BY <1>1, <1>2, StateStep DEF RequestsInv, RequestsTypeOK, Token
<1>5. /\ answer'[c] = [code |-> code, data |-> body] /\ effect'[c] = met
      /\ \A d \in Call \ {c} : answer'[d] = answer[d] /\ effect'[d] = effect[d]
  BY <1>1 DEF RequestsInv, RequestsTypeOK
<1>6. result[c] = None
  BY <1>1 DEF RequestsInv, AnswerInv
<1>7. AnswerInv'
  BY <1>1, <1>2, <1>3, <1>5, <1>6 DEF RequestsInv, AnswerInv
<1>8. AnswersHold'
  BY <1>1, <1>2, <1>5, <1>6, RequestsAssumption DEF RequestsInv, AnswersHold
<1> QED BY <1>3, <1>4, <1>7, <1>8 DEF RequestsInv

\* The server carries a request out, or refuses it.
LEMMA ServerStep ==
  ASSUME NEW c \in Call, RequestsInv, Handle(c) \/ Refuse(c)
  PROVE  RequestsInv'
<1>1. config \in Call \cup {None} /\ request[c].method \in Method
  BY CallTypes DEF RequestsInv, RequestsTypeOK
<1>2. NotFound # 0 /\ Failed # 0 /\ NotFound # Failed
  BY DEF NotFound, Failed
<1>3. CASE Handle(c)
  <2>1. CASE request[c].method \in {"Publish", "Delete"}
    <3>1. Answers(c, 0, "true", TRUE) /\ config' \in Call \cup {None}
      BY <1>3, <2>1 DEF Handle
    <3> QED BY <1>2, <3>1, AnswersStep, RequestsAssumption
  <2>2. CASE request[c].method = "Query" /\ config = None
    <3>1. Answers(c, NotFound, Empty, TRUE) /\ config' = config
      BY <1>3, <2>2 DEF Handle
    <3> QED BY <1>1, <1>2, <2>2, <3>1, AnswersStep
  <2>3. CASE request[c].method = "Query" /\ config # None
    <3>1. Answers(c, 0, config, TRUE) /\ config' = config /\ config \in Call
      BY <1>1, <1>3, <2>3 DEF Handle
    <3> QED BY <1>1, <1>2, <3>1, AnswersStep, RequestsAssumption
  <2> QED BY <1>1, <2>1, <2>2, <2>3 DEF Method
<1>4. CASE Refuse(c)
  <2>1. \E code \in {0, Failed} : Answers(c, code, Empty, FALSE) /\ config' = config
    BY <1>4 DEF Refuse
  <2> QED BY <1>1, <1>2, <2>1, AnswersStep, RequestsAssumption
<1> QED BY <1>3, <1>4

\* An answer is lost.
LEMMA LoseStep ==
  ASSUME NEW c \in Call, RequestsInv, Lose(c)
  PROVE  RequestsInv'
<1>1. /\ answer' = [answer EXCEPT ![c] = None]
      /\ UNCHANGED << now, config, issued, received, token, request, effect, result >>
  BY DEF Lose
<1>2. answer'[c] = None /\ \A d \in Call \ {c} : answer'[d] = answer[d]
  BY <1>1 DEF RequestsInv, RequestsTypeOK
<1>3. RequestsTypeOK'
  BY <1>1 DEF RequestsInv, RequestsTypeOK, Token
<1>4. TokenInv' /\ OwnTokenInv'
  BY <1>1 DEF RequestsInv, TokenInv, OwnTokenInv
<1>5. AnswerInv' /\ AnswersHold'
  BY <1>1, <1>2 DEF RequestsInv, AnswerInv, AnswersHold
<1> QED BY <1>3, <1>4, <1>5 DEF RequestsInv

\* A call returns what it makes of the answer.
LEMMA ReturnStep ==
  ASSUME NEW c \in Call, RequestsInv, Return(c)
  PROVE  RequestsInv'
<1> DEFINE r == Outcome(c)
<1>1. /\ request' = [request EXCEPT ![c].state = "returned"]
      /\ result' = [result EXCEPT ![c] = r]
      /\ UNCHANGED << now, config, issued, received, token, answer, effect >>
      /\ request[c].state = "answered"
  BY DEF Return, Returns
<1>2. TokenInv' /\ OwnTokenInv' /\ request'[c].state = "returned"
      /\ \A d \in Call \ {c} : request'[d] = request[d]
  BY <1>1, StateStep
<1>3. request[c].method \in Method
      /\ answer[c] \in [code : {0, NotFound, Failed}, data : Call \cup {Empty, "true"}] \cup {None}
  BY CallTypes DEF RequestsInv, RequestsTypeOK
<1>4. \/ r = "error"
      \/ r = "notfound" /\ answer[c] # None /\ answer[c].code = NotFound
      \/ r = answer[c].data /\ answer[c] # None /\ answer[c].code = 0
         /\ answer[c].data \in Call \cup {Empty, "true"}
  BY <1>3 DEF Outcome, PublishReturns, DeleteReturns, QueryReturns, Method
<1>5. /\ r = "true" => effect[c] # Refused
      /\ r = "notfound" => effect[c] = None
      /\ r \in Call => effect[c] = r
      /\ r = Empty => effect[c] = Refused
      /\ r \in Call \cup {Empty, "error", "notfound", "true"}
      /\ r # None
  BY <1>4, RequestsAssumption DEF RequestsInv, AnswerInv
<1> HIDE DEF r
<1>6. result'[c] = r /\ \A d \in Call \ {c} : result'[d] = result[d]
  BY <1>1 DEF RequestsInv, RequestsTypeOK
<1>7. RequestsTypeOK'
  BY <1>1, <1>5, StateStep DEF RequestsInv, RequestsTypeOK, Token
<1>8. AnswerInv'
  BY <1>1, <1>2, <1>5, <1>6 DEF RequestsInv, AnswerInv
<1>9. AnswersHold'
  BY <1>1, <1>5, <1>6 DEF RequestsInv, AnswersHold
<1> QED BY <1>2, <1>7, <1>8, <1>9 DEF RequestsInv

LEMMA RequestsInvStep == RequestsInv /\ [RequestsNext]_requestVars => RequestsInv'
<1> SUFFICES ASSUME RequestsInv, [RequestsNext]_requestVars
             PROVE  RequestsInv'
  OBVIOUS
<1>1. ASSUME UNCHANGED requestVars
      PROVE  RequestsInv'
  BY <1>1 DEF requestVars, RequestsInv, RequestsTypeOK, Token, TokenInv, OwnTokenInv, AnswerInv,
              AnswersHold
<1> QED BY <1>1, TickStep, BeginStep, LoginStep, AuthorizedStep, LoginFailsStep, ServerStep,
           LoseStep, ReturnStep DEF RequestsNext

----------------------------------------------------------------------------
(* The theorems.                                                           *)

\* A token with the margin to live when its request was sent, or received just
\* then, is one the server accepts unless the messages took too long.
LEMMA TokenAccepted == RequestsTypeOK /\ TokenInv => AuthorizedInTime
<1> SUFFICES ASSUME RequestsTypeOK, TokenInv, NEW c \in Call, request[c].state = "sending",
                    Delay(c) < Margin, Delay(c) < TTL
             PROVE  Accepted(c)
  BY DEF AuthorizedInTime
<1> DEFINE id == request[c].token.id
<1>1. /\ id \in 1 .. Len(issued) /\ now \in Nat /\ request[c].sent \in Nat
      /\ issued[id] \in Nat /\ received[id] \in Nat
  <2>1. /\ issued \in Seq(Nat) /\ received \in Seq(Nat) /\ Len(received) = Len(issued)
        /\ id \in 1 .. Len(issued) /\ now \in Nat /\ request[c].sent \in Nat
    BY CallTypes
  <2> HIDE DEF id
  <2> QED BY <2>1
<1>2. /\ issued[id] <= received[id]
      /\ request[c].token.expireAt = received[id] + TTL
      /\ request[c].token.expireAt - request[c].sent >= Margin \/ request[c].sent = received[id]
  BY <1>1 DEF TokenInv
<1>3. Delay(c) = (received[id] - issued[id]) + (now - request[c].sent)
  BY DEF Delay
<1>4. (received[id] - issued[id]) + (now - request[c].sent) < Margin
      /\ (received[id] - issued[id]) + (now - request[c].sent) < TTL
  BY <1>3
<1>5. (received[id] + TTL) - request[c].sent >= Margin \/ request[c].sent = received[id]
  BY <1>2
<1> HIDE DEF id
<1>6. now < issued[id] + TTL
  <2>1. /\ received[id] \in Int /\ issued[id] \in Int /\ now \in Int
        /\ request[c].sent \in Int /\ TTL \in Int /\ Margin \in Int
    BY <1>1, RequestsAssumption
  <2>2. CASE (received[id] + TTL) - request[c].sent >= Margin
    BY <1>4, <2>1, <2>2
  <2>3. CASE request[c].sent = received[id]
    BY <1>4, <2>1, <2>3
  <2> QED BY <1>5, <2>2, <2>3
<1> QED BY <1>6 DEF Accepted, id

\* Every reachable state of the requests has the declared types.
THEOREM RequestsTypeCorrect == RequestsSpec => []RequestsTypeOK
<1>1. RequestsInv => RequestsTypeOK
  BY DEF RequestsInv
<1> QED BY <1>1, RequestsInvInit, RequestsInvStep, PTL DEF RequestsSpec

\* The server refuses no token of a request unless the login and the request
\* were under way for as long as the margin, or as a token lives, although the
\* token that a call renews is lost when it returns.
THEOREM AuthorizedInTimeHolds == RequestsSpec => []AuthorizedInTime
<1>1. RequestsInv => AuthorizedInTime
  BY TokenAccepted DEF RequestsInv
<1> QED BY <1>1, RequestsInvInit, RequestsInvStep, PTL DEF RequestsSpec

\* What a method returns is what the server did, for any number of calls and
\* whatever is lost, refused or published meanwhile.
THEOREM AnswersHoldAlways == RequestsSpec => []AnswersHold
<1>1. RequestsInv => AnswersHold
  BY DEF RequestsInv
<1> QED BY <1>1, RequestsInvInit, RequestsInvStep, PTL DEF RequestsSpec

----------------------------------------------------------------------------
(* The two halves of the client.                                           *)

\* Each half does in the client what it does alone.
THEOREM NacosIsItsHalves == NacosSpec => Spec /\ RequestsSpec
<1>1. NacosInit => Init /\ RequestsInit
  BY DEF NacosInit
<1>2. [NacosNext]_<< half, vars, requestVars >> => [Next]_vars /\ [RequestsNext]_requestVars
  <2>1. CASE NacosNext
    BY <2>1 DEF NacosNext
  <2>2. CASE UNCHANGED << half, vars, requestVars >>
    BY <2>2
  <2> QED BY <2>1, <2>2
<1> QED BY <1>1, <1>2, PTL DEF NacosSpec, Spec, RequestsSpec

\* Every reachable state of both halves has the declared types.
THEOREM NacosTypeCorrect == NacosSpec => []NacosTypeOK
<1>1. TypeOK /\ RequestsTypeOK => NacosTypeOK
  BY DEF NacosTypeOK
<1> QED BY <1>1, NacosIsItsHalves, WatchTypeCorrect, RequestsTypeCorrect, PTL

=============================================================================
