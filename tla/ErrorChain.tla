------------------------------ MODULE ErrorChain ------------------------------
(***************************************************************************)
(* errors/errors.go: errors with a status, wrapped in messages, and what   *)
(* WithMessage and IsNotFount make of them.                                *)
(*                                                                         *)
(* An error is the chain that Unwrap goes through, the outermost first: an *)
(* errorWrapper is its status, a message of pkg/errors is "msg", and the   *)
(* last is an error of its own kind. Errors, of several errors, does not   *)
(* unwrap.                                                                 *)
(***************************************************************************)
EXTENDS Naturals, Sequences

CONSTANT MaxChain   \* bound: layers of an error

ASSUME ErrorsAssumption == MaxChain \in Nat

Status == {404, 500}

VARIABLE err        \* the error at hand

\* Ends of a chain; NotFoundError is an errorWrapper around a plain error.
Leaf == {<< "plain" >>, << "NotFoundError", "plain" >>, << "notFoundError" >>,
         << "ErrRecordNotFound" >>, << "Errors404" >>, << "Errors500" >>}

StatusOfLayer(l) ==
  CASE l \in {"404", "NotFoundError", "Errors404"} -> 404
    [] l \in {"500", "Errors500"}                  -> 500
    [] OTHER                                       -> 0

IsWrapper(l) == l \in {"404", "500", "NotFoundError"}
Wrapper(n)   == IF n = 404 THEN "404" ELSE "500"

\* errors.As: the first errorWrapper, and the first error with a status.
Wrappers(e) == {i \in DOMAIN e : IsWrapper(e[i])}
First(S)    == CHOOSE i \in S : \A j \in S : i <= j
StatusCode(e) ==
  LET S == {i \in DOMAIN e : StatusOfLayer(e[i]) # 0} IN
  IF S = {} THEN 0 ELSE StatusOfLayer(e[First(S)])

Tail1(e, i) == SubSeq(e, i + 1, Len(e))
Last(e)     == e[Len(e)]

----------------------------------------------------------------------------
\* Mutant: the message replaces the error it is about.
WithMessageOnly(e) ==
  IF StatusCode(e) # 0 THEN << Wrapper(StatusCode(e)), "plain" >> ELSE << "plain" >>

\* The layers around the first errorWrapper are left behind.
WithMessage(e) ==
  IF Wrappers(e) # {}
  THEN LET i == First(Wrappers(e)) IN << Wrapper(StatusOfLayer(e[i])), "msg" >> \o Tail1(e, i)
  ELSE IF StatusCode(e) # 0 THEN << Wrapper(StatusCode(e)), "msg" >> \o e
  ELSE IF Last(e) = "ErrRecordNotFound" THEN << "404", "msg" >> \o e
  ELSE << "msg" >> \o e

With(status, e, msg) == << Wrapper(status) >> \o (IF msg THEN << "msg" >> ELSE << >>) \o e

\* An errorWrapper that is not a 404 passes the question on to its error.
IsNotFount(e) ==
  \/ \E i \in DOMAIN e : e[i] = "NotFoundError"
  \/ Last(e) \in {"ErrRecordNotFound", "notFoundError"}
  \/ \E i \in Wrappers(e) : StatusOfLayer(e[i]) = 404

ErrorsInit == err \in Leaf

ErrorsNext ==
  /\ Len(err) < MaxChain
  /\ \/ err' = WithMessage(err)
     \/ \E status \in Status, msg \in BOOLEAN : err' = With(status, err, msg)
     \/ err' = << "msg" >> \o err

ErrorsSpec == ErrorsInit /\ [][ErrorsNext]_err

----------------------------------------------------------------------------
(* Properties.                                                             *)

\* The variable has its type.
ErrorsTypeOK ==
  /\ \A i \in DOMAIN err : err[i] \in {"404", "500", "msg", "plain", "NotFoundError", "notFoundError",
                                       "ErrRecordNotFound", "Errors404", "Errors500"}
  /\ Len(err) <= MaxChain + 3

\* A message changes neither the status of an error, however deep that lies,
\* nor whether it is one of something not found; a record that is not found
\* gets the status 404, and a 404 of several errors counts as not found only
\* with a message.
MessageKeeps ==
  /\ StatusCode(err) # 0 => StatusCode(WithMessage(err)) = StatusCode(err)
  /\ StatusCode(err) = 0 /\ Last(err) = "ErrRecordNotFound" => StatusCode(WithMessage(err)) = 404
  /\ Wrappers(err) # {} \/ Last(err) # "Errors404" =>
       (IsNotFount(WithMessage(err)) <=> IsNotFount(err))

============================================================================
