------------------------------ MODULE JwtIssuer ------------------------------
(***************************************************************************)
(* jwt/jwt.go: issuers that sign tokens and parse them again, and whose    *)
(* configuration is loaded again while tokens are about. Cryptography is   *)
(* external: a token holds the key and the method it was signed with.      *)
(*                                                                         *)
(* A key is its kind ("secret", "rsa" or "ec"), its name and, for an       *)
(* elliptic curve, the size of that. A method is a family and a number of  *)
(* bits.                                                                   *)
(***************************************************************************)
EXTENDS Naturals, FiniteSets

CONSTANTS
  Issuer,     \* the issuers there are
  Key,        \* keys of their configurations
  MaxTokens   \* bound: tokens signed

Family == {"HS", "RS", "ES"}
Bits   == {256, 384, 512}
SigningMethod == Family \X Bits
NoKey == "no key"

ASSUME JwtAssumption ==
  /\ \A k \in Key : k.kind \in {"secret", "rsa", "ec"} /\ k.name # NoKey
  /\ MaxTokens \in Nat

NoResult == [token |-> 0, issuer |-> NoKey, accepted |-> FALSE]

VARIABLES
  jwtConfig,  \* JWTConfig of each issuer
  tokens,     \* tokens signed: number, method and key
  result      \* what ParseWithClaims answered last: token, issuer, whether it accepts

jwtVars == << jwtConfig, tokens, result >>

----------------------------------------------------------------------------
\* Keys that a method can be configured with: any text is a secret.
Loads(family, key) ==
  CASE family = "HS" -> TRUE
    [] family = "RS" -> key.kind = "rsa"
    [] family = "ES" -> key.kind = "ec" /\ key.size \in Bits

\* NewJWTConfig, when it succeeds: the curve decides on the bits of ES.
NewJWTConfig(method, key) ==
  [method |-> IF method[1] = "ES" THEN << "ES", key.size >> ELSE method,
   private |-> [kind |-> IF method[1] = "HS" THEN "secret" ELSE key.kind, name |-> key.name],
   public |-> IF method[1] = "HS" THEN NoKey ELSE key.name]

\* NewRandomKey: the curve is always P-256.
NewRandomKey(method) ==
  CASE method[1] = "HS" -> [kind |-> "secret", name |-> "random", size |-> 0]
    [] method[1] = "RS" -> [kind |-> "rsa", name |-> "random", size |-> 0]
    [] method[1] = "ES" -> [kind |-> "ec", name |-> "random", size |-> 256]

\* The method of UnmarshalJSON when none is given.
Inferred(key) ==
  CASE key.kind = "rsa"    -> << "RS", 256 >>
    [] key.kind = "ec"     -> << "ES", 256 >>
    [] key.kind = "secret" -> << "HS", 256 >>

JwtInit ==
  /\ jwtConfig = [i \in Issuer |-> NewJWTConfig(<< "HS", 256 >>, [kind |-> "secret", name |-> "first"])]
  /\ tokens = {}
  /\ result = NoResult

\* UnmarshalJSON, with a method or without: after an error the configuration is
\* as it was.
Load(i, key) ==
  /\ \E method \in SigningMethod \cup {Inferred(key)} :
       /\ Loads(method[1], key)
       /\ jwtConfig' = [jwtConfig EXCEPT ![i] = NewJWTConfig(method, key)]
  /\ result' = NoResult
  /\ UNCHANGED tokens

SignedString(i) ==
  LET n == 1 + Cardinality(tokens) IN
  /\ n <= MaxTokens
  /\ tokens' = tokens \cup
       {[number |-> n, method |-> jwtConfig[i].method, key |-> jwtConfig[i].private]}
  /\ UNCHANGED << jwtConfig, result >>

\* Mutant: a token is verified with the public key whatever its method is.
PublicOnly(config, token) ==
  IF config.public = NoKey THEN FALSE
  ELSE token.key.kind = config.private.kind /\ token.key.name = config.public

\* ParseWithClaims of a configuration: the method of the token picks the key,
\* which must be there and of its kind.
Verifies(config, token) ==
  IF token.method[1] \in {"RS", "ES"}
  THEN /\ config.public # NoKey
       /\ config.private.kind = (IF token.method[1] = "RS" THEN "rsa" ELSE "ec")
       /\ token.key.name = config.public
  ELSE /\ config.private.kind = "secret"
       /\ token.key.name = config.private.name

\* ParseWithClaims, with the issuer that the caller's issuerFunc finds: it goes
\* by what the token says, before anything is verified.
ParseWithClaims(token, i) ==
  /\ result' = [token |-> token.number, issuer |-> i, accepted |-> Verifies(jwtConfig[i], token)]
  /\ UNCHANGED << jwtConfig, tokens >>

JwtNext ==
  \/ \E i \in Issuer :
       \/ SignedString(i)
       \/ \E key \in Key \cup {NewRandomKey(method) : method \in SigningMethod} : Load(i, key)
  \/ \E token \in tokens, i \in Issuer : ParseWithClaims(token, i)

JwtSpec == JwtInit /\ [][JwtNext]_jwtVars

----------------------------------------------------------------------------
(* Properties.                                                             *)

\* Every variable has its type.
JwtTypeOK ==
  /\ \A i \in Issuer : jwtConfig[i].method \in SigningMethod
  /\ \A t \in tokens : t.number \in 1 .. MaxTokens /\ t.method \in SigningMethod
  /\ result \in [token : 1 .. MaxTokens, issuer : Issuer, accepted : BOOLEAN] \cup {NoResult}

\* An issuer accepts a token if and only if it has, now, the key the token was
\* signed with and uses it in the same way: loading another key, or the
\* text of a private key as a secret, ends the tokens signed before; loading
\* the same key with other bits does not.
AcceptsItsOwn ==
  \A t \in tokens :
    t.number = result.token => (result.accepted <=> jwtConfig[result.issuer].private = t.key)

============================================================================
