------------------------------ MODULE SafeString ------------------------------
(***************************************************************************)
(* safe/string.go, a string that is kept encrypted under a secret of its   *)
(* own or that of the environment, and safe/encrypt.go, which picks the    *)
(* cipher for the length of the key.                                       *)
(*                                                                         *)
(* A secret has a name and a length. A cipher text records its algorithm,  *)
(* and here its key and plain text; initialization vector, padding and     *)
(* encoding are left out. Decrypted under another key that fits, it is     *)
(* Garbage, without an error.                                              *)
(***************************************************************************)
EXTENDS Naturals

CONSTANTS
  Text,      \* plain texts, with the empty one
  Secret     \* secrets that are not empty

ASSUME SecretAssumption == "" \in Text

NoText   == "no text"
Garbage  == "garbage"
NoSecret == [name |-> "", len |-> 0, hashed |-> FALSE]

VARIABLES
  env,       \* GLOBAL_ENCRYPT_KEY
  e,         \* the String: value and secret
  expected   \* history: the plain text it stands for, NoText when a call lost it

secretVars == << env, e, expected >>

Plain(t) == [cipher |-> FALSE, text |-> t, key |-> NoSecret, algo |-> "none"]

----------------------------------------------------------------------------
(* Encrypt and Decrypt.                                                    *)

Algorithm == {"3DES", "DES", "AES", "TEA"}

NewCipher(algo, len) ==
  CASE algo = "DES"  -> len = 8
    [] algo = "3DES" -> len = 24
    [] algo = "AES"  -> len \in {16, 24, 32}
    [] algo = "TEA"  -> len = 16

\* Mutant: the key is taken as it is.
AsGiven(key) == key

\* A key of another length is hashed to 32 bytes, here ...
CipherKey(key) ==
  IF key.len \in {8, 16, 24, 32} THEN key ELSE [name |-> key.name, len |-> 32, hashed |-> TRUE]

\* ... and in the options of an encryption that fix the algorithm.
fixKey(key) ==
  IF key.len \in {8, 16, 24, 32} THEN key ELSE [name |-> key.name, len |-> 32, hashed |-> TRUE]

fixAlgo(key, algo) ==
  CASE key.len = 8  -> "DES"
    [] key.len = 16 -> IF algo \in {"AES", "TEA"} THEN algo ELSE "AES"
    [] key.len = 24 -> IF algo \in {"AES", "3DES"} THEN algo ELSE "3DES"
    [] OTHER        -> "AES"

\* The cipher text, and for a key that does not fit the algorithm an error.
EncryptWith(text, key, algo, fix) ==
  LET k == IF fix THEN fixKey(key) ELSE key
      a == IF fix THEN fixAlgo(key, algo) ELSE algo
  IN  IF NewCipher(a, k.len) THEN [cipher |-> TRUE, text |-> text, key |-> k, algo |-> a]
      ELSE Plain("error")

\* Without options: 3DES, fixed to the length of the key.
Encrypt(text, key) == EncryptWith(text, key, "3DES", TRUE)

Decrypt(c, key) ==
  LET k == CipherKey(key) IN
  IF ~NewCipher(c.algo, k.len) THEN "error" ELSE IF k = c.key THEN c.text ELSE Garbage

----------------------------------------------------------------------------
getSecret(s) == IF s.secret # NoSecret THEN s.secret ELSE env

\* A cipher text without a secret is given as it is.
UnsafeString(s) ==
  IF ~s.value.cipher THEN s.value.text
  ELSE IF getSecret(s) = NoSecret THEN Garbage ELSE Decrypt(s.value, getSecret(s))

\* The environment has a key of a proper length, or none: others end the
\* process.
SecretInit ==
  /\ env \in {NoSecret} \cup {s \in Secret : s.len \in {8, 16, 24, 32}}
  /\ e = [value |-> Plain(""), secret |-> NoSecret]
  /\ expected = ""

\* What a String that is given a value stands for: of a cipher text made
\* elsewhere, its text when the secret is the right one.
Expect(v) ==
  expected' = IF ~v.cipher THEN v.text
              ELSE IF getSecret(e') # NoSecret /\ CipherKey(getSecret(e')) = v.key THEN v.text
              ELSE NoText

Sealed(s, v) ==
  IF ~v.cipher /\ getSecret(s) # NoSecret
  THEN [value |-> Encrypt(v.text, getSecret(s)), secret |-> getSecret(s)]
  ELSE [s EXCEPT !.value = v]

\* UnmarshalJSON and UnmarshalYAML encrypt the empty string too, SetValue does
\* not.
Unmarshal(v) == e' = Sealed(e, v) /\ Expect(v) /\ UNCHANGED env

SetValue(v) ==
  /\ e' = IF v = Plain("") THEN [e EXCEPT !.value = v] ELSE Sealed(e, v)
  /\ Expect(v)
  /\ UNCHANGED env

\* SafeStringHookFunc: a new String with the secret of the environment.
Hook(v) ==
  /\ e' = Sealed([value |-> Plain(""), secret |-> env], v)
  /\ Expect(v)
  /\ UNCHANGED env

NewEncryptedString(v, secret) ==
  /\ e' = [value |-> IF ~v.cipher /\ secret # NoSecret THEN Encrypt(v.text, secret) ELSE v,
           secret |-> secret]
  /\ Expect(v)
  /\ UNCHANGED env

\* Scan, from the database, encrypts nothing.
ScanValue(v) == e' = [e EXCEPT !.value = v] /\ Expect(v) /\ UNCHANGED env

\* String encrypts a plain text, but under its own secret even when that is
\* empty and the secret is that of the environment.
StringOf ==
  /\ e' = IF e.value # Plain("") /\ ~e.value.cipher /\ getSecret(e) # NoSecret
          THEN [e EXCEPT !.value = Encrypt(e.value.text, e.secret)] ELSE e
  /\ expected' = IF e' # e /\ e.secret = NoSecret THEN NoText ELSE expected
  /\ UNCHANGED env

\* UpdateSecret decrypts and encrypts again; given an empty secret it leaves
\* the cipher text under the former one.
UpdateSecret(secret) ==
  LET text == UnsafeString(e) IN
  /\ e' = IF text = "error" THEN e
          ELSE [value |-> IF secret # NoSecret THEN Encrypt(text, secret) ELSE e.value,
                secret |-> secret]
  /\ expected' = IF secret = NoSecret /\ e.value.cipher THEN NoText ELSE expected
  /\ UNCHANGED env

\* SetSecret: the value is as it was.
SetSecret(secret) ==
  /\ e' = [e EXCEPT !.secret = secret]
  /\ expected' = IF e.value.cipher THEN NoText ELSE expected
  /\ UNCHANGED env

\* Values: plain texts, and cipher texts made under some secret with options
\* that fit it.
SecretValue ==
  {Plain(t) : t \in Text}
  \cup {c \in {EncryptWith(t, s, a, fix) : t \in Text, s \in Secret, a \in Algorithm, fix \in BOOLEAN} :
          c.cipher}

SecretNext ==
  \/ \E v \in SecretValue :
       \/ Unmarshal(v) \/ SetValue(v) \/ Hook(v) \/ ScanValue(v)
       \/ \E secret \in Secret \cup {NoSecret} : NewEncryptedString(v, secret)
  \/ StringOf
  \/ \E secret \in Secret \cup {NoSecret} : UpdateSecret(secret) \/ SetSecret(secret)

SecretSpec == SecretInit /\ [][SecretNext]_secretVars

----------------------------------------------------------------------------
(* Properties.                                                             *)

\* Every variable has its type: what is kept is never the result of a failure.
SecretTypeOK ==
  /\ env \in Secret \cup {NoSecret}
  /\ e.secret \in Secret \cup {NoSecret}
  /\ e.value.text \in Text \cup {Garbage}
  /\ e.value.cipher \in BOOLEAN
  /\ e.value.algo \in Algorithm \cup {"none"}
  /\ expected \in Text \cup {NoText}

\* Whatever sequence of values, secrets and encryptions it went through, with
\* keys of any length, a String gives the text it was given last; but for the
\* calls that lose it (SetSecret and an empty UpdateSecret over a cipher text,
\* String over a plain text with the secret of the environment).
Recoverable == expected # NoText => UnsafeString(e) = expected

============================================================================
