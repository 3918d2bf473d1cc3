----------------------------- MODULE MCLibrary -----------------------------
(* The packages of the library that share no state, side by side for TLC: a *)
(* behaviour is one of the package that part names, and the variables of    *)
(* the others stay as they are.                                             *)
EXTENDS ObjectListing, ForeachSet, ObjectStore, Buffers, ArraySet, OrderedSet, SafeString,
        Loggers, Capacity, JwtIssuer, ErrorChain

MCObject == 1 .. 4
MCInside == {2, 3}
MCMember == 1 .. 3

Named(name, len) == [name |-> name, len |-> len, hashed |-> FALSE]
MCSecret == {Named("a", 8), Named("a", 16), Named("b", 16), Named("b", 24), Named("b", 32),
             Named("a", 5)}

KeyOf(kind, name, size) == [kind |-> kind, name |-> name, size |-> size]
MCKey == {KeyOf("secret", "s", 0), KeyOf("rsa", "r", 0),
          KeyOf("ec", "e", 256), KeyOf("ec", "f", 521)}

Part == {"listing", "foreach", "store", "buffers", "array", "set", "secret", "loggers",
         "capacity", "jwt", "errors"}

VARIABLE part

\* A part that is not the behaviour's own stays in one initial state.
LibraryInit ==
  /\ part \in Part
  /\ ListingInit /\ ForeachInit /\ StoreInit /\ BuffersInit /\ ArrayInit /\ SetInit
  /\ SecretInit /\ LoggersInit /\ CapacityInit /\ JwtInit /\ ErrorsInit
  /\ part # "listing" => backend = "fs" /\ stored = {}
  /\ part # "foreach" => set = {}
  /\ part # "store"   => storeKind = "fs"
  /\ part # "buffers" => ignoreError /\ maxLen = 0
  /\ part # "array"   => fullCallback = "none"
  /\ part # "secret"  => env = NoSecret
  /\ part # "errors"  => err = << "plain" >>

LibraryNext ==
  /\ UNCHANGED part
  /\ IF part = "listing"  THEN ListingNext  ELSE UNCHANGED listingVars
  /\ IF part = "foreach"  THEN ForeachNext  ELSE UNCHANGED foreachVars
  /\ IF part = "store"    THEN StoreNext    ELSE UNCHANGED storeVars
  /\ IF part = "buffers"  THEN BuffersNext  ELSE UNCHANGED buffersVars
  /\ IF part = "array"    THEN ArrayNext    ELSE UNCHANGED arrayVars
  /\ IF part = "set"      THEN SetNext      ELSE UNCHANGED setVars
  /\ IF part = "secret"   THEN SecretNext   ELSE UNCHANGED secretVars
  /\ IF part = "loggers"  THEN LoggersNext  ELSE UNCHANGED loggerVars
  /\ IF part = "capacity" THEN CapacityNext ELSE UNCHANGED capacityVars
  /\ IF part = "jwt"      THEN JwtNext      ELSE UNCHANGED jwtVars
  /\ IF part = "errors"   THEN ErrorsNext   ELSE UNCHANGED err

libraryVars ==
  << part, listingVars, foreachVars, storeVars, buffersVars, arrayVars, setVars, secretVars,
     loggerVars, capacityVars, jwtVars, err >>

\* The fairness of ListingFairSpec and of ForeachFairSpec.
LibrarySpec ==
  /\ LibraryInit
  /\ [][LibraryNext]_libraryVars
  /\ WF_listingVars(part = "listing" /\ ListStep)
  /\ WF_foreachVars(part = "foreach" /\ ForeachStep)

\* Every variable of every part has its type.
LibraryTypeOK ==
  /\ ListingTypeOK /\ ForeachTypeOK /\ StoreTypeOK /\ BuffersTypeOK /\ ArrayTypeOK
  /\ SetTypeOK /\ SecretTypeOK /\ LoggersTypeOK /\ CapacityTypeOK /\ JwtTypeOK
  /\ ErrorsTypeOK

=============================================================================
