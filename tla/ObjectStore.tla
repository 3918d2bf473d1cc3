----------------------------- MODULE ObjectStore -----------------------------
(***************************************************************************)
(* PutObject, GetObject and HeadObject of clients/storage/fs, oss and s3:  *)
(* one caller puts while another gets. The object stores take and give an  *)
(* object at once; a file is written and read in place, part by part. The  *)
(* stores, and a file system that lets files be written, are external.     *)
(*                                                                         *)
(* The content of an object is a sequence of parts, each the number of the *)
(* put that wrote it.                                                      *)
(***************************************************************************)
EXTENDS Naturals, Sequences

CONSTANTS
  MaxPuts,    \* bound: number of puts
  MaxParts    \* bound: parts of an object

ASSUME StoreAssumption == MaxPuts \in Nat /\ MaxParts \in Nat \ {0}

VARIABLES
  storeKind,   \* "fs", "oss" or "s3"
  object,      \* content of each object that exists
  put,         \* the call of PutObject
  get,         \* the call of GetObject and the reader it returned
  head,        \* what HeadObject answered
  puts,        \* number of puts
  settled,     \* history: content of the last put at each place, if it returned nil
  sent         \* history: contents of the puts at each place

storeVars == << storeKind, object, put, get, head, puts, settled, sent >>

Place   == {"key", "bucket/key", "other/key"}
Content == UNION {[1 .. n -> 1 .. MaxPuts] : n \in 0 .. MaxParts}

\* A name is the key in the bucket of the client, an URL names the bucket too;
\* without a key, or without a bucket, it is an error. fs takes the scheme off
\* and has no bucket: what is left is the name of a file, if it is one.
ObjectPath == {"key", "scheme://bucket/key", "scheme://other/key", "scheme://bucket", "scheme:///key", ""}
resolveObjectPath(p) ==
  CASE p = "key"                 -> IF storeKind = "fs" THEN "key" ELSE "bucket/key"
    [] p = "scheme://bucket/key" -> "bucket/key"
    [] p = "scheme://other/key"  -> "other/key"
    [] OTHER                     -> "invalid"

Unknown == << 0 >>   \* what a place holds after a put that failed

----------------------------------------------------------------------------
StoreInit ==
  /\ storeKind \in {"fs", "oss", "s3"}
  /\ object = << >>
  /\ put = [state |-> "idle", place |-> "invalid", content |-> << >>, copied |-> 0]
  /\ get = [state |-> "idle", place |-> "invalid", body |-> << >>, read |-> << >>, alone |-> TRUE]
  /\ head = "none"
  /\ puts = 0
  /\ settled = [p \in Place |-> Unknown]
  /\ sent = [p \in Place |-> {}]

At(p, c) == [q \in DOMAIN object \cup {p} |-> IF q = p THEN c ELSE object[q]]

PutObject(path, n) ==
  LET place == resolveObjectPath(path) IN
  /\ put.state = "idle"
  /\ puts < MaxPuts
  /\ puts' = puts + 1
  /\ IF place = "invalid" THEN UNCHANGED << put, get, settled, sent >>
     ELSE /\ put' = [state |-> "opening", place |-> place,
                     content |-> [i \in 1 .. n |-> puts'], copied |-> 0]
          /\ get' = [get EXCEPT !.alone = @ /\ get.place # place]
          /\ settled' = [settled EXCEPT ![place] = Unknown]
          /\ sent' = [sent EXCEPT ![place] = @ \cup {put'.content}]
  /\ UNCHANGED << storeKind, object, head >>

PutReturns == put' = [put EXCEPT !.state = "idle"]

\* An error: the content is known no more.
PutFails ==
  /\ put.state \in {"opening", "copying"}
  /\ PutReturns
  /\ UNCHANGED << storeKind, object, get, head, puts, settled, sent >>

\* Mutant: the file is opened without O_TRUNC.
OpenFileKeeps ==
  /\ storeKind = "fs"
  /\ put.state = "opening"
  /\ object' = At(put.place, IF put.place \in DOMAIN object THEN object[put.place] ELSE << >>)
  /\ put' = [put EXCEPT !.state = "copying"]
  /\ UNCHANGED << storeKind, get, head, puts, settled, sent >>

\* fs: O_CREATE|O_TRUNC ...
OpenFile ==
  /\ storeKind = "fs"
  /\ put.state = "opening"
  /\ object' = At(put.place, << >>)
  /\ put' = [put EXCEPT !.state = "copying"]
  /\ UNCHANGED << storeKind, get, head, puts, settled, sent >>

\* ... and io.Copy, which writes a part where the one before ends.
CopyPart ==
  LET i == put.copied + 1
      file == object[put.place]
  IN
  /\ put.state = "copying"
  /\ i <= Len(put.content)
  /\ object' = At(put.place, IF i <= Len(file) THEN [file EXCEPT ![i] = put.content[i]]
                             ELSE Append(file, put.content[i]))
  /\ put' = [put EXCEPT !.copied = i]
  /\ UNCHANGED << storeKind, get, head, puts, settled, sent >>

PutSucceeds ==
  /\ PutReturns
  /\ settled' = [settled EXCEPT ![put.place] = put.content]
  /\ UNCHANGED << storeKind, get, head, puts, sent >>

CopyEnds ==
  /\ put.state = "copying"
  /\ put.copied = Len(put.content)
  /\ PutSucceeds
  /\ UNCHANGED object

\* oss, s3: the uploader; its answer may be lost.
Upload ==
  /\ storeKind # "fs"
  /\ put.state = "opening"
  /\ object' = At(put.place, put.content)
  /\ \/ PutSucceeds
     \/ PutReturns /\ UNCHANGED << storeKind, get, head, puts, settled, sent >>

----------------------------------------------------------------------------
(* GetObject.                                                              *)

\* There is no such object, or it cannot be read.
GetFails == get' = [get EXCEPT !.state = "error"]

Reads(place, body) ==
  get' = [state |-> "reading", place |-> place, body |-> body, read |-> << >>,
          alone |-> put.state = "idle" \/ put.place # place]

\* fs answers with the open file, oss with the body of the object as it is.
GetFile(place) == storeKind = "fs" /\ Reads(place, << >>)
GetBody(place) == storeKind = "oss" /\ Reads(place, object[place])

\* The headers of s3 are written with strconv.FormatInt(size, 64), which panics
\* whenever there is an object.
GetPanics == storeKind = "s3" /\ get' = [get EXCEPT !.state = "panic"]

GetObject(path) ==
  LET place == resolveObjectPath(path) IN
  /\ get.state = "idle"
  /\ \/ GetFails
     \/ place \in DOMAIN object /\ (GetFile(place) \/ GetBody(place) \/ GetPanics)
  /\ UNCHANGED << storeKind, object, put, head, puts, settled, sent >>

\* Where the reader reads: the file as it is, or the answer of the store.
Body == IF storeKind = "fs" THEN object[get.place] ELSE get.body

ReadPart ==
  LET i == Len(get.read) + 1 IN
  /\ get.state = "reading"
  /\ get' = IF i <= Len(Body) THEN [get EXCEPT !.read = Append(@, Body[i])]
                              ELSE [get EXCEPT !.state = "done"]
  /\ UNCHANGED << storeKind, object, put, head, puts, settled, sent >>

ReadFails ==
  /\ get.state = "reading"
  /\ get' = [get EXCEPT !.state = "error"]
  /\ UNCHANGED << storeKind, object, put, head, puts, settled, sent >>

(* HeadObject panics when there is an object.                              *)

\* fs, as s3 above; it asks the operating system and not its file system, so it
\* may find another file, or none.
HeadFile == {"error", "panic"}

\* oss takes the metadata from its result, which is nil.
HeadMeta(place) == IF place \in DOMAIN object THEN {"error", "panic"} ELSE {"error"}

\* s3 tells that there is no object from other errors.
HeadS3(place) ==
  IF place \in DOMAIN object THEN {"error", "panic"}
  ELSE IF place = "invalid" THEN {"error"} ELSE {"error", "ErrNotExist"}

HeadObject(path) ==
  LET place == resolveObjectPath(path) IN
  /\ head = "none"
  /\ head' \in CASE storeKind = "fs"  -> HeadFile
                 [] storeKind = "oss" -> HeadMeta(place)
                 [] storeKind = "s3"  -> HeadS3(place)
  /\ UNCHANGED << storeKind, object, put, get, puts, settled, sent >>

StoreNext ==
  \/ \E p \in ObjectPath, n \in 1 .. MaxParts : PutObject(p, n)
  \/ OpenFile \/ CopyPart \/ CopyEnds \/ Upload \/ PutFails
  \/ \E p \in ObjectPath : GetObject(p) \/ HeadObject(p)
  \/ ReadPart \/ ReadFails

StoreSpec == StoreInit /\ [][StoreNext]_storeVars

----------------------------------------------------------------------------
(* Properties.                                                             *)

\* Every variable has its type.
StoreTypeOK ==
  /\ storeKind \in {"fs", "oss", "s3"}
  /\ DOMAIN object \subseteq Place /\ \A p \in DOMAIN object : object[p] \in Content
  /\ put \in [state : {"idle", "opening", "copying"}, place : Place \cup {"invalid"},
              content : Content, copied : 0 .. MaxParts]
  /\ get \in [state : {"idle", "reading", "done", "error", "panic"},
              place : Place \cup {"invalid"}, body : Content, read : Content, alone : BOOLEAN]
  /\ head \in {"none", "error", "panic", "ErrNotExist"}
  /\ puts \in 0 .. MaxPuts
  /\ settled \in [Place -> Content \cup {Unknown}]
  /\ sent \in [Place -> SUBSET Content]

\* What a get reads to its end is what the last put of that object put, by
\* whatever name the two call it, if that put returned nil and no other was
\* under way meanwhile. An object store never gives a part of a put or a
\* mixture of two.
GetsWhatWasPut ==
  get.state = "done" =>
    /\ get.alone /\ settled[get.place] # Unknown => get.read = settled[get.place]
    /\ storeKind = "oss" => get.read \in sent[get.place]

============================================================================
