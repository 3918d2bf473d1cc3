------------------------------- MODULE Buffers -------------------------------
(***************************************************************************)
(* buffer/pre_reader.go, a reader that has read the beginning of its       *)
(* source in advance, and buffer/limit.go, a writer that passes on no more *)
(* than a number of bytes.                                                 *)
(*                                                                         *)
(* A byte is its place in the source, so a buffer is its length. The       *)
(* source of the reader and the writer under the limit are external: they  *)
(* give and take what they like: a source that has failed or ended stays   *)
(* so; a writer fails when it takes less than it is given, and may take    *)
(* again what comes after. Nothing is read from a reader that NewPreReader *)
(* has returned with an error.                                             *)
(***************************************************************************)
EXTENDS Integers

CONSTANTS
  Size,        \* bytes of the source
  PreRead,     \* the largest maxLen of NewPreReader
  Limit,       \* n of LimitWriter
  MaxWritten   \* bound: bytes written in all

ASSUME BuffersAssumption ==
  /\ Size \in Nat /\ PreRead \in Nat /\ Limit \in Nat /\ MaxWritten \in Nat

VARIABLES
  reader,    \* "filling" in NewPreReader, "open", "failed" or "closed"
  source,    \* bytes read from the source
  buf,       \* bytes read in advance
  bufIdx, maxLen,
  last, given, ended,     \* history, as in ByteStream
  ignoreError, remain,    \* LimitedWriter: N is remain
  refused, passed, written, told      \* history, as in ByteStream

readerVars  == << reader, source, buf, bufIdx, maxLen >>
givenVars   == << last, given, ended >>
writerVars  == << ignoreError, remain, refused, passed, written, told >>
buffersVars == << readerVars, givenVars, writerVars >>

----------------------------------------------------------------------------
BuffersInit ==
  /\ reader = "filling"
  /\ maxLen \in 0 .. PreRead
  /\ source = 0 /\ buf = 0 /\ bufIdx = 0
  /\ last = << 1, 0 >> /\ given = 0 /\ ended = FALSE
  /\ ignoreError \in BOOLEAN
  /\ remain = Limit
  /\ refused = FALSE /\ passed = 0 /\ written = 0 /\ told = 0

\* NewPreReader: the source gives bytes, its error being dropped then, ...
Fill(n) ==
  /\ reader = "filling"
  /\ n <= maxLen - buf
  /\ source + n <= Size
  /\ buf' = buf + n
  /\ source' = source + n
  /\ UNCHANGED << reader, bufIdx, maxLen, givenVars, writerVars >>

\* ... until there are enough, or no more, or there is an error: the reader is
\* returned with it.
Filled ==
  /\ reader = "filling"
  /\ reader' \in {"open", "failed"}
  /\ reader' = "open" => buf = maxLen \/ source = Size
  /\ reader' = "failed" => buf < maxLen
  /\ UNCHANGED << source, buf, bufIdx, maxLen, givenVars, writerVars >>

Gives(n) ==
  /\ last' = << given + 1, given + n >>
  /\ given' = given + n
  /\ UNCHANGED ended

Ends == ended' = TRUE /\ UNCHANGED << last, given >>

\* Mutant: all that was read in advance is still a buffer.
FromSourceLate == bufIdx > maxLen

FromSource == bufIdx >= maxLen

\* Read into a slice of n bytes. The source may give fewer, and may fail,
\* which gives nothing.
ReadSource(n) ==
  /\ reader = "open"
  /\ FromSource
  /\ \/ source + n <= Size /\ source' = source + n /\ last' = << source + 1, source + n >>
        /\ given' = given + n /\ UNCHANGED ended
     \/ source = Size /\ Ends /\ UNCHANGED source
  /\ UNCHANGED << reader, buf, bufIdx, maxLen, writerVars >>

ReadBuffer(n) ==
  /\ reader = "open"
  /\ ~FromSource
  /\ IF buf <= bufIdx THEN Ends /\ UNCHANGED bufIdx
     ELSE LET m == IF n <= buf - bufIdx THEN n ELSE buf - bufIdx IN
          /\ bufIdx' = bufIdx + m
          /\ last' = << bufIdx + 1, bufIdx + m >>
          /\ given' = given + m
          /\ UNCHANGED ended
  /\ UNCHANGED << reader, source, buf, maxLen, writerVars >>

\* Close, after which reads ask the closed source.
Close ==
  /\ reader = "open"
  /\ reader' = "closed"
  /\ buf' = 0 /\ bufIdx' = 0 /\ maxLen' = 0
  /\ UNCHANGED << source, givenVars, writerVars >>

\* Write of c bytes: the writer under the limit takes m of those in the limit.
\* With ignoreError the caller is told that all c were written.
Write(c, m) ==
  LET p == IF remain <= 0 THEN 0 ELSE IF c > remain THEN remain ELSE c IN
  /\ written + c <= MaxWritten
  /\ m <= p
  /\ refused' = (refused \/ m < p)
  /\ remain' = remain - m
  /\ passed' = passed + m
  /\ written' = written + c
  /\ told' = told + IF ignoreError THEN c ELSE m
  /\ UNCHANGED << ignoreError, readerVars, givenVars >>

BuffersNext ==
  \/ \E n \in 1 .. Size : Fill(n) \/ ReadSource(n)
  \/ \E n \in 1 .. PreRead : ReadBuffer(n)
  \/ Filled \/ Close
  \/ \E c \in 1 .. MaxWritten, m \in 0 .. Limit : Write(c, m)

BuffersSpec == BuffersInit /\ [][BuffersNext]_buffersVars

----------------------------------------------------------------------------
(* Properties.                                                             *)

\* Every variable has its type.
BuffersTypeOK ==
  /\ reader \in {"filling", "open", "failed", "closed"}
  /\ source \in 0 .. Size
  /\ buf \in Nat /\ bufIdx \in Nat /\ maxLen \in Nat
  /\ last \in Nat \X Nat
  /\ given \in Nat
  /\ ended \in BOOLEAN /\ ignoreError \in BOOLEAN /\ refused \in BOOLEAN
  /\ remain \in Nat /\ passed \in Nat /\ written \in Nat /\ told \in Nat

\* Through a buffer the bytes of the source come in their order, none twice
\* and none left out, and the end only where the source ends, whether the
\* source is shorter or longer than the buffer; and a limited writer passes on
\* no more than its limit, the first bytes of those written until the writer
\* under it refuses some, and tells its caller what it passed on or, ignoring
\* errors, that all was: whatever is read and written in pieces of any size.
Stream == INSTANCE ByteStream
IsByteStream == Stream!StreamSpec

=============================================================================
