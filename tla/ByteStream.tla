------------------------------ MODULE ByteStream ------------------------------
(***************************************************************************)
(* What the buffers promise: a reader gives the bytes of its source one    *)
(* after the other and ends where the source ends; a writer passes on      *)
(* bytes that are written to it, up to a limit in all, and they are the    *)
(* first ones until the writer under it refuses some; it tells its caller  *)
(* what was passed on or, where it ignores errors, that all was. A byte is *)
(* its place.                                                              *)
(***************************************************************************)
EXTENDS Integers

CONSTANTS Size, Limit

VARIABLES
  last,      \* the bytes of the last read, from and to
  given,     \* bytes given so far
  ended,     \* io.EOF was answered
  ignoreError,   \* the caller is told that all was written
  refused,       \* the writer underneath has refused bytes in the limit
  passed,        \* bytes passed on
  written,       \* bytes written by the caller
  told           \* bytes the caller was told are written

passedVars == << ignoreError, refused, passed, written, told >>
streamVars == << last, given, ended, passedVars >>

StreamInit ==
  /\ last = << 1, 0 >> /\ given = 0 /\ ended = FALSE
  /\ ignoreError \in BOOLEAN
  /\ refused = FALSE /\ passed = 0 /\ written = 0 /\ told = 0

Give(n) ==
  /\ ~ended
  /\ given + n <= Size
  /\ last' = << given + 1, given + n >>
  /\ given' = given + n
  /\ UNCHANGED << ended, passedVars >>

End ==
  /\ given = Size
  /\ ended' = TRUE
  /\ UNCHANGED << last, given, passedVars >>

\* Bytes are written, n of them are passed on. When none was ever refused, what
\* is passed on is all that was written, or the limit is reached.
Pass(n) ==
  /\ written' \in Nat
  /\ n <= written' - written
  /\ passed + n <= Limit
  /\ passed' = passed + n
  /\ refused' \in BOOLEAN /\ (refused => refused')
  /\ ~refused' => passed' = written' \/ passed' = Limit
  /\ told' = IF ignoreError THEN written' ELSE passed'
  /\ UNCHANGED << last, given, ended, ignoreError >>

StreamNext ==
  \/ \E n \in 1 .. Size : Give(n)
  \/ End
  \/ \E n \in 0 .. Limit : Pass(n)

StreamSpec == StreamInit /\ [][StreamNext]_streamVars

=============================================================================
