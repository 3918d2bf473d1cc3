------------------------------ MODULE MCSignals ------------------------------
(* Instances of Signals for TLC.                                            *)
EXTENDS Signals, TLC

CONSTANTS f1, f2, w1, w2

MCFunc   == {f1, f2}
MCWorker == {w1, w2}

\* Everybody registers: the application, a request, a stop function.
AnyRegistrar == {Main, w1, f1}

\* Only the application registers.
MainRegistrar == {Main}

\* The two units of work are alike when none of them registers, and so are
\* the two stop functions.
Alike == Permutations(MCFunc) \cup Permutations(MCWorker)

=============================================================================
