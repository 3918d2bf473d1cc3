----------------------------- MODULE MCRingQueue -----------------------------
(* Instances of RingQueue for TLC.                                           *)
EXTENDS RingQueue, TLC

CONSTANTS x, y, g1, g2

MCItem == {x, y}
OneGetter == {g1}
TwoGetters == {g1, g2}

=============================================================================
