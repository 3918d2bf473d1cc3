----------------------------- MODULE MCRunGroup -----------------------------
(* Instances of RunGroup for TLC.                                           *)
EXTENDS RunGroup, TLC

CONSTANTS f1, a1, a2, w1, runner, other

MCFunc   == {f1}
MCWorker == {a1, a2, w1}
MCActor  == {a1, a2}
MCCaller == {runner, other}

MainRegistrar == {Main}

\* The actors are alike: their order is that of their Add.
AlikeActors == Permutations(MCActor)

=============================================================================
