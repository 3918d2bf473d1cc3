------------------------------ MODULE MCClients ------------------------------
(* Instances of Clients for TLC.                                            *)
EXTENDS Clients, TLC

CONSTANTS d1, d2, t, k1, k2, w1, w2

MCFunc     == {d1, d2, t}
MCDatabase == {d1, d2}
MCWorker   == {w1, w2}
MCGorm     == {k1}
MCSQLite   == {}
MCRedis    == {k2}
NoCaller   == {}

MCRegistrar == {Main, w1}

Alike == Permutations(MCDatabase)

=============================================================================
