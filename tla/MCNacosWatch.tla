---------------------------- MODULE MCNacosWatch ----------------------------
(* Instances of NacosWatch for TLC.                                         *)
EXTENDS NacosWatch, TLC

CONSTANTS l1, l2, k1, k2

MCListener == {l1, l2}
MCKey      == {k1, k2}

Alike == Permutations(MCListener) \cup Permutations(MCKey)

=============================================================================
