------------------------------ MODULE MCNacos ------------------------------
(* The two halves of the Nacos client for TLC, side by side: a behaviour is *)
(* one of the watcher or one of the requests. The watcher takes a request   *)
(* for one step that answers or fails; the requests say what that step is.  *)
EXTENDS NacosWatch, NacosRequests, TLC

CONSTANTS l1, l2, k1, k2, c1, c2

MCListener == {l1, l2}
MCKey      == {k1, k2}
MCCall     == {c1, c2}

Alike == Permutations(MCListener) \cup Permutations(MCKey) \cup Permutations(MCCall)

VARIABLE half   \* which half the behaviour is one of

\* Bound: while the listeners have two keys, a backoff goes no further than
\* MaxApart; it does for two listeners of one key.
MaxApart == 1

SmallApart ==
  (\E l, m \in Listener : key[l] # key[m]) =>
    \A i \in DOMAIN targets : targets[i].backoff <= MaxApart

NacosInit ==
  /\ half \in {"watch", "requests"}
  /\ Init
  /\ RequestsInit
  /\ half = "watch" => now = 0
  /\ half = "requests" => \A l, m \in Listener : key[l] = key[m]

NacosNext ==
  /\ UNCHANGED half
  /\ \/ half = "watch"    /\ Next         /\ UNCHANGED requestVars
        /\ SmallApart'
     \/ half = "requests" /\ RequestsNext /\ UNCHANGED vars

NacosSpec == NacosInit /\ [][NacosNext]_<< half, vars, requestVars >>

\* Every variable of both halves has its type.
NacosTypeOK == TypeOK /\ RequestsTypeOK

=============================================================================
