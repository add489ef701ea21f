-------------------------- MODULE MCRegistryCache --------------------------
(* RegistryCache on small instances.                                       *)
EXTENDS RegistryCache, TLC

CONSTANTS p1, p2, p3, g1, w1

\* one service; p1 and p2 are two nodes of its version v1, p3 of v2
OneService == [p \in Servers |-> "S"]
TwoVersions == [p \in Servers |-> IF p = p3 THEN "v2" ELSE "v1"]
OneVersion == [p \in Servers |-> "v1"]

-----------------------------------------------------------------------------
(* Three instances in one run.  All bounds at once are out of reach, so a  *)
(* behaviour has the freedom of one of them:                               *)
(*  "misses"    two getters miss the cache together and may start two      *)
(*              watching goroutines; one call of one server;               *)
(*  "versions"  three servers of two versions and a failing registry,      *)
(*              with one getter;                                           *)
(*  "stop"      the cache is stopped, with one getter and one call of one  *)
(*              server.                                                    *)
VARIABLE instance

Alone(i) == instance # "misses" => i \in {g1, w1}

Within ==
  /\ instance # "versions" => ops' <= 1 /\ \A p \in Servers \ {p1} : rsvc'[p] = rsvc[p]
  /\ instance = "misses" => fails' = 0
  /\ instance # "stop" => ~stopped'
  /\ \A g \in Getters : Alone(g) \/ get'[g] = get[g]
  /\ \A r \in Runners : Alone(r) \/ run'[r] = run[r]

InstancesInit == Init /\ instance \in {"misses", "versions", "stop"}
InstancesNext == Next /\ Within /\ UNCHANGED instance

(* The fairness of RegistryCache, but a getter that has no part in an      *)
(* instance need not ask.                                                  *)
InstancesSpec ==
  /\ InstancesInit /\ [][InstancesNext]_<<vars, instance>>
  /\ StepFairness
  /\ \A g \in Getters, s \in Services : SF_vars(Alone(g) /\ GetRead(g, s))

(* The cache follows the registry in the end: what a getter that asks is   *)
(* given converges to what is registered (registry/cache/cache.go, get,    *)
(* update and the ttl).  The getters are interchangeable, so that it is    *)
(* enough to look at one of them.                                          *)
CacheConverges == Converges(g1)
=============================================================================
