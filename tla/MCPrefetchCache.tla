--------------------------- MODULE MCPrefetchCache ---------------------------
(***************************************************************************)
(* A small instance of PrefetchCache.                                       *)
(***************************************************************************)
EXTENDS PrefetchCache, TLC

CONSTANTS h1, h2, p1, k1, k2, k3, k4

MCThreads == Hosts \cup Pool

HermesSymmetry == Permutations(Keys) \cup Permutations(Hosts) \cup Permutations(Pool)
==============================================================================
