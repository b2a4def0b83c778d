-------------------------------- MODULE Ranks --------------------------------
(***************************************************************************)
(* Places in a sequence, for definitions that say which members a list     *)
(* has, and in what order.                                                 *)
(***************************************************************************)
EXTENDS Naturals, FiniteSets

\* The number of place k among the places K.
Rank(K, k) == Cardinality({j \in K : j <= k})
=============================================================================
