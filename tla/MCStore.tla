------------------------------ MODULE MCStore -------------------------------
(* Store for TLC: small sets, and what FirstPathName is in each instance.    *)
EXTENDS Store, TLC

\* SHA-1 prefixes that differ for every two blobs.
MCDistinct == [p \in Paths |-> p]
\* Prefixes that all agree in their first five digits.
MCColliding == [p \in Paths |-> "68044"]

MCSymmetry == Permutations(Threads) \cup Permutations(VersionIDs)
=============================================================================
