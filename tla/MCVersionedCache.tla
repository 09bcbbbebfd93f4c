-------------------------- MODULE MCVersionedCache --------------------------
(* Instances of VersionedCache for TLC: goroutines spread over the nodes.  *)
EXTENDS VersionedCache, TLC

CONSTANTS n1, n2, a, b, c

\* Two goroutines on n1, one on n2.
TwoNodes == a :> n1 @@ b :> n1 @@ c :> n2

\* All goroutines on one node.
OneNode == a :> n1 @@ b :> n1

=============================================================================
