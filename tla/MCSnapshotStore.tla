-------------------------- MODULE MCSnapshotStore --------------------------
EXTENDS SnapshotStore, TLC
CONSTANTS s1, s2, s3, p1, p2, f1, f2, v1, v2

MCpidOf == s1 :> p1 @@ s2 :> p1 @@ s3 :> p2

\* Sessions of one process, and contents, are interchangeable.
Symmetric == Permutations({s1, s2}) \cup Permutations({v1, v2})
=============================================================================
