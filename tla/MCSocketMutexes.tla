--------------------------- MODULE MCSocketMutexes ---------------------------
(* Instances of SocketMutexes for TLC. *)
EXTENDS SocketMutexes, TLC

CONSTANTS s1, s2, s3, s4, a1, a2, a3, a4

\* Addresses are interchangeable, and so are descriptors.
Symmetry == Permutations({s1, s2, s3, s4}) \cup Permutations({a1, a2, a3, a4})
=============================================================================
