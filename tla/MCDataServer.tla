----------------------------- MODULE MCDataServer -----------------------------
(* Instances of DataServer for TLC. *)
EXTENDS DataServerInv, TLC

CONSTANTS c1, c2, c3, w1, w2, s1, s2, s3

\* Files in the directory of c1 and in that of every other client.
Files10 == [c \in Client |-> IF c = c1 THEN 1 ELSE 0]
Files11 == [c \in Client |-> 1]
Files4  == [c \in Client |-> IF c = c1 THEN 4 ELSE 1]

\* Workers are interchangeable, and so are descriptors.
Symmetry == Permutations({w1, w2}) \cup Permutations({s1, s2, s3})

\* Symmetry cannot be used with liveness.  Which unused descriptor accept(2)
\* returns makes no difference to it: here it is the first, so that a step of
\* the main thread is possible in the same states as in FairSpec.
Rank == s1 :> 1 @@ s2 :> 2 @@ s3 :> 3
FirstUnused ==
  \A s, t \in Socket :
    conn[s] = None /\ conn'[s] # None /\ Rank[t] < Rank[s] => conn[t] # None

FairSpecFirstUnused == Init /\ [][Next /\ FirstUnused]_vars /\ Fairness
=============================================================================
