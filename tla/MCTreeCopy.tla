------------------------------ MODULE MCTreeCopy ------------------------------
(* Instances of TreeCopy for TLC: process ids of three digits, of which two   *)
(* fit, so that all clients have the same output directory. *)
EXTENDS TreeCopy, TLC

CONSTANTS c1, c2, c3, a, e, f, g, x, y

Names == {a, e, f, g, x, y}
Pids == (c1 :> <<1, 2, 3>>) @@ (c2 :> <<1, 2, 4>>) @@ (c3 :> <<1, 2>>)

\* c1 and c2 ask for directories of the same name, as two runs of one test do.
TwoNames == (c1 :> x) @@ (c2 :> x) @@ (c3 :> y)

\* c1 and c2 both have f, and a directory a with one file each; g is a file of
\* c1 and a directory of c2.
Trees == (c1 :> {<<>>, <<a>>}) @@ (c2 :> {<<>>, <<a>>, <<g>>}) @@ (c3 :> {<<>>})
TreeFiles ==
  (c1 :> {<<f>>, <<a, f>>, <<g>>}) @@ (c2 :> {<<f>>, <<a, g>>, <<g, f>>}) @@ (c3 :> {<<f>>})

\* Nothing; a copy of c1's directory, with a file that it has no longer; a
\* part of both directories.
Shared == <<1, 2>>
Earlier == {{},
            {<<Shared, x, f>>, <<Shared, x, a, f>>, <<Shared, x, a, e>>},
            {<<Shared, x, a, g>>, <<Shared, y, f>>}}
=============================================================================
