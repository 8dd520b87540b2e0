--------------------------- MODULE MCDirectoryScan ---------------------------
(* Instance of DirectoryScan for TLC: three directories to ask for.           *)
EXTENDS DirectoryScan

CONSTANTS tree, d1, d2, d3, f1, f2, f3, f4, s, knot, d4, f5, f6, loop,
          bare, f7, away, alias, twice, round

\* tree has a file, a socket, an empty directory d3, and d1, where d2 is nested.
\* knot has a file, and d4 with another one and a link back to knot.
\* bare has a file, a link to it, a link to that link, a link to nothing and a
\* link to itself.
Nodes == {tree, d1, d2, d3, f1, f2, f3, f4, s, knot, d4, f5, f6, loop,
          bare, f7, away, alias, twice, round}
Kinds == [n \in Nodes |->
  CASE n \in {tree, d1, d2, d3, knot, d4, bare} -> "dir"
    [] n \in {loop, away, alias, twice, round} -> "link"
    [] n = s -> "other" [] OTHER -> "file"]
Inside == [n \in Nodes |->
  CASE n = tree -> {f1, s, d1, d3} [] n = d1 -> {f2, d2} [] n = d2 -> {f3, f4}
    [] n = knot -> {f5, d4} [] n = d4 -> {f6, loop}
    [] n = bare -> {f7, away, alias, twice, round} [] OTHER -> {}]
Targets == [n \in Nodes |->
  CASE n = loop -> knot [] n = alias -> f7 [] n = twice -> alias [] n = round -> round
    [] OTHER -> Nowhere]
Deleted == [n \in {tree, knot, bare} |->
  CASE n = tree -> {f1, f3, d2} [] n = knot -> {loop} [] n = bare -> {f7, away, round}]
=============================================================================
