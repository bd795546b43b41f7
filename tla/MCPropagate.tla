---------------------------- MODULE MCPropagate ----------------------------
(* A tree with an inner node below the root, one below that, and leaves at *)
(* three depths.                                                           *)
EXTENDS Propagate

CONSTANTS r, a, b, c, d, e

Node6 == {r, a, b, c, d, e}
Parent6 == [n \in {a, b, c, d, e} |->
              IF n \in {a, b} THEN r ELSE IF n \in {c, d} THEN a ELSE c]
Subtree6 == [n \in Node6 |-> CASE n = r -> Node6
                               [] n = a -> {a, c, d, e}
                               [] n = c -> {c, e}
                               [] OTHER -> {n}]
=============================================================================
