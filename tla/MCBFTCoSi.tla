------------------------------ MODULE MCBFTCoSi ------------------------------
(***************************************************************************)
(* BFTCoSi on the binary tree GenerateNaryTree(2) builds for six servers:  *)
(* r has the children a and b, a has c and d, b has e.  There are inner    *)
(* nodes on both sides and of both degrees.  The tree of the first four    *)
(* has one inner node below the root.                                      *)
(***************************************************************************)
EXTENDS BFTCoSi, TLC

CONSTANTS r, a, b, c, d, e

Node6 == {r, a, b, c, d, e}
Parent6 == a :> r @@ b :> r @@ c :> a @@ d :> a @@ e :> b
Subtree6 == r :> Node6 @@ a :> {a, c, d} @@ b :> {b, e}
            @@ c :> {c} @@ d :> {d} @@ e :> {e}

Node4 == {r, a, b, c}
Parent4 == a :> r @@ b :> r @@ c :> a
Subtree4 == r :> Node4 @@ a :> {a, c} @@ b :> {b} @@ c :> {c}
=============================================================================
