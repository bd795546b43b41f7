------------------------------ MODULE MCNtree ------------------------------
(***************************************************************************)
(* Six servers: r has the children a and b, a has c and d, b has e.  The   *)
(* file of transactions may be empty, too short for a block, or enough.    *)
(***************************************************************************)
EXTENDS Ntree, TLC

CONSTANTS r, a, b, c, d, e

Node6 == {r, a, b, c, d, e}
Parent6 == a :> r @@ b :> r @@ c :> a @@ d :> a @@ e :> b
Subtree6 == r :> Node6 @@ a :> {a, c, d} @@ b :> {b, e} @@ c :> {c} @@ d :> {d}
            @@ e :> {e}
InnerAndLeaf == {a, e}
Files == {<<>>, <<1>>, <<1, 2, 3>>}
=============================================================================
