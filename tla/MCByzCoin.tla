----------------------------- MODULE MCByzCoin -----------------------------
(***************************************************************************)
(* ByzCoin on the binary tree of five servers: r has the children a and b, *)
(* a has c and d.  A file of transactions may be empty, too short for a    *)
(* block of two, or long enough.                                           *)
(***************************************************************************)
EXTENDS ByzCoin

CONSTANTS r, a, b, c, d

Node5 == {r, a, b, c, d}
Parent5 == a :> r @@ b :> r @@ c :> a @@ d :> a
Subtree5 == r :> Node5 @@ a :> {a, c, d} @@ b :> {b} @@ c :> {c} @@ d :> {d}
NotRoot == Node5 \ {r}
Files == {<<>>, <<1>>, <<1, 2, 3>>}
=============================================================================
