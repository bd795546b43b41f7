------------------------------ MODULE MCGossip ------------------------------
(***************************************************************************)
(* Gossip among four servers, of which r has the children a and b and a    *)
(* has c.  The lowest value is that of c, the root's is the second lowest. *)
(***************************************************************************)
EXTENDS Gossip, TLC

CONSTANTS r, a, b, c

Node4 == {r, a, b, c}
Parent4 == a :> r @@ b :> r @@ c :> a
Subtree4 == r :> Node4 @@ a :> {a, c} @@ b :> {b} @@ c :> {c}
Rank4 == c :> 1 @@ r :> 2 @@ a :> 3 @@ b :> 4
=============================================================================
