----------------------------- MODULE SkipHeights -----------------------------
(***************************************************************************)
(* Heights and back-links of a deterministic skipchain, by definition.     *)
(* Blocks are their indices in the chain.                                  *)
(***************************************************************************)
EXTENDS Integers, FiniteSetsExt

Divides(base, n, i) == i % (base ^ n) = 0

(* The height of block i: how often base divides i, and one, at most max.  *)
(* The genesis block has the maximum height.                               *)
Height(i, base, max) ==
    IF i = 0 THEN max
    ELSE Max({1} \cup {h \in 2..max : Divides(base, h - 1, i)})

(* The nearest earlier block that is higher than h. *)
BackLink(i, h, base, max) ==
    Max({j \in 0..(i - 1) : Height(j, base, max) > h})
=============================================================================
