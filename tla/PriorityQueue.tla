---------------------------- MODULE PriorityQueue ----------------------------
(***************************************************************************)
(* bftcosi_special/pq.go as the ByzCoin-NG service uses it: items go in    *)
(* with container/heap's Push, which sifts them up, and come out with the  *)
(* queue's own Pop method, which takes the last element of the slice.  An  *)
(* item is its priority: no two blocks of a run share one.                 *)
(***************************************************************************)
EXTENDS Integers, Sequences, FiniteSets

Less(p, q) == p > q

Swap(pq, i, j) == [pq EXCEPT ![i] = pq[j], ![j] = pq[i]]

(* container/heap's up, on a slice that starts at 1.                       *)
RECURSIVE SiftUp(_, _)
SiftUp(pq, i) ==
    IF i = 1 \/ ~Less(pq[i], pq[i \div 2]) THEN pq
    ELSE SiftUp(Swap(pq, i, i \div 2), i \div 2)

HeapPush(pq, item) == SiftUp(Append(pq, item), Len(pq) + 1)

(* Pop returns this element and Rest is what it leaves.                    *)
Last(pq) == pq[Len(pq)]
Rest(pq) == SubSeq(pq, 1, Len(pq) - 1)
=============================================================================
