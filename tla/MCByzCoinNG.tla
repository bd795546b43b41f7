---------------------------- MODULE MCByzCoinNG ----------------------------
(***************************************************************************)
(* A leader r and another server a.  Two threads with a client, three      *)
(* rounds or two with a timeout; one thread whose signatures time out, so  *)
(* that three runs meet in the queues.                                     *)
(***************************************************************************)
EXTENDS ByzCoinNG, TLC

CONSTANTS r, a, t1, t2, c

Node2 == {r, a}
Parent2 == a :> r
Threads == {t1, t2}
Clients == {c}
Loads ==
    {[rounds |-> 3, threads |-> {t1, t2}, clients |-> {c}, timeouts |-> 0],
     [rounds |-> 2, threads |-> {t1, t2}, clients |-> {c}, timeouts |-> 1],
     [rounds |-> 3, threads |-> {t1}, clients |-> {}, timeouts |-> 2]}
Subtree2 == r :> Node2 @@ a :> {a}
=============================================================================
