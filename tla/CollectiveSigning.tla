-------------------------- MODULE CollectiveSigning --------------------------
(***************************************************************************)
(* What a BFTCoSi run promises to the service that starts it: every node   *)
(* verifies the message at most once and for good, and the root's outcome  *)
(* is decided once, after every node has verified, by counting refusals    *)
(* against the threshold.                                                  *)
(***************************************************************************)
EXTENDS Integers, FiniteSets

CONSTANT Node

VARIABLES vote,      \* what VerificationFunction returned at each node
          outcome    \* what the root hands to onSignatureDone

csVars == <<vote, outcome>>

(* threshold: (len(n.Tree().List()) + 1) * 2 / 3 *)
Threshold == ((Cardinality(Node) + 1) * 2) \div 3

Refusers == {n \in Node : vote[n] = "refuse"}

CSInit ==
    /\ vote = [n \in Node |-> "none"]
    /\ outcome = "none"

Vote(n) ==
    /\ outcome = "none"
    /\ vote[n] = "none"
    /\ \E v \in {"accept", "refuse"} : vote' = [vote EXCEPT ![n] = v]
    /\ UNCHANGED outcome

Decide ==
    /\ outcome = "none"
    /\ \A n \in Node : vote[n] # "none"
    /\ outcome' = IF Cardinality(Refusers) < Threshold
                  THEN "signed" ELSE "refused"
    /\ UNCHANGED vote

CSNext == Decide \/ \E n \in Node : Vote(n)

CSSpec == CSInit /\ [][CSNext]_csVars
=============================================================================
