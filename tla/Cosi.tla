-------------------------------- MODULE Cosi --------------------------------
(***************************************************************************)
(* Package cosi: what one node computes in the four phases of a collective *)
(* signature.  A sum of points or scalars is the bag of its terms: an      *)
(* aggregate commitment is a bag of nodes (the term of n is the V_n that   *)
(* genCommit draws), an aggregate response a bag of pairs <<n, ch>> (the   *)
(* term v_n - ch * x_n of genResponse).  Two sums are equal when their     *)
(* bags are, the terms being random and independent; a challenge, the hash *)
(* of an aggregate commitment and a message, is the pair of the two.       *)
(***************************************************************************)
EXTENDS Bags, SequencesExt

CONSTANT Nil   \* a field that is not set

Sum(bags) == FoldSeq(LAMBDA x, y : x (+) y, EmptyBag, bags)

(* The commitment of a leaf, and that of a node with its children's.       *)
CreateCommitment(n) == SetToBag({n})
Commit(n, comms) == CreateCommitment(n) (+) Sum(comms)

CreateChallenge(aggregateCommitment, msg) ==
    [commitments |-> aggregateCommitment, message |-> msg]

CreateResponse(n, challenge) == SetToBag({<<n, challenge>>})
Response(n, challenge, responses) ==
    CreateResponse(n, challenge) (+) Sum(responses)

Signature(challenge, aggregateResponse) ==
    [challenge |-> challenge, response |-> aggregateResponse]

(* VerifySignatureWithException recomputes r * G + c * X + the exceptions' *)
(* commitments and compares the challenge this gives.  X is the whole      *)
(* roster's key (subPublic is computed and not used), so the key terms     *)
(* cancel only when every node's response under c is in r exactly once.    *)
VerifySignatureWithException(roster, msg, sig, exceptions) ==
    /\ sig.response = SetToBag(roster \X {sig.challenge})
    /\ sig.challenge =
         CreateChallenge(SetToBag(roster) (+) SetToBag(exceptions), msg)
=============================================================================
