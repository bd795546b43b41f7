------------------------------- MODULE BFTCoSi -------------------------------
(***************************************************************************)
(* omniledger/bftcosi/bftcosi.go: collective signing of one message over a *)
(* tree, in two rounds ("prepare" and "commit") of announcement,           *)
(* commitment, challenge and response.                                     *)
(*                                                                         *)
(* Every node runs Dispatch, which waits on its channels in a fixed order; *)
(* phase[n] is the channel it waits on:                                    *)
(*   0 announcement   1 commitments   2 announcement   3 commitments       *)
(*   4 challengePrepare   5 responses   6 verifyChan                       *)
(*   7 challengeCommit    8 responses   9 returned                         *)
(* A leaf has closed its commitment and response channels, so it passes    *)
(* 1, 3, 5 and 8 without waiting.                                          *)
(*                                                                         *)
(* Cryptography is abstracted to who contributed: an aggregate response is *)
(* the set of nodes whose response it contains, an exception list is the   *)
(* set of nodes listed.  Links are FIFO; onet hands the commitments (and   *)
(* the responses) of the children to the protocol in batches of            *)
(* len(Children()), in arrival order, whatever their round.                *)
(***************************************************************************)
EXTENDS Tree, Sequences

CONSTANT MayClose   \* nodes whose server may be closed while signing

(* startBFT refuses rosters of one server and Start is meaningless on a    *)
(* tree that is a single leaf, so the root always has a child.             *)
ASSUME RootHasChild == ~IsLeaf(Root)

RoundPrepare == "prepare"
RoundCommit == "commit"
RoundType == {RoundPrepare, RoundCommit}

VARIABLES
    announced,             \* announcements made by Start at the root
    phase,                 \* where each node's Dispatch waits
    announceChan,          \* announcements received and not handled
    commitChan,            \* commitments received from the children
    challengePrepareChan,  \* is there a prepare challenge to handle
    challengeCommitChan,   \* commit challenges: {} or one prepare signature
    responseChan,          \* responses received from the children
    verification,          \* result of VerificationFunction
    tempPrepareCommit,     \* children whose prepare commitment is stored
    tempCommitCommit,      \* children whose commit commitment is stored
    tempPrepareResponse,   \* prepare responses stored
    tempCommitResponse,    \* commit responses stored
    tempExceptions,        \* nodes listed as refusing to sign
    signRefusal,           \* the node refuses to sign in the commit round
    closing,               \* Shutdown was called
    panicked,              \* nodes that sent on a channel Shutdown closed
    signature              \* what the root gives to onSignatureDone: the
                           \* nodes whose response Sig holds ({} for nil)

chans == <<announceChan, commitChan, challengePrepareChan,
           challengeCommitChan, responseChan>>
temps == <<tempPrepareCommit, tempCommitCommit, tempPrepareResponse,
           tempCommitResponse, tempExceptions, signRefusal>>
vars == <<announced, phase, chans, verification, temps, closing, panicked,
          signature>>

(* mutant: round up instead of down *)
ThresholdRoundedUp == ((Cardinality(Node) + 1) * 2 + 2) \div 3

Threshold == ((Cardinality(Node) + 1) * 2) \div 3

Commitment == [from : Node, type : RoundType]
Response == [from : Node, type : RoundType,
             resp : SUBSET Node, exc : SUBSET Node]
PrepareSig == [resp : SUBSET Node, exc : SUBSET Node]

Init ==
    /\ announced = 0
    /\ phase = [n \in Node |-> 0]
    /\ announceChan = [n \in Node |-> <<>>]
    /\ commitChan = [n \in Node |-> {}]
    /\ challengePrepareChan = [n \in Node |-> FALSE]
    /\ challengeCommitChan = [n \in Node |-> {}]
    /\ responseChan = [n \in Node |-> {}]
    /\ verification = [n \in Node |-> "none"]
    /\ tempPrepareCommit = [n \in Node |-> {}]
    /\ tempCommitCommit = [n \in Node |-> {}]
    /\ tempPrepareResponse = [n \in Node |-> {}]
    /\ tempCommitResponse = [n \in Node |-> {}]
    /\ tempExceptions = [n \in Node |-> {}]
    /\ signRefusal = [n \in Node |-> FALSE]
    /\ closing = [n \in Node |-> FALSE]
    /\ panicked = {}
    /\ signature = [made |-> FALSE, sig |-> {}, exceptions |-> {}]

-----------------------------------------------------------------------------
(* BFTSignature.Verify: the responses in the signature and the commitments *)
(* of the exceptions together account for every node exactly once.         *)
Verify(sig) ==
    /\ sig.resp \cap sig.exc = {}
    /\ sig.resp \cup sig.exc = Node

(* mutants: hand over what has arrived; wait for the node's own message too *)
IsPartialBatch(B, n, queue) ==
    B # {} /\ B \subseteq queue
IsOversizedBatch(B, n, queue) ==
    /\ B \subseteq queue
    /\ Cardinality(B) = Cardinality(Children(n)) + 1

(* onet's aggregate: the first len(Children()) messages to arrive.  The    *)
(* links are FIFO, so a child's commit message is never ahead of its       *)
(* prepare message.                                                        *)
IsBatch(B, n, queue) ==
    /\ B \subseteq queue
    /\ Cardinality(B) = Cardinality(Children(n))
    /\ \A m \in B : \A q \in queue \ B :
         m.from = q.from => m.type = RoundPrepare

ToChildren(chan, n, val) ==
    [c \in Node |-> IF c \in Children(n) THEN val ELSE chan[c]]

SendToParent(chan, n, msg) ==
    [chan EXCEPT ![Parent[n]] = @ \cup {msg}]

-----------------------------------------------------------------------------
(* startAnnouncement sends to the root's own announceChan without a look   *)
(* at closing: sending on a channel that Shutdown has closed panics.       *)
StartAnnouncement(t) ==
    \/ /\ ~closing[Root]
       /\ announceChan' = [announceChan EXCEPT ![Root] = Append(@, t)]
       /\ UNCHANGED panicked
    \/ /\ closing[Root]
       /\ panicked' = panicked \cup {Root}
       /\ UNCHANGED announceChan

(* Start announces the prepare round, then, in a goroutine, the commit     *)
(* round.  A panic in Start leaves no goroutine.                           *)
Start ==
    /\ announced = 0
    /\ announced' = IF closing[Root] THEN 2 ELSE 1
    /\ StartAnnouncement(RoundPrepare)
    /\ UNCHANGED <<phase, commitChan, challengePrepareChan,
                   challengeCommitChan, responseChan, verification, temps,
                   closing, signature>>

StartCommitRound ==
    /\ announced = 1
    /\ announced' = 2
    /\ StartAnnouncement(RoundCommit)
    /\ UNCHANGED <<phase, commitChan, challengePrepareChan,
                   challengeCommitChan, responseChan, verification, temps,
                   closing, signature>>

(* A leaf answers with its commitment, another node passes the             *)
(* announcement on.                                                        *)
HandleAnnouncement(n) ==
    /\ ~closing[n]
    /\ phase[n] \in {0, 2}
    /\ announceChan[n] # <<>>
    /\ LET ann == Head(announceChan[n])
           rest == [announceChan EXCEPT ![n] = Tail(@)]
       IN \/ /\ IsLeaf(n)
             /\ announceChan' = rest
             /\ commitChan' = SendToParent(commitChan, n,
                                           [from |-> n, type |-> ann])
             /\ phase' = [phase EXCEPT ![n] = @ + 2]
          \/ /\ ~IsLeaf(n)
             /\ announceChan' =
                  [c \in Node |-> IF c \in Children(n)
                                  THEN Append(rest[c], ann) ELSE rest[c]]
             /\ phase' = [phase EXCEPT ![n] = @ + 1]
             /\ UNCHANGED commitChan
    /\ UNCHANGED <<announced, challengePrepareChan, challengeCommitChan,
                   responseChan, verification, temps, closing, panicked,
                   signature>>

(* handleCommitment stores a batch; a round whose commitments are now      *)
(* complete goes up to the parent.  At the root a complete prepare round   *)
(* starts the challenge and a complete commit round waits.                 *)
HandleCommitment(n) ==
    /\ ~closing[n]
    /\ phase[n] \in {1, 3}
    /\ \E B \in SUBSET commitChan[n] :
         LET prep == tempPrepareCommit[n] \cup
                       {m.from : m \in {b \in B : b.type = RoundPrepare}}
             comm == tempCommitCommit[n] \cup
                       {m.from : m \in {b \in B : b.type = RoundCommit}}
             complete == {t \in {m.type : m \in B} :
                            Cardinality(IF t = RoundPrepare THEN prep ELSE comm)
                              >= Cardinality(Children(n))}
             up == [commitChan EXCEPT ![n] = @ \ B]
         IN /\ IsBatch(B, n, commitChan[n])
            /\ tempPrepareCommit' = [tempPrepareCommit EXCEPT ![n] = prep]
            /\ tempCommitCommit' = [tempCommitCommit EXCEPT ![n] = comm]
            /\ \/ /\ IsRoot(n)
                  /\ challengePrepareChan' =
                       [challengePrepareChan EXCEPT
                          ![n] = @ \/ RoundPrepare \in complete]
                  /\ commitChan' = up
               \/ /\ ~IsRoot(n)
                  /\ commitChan' =
                       [up EXCEPT ![Parent[n]] =
                          @ \cup {[from |-> n, type |-> t] : t \in complete}]
                  /\ UNCHANGED challengePrepareChan
    /\ phase' = [phase EXCEPT ![n] = @ + 1]
    /\ UNCHANGED <<announced, announceChan, challengeCommitChan, responseChan,
                   verification, tempPrepareResponse, tempCommitResponse,
                   tempExceptions, signRefusal, closing, panicked, signature>>

(* The verification starts in a goroutine; a leaf goes straight to its     *)
(* response, the others pass the challenge on.                             *)
HandleChallengePrepare(n) ==
    /\ ~closing[n]
    /\ phase[n] = 4
    /\ challengePrepareChan[n]
    /\ verification' = [verification EXCEPT ![n] = "running"]
    /\ challengePrepareChan' =
         ToChildren([challengePrepareChan EXCEPT ![n] = FALSE], n, TRUE)
    /\ phase' = [phase EXCEPT ![n] = IF IsLeaf(n) THEN 6 ELSE 5]
    /\ UNCHANGED <<announced, announceChan, commitChan, challengeCommitChan,
                   responseChan, temps, closing, panicked, signature>>

(* VerificationFunction returns: an application decides either way.        *)
VerificationDone(n) ==
    /\ verification[n] = "running"
    /\ \E v \in {"accept", "refuse"} :
         verification' = [verification EXCEPT ![n] = v]
    /\ UNCHANGED <<announced, phase, chans, temps, closing, panicked,
                   signature>>

(* handleResponse in the prepare round: store the batch; with the          *)
(* responses of all children, wait for the verification.                   *)
HandleResponsePrepare(n) ==
    /\ ~closing[n]
    /\ phase[n] = 5
    /\ \E B \in SUBSET responseChan[n] :
         LET stored == tempPrepareResponse[n] \cup
                         {b \in B : b.type = RoundPrepare}
         IN /\ IsBatch(B, n, responseChan[n])
            /\ responseChan' = [responseChan EXCEPT ![n] = @ \ B]
            /\ tempPrepareResponse' =
                 [tempPrepareResponse EXCEPT ![n] = stored]
            /\ tempExceptions' =
                 [tempExceptions EXCEPT ![n] =
                    @ \cup UNION {b.exc : b \in stored}]
            /\ phase' = [phase EXCEPT ![n] =
                           IF Cardinality(stored) < Cardinality(Children(n))
                           THEN 7 ELSE 6]
    /\ UNCHANGED <<announced, announceChan, commitChan, challengePrepareChan,
                   challengeCommitChan, verification, tempPrepareCommit,
                   tempCommitCommit, tempCommitResponse, signRefusal,
                   closing, panicked, signature>>

(* mutant: forget the exceptions the children reported *)
OwnExceptions(n) ==
    IF verification[n] = "refuse" THEN {n} ELSE {}

(* waitResponseVerification: what the subtree of n contributes once n's    *)
(* own verification is in.                                                 *)
PrepareExceptions(n) ==
    tempExceptions[n] \cup (IF verification[n] = "refuse" THEN {n} ELSE {})
PrepareResponses(n) ==
    (UNION {m.resp : m \in tempPrepareResponse[n]})
      \cup (IF verification[n] = "accept" THEN {n} ELSE {})

(* The rest of handleResponsePrepare, after the verification.  It does not *)
(* look at closing again: a node being closed may or may not get its       *)
(* response out, and the root sends on a closed channel.                   *)
FinishPrepare(n) ==
    /\ phase[n] = 6
    /\ n \notin panicked
    /\ verification[n] \in {"accept", "refuse"}
    /\ tempExceptions' = [tempExceptions EXCEPT ![n] = PrepareExceptions(n)]
    /\ LET sig == [resp |-> PrepareResponses(n), exc |-> PrepareExceptions(n)]
       IN \/ /\ ~IsRoot(n)
             /\ \/ responseChan' =
                     SendToParent(responseChan, n,
                       [from |-> n, type |-> RoundPrepare,
                        resp |-> sig.resp, exc |-> sig.exc])
                \/ closing[n] /\ UNCHANGED responseChan
             /\ UNCHANGED <<challengeCommitChan, signRefusal, panicked>>
          \/ /\ IsRoot(n)
             /\ signRefusal' = [signRefusal EXCEPT ![n] = @ \/ ~Verify(sig)]
             /\ IF closing[n]
                THEN /\ panicked' = panicked \cup {n}
                     /\ UNCHANGED challengeCommitChan
                ELSE /\ challengeCommitChan' =
                          [challengeCommitChan EXCEPT ![n] = {sig}]
                     /\ UNCHANGED panicked
             /\ UNCHANGED responseChan
    /\ phase' = [phase EXCEPT ![n] = 7]
    /\ UNCHANGED <<announced, announceChan, commitChan, challengePrepareChan,
                   verification, tempPrepareCommit, tempCommitCommit,
                   tempPrepareResponse, tempCommitResponse, closing,
                   signature>>

(* handleResponseCommit once all responses below n are in: n adds its own  *)
(* unless it refuses.  The exceptions of commit responses are not read by  *)
(* anyone and are left out.                                                *)
CommitResponse(n, refusal, below) ==
    [from |-> n, type |-> RoundCommit, exc |-> {},
     resp |-> (UNION {m.resp : m \in below})
                \cup (IF refusal THEN {} ELSE {n})]

(* mutant: a leaf answers before it counts the exceptions *)
RefusesEarly(n, sig) ==
    \/ signRefusal[n]
    \/ ~Verify(sig)
    \/ ~IsLeaf(n) /\ Cardinality(sig.exc) >= Threshold

(* n refuses when the prepare signature does not verify or lists threshold *)
(* exceptions.                                                             *)
Refuses(n, sig) ==
    \/ signRefusal[n]
    \/ ~Verify(sig)
    \/ Cardinality(sig.exc) >= Threshold

(* handleChallengeCommit stores the exceptions and passes the challenge    *)
(* on; a leaf answers and is done.                                         *)
HandleChallengeCommit(n) ==
    /\ ~closing[n]
    /\ phase[n] = 7
    /\ \E sig \in challengeCommitChan[n] :
         /\ signRefusal' = [signRefusal EXCEPT ![n] = Refuses(n, sig)]
         /\ tempExceptions' = [tempExceptions EXCEPT ![n] = sig.exc]
         /\ challengeCommitChan' =
              ToChildren([challengeCommitChan EXCEPT ![n] = {}], n, {sig})
         /\ \/ /\ IsLeaf(n)
               /\ responseChan' =
                    SendToParent(responseChan, n,
                                 CommitResponse(n, Refuses(n, sig), {}))
               /\ phase' = [phase EXCEPT ![n] = 9]
               /\ closing' = [closing EXCEPT ![n] = TRUE]
            \/ /\ ~IsLeaf(n)
               /\ phase' = [phase EXCEPT ![n] = 8]
               /\ UNCHANGED <<responseChan, closing>>
    /\ UNCHANGED <<announced, announceChan, commitChan, challengePrepareChan,
                   verification, tempPrepareCommit, tempCommitCommit,
                   tempPrepareResponse, tempCommitResponse, panicked,
                   signature>>

(* Signature() at the root: the commit signature, or nil with the prepare  *)
(* round's exceptions.                                                     *)
Signature(resp) ==
    [made |-> TRUE,
     sig |-> IF signRefusal[Root] THEN {} ELSE resp,
     exceptions |-> IF signRefusal[Root] THEN tempExceptions[Root] ELSE {}]

(* handleResponse in the commit round: with the responses of all children  *)
(* the node adds its own, sends it up (the root produces the signature)    *)
(* and is done, which shuts it down.                                       *)
HandleResponseCommit(n) ==
    /\ ~closing[n]
    /\ phase[n] = 8
    /\ \E B \in SUBSET responseChan[n] :
         LET stored == tempCommitResponse[n] \cup
                         {b \in B : b.type = RoundCommit}
             mine == CommitResponse(n, signRefusal[n], stored)
             rest == [responseChan EXCEPT ![n] = @ \ B]
         IN /\ IsBatch(B, n, responseChan[n])
            /\ tempCommitResponse' = [tempCommitResponse EXCEPT ![n] = stored]
            /\ IF Cardinality(stored) < Cardinality(Children(n))
               THEN /\ responseChan' = rest
                    /\ UNCHANGED <<closing, signature>>
               ELSE /\ closing' = [closing EXCEPT ![n] = TRUE]
                    /\ responseChan' =
                         IF IsRoot(n) THEN rest
                         ELSE SendToParent(rest, n, mine)
                    /\ signature' = IF IsRoot(n) THEN Signature(mine.resp)
                                    ELSE signature
    /\ phase' = [phase EXCEPT ![n] = 9]
    /\ UNCHANGED <<announced, announceChan, commitChan, challengePrepareChan,
                   challengeCommitChan, verification, tempPrepareCommit,
                   tempCommitCommit, tempPrepareResponse, tempExceptions,
                   signRefusal, panicked>>

(* onet closes the server: Shutdown closes the channels, and every handler *)
(* that tests isClosing returns from then on.                              *)
Shutdown(n) ==
    /\ n \in MayClose
    /\ ~closing[n]
    /\ closing' = [closing EXCEPT ![n] = TRUE]
    /\ UNCHANGED <<announced, phase, chans, verification, temps, panicked,
                   signature>>

(* onet closes the root after handleCommitment has looked at closing and   *)
(* before its startChallenge sends the prepare challenge, which panics.    *)
ShutdownInChallenge ==
    /\ Root \in MayClose
    /\ ~closing[Root]
    /\ phase[Root] \in {1, 3}
    /\ \E B \in SUBSET commitChan[Root] :
         /\ IsBatch(B, Root, commitChan[Root])
         /\ Cardinality(tempPrepareCommit[Root] \cup
                          {m.from : m \in {b \in B : b.type = RoundPrepare}})
              >= Cardinality(Children(Root))
         /\ \E m \in B : m.type = RoundPrepare
    /\ closing' = [closing EXCEPT ![Root] = TRUE]
    /\ panicked' = panicked \cup {Root}
    /\ UNCHANGED <<announced, phase, chans, verification, temps, signature>>

Dispatch(n) ==
    \/ HandleAnnouncement(n)
    \/ HandleCommitment(n)
    \/ HandleChallengePrepare(n)
    \/ HandleResponsePrepare(n)
    \/ FinishPrepare(n)
    \/ HandleChallengeCommit(n)
    \/ HandleResponseCommit(n)

Next ==
    \/ Start
    \/ StartCommitRound
    \/ ShutdownInChallenge
    \/ \E n \in Node : Dispatch(n) \/ VerificationDone(n) \/ Shutdown(n)

Spec == Init /\ [][Next]_vars

(* The Go scheduler runs every goroutine, links deliver, and a             *)
(* VerificationFunction returns.  Nobody is obliged to call Shutdown.      *)
Fairness ==
    /\ WF_vars(Start)
    /\ WF_vars(StartCommitRound)
    /\ \A n \in Node : WF_vars(Dispatch(n)) /\ WF_vars(VerificationDone(n))

FairSpec == Spec /\ Fairness

-----------------------------------------------------------------------------
(* Every variable has the type its field has in ProtocolBFTCoSi. *)
TypeOK ==
    /\ announced \in 0..2
    /\ phase \in [Node -> 0..9]
    /\ announceChan \in [Node -> Seq(RoundType)]
    /\ commitChan \in [Node -> SUBSET Commitment]
    /\ challengePrepareChan \in [Node -> BOOLEAN]
    /\ challengeCommitChan \in [Node -> SUBSET PrepareSig]
    /\ responseChan \in [Node -> SUBSET Response]
    /\ verification \in [Node -> {"none", "running", "accept", "refuse"}]
    /\ tempPrepareCommit \in [Node -> SUBSET Node]
    /\ tempCommitCommit \in [Node -> SUBSET Node]
    /\ tempPrepareResponse \in [Node -> SUBSET Response]
    /\ tempCommitResponse \in [Node -> SUBSET Response]
    /\ tempExceptions \in [Node -> SUBSET Node]
    /\ signRefusal \in [Node -> BOOLEAN]
    /\ closing \in [Node -> BOOLEAN]
    /\ panicked \subseteq Node
    /\ signature \in [made : BOOLEAN, sig : SUBSET Node,
                      exceptions : SUBSET Node]

(* The promise of the protocol, with the verification results as votes and *)
(* the root's signature as outcome.                                        *)
Promise == INSTANCE CollectiveSigning WITH
    vote <- [n \in Node |-> IF verification[n] \in {"accept", "refuse"}
                            THEN verification[n] ELSE "none"],
    outcome <- IF ~signature.made THEN "none"
               ELSE IF signature.sig = {} THEN "refused" ELSE "signed"

(* A batch handed over by onet never holds commitments (or responses) of   *)
(* two rounds, although onet batches by message type alone: what waits at  *)
(* a node is of the round its Dispatch is collecting.                      *)
RoundsNeverMix ==
    \A n \in Node :
      /\ \A m \in commitChan[n] :
           \/ phase[n] = 1 /\ m.type = RoundPrepare
           \/ phase[n] = 3 /\ m.type = RoundCommit
      /\ \A m \in responseChan[n] :
           \/ phase[n] = 5 /\ m.type = RoundPrepare
           \/ phase[n] = 8 /\ m.type = RoundCommit

(* The root ends with a signature exactly when fewer than threshold nodes  *)
(* refused in the prepare round (TestCheckRefuseBit), whatever the order   *)
(* in which verifications and responses came in.                           *)
SignedIffFewRefusals ==
    signature.made =>
      (signature.sig # {} <=> Cardinality(Promise!Refusers) < Promise!Threshold)

(* A signature holds the commit response of every node, the ones that      *)
(* refused in the prepare round included (Verify with no exception), and a *)
(* nil signature names exactly the nodes that refused.                     *)
SignatureComplete ==
    signature.made =>
      IF signature.sig # {}
      THEN signature.sig = Node /\ signature.exceptions = {}
      ELSE signature.exceptions = Promise!Refusers

(* Nodes that saw the commit challenge agree on whether to sign: no tree   *)
(* ever mixes commit responses and refusals.                               *)
RefusalAgreement ==
    \A n, m \in Node :
      phase[n] >= 8 /\ phase[m] >= 8 => signRefusal[n] = signRefusal[m]

(* BFTCoSi implements CollectiveSigning: whatever the order of messages,   *)
(* verifications and closings, the root decides once, after every node has *)
(* verified, and by whether fewer than threshold nodes refused.  That is   *)
(* what line 375 compares; it is less than the head of the file says, see  *)
(* SignedByThreshold.                                                      *)
KeepsPromise == Promise!CSSpec

(* "the second round is only started if at least a 'threshold' number of   *)
(* nodes signed off in the first round" (bftcosi.go lines 6-8): a          *)
(* signature of the second round has that many accepting nodes behind it.  *)
SignedByThreshold ==
    signature.sig # {} =>
      Cardinality({n \in Node : verification[n] = "accept"}) >= Threshold

(* Unless onet closes a server before its Dispatch has ended, the root     *)
(* hands over a signature and every node's Dispatch returns.  (A node that *)
(* is done sets closing too, when its Dispatch has ended.)                 *)
Termination ==
    <>(\/ \E n \in Node : closing[n] /\ phase[n] < 9
       \/ signature.made /\ \A n \in Node : phase[n] = 9)

-----------------------------------------------------------------------------
(* The inductive invariant behind the safety properties above.             *)

Refusers == {n \in Node : verification[n] = "refuse"}
TooMany == Cardinality(Refusers) >= Threshold
HasVerified(n) == verification[n] \in {"accept", "refuse"}

(* What a child reports in each round, and the root's prepare signature.   *)
PrepareReport(c) ==
    [from |-> c, type |-> RoundPrepare,
     resp |-> Subtree[c] \ Refusers, exc |-> Subtree[c] \cap Refusers]
CommitReport(c) ==
    [from |-> c, type |-> RoundCommit, exc |-> {},
     resp |-> IF TooMany THEN {} ELSE Subtree[c]]
RootSig == [resp |-> Node \ Refusers, exc |-> Refusers]

(* The phases p of a parent and q of its child that occur together.        *)
Together(p, q) ==
    \/ p = 0 /\ q = 0
    \/ p = 1 /\ q \in {0, 1, 2}
    \/ p = 2 /\ q = 2
    \/ p = 3 /\ q \in {2, 3, 4}
    \/ p = 4 /\ q = 4
    \/ p = 5 /\ q \in {4, 5, 6, 7}
    \/ p \in {6, 7} /\ q = 7
    \/ p = 8 /\ q \in {7, 8, 9}
    \/ p = 9 /\ q = 9

LockStep == \A c \in Node \ {Root} : Together(phase[Parent[c]], phase[c])

(* Which messages are under way follows from the phases at the two ends.   *)
Announcements ==
    \A c \in Node \ {Root} :
      \/ announceChan[c] = <<>>
      \/ /\ phase[Parent[c]] = 1 /\ phase[c] = 0
         /\ announceChan[c] = <<RoundPrepare>>
      \/ /\ phase[Parent[c]] = 3 /\ phase[c] = 2
         /\ announceChan[c] = <<RoundCommit>>

RootAnnouncements ==
    /\ announced = 0 => phase[Root] = 0 /\ announceChan[Root] = <<>>
    /\ announced = 1 => /\ phase[Root] \in {0, 1, 2}
                        /\ announceChan[Root] = IF phase[Root] = 0
                                                THEN <<RoundPrepare>> ELSE <<>>
    /\ announced = 2 /\ ~closing[Root] =>
         /\ phase[Root] = 0 =>
              announceChan[Root] = <<RoundPrepare, RoundCommit>>
         /\ phase[Root] \in {1, 2} => announceChan[Root] = <<RoundCommit>>

Commitments ==
    \A n \in Node : \A m \in commitChan[n] :
      /\ m.from \in Children(n)
      /\ \/ phase[n] = 1 /\ phase[m.from] = 2 /\ m.type = RoundPrepare
         \/ phase[n] = 3 /\ phase[m.from] = 4 /\ m.type = RoundCommit

Challenges ==
    /\ \A c \in Node \ {Root} :
         challengePrepareChan[c] => phase[Parent[c]] = 5 /\ phase[c] = 4
    /\ \A n \in Node : \A sig \in challengeCommitChan[n] :
         /\ sig = RootSig
         /\ phase[n] = 7
         /\ n # Root => phase[Parent[n]] = 8

Responses ==
    \A n \in Node : \A m \in responseChan[n] :
      /\ m.from \in Children(n)
      /\ \/ phase[n] = 5 /\ phase[m.from] = 7 /\ m = PrepareReport(m.from)
         \/ phase[n] = 8 /\ phase[m.from] = 9 /\ m = CommitReport(m.from)

(* A node that reported has verified with all nodes below it; nobody is    *)
(* past the commit challenge before the root.                              *)
Verified ==
    \A n \in Node :
      /\ phase[n] < 5 => verification[n] = "none"
      /\ phase[n] = 6 => \A m \in Below(n) : HasVerified(m)
      /\ phase[n] >= 7 => \A m \in Subtree[n] : HasVerified(m)
      /\ phase[n] >= 8 => phase[Root] >= 8

(* What a node has stored accounts exactly for the nodes below it.         *)
Stored ==
    \A n \in Node :
      /\ phase[n] < 6 => tempPrepareResponse[n] = {}
      /\ phase[n] = 6 =>
           UNION {m.resp : m \in tempPrepareResponse[n]} = Below(n) \ Refusers
      /\ phase[n] < 9 => tempCommitResponse[n] = {}
      /\ phase[n] < 6 => tempExceptions[n] = {}
      /\ phase[n] = 6 => tempExceptions[n] = Below(n) \cap Refusers
      /\ phase[n] >= 8 => tempExceptions[n] = Refusers
      /\ phase[n] < 8 => signRefusal[n] = FALSE
      /\ phase[n] >= 8 => signRefusal[n] = TooMany

(* The outcome the root announces. *)
Outcome ==
    /\ signature.made => phase[Root] = 9
    /\ ~signature.made => signature.sig = {}
    /\ signature.made =>
         /\ signature.sig = IF TooMany THEN {} ELSE Node
         /\ signature.exceptions = IF TooMany THEN Refusers ELSE {}

IInv == /\ TypeOK
        /\ LockStep
        /\ Announcements
        /\ RootAnnouncements
        /\ Commitments
        /\ Challenges
        /\ Responses
        /\ Verified
        /\ Stored
        /\ Outcome
=============================================================================
