-------------------------------- MODULE Ntree --------------------------------
(***************************************************************************)
(* One round of the naive tree protocol: every node signs the block for    *)
(* itself, the signatures and exceptions go up the tree, the root sends a  *)
(* request with signatures down, every node decides whether to sign a      *)
(* second time and the answers go up.                                      *)
(*                                                                         *)
(* A node runs one listen loop, so a handler is one action; waiting for    *)
(* VerifyBlock only delays the handler that waits.  The signatures and     *)
(* exceptions of a message are bags of node names: their order is not used.*)
(* Messages from the parent are kept with the receiver, messages to the    *)
(* parent with the sender; a node gets or sends one of each type.          *)
(* A server may go down at any time: it handles nothing any more.  A SendTo*)
(* that fails is logged and the loop goes on to the next child, so it only *)
(* leaves a message that nobody receives; Start alone returns at it.       *)
(***************************************************************************)
EXTENDS Tree, Bags, ByzCoinServer

CONSTANTS MayRefuse,   \* nodes where VerifyBlock may find a wrong hash
          MayFail,     \* servers that may go down
          Nil

VARIABLES
    refusing,              \* where VerifyBlock returns false
    down,                  \* servers that cannot be reached any more
    announce,              \* nodes with a BlockAnnounce to receive
    blockSignature,        \* [Node -> message to its parent, or Nil]
    signatureRequest,      \* [Node -> message from its parent, or Nil]
    signatureResponse,     \* [Node -> message to its parent, or Nil]
    tempBlockSig, tempBlockSigReceived,
    tempSignatureResponse, tempSignatureResponseReceived,
    verdicts,              \* [Node -> what the goroutine verifySignatureRequest
                           \*  still sends; Nil before it starts]
    final                  \* the argument of onDoneCallback

phase1 == <<announce, blockSignature, tempBlockSig, tempBlockSigReceived>>
phase2 == <<signatureRequest, signatureResponse, tempSignatureResponse,
            tempSignatureResponseReceived, verdicts, final>>
vars == <<serverVars, refusing, down, phase1, phase2>>

Empty == [sigs |-> EmptyBag, exceptions |-> EmptyBag]

Init ==
    /\ ServerInit
    /\ refusing \in SUBSET MayRefuse
    /\ down = {}
    /\ announce = {}
    /\ blockSignature = [n \in Node |-> Nil]
    /\ signatureRequest = [n \in Node |-> Nil]
    /\ signatureResponse = [n \in Node |-> Nil]
    /\ tempBlockSig = [n \in Node |-> Empty]
    /\ tempBlockSigReceived = [n \in Node |-> 0]
    /\ tempSignatureResponse = [n \in Node |-> Empty]
    /\ tempSignatureResponseReceived = [n \in Node |-> 0]
    /\ verdicts = [n \in Node |-> Nil]
    /\ final = Nil

Merge(m1, m2) == [sigs |-> m1.sigs (+) m2.sigs,
                  exceptions |-> m1.exceptions (+) m2.exceptions]

(* The node's own signature, or its exception.                             *)
Own(n, ok) == IF ok THEN [Empty EXCEPT !.sigs = SetToBag({n})]
                    ELSE [Empty EXCEPT !.exceptions = SetToBag({n})]

(* SendTo every child. *)
Down(f, n, m) == [c \in Node |-> IF c \in Children(n) THEN m ELSE f[c]]

----------------------------------------------------------------------------
(* The client could not read anything: unlike that of byzcoin, this Run    *)
(* logs the error and asks for a block all the same.                       *)
ClientErrorLogged ==
    /\ run = "client" /\ file = <<>>
    /\ want' = TRUE
    /\ run' = "request"
    /\ UNCHANGED <<file, sent, transactions, block, refusing, down, phase1, phase2>>

(* Start returns at the first child it cannot reach, which Run only logs;  *)
(* a send to a server that is down may go unnoticed.                       *)
Announced ==
    IF Children(Root) \cap down = {} THEN {Children(Root)} ELSE SUBSET Children(Root)

Start ==
    /\ run = "start"
    /\ run' = "round"
    /\ announce' \in Announced
    /\ UNCHANGED <<file, sent, transactions, want, block, refusing, down,
                   blockSignature, tempBlockSig, tempBlockSigReceived, phase2>>

(* The callback's send on done, which Run waits for.                       *)
RunReturns ==
    /\ run = "round" /\ final # Nil
    /\ run' = "returned"
    /\ UNCHANGED <<file, sent, transactions, want, block, refusing, down, phase1, phase2>>

----------------------------------------------------------------------------
ComputeBlockSignature(n, received) == Merge(received, Own(n, n \notin refusing))

(* Pass the block on; a leaf signs it and sends the signature up.          *)
HandleAnnounce(n) ==
    LET signed == ComputeBlockSignature(n, tempBlockSig[n]) IN
    /\ n \in announce
    /\ announce' = (announce \ {n}) \cup Children(n)
    /\ IF IsLeaf(n)
       THEN /\ tempBlockSig' = [tempBlockSig EXCEPT ![n] = signed]
            /\ blockSignature' = [blockSignature EXCEPT ![n] = signed]
       ELSE UNCHANGED <<tempBlockSig, blockSignature>>
    /\ UNCHANGED <<serverVars, refusing, down, tempBlockSigReceived, phase2>>

(* verifySignatureRequest in its goroutine: it sends its verdict and goes  *)
(* on, and it tries every signature with the node's own public key.        *)
Threshold == (Cardinality(Node) + 2) \div 3

Verdicts(n, msg) ==
    (IF BagCardinality(msg.exceptions) > Threshold THEN <<FALSE>> ELSE <<>>)
    \o (IF CopiesIn(n, msg.sigs) <= 2 * Threshold THEN <<FALSE>> ELSE <<>>)
    \o <<TRUE>>

HandleBlockSignatureAfter(c, enough) ==
    LET n == Parent[c]
        msg == blockSignature[c]
        received == Merge(tempBlockSig[n], msg)
        signed == ComputeBlockSignature(n, received)
    IN
    /\ msg # Nil
    /\ tempBlockSigReceived' = [tempBlockSigReceived EXCEPT ![n] = @ + 1]
    /\ IF tempBlockSigReceived'[n] < enough
       THEN /\ tempBlockSig' = [tempBlockSig EXCEPT ![n] = received]
            /\ blockSignature' = [blockSignature EXCEPT ![c] = Nil]
            /\ UNCHANGED <<signatureRequest, verdicts>>
       ELSE /\ tempBlockSig' = [tempBlockSig EXCEPT ![n] = signed]
            /\ IF IsRoot(n)
               THEN /\ blockSignature' = [blockSignature EXCEPT ![c] = Nil]
                    /\ signatureRequest' = Down(signatureRequest, n, msg)
                    /\ verdicts' = [verdicts EXCEPT ![n] = Verdicts(n, msg)]
               ELSE /\ blockSignature' =
                         [blockSignature EXCEPT ![c] = Nil, ![n] = signed]
                    /\ UNCHANGED <<signatureRequest, verdicts>>
    /\ UNCHANGED <<serverVars, refusing, down, announce, signatureResponse,
                   tempSignatureResponse, tempSignatureResponseReceived, final>>

HandleBlockSignatureEarly(c) == HandleBlockSignatureAfter(c, 1)

(* The last child's signature completes the node's; the root then starts   *)
(* the request, with the message it has just received.                     *)
HandleBlockSignature(c) ==
    HandleBlockSignatureAfter(c, Cardinality(Children(Parent[c])))

----------------------------------------------------------------------------
(* The response takes the first verdict; the goroutine keeps the others.   *)
ComputeSignatureResponse(n, received, vs) == Merge(received, Own(n, Head(vs)))

HandleSignatureRequest(n) ==
    LET msg == signatureRequest[n]
        vs == Verdicts(n, msg)
        response == ComputeSignatureResponse(n, tempSignatureResponse[n], vs)
    IN
    /\ msg # Nil
    /\ signatureRequest' = Down([signatureRequest EXCEPT ![n] = Nil], n, msg)
    /\ IF IsLeaf(n)
       THEN /\ verdicts' = [verdicts EXCEPT ![n] = Tail(vs)]
            /\ tempSignatureResponse' = [tempSignatureResponse EXCEPT ![n] = response]
            /\ signatureResponse' = [signatureResponse EXCEPT ![n] = response]
       ELSE /\ verdicts' = [verdicts EXCEPT ![n] = vs]
            /\ UNCHANGED <<tempSignatureResponse, signatureResponse>>
    /\ UNCHANGED <<serverVars, refusing, down, phase1,
                   tempSignatureResponseReceived, final>>

(* A node other than the root passes on the message of its last child, not *)
(* its own.                                                                *)
HandleRoundSignatureResponseAfter(c, enough) ==
    LET n == Parent[c]
        msg == signatureResponse[c]
        received == Merge(tempSignatureResponse[n], msg)
        response == ComputeSignatureResponse(n, received, verdicts[n])
        taken == [signatureResponse EXCEPT ![c] = Nil]
    IN
    /\ msg # Nil
    /\ tempSignatureResponseReceived' =
         [tempSignatureResponseReceived EXCEPT ![n] = @ + 1]
    /\ IF tempSignatureResponseReceived'[n] < enough
       THEN /\ tempSignatureResponse' = [tempSignatureResponse EXCEPT ![n] = received]
            /\ signatureResponse' = taken
            /\ UNCHANGED <<verdicts, final>>
       ELSE /\ verdicts[n] # <<>>
            /\ verdicts' = [verdicts EXCEPT ![n] = Tail(@)]
            /\ tempSignatureResponse' = [tempSignatureResponse EXCEPT ![n] = response]
            /\ IF IsRoot(n)
               THEN /\ final' = response
                    /\ signatureResponse' = taken
               ELSE /\ signatureResponse' = [taken EXCEPT ![n] = msg]
                    /\ UNCHANGED final
    /\ UNCHANGED <<serverVars, refusing, down, phase1, signatureRequest>>

HandleRoundSignatureResponseEarly(c) == HandleRoundSignatureResponseAfter(c, 1)
HandleRoundSignatureResponseLate(c) ==
    HandleRoundSignatureResponseAfter(c, Cardinality(Children(Parent[c])) + 1)
HandleRoundSignatureResponse(c) ==
    HandleRoundSignatureResponseAfter(c, Cardinality(Children(Parent[c])))

Simulation ==
    \/ /\ AddTransaction \/ Request \/ Answer
       /\ UNCHANGED <<refusing, down, phase1, phase2>>
    \/ ClientErrorLogged \/ Start \/ RunReturns

Listen(n) ==
    /\ n \notin down
    /\ \/ HandleAnnounce(n)
       \/ HandleSignatureRequest(n)
       \/ \E c \in Children(n) :
            HandleBlockSignature(c) \/ HandleRoundSignatureResponse(c)

GoDown(n) ==
    /\ n \in MayFail \ down
    /\ down' = down \cup {n}
    /\ UNCHANGED <<serverVars, refusing, phase1, phase2>>

Next == Simulation \/ \E n \in Node : Listen(n) \/ GoDown(n)

Spec == Init /\ [][Next]_vars

(* Goroutines that can run do and messages arrive; no server needs to go   *)
(* down.                                                                   *)
FairSpec == /\ Spec
            /\ WF_vars(Simulation)
            /\ \A n \in Node : WF_vars(Listen(n))
----------------------------------------------------------------------------
Message == [sigs : SubBag(SetToBag(Node)), exceptions : SubBag(SetToBag(Node))]

(* Nothing is ever counted twice: every bag of signatures or exceptions    *)
(* names a node at most once, and no child answers more than once.         *)
TypeOK ==
    /\ \A n \in Node :
         /\ {tempBlockSig[n], tempSignatureResponse[n]} \subseteq Message
         /\ {blockSignature[n], signatureRequest[n], signatureResponse[n]}
              \subseteq Message \cup {Nil}
         /\ tempBlockSigReceived[n] <= Cardinality(Children(n))
         /\ tempSignatureResponseReceived[n] <= Cardinality(Children(n))
    /\ final \in Message \cup {Nil}

(* What a node sends up in the first phase is complete: it accounts for    *)
(* every node of its subtree exactly once, by a signature where the block  *)
(* was accepted and by an exception where it was not, in whatever order    *)
(* the children answered (handleBlockSignature), none of them twice.       *)
BlockSignatureComplete ==
    /\ TypeOK
    /\ \A n \in Node : blockSignature[n] # Nil =>
        /\ blockSignature[n].sigs = SetToBag(Subtree[n] \ refusing)
        /\ blockSignature[n].exceptions = SetToBag(Subtree[n] \cap refusing)

(* computeSignatureResponse added the node's own signature or exception.   *)
Decided(n) ==
    LET response == tempSignatureResponse[n]
    IN CopiesIn(n, response.sigs) + CopiesIn(n, response.exceptions) = 1

(* No answer overtakes the ones it stands for: when a node has answered    *)
(* its parent, every node of its subtree, itself included, received the    *)
(* request and made its second decision, and the callback runs when all    *)
(* nodes have (handleRoundSignatureResponse), also when servers go down.   *)
AnswersAfterSubtree ==
    /\ \A n \in Node : signatureResponse[n] # Nil =>
         \A m \in Subtree[n] : Decided(m) /\ signatureRequest[m] = Nil
    /\ final # Nil => \A m \in Node : Decided(m) /\ signatureRequest[m] = Nil

Ended ==
    \/ run = "returned"
    \/ run = "request" /\ Calls < BlockSize
    \/ down # {}

(* The round ends, unless the client sends too little for a block or a     *)
(* server goes down: nobody waits with a timeout.                          *)
RoundEnds == <>Ended
=============================================================================
