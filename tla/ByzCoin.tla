------------------------------- MODULE ByzCoin -------------------------------
(***************************************************************************)
(* One run of byzcoin_lib/protocol: a block from the server's pool is      *)
(* signed by a tree of nodes in two CoSi rounds, "prepare" and "commit",   *)
(* whose first two phases run at the same time.                            *)
(*                                                                         *)
(* Every node runs one listen loop, so a handler is one action; waiting    *)
(* for VerifyBlock only delays the handler that waits.  A channel of listen*)
(* is a queue per sender: onet keeps the order of two messages of the same *)
(* type from the same node and select picks among the rest.  Announcements *)
(* and challenges come from the parent and are kept with the receiver;     *)
(* commitments and responses go to the parent and are kept with the sender.*)
(*                                                                         *)
(* Left out: the exceptions in responses (no handler reads those of a      *)
(* child, and ChallengeCommit.Exceptions is never set), the view changes   *)
(* that reach other nodes than the root (they only stop a measure) and the *)
(* timer, which startTimer runs only where rootFailMode is set, at the     *)
(* root, and only for an announcement, which the root never receives.      *)
(***************************************************************************)
EXTENDS Tree, Cosi, ByzCoinServer

CONSTANTS MayRefuse,   \* nodes whose lastBlock may differ from the root's
          FailModes    \* whether rootFailMode is set: a subset of BOOLEAN

ASSUME ByzCoinAssumption ==
    /\ MayRefuse \subseteq Node \ {Root}
    /\ FailModes \subseteq BOOLEAN

Round == {"prepare", "commit"}

VARIABLES
    failMode, refusing,  \* rootFailMode # 0; where VerifyBlock returns false
    net,          \* the channels of all nodes, see Network
    cosi,         \* bz.prepare and bz.commit with the temp buffers of a round
    tempBlock, signRefusal, vcCounter,   \* as in the source
    process,      \* "listening", "stopped" or "panicked"
    done,         \* calls of Done at each node
    signature     \* what the root gives to onSignatureDone

endVars == <<process, done, signature>>
vars == <<serverVars, failMode, refusing, net, cosi, tempBlock, signRefusal,
          vcCounter, endVars>>

(* ceil(2 * n / 3) *)
ViewChangeThreshold == (2 * Cardinality(Node) + 2) \div 3

Marshalled(blk) == <<"json", blk>>
HashSum(blk) == <<"hash", blk>>

EmptyCosi == [comms |-> <<>>, aggregateCommitment |-> Nil, challenge |-> Nil,
              responses |-> <<>>, aggregateResponse |-> Nil]

Init ==
    /\ ServerInit
    /\ failMode \in FailModes
    /\ refusing \in SUBSET MayRefuse
    /\ net = [announce |-> [n \in Node |-> <<>>],
              commitment |-> [n \in Node |-> <<>>],
              challengePrepare |-> [n \in Node |-> <<>>],
              challengeCommit |-> [n \in Node |-> <<>>],
              response |-> [n \in Node |-> <<>>],
              viewchange |-> 0]
    /\ cosi = [n \in Node |-> [r \in Round |-> EmptyCosi]]
    /\ tempBlock = [n \in Node |-> Nil]
    /\ signRefusal = [n \in Node |-> FALSE]
    /\ vcCounter = 0
    /\ process = [n \in Node |-> "listening"]
    /\ done = [n \in Node |-> 0]
    /\ signature = Nil

(* SendTo every child, SendTo the parent, and the receive of a channel.    *)
Down(queue, n, m) ==
    [c \in Node |-> IF c \in Children(n) THEN Append(queue[c], m) ELSE queue[c]]
Up(queue, n, m) == [queue EXCEPT ![n] = Append(@, m)]
Take(queue, n) == [queue EXCEPT ![n] = Tail(@)]

Listens(n) == process[n] = "listening"
(* listen's fail: the failing root drops all but announcements and view    *)
(* changes.                                                                *)
Fails(n) == failMode /\ IsRoot(n)

CompleteEarly(n, buffer) == Len(buffer) >= Cardinality(Children(n)) - 1
CompleteLate(n, buffer) == Len(buffer) > Cardinality(Children(n))
Complete(n, buffer) == Len(buffer) >= Cardinality(Children(n))

----------------------------------------------------------------------------
(* Start, in a goroutine of Run, announces "commit" and then "prepare";    *)
(* with a failing root Run only announces "prepare".                       *)
StartInOrder(first, second) ==
    /\ \/ /\ run = "start" /\ run' = "starting"
          /\ net' = IF failMode THEN net
                    ELSE [net EXCEPT !.announce = Down(@, Root, first)]
       \/ /\ run = "starting" /\ run' = "round"
          /\ net' = [net EXCEPT !.announce = Down(@, Root, second)]
    /\ UNCHANGED <<file, sent, transactions, want, block, failMode, refusing,
                   cosi, tempBlock, signRefusal, vcCounter, endVars>>

StartSwapped == StartInOrder("prepare", "commit")
Start == StartInOrder("commit", "prepare")

(* A leaf starts the commitments of the round, others pass it down.        *)
HandleAnnouncement(n) ==
    /\ Listens(n) /\ net.announce[n] # <<>>
    /\ LET round == Head(net.announce[n]) IN
       net' = IF IsLeaf(n)
              THEN [net EXCEPT !.announce = Take(@, n),
                               !.commitment = Up(@, n, [round |-> round,
                                                 value |-> CreateCommitment(n)])]
              ELSE [net EXCEPT !.announce = Down(Take(@, n), n, round)]
    /\ UNCHANGED <<serverVars, failMode, refusing, cosi, tempBlock,
                   signRefusal, vcCounter, endVars>>

(* The root's challenge of the prepare round, for the block of GetBlock.   *)
StartChallengePrepare(received, comms) ==
    LET V == Commit(Root, comms)
        ch == CreateChallenge(V, Marshalled(block))
    IN /\ cosi' = [cosi EXCEPT ![Root]["prepare"].comms = comms,
                               ![Root]["prepare"].aggregateCommitment = V,
                               ![Root]["prepare"].challenge = ch]
       /\ tempBlock' = [tempBlock EXCEPT ![Root] = block]
       /\ net' = [received EXCEPT !.challengePrepare =
                     Down(@, Root, [challenge |-> ch, block |-> block])]

(* A commitment of c: the last one of a round lets the node commit and     *)
(* tell its parent, or the root challenge; the root's commit round waits.  *)
HandleCommit(n, c) ==
    /\ Listens(n) /\ Parent[c] = n /\ net.commitment[c] # <<>>
    /\ LET m == Head(net.commitment[c])
           received == [net EXCEPT !.commitment = Take(@, c)]
           comms == Append(cosi[n][m.round].comms, m.value)
           V == Commit(n, comms)
       IN IF Fails(n)
          THEN net' = received /\ UNCHANGED <<cosi, tempBlock>>
          ELSE IF ~Complete(n, comms)
          THEN /\ cosi' = [cosi EXCEPT ![n][m.round].comms = comms]
               /\ net' = received /\ UNCHANGED tempBlock
          ELSE IF IsRoot(n) /\ m.round = "prepare"
          THEN StartChallengePrepare(received, comms)
          ELSE /\ cosi' = [cosi EXCEPT ![n][m.round].comms = comms,
                                       ![n][m.round].aggregateCommitment = V]
               /\ net' = IF IsRoot(n) THEN received
                         ELSE [received EXCEPT !.commitment =
                                 Up(@, n, [round |-> m.round, value |-> V])]
               /\ UNCHANGED tempBlock
    /\ UNCHANGED <<serverVars, failMode, refusing, signRefusal, vcCounter,
                   endVars>>

(* waitResponseVerification at a node where VerifyBlock fails sends a view *)
(* change to everybody; the root counts them.                              *)
VerifiedBy(n, sending) ==
    IF n \in refusing THEN [sending EXCEPT !.viewchange = @ + 1] ELSE sending

(* What a node answers in the prepare round: nothing if it refuses.        *)
PrepareAnswer(n, resp) == IF n \in refusing THEN Nil ELSE resp

(* The challenge of the prepare round: a leaf verifies the block and       *)
(* answers, with no Response if it refuses; others pass it down.           *)
HandleChallengePrepare(n) ==
    /\ Listens(n) /\ net.challengePrepare[n] # <<>>
    /\ LET m == Head(net.challengePrepare[n])
           received == [net EXCEPT !.challengePrepare = Take(@, n)]
           resp == CreateResponse(n, m.challenge)
       IN /\ tempBlock' = [tempBlock EXCEPT ![n] = m.block]
          /\ IF IsLeaf(n)
             THEN /\ cosi' = [cosi EXCEPT
                       ![n]["prepare"].challenge = m.challenge,
                       ![n]["prepare"].aggregateResponse = resp]
                  /\ net' = VerifiedBy(n, [received EXCEPT !.response = Up(@, n,
                       [round |-> "prepare", value |-> PrepareAnswer(n, resp)])])
             ELSE /\ cosi' = [cosi EXCEPT ![n]["prepare"].challenge = m.challenge]
                  /\ net' = [received EXCEPT !.challengePrepare = Down(@, n, m)]
    /\ UNCHANGED <<serverVars, failMode, refusing, signRefusal, vcCounter,
                   endVars>>

(* The root's challenge of the commit round; CreateChallenge fails, and    *)
(* the error is only logged, if the commit round has no commitments yet.   *)
StartChallengeCommitOver(received, prepared, msg) ==
    LET V == prepared[Root]["commit"].aggregateCommitment
        ch == CreateChallenge(V, msg)
        p == prepared[Root]["prepare"]
    IN IF V = Nil
       THEN cosi' = prepared /\ net' = received
       ELSE /\ cosi' = [prepared EXCEPT ![Root]["commit"].challenge = ch]
            /\ net' = [received EXCEPT !.challengeCommit = Down(@, Root,
                 [challenge |-> ch,
                  signature |-> Signature(p.challenge, p.aggregateResponse)])]

StartChallengeCommitMarshalled(received, prepared) ==
    StartChallengeCommitOver(received, prepared, Marshalled(tempBlock[Root]))
StartChallengeCommit(received, prepared) ==
    StartChallengeCommitOver(received, prepared, HashSum(tempBlock[Root]))

(* A response of c in the prepare round.  The last one waits for the       *)
(* node's own verification; Response dereferences every child's response,  *)
(* so a child that refused makes an accepting node panic.                  *)
HandleResponsePrepare(n, c) ==
    /\ Listens(n) /\ ~Fails(n) /\ Parent[c] = n
    /\ net.response[c] # <<>> /\ Head(net.response[c]).round = "prepare"
    /\ LET received == [net EXCEPT !.response = Take(@, c)]
           responses == Append(cosi[n]["prepare"].responses,
                               Head(net.response[c]).value)
           stored == [cosi EXCEPT ![n]["prepare"].responses = responses]
           resp == Response(n, cosi[n]["prepare"].challenge, responses)
           prepared == [stored EXCEPT ![n]["prepare"].aggregateResponse = resp]
           answer == PrepareAnswer(n, resp)
       IN IF ~Complete(n, responses)
          THEN cosi' = stored /\ net' = received /\ UNCHANGED process
          ELSE IF n \notin refusing /\ Nil \in Range(responses)
          THEN /\ process' = [process EXCEPT ![n] = "panicked"]
               /\ net' = received /\ UNCHANGED cosi
          ELSE /\ IF IsRoot(n)
                  THEN StartChallengeCommit(received, prepared)
                  ELSE /\ cosi' = IF answer = Nil THEN stored ELSE prepared
                       /\ net' = VerifiedBy(n, [received EXCEPT !.response =
                            Up(@, n, [round |-> "prepare", value |-> answer])])
               /\ UNCHANGED process
    /\ UNCHANGED <<serverVars, failMode, refusing, tempBlock, signRefusal,
                   vcCounter, done, signature>>

(* The challenge of the commit round comes with the signature of the       *)
(* prepare round: a node that cannot verify it will refuse.  The leaves    *)
(* answer and are done.                                                    *)
HandleChallengeCommit(n) ==
    /\ Listens(n) /\ net.challengeCommit[n] # <<>>
    /\ LET m == Head(net.challengeCommit[n])
           received == [net EXCEPT !.challengeCommit = Take(@, n)]
           refuses == signRefusal[n] \/
                      ~VerifySignatureWithException(Node, Marshalled(tempBlock[n]),
                                                    m.signature, {})
           resp == CreateResponse(n, m.challenge)
       IN /\ signRefusal' = [signRefusal EXCEPT ![n] = refuses]
          /\ cosi' = [cosi EXCEPT ![n]["commit"].challenge = m.challenge]
          /\ IF IsLeaf(n)
             THEN /\ net' = [received EXCEPT !.response = Up(@, n,
                       [round |-> "commit",
                        value |-> IF refuses THEN Nil ELSE resp])]
                  /\ done' = [done EXCEPT ![n] = @ + 1]
             ELSE /\ net' = [received EXCEPT !.challengeCommit = Down(@, n, m)]
                  /\ UNCHANGED done
    /\ UNCHANGED <<serverVars, failMode, refusing, tempBlock, vcCounter,
                   process, signature>>

(* A response of c in the commit round.  After the last one the root has   *)
(* its signature and the others tell their parent; a node that refuses     *)
(* passes on the message of its last child.                                *)
HandleResponseCommit(n, c) ==
    /\ Listens(n) /\ ~Fails(n) /\ Parent[c] = n
    /\ net.response[c] # <<>> /\ Head(net.response[c]).round = "commit"
    /\ LET m == Head(net.response[c])
           received == [net EXCEPT !.response = Take(@, c)]
           responses == Append(cosi[n]["commit"].responses, m.value)
           stored == [cosi EXCEPT ![n]["commit"].responses = responses]
           ch == cosi[n]["commit"].challenge
           resp == IF signRefusal[n] THEN m.value ELSE Response(n, ch, responses)
       IN IF ~Complete(n, responses)
          THEN cosi' = stored /\ net' = received /\ UNCHANGED endVars
          ELSE IF ~signRefusal[n] /\ Nil \in Range(responses)
          THEN /\ process' = [process EXCEPT ![n] = "panicked"]
               /\ net' = received /\ UNCHANGED <<cosi, done, signature>>
          ELSE /\ cosi' = IF signRefusal[n] THEN stored
                         ELSE [stored EXCEPT ![n]["commit"].aggregateResponse = resp]
               /\ IF IsRoot(n)
                  THEN /\ signature' = [sig |-> Signature(ch, resp),
                                        block |-> tempBlock[n]]
                       /\ net' = received
                  ELSE /\ net' = [received EXCEPT !.response =
                                    Up(@, n, [round |-> "commit", value |-> resp])]
                       /\ UNCHANGED signature
               /\ done' = [done EXCEPT ![n] = @ + 1]
               /\ UNCHANGED process
    /\ UNCHANGED <<serverVars, failMode, refusing, tempBlock, signRefusal,
                   vcCounter>>

(* The root counts view changes and is done when two thirds ask for one.   *)
HandleViewChange ==
    /\ Listens(Root) /\ net.viewchange > 0
    /\ net' = [net EXCEPT !.viewchange = @ - 1]
    /\ vcCounter' = vcCounter + 1
    /\ done' = IF vcCounter' = ViewChangeThreshold
               THEN [done EXCEPT ![Root] = @ + 1] ELSE done
    /\ UNCHANGED <<serverVars, failMode, refusing, cosi, tempBlock,
                   signRefusal, process, signature>>

(* listen receives what nodeDone put on doneProcessing.                    *)
Stop(n) ==
    /\ Listens(n) /\ done[n] > 0
    /\ process' = [process EXCEPT ![n] = "stopped"]
    /\ tempBlock' = [tempBlock EXCEPT ![n] = Nil]
    /\ UNCHANGED <<serverVars, failMode, refusing, net, cosi, signRefusal,
                   vcCounter, done, signature>>

(* Run receives what the root's onDoneCallback sends.                      *)
RunReturns ==
    /\ run = "round" /\ done[Root] > 0
    /\ run' = "returned"
    /\ UNCHANGED <<file, sent, transactions, want, block, failMode, refusing,
                   net, cosi, tempBlock, signRefusal, vcCounter, endVars>>

Listen(n) ==
    \/ HandleAnnouncement(n) \/ HandleChallengePrepare(n)
    \/ HandleChallengeCommit(n) \/ Stop(n)
    \/ \E c \in Children(n) : \/ HandleCommit(n, c)
                              \/ HandleResponsePrepare(n, c)
                              \/ HandleResponseCommit(n, c)

Simulation ==
    \/ ServerNext /\ UNCHANGED <<failMode, refusing, net, cosi, tempBlock,
                                 signRefusal, vcCounter, endVars>>
    \/ Start
    \/ RunReturns

Next == Simulation \/ HandleViewChange \/ \E n \in Node : Listen(n)

Spec == Init /\ [][Next]_vars

(* Goroutines that can run do, and a message that was sent arrives; select *)
(* takes every channel that stays ready in the end.                        *)
FairSpec ==
    /\ Spec
    /\ WF_vars(Simulation)
    /\ WF_vars(HandleViewChange)
    /\ \A n \in Node : WF_vars(Listen(n))
----------------------------------------------------------------------------
Panicked == {n \in Node : process[n] = "panicked"}

(* The pool, the buffers and the queues hold what their types allow, a     *)
(* buffer never more than one entry per child.                             *)
TypeOK ==
    /\ Len(transactions) <= BlockSize
    /\ net.viewchange \in 0..Cardinality(Node)
    /\ \A n \in Node, r \in Round :
         /\ Len(cosi[n][r].comms) <= Cardinality(Children(n))
         /\ Len(cosi[n][r].responses) <= Cardinality(Children(n))
         /\ cosi[n][r].aggregateResponse # Nil => cosi[n][r].challenge # Nil
    /\ process \in [Node -> {"listening", "stopped", "panicked"}]
    /\ signRefusal \in [Node -> BOOLEAN]
    /\ done[Root] <= 1

(* What the root hands to onSignatureDone passes verifyBlockSignature, and *)
(* the block it signs is made of the first BlockSize transactions that the *)
(* client sent, in that order, none missing and none twice, whatever the   *)
(* client sent after them (listenEnoughBlocks).                            *)
SignatureVerifies ==
    signature # Nil =>
        /\ signature.block = block
        /\ block = [i \in 1..BlockSize |-> file[((i - 1) % Len(file)) + 1]]
        /\ VerifySignatureWithException(Node, HashSum(block), signature.sig, {})

(* When the prepare responses are in at the root, the commit round, of     *)
(* which nobody waits for the commitments, has all of them, so that        *)
(* startChallengeCommit never fails on an empty aggregate commitment; and  *)
(* no buffer of either round ever holds more than the children's messages. *)
CommitRoundReady ==
    /\ TypeOK
    /\ Complete(Root, cosi[Root]["prepare"].responses)
         => cosi[Root]["commit"].aggregateCommitment # Nil

(* A node never answers two challenges with one secret: what it committed  *)
(* to and what it was challenged with in a round never change afterwards.  *)
ChallengedOnce ==
    [][\A n \in Node, r \in Round :
         LET now == cosi[n][r] next == cosi'[n][r] IN
         now.challenge # Nil =>
             /\ next.challenge = now.challenge
             /\ next.aggregateCommitment = now.aggregateCommitment]_vars

Ended ==
    \/ failMode
    \/ run = "request" /\ Calls < BlockSize
    \/ run = "failed"
    \/ Panicked # {}
    \/ run = "returned" /\ vcCounter >= ViewChangeThreshold
    \/ run = "returned" /\ \A n \in Node : process[n] = "stopped"

(* Run ends with every node's listen loop stopped, unless the root is the  *)
(* failing one, the client had too few transactions for a block, a refusal *)
(* made a process panic, or it ended by view change.                       *)
Ends == <>Ended
=============================================================================
