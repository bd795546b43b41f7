------------------------------ MODULE PBFTLib ------------------------------
(***************************************************************************)
(* byzcoin_lib/pbft/pbft.go: the PBFT of the ByzCoin library.  Unlike that *)
(* of module PBFT it has no states: it keeps all messages and compares     *)
(* their number with the threshold whenever one arrives.  A channel or a   *)
(* list is again the number of messages in it; select orders nothing       *)
(* between two channels.  Nodes are their positions in onet's list, which  *)
(* Broadcast goes through and which begins with the root.                  *)
(***************************************************************************)
EXTENDS Integers, FiniteSets

CONSTANTS Sizes,   \* numbers of nodes
          MaxUp    \* bound on the nodes that can be reached

ASSUME SizesAssumption == Sizes \subseteq Nat \ {0, 1} /\ MaxUp \in Nat

VARIABLES
    nodeList,        \* the length of the list
    valid,           \* what verifyBlock says of the block
    down,            \* nodes that cannot be reached
    start,           \* how far the root's PrePrepare got
    prePrepareChan, prepareChan, commitChan, finishChan,
    tempPrepareMsg, tempCommitMsg,
    prepreStarted,   \* nodes with the flag set
    consensusDone,   \* nodes with the flag set
    onDoneCB,        \* how often the root's callback ran
    done,            \* nodes whose Dispatch returned or that log.Fatal ended
    prepared, committed   \* nodes that have broadcast Prepare, Commit

chans == <<prePrepareChan, prepareChan, commitChan, finishChan>>
history == <<prepared, committed>>
config == <<nodeList, valid, down>>
vars == <<config, start, chans, tempPrepareMsg, tempCommitMsg, prepreStarted,
          consensusDone, onDoneCB, done, history>>

Node == 0 .. nodeList - 1
Root == 0

(* mutant: two thirds rounded down *)
ThresholdFloor == (2 * Cardinality(Node)) \div 3

threshold == (2 * Cardinality(Node) + 2) \div 3

Threshold(n) == IF n = Root THEN threshold ELSE threshold - 1

Zero == [n \in Node |-> 0]

Init ==
    /\ nodeList \in Sizes
    /\ valid \in BOOLEAN
    /\ down \in SUBSET (Node \ {Root})
    /\ Cardinality(Node \ down) <= MaxUp
    /\ start = "broadcast"
    /\ prePrepareChan = {} /\ finishChan = {}
    /\ prepareChan = Zero /\ commitChan = Zero
    /\ tempPrepareMsg = Zero /\ tempCommitMsg = Zero
    /\ prepreStarted = {} /\ consensusDone = {} /\ onDoneCB = 0
    /\ done = {} /\ prepared = {} /\ committed = {}

(* Broadcast sends to one node of the list after the other and stops at    *)
(* the first that cannot be reached: the nodes it gets to.                 *)
Receivers(n) ==
    {q \in Node \ {n} : \A p \in 0..q : p = n \/ p \notin down}

Broadcast(chan, n) ==
    [q \in Node |-> IF q \in Receivers(n) THEN chan[q] + 1 ELSE chan[q]]

(* The lists are only compared with the threshold: longer ones are alike.  *)
Add(temp, n) == [temp EXCEPT ![n] = IF @ < Threshold(n) THEN @ + 1 ELSE @]

(* Start runs PrePrepare, and in it handlePrePrepare, beside the root's    *)
(* Dispatch: the locks make each of its calls a step.                      *)
PrePrepare ==
    /\ Root \notin done
    /\ \/ /\ start = "broadcast" /\ start' = "verify"
          /\ prePrepareChan' = Receivers(Root)
          /\ UNCHANGED <<prepareChan, tempPrepareMsg, prepreStarted, prepared,
                         done>>
       \/ /\ start = "verify" /\ start' = "set"
          /\ IF valid
             THEN /\ tempPrepareMsg' = Add(tempPrepareMsg, Root)
                  /\ UNCHANGED done
             ELSE /\ done' = done \cup {Root}
                  /\ UNCHANGED tempPrepareMsg
          /\ UNCHANGED <<prePrepareChan, prepareChan, prepreStarted, prepared>>
       \/ /\ start = "set" /\ start' = "send"
          /\ prepreStarted' = prepreStarted \cup {Root}
          /\ UNCHANGED <<prePrepareChan, prepareChan, tempPrepareMsg, prepared,
                         done>>
       \/ /\ start = "send" /\ start' = "end"
          /\ prepareChan' = Broadcast(prepareChan, Root)
          /\ prepared' = prepared \cup {Root}
          /\ UNCHANGED <<prePrepareChan, tempPrepareMsg, prepreStarted, done>>
    /\ UNCHANGED <<config, commitChan, finishChan, tempCommitMsg,
                   consensusDone, onDoneCB, committed>>

(* mutant: PrePreSet is not called *)
HandlePrePrepareUnset(n) ==
    /\ n \notin done /\ n \in prePrepareChan
    /\ prePrepareChan' = prePrepareChan \ {n}
    /\ IF valid
       THEN /\ tempPrepareMsg' = Add(tempPrepareMsg, n)
            /\ UNCHANGED prepreStarted
            /\ prepareChan' = Broadcast(prepareChan, n)
            /\ prepared' = prepared \cup {n}
            /\ UNCHANGED done
       ELSE /\ done' = done \cup {n}
            /\ UNCHANGED <<tempPrepareMsg, prepreStarted, prepareChan,
                           prepared>>
    /\ UNCHANGED <<config, start, commitChan, finishChan, tempCommitMsg,
                   consensusDone, onDoneCB, committed>>

HandlePrePrepare(n) ==
    /\ n \notin done /\ n \in prePrepareChan
    /\ prePrepareChan' = prePrepareChan \ {n}
    /\ IF valid
       THEN /\ tempPrepareMsg' = Add(tempPrepareMsg, n)
            /\ prepreStarted' = prepreStarted \cup {n}
            /\ prepareChan' = Broadcast(prepareChan, n)
            /\ prepared' = prepared \cup {n}
            /\ UNCHANGED done
       ELSE /\ done' = done \cup {n}
            /\ UNCHANGED <<tempPrepareMsg, prepreStarted, prepareChan,
                           prepared>>
    /\ UNCHANGED <<config, start, commitChan, finishChan, tempCommitMsg,
                   consensusDone, onDoneCB, committed>>

(* Every Prepare from the threshold on makes the node broadcast a Commit.  *)
HandlePrepare(n) ==
    /\ n \notin done /\ prepareChan[n] > 0
    /\ prepareChan' = [prepareChan EXCEPT ![n] = @ - 1]
    /\ tempPrepareMsg' = Add(tempPrepareMsg, n)
    /\ IF n \in prepreStarted /\ tempPrepareMsg'[n] >= Threshold(n)
       THEN /\ tempCommitMsg' = Add(tempCommitMsg, n)
            /\ commitChan' = Broadcast(commitChan, n)
            /\ committed' = committed \cup {n}
       ELSE UNCHANGED <<tempCommitMsg, commitChan, committed>>
    /\ UNCHANGED <<config, start, prePrepareChan, finishChan, prepreStarted,
                   consensusDone, onDoneCB, done, prepared>>

(* The end is signalled here only.  finish tells the others and, unless    *)
(* that failed, the root by a goroutine.                                   *)
HandleCommit(n) ==
    /\ n \notin done /\ commitChan[n] > 0
    /\ commitChan' = [commitChan EXCEPT ![n] = @ - 1]
    /\ tempCommitMsg' = Add(tempCommitMsg, n)
    /\ IF /\ tempPrepareMsg[n] >= Threshold(n)
          /\ tempCommitMsg'[n] >= Threshold(n)
          /\ n \notin consensusDone
       THEN /\ consensusDone' = consensusDone \cup {n}
            /\ IF n = Root
               THEN /\ onDoneCB' = onDoneCB + 1
                    /\ finishChan' = IF down = {} THEN Node
                                     ELSE Receivers(Root)
               ELSE UNCHANGED <<onDoneCB, finishChan>>
       ELSE UNCHANGED <<consensusDone, onDoneCB, finishChan>>
    /\ UNCHANGED <<config, start, prePrepareChan, prepareChan, tempPrepareMsg,
                   prepreStarted, done, history>>

HandleFinish(n) ==
    /\ n \notin done /\ n \in finishChan
    /\ done' = done \cup {n}
    /\ UNCHANGED <<config, start, chans, tempPrepareMsg, tempCommitMsg,
                   prepreStarted, consensusDone, onDoneCB, history>>

Dispatch(n) ==
    \/ HandlePrePrepare(n)
    \/ HandlePrepare(n)
    \/ HandleCommit(n)
    \/ HandleFinish(n)

Next == PrePrepare \/ \E n \in Node : Dispatch(n)

Spec == Init /\ [][Next]_vars

(* Goroutines run, and select takes any message that stays ready. *)
FairSpec ==
    /\ Spec
    /\ WF_vars(PrePrepare)
    /\ \A n \in UNION {0 .. k - 1 : k \in Sizes} :
         /\ WF_vars(n \in Node /\ HandlePrePrepare(n))
         /\ WF_vars(n \in Node /\ HandlePrepare(n))
         /\ WF_vars(n \in Node /\ HandleCommit(n))
         /\ WF_vars(n \in Node /\ HandleFinish(n))
-----------------------------------------------------------------------------
(* The callback of the root runs at most once: later Commits find          *)
(* consensusDone set.                                                      *)
TypeOK ==
    /\ nodeList \in Sizes
    /\ valid \in BOOLEAN
    /\ start \in {"broadcast", "verify", "set", "send", "end"}
    /\ \A f \in {prepareChan, commitChan, tempPrepareMsg, tempCommitMsg} :
         f \in [Node -> Nat]
    /\ \A S \in {down, prePrepareChan, finishChan, prepreStarted,
                 consensusDone, done, prepared, committed} : S \subseteq Node
    /\ onDoneCB \in 0..1

(* The root signals the end at most once (TypeOK), and two thirds of the   *)
(* nodes have verified the block then, although it counts messages that    *)
(* name no sender and handles Commits before, between and after Prepares.  *)
EndNeedsPrepares ==
    /\ TypeOK
    /\ onDoneCB > 0 =>
         3 * Cardinality(prepared \cup {Root}) >= 2 * Cardinality(Node)

(* A valid block that gets to two thirds of the nodes, the root included,  *)
(* gets a Commit from someone: of these nodes, the first to handle the     *)
(* PrePrepare still has all Prepares of the others to come.  An            *)
(* unreachable node also takes the nodes after it out of every broadcast,  *)
(* so that one node early in the list is enough to leave too few.          *)
SomeoneCommits ==
    valid /\ Cardinality(Receivers(Root) \cup {Root}) >= threshold
      => <>(committed # {})
=============================================================================
