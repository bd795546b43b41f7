-------------------------------- MODULE PBFT --------------------------------
(***************************************************************************)
(* pbft/pbft.go: one round of the PBFT that the simulations compare with.  *)
(* All messages carry the hash of the one block, so a channel, a counter   *)
(* or a buffer of messages is the number of messages in it.  Sends run in  *)
(* goroutines of their own, hence nothing orders two messages.             *)
(***************************************************************************)
EXTENDS Integers, FiniteSets

CONSTANTS Node,      \* Tree().List()
          Root,
          MaxLost,   \* bound on the SendTo of Prepare or Commit that fail
          MaxCrash   \* bound on the nodes that stop

ASSUME NodeAssumption ==
    IsFiniteSet(Node) /\ Root \in Node /\ MaxLost \in Nat /\ MaxCrash \in Nat

VARIABLES
    valid,           \* what verifyBlock says of the block, at every node
    unsent,          \* nodes whose PrePrepare is still to be sent
    late,            \* goroutines of PrePrepare about to set the root's state
    prePrepareChan, prepareChan, commitChan, finishChan,
    state, prepMsgCount, commitMsgCount,
    tempPrepareMsg, tempCommitMsg,
    replayPrepare, replayCommit,  \* whether a goroutine is to replay stored messages
    onDoneCB,        \* how often the root's callback ran
    done,            \* nodes whose Dispatch has returned
    prepared, committed,          \* nodes that have broadcast Prepare, Commit
    crashed, lost

net == <<prePrepareChan, prepareChan, commitChan, finishChan>>
temps == <<tempPrepareMsg, tempCommitMsg, replayPrepare, replayCommit>>
counts == <<prepMsgCount, commitMsgCount>>
faults == <<crashed, lost>>
vars == <<valid, unsent, late, net, state, counts, temps, onDoneCB, done,
          prepared, committed, faults>>

statePrePrepare == 0
statePrepare == 1
stateCommit == 2
stateFinished == 3

Threshold == (2 * Cardinality(Node) + 2) \div 3

(* mutant: every node takes the same threshold *)
LocalThresholdSame(n) == Threshold - 1

(* The root sends no Prepare: it needs one more from the others. *)
LocalThreshold(n) == IF n = Root THEN Threshold ELSE Threshold - 1

Zero == [n \in Node |-> 0]
None == [n \in Node |-> FALSE]

(* Start has just called broadcast. *)
Init ==
    /\ valid \in BOOLEAN
    /\ unsent = Node \ {Root}
    /\ late = 0
    /\ prePrepareChan = None /\ finishChan = None
    /\ prepareChan = Zero /\ commitChan = Zero
    /\ state = [n \in Node |-> statePrePrepare]
    /\ prepMsgCount = Zero /\ commitMsgCount = Zero
    /\ tempPrepareMsg = Zero /\ tempCommitMsg = Zero
    /\ replayPrepare = None /\ replayCommit = None
    /\ onDoneCB = 0
    /\ done = {} /\ prepared = {} /\ committed = {}
    /\ crashed = {} /\ lost = 0

Running(n) == n \notin done /\ n \notin crashed

(* One message more for everyone but n. *)
broadcast(chan, n) == [q \in Node |-> IF q = n THEN chan[q] ELSE chan[q] + 1]

(* The goroutine that sends the PrePrepare to q, and its assignment to the *)
(* root's state, which nothing synchronises with Dispatch.                 *)
SendPrePrepare(q) ==
    /\ q \in unsent /\ Root \notin crashed
    /\ unsent' = unsent \ {q}
    /\ late' = late + 1
    /\ prePrepareChan' = [prePrepareChan EXCEPT ![q] = TRUE]
    /\ UNCHANGED <<valid, prepareChan, commitChan, finishChan, state, counts,
                   temps, onDoneCB, done, prepared, committed, faults>>

SetPrepare ==
    /\ late > 0 /\ Root \notin crashed
    /\ late' = late - 1
    /\ state' = [state EXCEPT ![Root] = statePrepare]
    /\ UNCHANGED <<valid, unsent, net, counts, temps, onDoneCB, done,
                   prepared, committed, faults>>

(* mutant: the stored messages are not replayed *)
PrePrepareNoReplay(n) ==
    /\ Running(n) /\ prePrepareChan[n]
    /\ prePrepareChan' = [prePrepareChan EXCEPT ![n] = FALSE]
    /\ IF state[n] = statePrePrepare /\ valid
       THEN /\ state' = [state EXCEPT ![n] = statePrepare]
            /\ prepareChan' = broadcast(prepareChan, n)
            /\ prepared' = prepared \cup {n}
       ELSE UNCHANGED <<state, prepareChan, prepared>>
    /\ UNCHANGED <<valid, unsent, late, commitChan, finishChan, counts, temps,
                   onDoneCB, done, committed, faults>>

HandlePrePrepare(n) ==
    /\ Running(n) /\ prePrepareChan[n]
    /\ prePrepareChan' = [prePrepareChan EXCEPT ![n] = FALSE]
    /\ IF state[n] = statePrePrepare /\ valid
       THEN /\ state' = [state EXCEPT ![n] = statePrepare]
            /\ prepareChan' = broadcast(prepareChan, n)
            /\ prepared' = prepared \cup {n}
            /\ replayPrepare' = [replayPrepare EXCEPT ![n] = TRUE]
       ELSE UNCHANGED <<state, prepareChan, prepared, replayPrepare>>
    /\ UNCHANGED <<valid, unsent, late, commitChan, finishChan, counts,
                   tempPrepareMsg, tempCommitMsg, replayCommit, onDoneCB,
                   done, committed, faults>>

(* The goroutine that puts the stored messages back into the channel and   *)
(* empties the buffer.  This is one step: nothing that is read again is    *)
(* stored meanwhile, the state of the node having moved on.                *)
ReplayPrepare(n) ==
    /\ n \notin crashed /\ replayPrepare[n]
    /\ prepareChan' = [prepareChan EXCEPT ![n] = @ + tempPrepareMsg[n]]
    /\ tempPrepareMsg' = [tempPrepareMsg EXCEPT ![n] = 0]
    /\ replayPrepare' = [replayPrepare EXCEPT ![n] = FALSE]
    /\ UNCHANGED <<valid, unsent, late, prePrepareChan, commitChan, finishChan,
                   state, counts, tempCommitMsg, replayCommit, onDoneCB, done,
                   prepared, committed, faults>>

ReplayCommit(n) ==
    /\ n \notin crashed /\ replayCommit[n]
    /\ commitChan' = [commitChan EXCEPT ![n] = @ + tempCommitMsg[n]]
    /\ tempCommitMsg' = [tempCommitMsg EXCEPT ![n] = 0]
    /\ replayCommit' = [replayCommit EXCEPT ![n] = FALSE]
    /\ UNCHANGED <<valid, unsent, late, prePrepareChan, prepareChan, finishChan,
                   state, counts, tempPrepareMsg, replayPrepare, onDoneCB,
                   done, prepared, committed, faults>>

(* A message for another state is stored.  Of what is stored the buffers   *)
(* keep what a goroutine can still replay: only a node other than the root *)
(* replays Prepares, once it leaves statePrePrepare, and Commits are       *)
(* replayed on the way to stateCommit.                                     *)
StorePrepare(n) ==
    tempPrepareMsg' = IF n # Root /\ state[n] = statePrePrepare
                      THEN [tempPrepareMsg EXCEPT ![n] = @ + 1]
                      ELSE tempPrepareMsg

StoreCommit(n) ==
    tempCommitMsg' = IF state[n] < stateCommit
                     THEN [tempCommitMsg EXCEPT ![n] = @ + 1]
                     ELSE tempCommitMsg

HandlePrepare(n) ==
    /\ Running(n) /\ prepareChan[n] > 0
    /\ prepareChan' = [prepareChan EXCEPT ![n] = @ - 1]
    /\ \/ /\ state[n] # statePrepare
          /\ StorePrepare(n)
          /\ UNCHANGED <<state, prepMsgCount, commitChan, replayCommit, committed>>
       \/ /\ state[n] = statePrepare
          /\ prepMsgCount[n] + 1 < LocalThreshold(n)
          /\ prepMsgCount' = [prepMsgCount EXCEPT ![n] = @ + 1]
          /\ UNCHANGED <<state, commitChan, tempPrepareMsg, replayCommit, committed>>
       \/ /\ state[n] = statePrepare
          /\ prepMsgCount[n] + 1 >= LocalThreshold(n)
          /\ prepMsgCount' = [prepMsgCount EXCEPT ![n] = 0]
          /\ state' = [state EXCEPT ![n] = stateCommit]
          /\ commitChan' = broadcast(commitChan, n)
          /\ committed' = committed \cup {n}
          /\ replayCommit' = [replayCommit EXCEPT ![n] = TRUE]
          /\ UNCHANGED tempPrepareMsg
    /\ UNCHANGED <<valid, unsent, late, prePrepareChan, finishChan,
                   commitMsgCount, tempCommitMsg, replayPrepare, onDoneCB,
                   done, prepared, faults>>

(* mutant: Commits counted against the threshold for Prepares *)
HandleCommitLocal(n) ==
    /\ Running(n) /\ commitChan[n] > 0
    /\ commitChan' = [commitChan EXCEPT ![n] = @ - 1]
    /\ \/ /\ state[n] # stateCommit
          /\ StoreCommit(n)
          /\ UNCHANGED <<state, commitMsgCount, onDoneCB, finishChan>>
       \/ /\ state[n] = stateCommit
          /\ commitMsgCount[n] + 1 < LocalThreshold(n)
          /\ commitMsgCount' = [commitMsgCount EXCEPT ![n] = @ + 1]
          /\ UNCHANGED <<state, tempCommitMsg, onDoneCB, finishChan>>
       \/ /\ state[n] = stateCommit
          /\ commitMsgCount[n] + 1 >= LocalThreshold(n)
          /\ commitMsgCount' = [commitMsgCount EXCEPT ![n] = 0]
          /\ state' = [state EXCEPT ![n] = stateFinished]
          /\ IF n = Root
             THEN /\ onDoneCB' = onDoneCB + 1
                  /\ finishChan' = [q \in Node |-> TRUE]
             ELSE UNCHANGED <<onDoneCB, finishChan>>
          /\ UNCHANGED tempCommitMsg
    /\ UNCHANGED <<valid, unsent, late, prePrepareChan, prepareChan,
                   prepMsgCount, tempPrepareMsg, replayPrepare, replayCommit,
                   done, prepared, committed, faults>>

(* onDoneCB and finish: everyone is told, the root by a goroutine. *)
HandleCommit(n) ==
    /\ Running(n) /\ commitChan[n] > 0
    /\ commitChan' = [commitChan EXCEPT ![n] = @ - 1]
    /\ \/ /\ state[n] # stateCommit
          /\ StoreCommit(n)
          /\ UNCHANGED <<state, commitMsgCount, onDoneCB, finishChan>>
       \/ /\ state[n] = stateCommit
          /\ commitMsgCount[n] + 1 < Threshold
          /\ commitMsgCount' = [commitMsgCount EXCEPT ![n] = @ + 1]
          /\ UNCHANGED <<state, tempCommitMsg, onDoneCB, finishChan>>
       \/ /\ state[n] = stateCommit
          /\ commitMsgCount[n] + 1 >= Threshold
          /\ commitMsgCount' = [commitMsgCount EXCEPT ![n] = 0]
          /\ state' = [state EXCEPT ![n] = stateFinished]
          /\ IF n = Root
             THEN /\ onDoneCB' = onDoneCB + 1
                  /\ finishChan' = [q \in Node |-> TRUE]
             ELSE UNCHANGED <<onDoneCB, finishChan>>
          /\ UNCHANGED tempCommitMsg
    /\ UNCHANGED <<valid, unsent, late, prePrepareChan, prepareChan,
                   prepMsgCount, tempPrepareMsg, replayPrepare, replayCommit,
                   done, prepared, committed, faults>>

HandleFinish(n) ==
    /\ Running(n) /\ finishChan[n]
    /\ done' = done \cup {n}
    /\ finishChan' = [finishChan EXCEPT ![n] = FALSE]
    /\ UNCHANGED <<valid, unsent, late, prePrepareChan, prepareChan, commitChan,
                   state, counts, temps, onDoneCB, prepared, committed, faults>>

Dispatch(n) ==
    \/ HandlePrePrepare(n)
    \/ HandlePrepare(n)
    \/ HandleCommit(n)
    \/ HandleFinish(n)

(* SendTo fails, which is only logged. *)
Lose(n) ==
    /\ lost < MaxLost
    /\ lost' = lost + 1
    /\ \/ /\ prepareChan[n] > 0
          /\ prepareChan' = [prepareChan EXCEPT ![n] = @ - 1]
          /\ UNCHANGED commitChan
       \/ /\ commitChan[n] > 0
          /\ commitChan' = [commitChan EXCEPT ![n] = @ - 1]
          /\ UNCHANGED prepareChan
    /\ UNCHANGED <<valid, unsent, late, prePrepareChan, finishChan, state, counts,
                   temps, onDoneCB, done, prepared, committed, crashed>>

Crash(n) ==
    /\ Cardinality(crashed) < MaxCrash /\ n \notin crashed
    /\ crashed' = crashed \cup {n}
    /\ UNCHANGED <<valid, unsent, late, net, state, counts, temps, onDoneCB,
                   done, prepared, committed, lost>>

Next ==
    \/ SetPrepare
    \/ \E n \in Node : \/ SendPrePrepare(n)
                       \/ Dispatch(n)
                       \/ ReplayPrepare(n)
                       \/ ReplayCommit(n)
                       \/ Lose(n)
                       \/ Crash(n)

Spec == Init /\ [][Next]_vars

(* Goroutines run, and select takes any message that stays ready. *)
FairSpec ==
    /\ Spec
    /\ WF_vars(SetPrepare)
    /\ \A n \in Node : /\ WF_vars(SendPrePrepare(n))
                       /\ WF_vars(HandlePrePrepare(n))
                       /\ WF_vars(HandlePrepare(n))
                       /\ WF_vars(HandleCommit(n))
                       /\ WF_vars(HandleFinish(n))
                       /\ WF_vars(ReplayPrepare(n))
                       /\ WF_vars(ReplayCommit(n))
-----------------------------------------------------------------------------
(* A node broadcasts Commit only once threshold nodes have broadcast        *)
(* Prepare, itself included: what the two local thresholds of              *)
(* handlePrepare are to ensure.                                            *)
CommitNeedsQuorum ==
    committed # {} => Cardinality(prepared) >= Threshold

(* A node finishes only once threshold others have broadcast Commit:       *)
(* storing and replaying makes handleCommit count no message twice.        *)
FinishNeedsQuorum ==
    \A n \in Node : state[n] = stateFinished =>
        Cardinality(committed \ {n}) >= Threshold

(* Until a node commits, its Prepares under way, stored and counted are    *)
(* no more than the others have sent, whatever the replaying goroutine of  *)
(* handlePrePrepare has done so far.                                       *)
PreparesCountedOnce ==
    \A n \in Node : n \notin committed =>
        prepareChan[n] + prepMsgCount[n] + tempPrepareMsg[n]
          <= Cardinality(prepared \ {n})

(* Prepares and Commits that n has received or will receive; when the root *)
(* commits it has used up a threshold of Prepares.                         *)
PreparesAt(n) ==
    prepareChan[n] + prepMsgCount[n] + tempPrepareMsg[n]
      + (IF n = Root /\ Root \in committed THEN Threshold ELSE 0)
CommitsAt(n) == commitChan[n] + commitMsgCount[n] + tempCommitMsg[n]

Numbers ==
    /\ \A f \in {prepareChan, commitChan, prepMsgCount, commitMsgCount,
                 tempPrepareMsg, tempCommitMsg} : f \in [Node -> Nat]
    /\ prePrepareChan \in [Node -> BOOLEAN]
    /\ state \in [Node -> 0..3]
    /\ unsent \subseteq Node \ {Root}
    /\ prepared \subseteq Node \ {Root} /\ committed \subseteq Node

Phases ==
    /\ ~prePrepareChan[Root]
    /\ \A n \in Node \ {Root} :
         /\ n \in prepared <=> state[n] # statePrePrepare
         /\ n \in committed <=> state[n] \in {stateCommit, stateFinished}
    /\ state[Root] \in {stateCommit, stateFinished} => Root \in committed
    /\ onDoneCB \in 0..1
    /\ onDoneCB = 1 => Root \in committed /\ state[Root] # stateCommit

(* Every message is accounted for by a node that sent it, once, and a      *)
(* node's state by the messages that took it there; the root, whose state  *)
(* goroutines set back, has no Prepares left for a second Commit.          *)
IInv ==
    /\ Numbers /\ Phases
    /\ \A n \in Node : /\ PreparesAt(n) <= Cardinality(prepared \ {n})
                        /\ CommitsAt(n) <= Cardinality(committed \ {n})
    /\ CommitNeedsQuorum /\ FinishNeedsQuorum

(* Unless a send fails or a node stops, every node but the root reaches    *)
(* the commit phase (or is told that all is done): handlePrePrepare        *)
(* replays what came too early.                                            *)
ReplicasCommit ==
    valid => \A n \in Node \ {Root} :
               <>(lost > 0 \/ crashed # {} \/ n \in committed \/ n \in done)
=============================================================================
