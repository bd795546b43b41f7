----------------------------- MODULE PBFT_proofs -----------------------------
(***************************************************************************)
(* PBFT for any number of nodes, of lost messages and of crashes: nobody   *)
(* commits or finishes without a quorum.                                   *)
(***************************************************************************)
EXTENDS PBFT, FiniteSetTheorems, TLAPS

(* Two thirds of the nodes, rounded up; two such quorums are more than all *)
(* nodes but one.                                                          *)
LEMMA Quorums ==
    /\ Cardinality(Node) \in Nat /\ Threshold \in Nat
    /\ 2 * Threshold > Cardinality(Node) - 1
<1>1. Cardinality(Node) \in Nat /\ Cardinality(Node) # 0
  BY NodeAssumption, FS_CardinalityType, FS_EmptySet
<1>2. ASSUME NEW k \in Nat, k # 0
      PROVE  /\ (2 * k + 2) \div 3 \in Nat
             /\ 2 * ((2 * k + 2) \div 3) > k - 1
  BY <1>2
<1>. QED  BY <1>1, <1>2 DEF Threshold

(* Sets of nodes have a number of elements, with any node left out.        *)
LEMMA Counts ==
    ASSUME NEW S, S \subseteq Node, NEW n \in Node
    PROVE  /\ IsFiniteSet(S) /\ IsFiniteSet(S \ {n})
           /\ Cardinality(S) \in Nat /\ Cardinality(S \ {n}) \in Nat
           /\ n \in S => Cardinality(S) = Cardinality(S \ {n}) + 1
           /\ n \notin S => S \ {n} = S
<1>1. S \in SUBSET Node /\ S \ {n} \in SUBSET Node
  OBVIOUS
<1>2. IsFiniteSet(S) /\ IsFiniteSet(S \ {n})
  BY <1>1, NodeAssumption, FS_Subset
<1>3. Cardinality(S) \in Nat /\ Cardinality(S \ {n}) \in Nat
  BY <1>2, FS_CardinalityType
<1>4. n \in S => Cardinality(S \ {n}) = Cardinality(S) - 1
  BY <1>2, FS_RemoveElement
<1>. QED  BY <1>2, <1>3, <1>4

(* One sender more is one message more for everyone else.                  *)
LEMMA OneMore ==
    ASSUME NEW S, S \subseteq Node, NEW m \in Node, m \notin S, NEW n \in Node
    PROVE  Cardinality((S \cup {m}) \ {n}) =
             Cardinality(S \ {n}) + (IF n = m THEN 0 ELSE 1)
<1>1. CASE n = m
  <2>1. (S \cup {m}) \ {n} = S \ {n}
    BY <1>1
  <2>2. Cardinality(S \ {n}) \in Nat
    BY Counts, Zenon
  <2>. QED  BY <1>1, <2>1, <2>2
<1>2. CASE n # m
  <2>1. (S \cup {m}) \ {n} = (S \ {n}) \cup {m} /\ m \notin S \ {n}
    BY <1>2
  <2>2. IsFiniteSet(S \ {n})
    BY Counts
  <2>3. Cardinality((S \ {n}) \cup {m}) = Cardinality(S \ {n}) + 1
    BY <2>1, <2>2, FS_AddElement, Zenon
  <2>. QED  BY <1>2, <2>1, <2>3
<1>. QED  BY <1>1, <1>2

(* The root gets at most one Prepare from everybody else.                  *)
LEMMA RootPrepares ==
    ASSUME IInv
    PROVE  PreparesAt(Root) <= Cardinality(Node) - 1
<1>1. Root \in Node /\ prepared \ {Root} \subseteq Node \ {Root}
  BY NodeAssumption DEF IInv, Numbers
<1>2. /\ IsFiniteSet(Node \ {Root})
      /\ Cardinality(Node) = Cardinality(Node \ {Root}) + 1
      /\ Cardinality(Node \ {Root}) \in Nat
  BY <1>1, Counts, Zenon
<1>3. Cardinality(prepared \ {Root}) <= Cardinality(Node \ {Root})
  BY <1>1, <1>2, FS_Subset
<1>4. PreparesAt(Root) \in Nat /\ Cardinality(prepared \ {Root}) \in Nat
  <2>1. prepareChan[Root] \in Nat /\ prepMsgCount[Root] \in Nat /\ tempPrepareMsg[Root] \in Nat
    BY <1>1 DEF IInv, Numbers
  <2>2. prepared \subseteq Node
    BY DEF IInv, Numbers
  <2>3. Cardinality(prepared \ {Root}) \in Nat
    BY <1>1, <2>2, Counts, Zenon
  <2>. QED  BY <2>1, <2>3, Quorums DEF PreparesAt
<1>5. PreparesAt(Root) <= Cardinality(prepared \ {Root})
  BY <1>1, Zenon DEF IInv
<1>. QED  BY <1>2, <1>3, <1>4, <1>5

(* The instances made by NewProtocol satisfy the invariant. *)
LEMMA InitHolds == ASSUME Init PROVE IInv
<1>1. Numbers
  BY NodeAssumption DEF Init, Numbers, Zero, None, statePrePrepare
<1>2. Phases
  BY NodeAssumption DEF Init, Phases, None, statePrePrepare, stateCommit, stateFinished
<1>3. \A n \in Node : PreparesAt(n) = 0 /\ CommitsAt(n) = 0
  BY DEF Init, PreparesAt, CommitsAt, Zero
<1>4. \A n \in Node : /\ Cardinality(prepared \ {n}) \in Nat
                      /\ Cardinality(committed \ {n}) \in Nat
  BY Counts, Zenon DEF Init
<1>5. CommitNeedsQuorum /\ FinishNeedsQuorum
  BY DEF Init, CommitNeedsQuorum, FinishNeedsQuorum, statePrePrepare, stateFinished
<1>. QED  BY <1>1, <1>2, <1>3, <1>4, <1>5 DEF IInv

(* The types of what the handlers of n read.                               *)
LEMMA Typed ==
    ASSUME IInv, NEW n \in Node
    PROVE  /\ prepareChan[n] \in Nat /\ prepMsgCount[n] \in Nat
           /\ tempPrepareMsg[n] \in Nat /\ commitChan[n] \in Nat
           /\ commitMsgCount[n] \in Nat /\ tempCommitMsg[n] \in Nat
           /\ state[n] \in 0..3
           /\ Cardinality(prepared) \in Nat /\ Cardinality(prepared \ {n}) \in Nat
           /\ Cardinality(committed \ {n}) \in Nat
<1>1. prepared \subseteq Node /\ committed \subseteq Node
  BY DEF IInv, Numbers
<1>2. /\ Cardinality(prepared) \in Nat /\ Cardinality(prepared \ {n}) \in Nat
      /\ Cardinality(committed \ {n}) \in Nat
  BY <1>1, Counts, Zenon
<1>. QED  BY <1>2 DEF IInv, Numbers

(* Steps that change nothing the invariant is about: HandleFinish, Crash.  *)
LEMMA NothingMoves ==
    ASSUME IInv,
           UNCHANGED <<unsent, prePrepareChan, prepareChan, commitChan, state,
                       counts, tempPrepareMsg, tempCommitMsg, onDoneCB,
                       prepared, committed>>
    PROVE  IInv'
BY Zenon DEF IInv, Numbers, Phases, PreparesAt, CommitsAt, CommitNeedsQuorum,
       FinishNeedsQuorum, counts

(* Messages move between channel, buffer and counter of n, or get lost:    *)
(* ReplayPrepare, ReplayCommit, Lose and handlers that only store or count.*)
LEMMA MessagesMove ==
    ASSUME IInv,
           prepareChan' \in [Node -> Nat], prepMsgCount' \in [Node -> Nat],
           tempPrepareMsg' \in [Node -> Nat], commitChan' \in [Node -> Nat],
           commitMsgCount' \in [Node -> Nat], tempCommitMsg' \in [Node -> Nat],
           \A n \in Node :
             /\ prepareChan'[n] + prepMsgCount'[n] + tempPrepareMsg'[n]
                  <= prepareChan[n] + prepMsgCount[n] + tempPrepareMsg[n]
             /\ CommitsAt(n)' <= CommitsAt(n),
           UNCHANGED <<unsent, prePrepareChan, state, onDoneCB, prepared, committed>>
    PROVE  IInv'
<1>1. Numbers' /\ Phases' /\ CommitNeedsQuorum' /\ FinishNeedsQuorum'
  BY DEF IInv, Numbers, Phases, CommitNeedsQuorum, FinishNeedsQuorum
<1>2. prepared' = prepared /\ committed' = committed
  OBVIOUS
<1>3. ASSUME NEW n \in Node
      PROVE  PreparesAt(n)' <= Cardinality(prepared \ {n})
  <2>1. PreparesAt(n) <= Cardinality(prepared \ {n})
    BY Zenon DEF IInv
  <2>2. prepareChan'[n] \in Nat /\ prepMsgCount'[n] \in Nat /\ tempPrepareMsg'[n] \in Nat
    OBVIOUS
  <2>3. /\ prepareChan[n] \in Nat /\ prepMsgCount[n] \in Nat /\ tempPrepareMsg[n] \in Nat
        /\ Cardinality(prepared \ {n}) \in Nat
    BY Typed, Zenon
  <2>4. prepareChan'[n] + prepMsgCount'[n] + tempPrepareMsg'[n]
          <= prepareChan[n] + prepMsgCount[n] + tempPrepareMsg[n]
    OBVIOUS
  <2>. QED  BY <1>2, <2>1, <2>2, <2>3, <2>4, Quorums DEF PreparesAt
<1>4. ASSUME NEW n \in Node
      PROVE  CommitsAt(n)' <= Cardinality(committed \ {n})
  <2>1. CommitsAt(n) <= Cardinality(committed \ {n}) /\ CommitsAt(n)' <= CommitsAt(n)
    BY Zenon DEF IInv
  <2>2. commitChan'[n] \in Nat /\ commitMsgCount'[n] \in Nat /\ tempCommitMsg'[n] \in Nat
    OBVIOUS
  <2>3. /\ commitChan[n] \in Nat /\ commitMsgCount[n] \in Nat /\ tempCommitMsg[n] \in Nat
        /\ Cardinality(committed \ {n}) \in Nat
    BY Typed, Zenon
  <2>. QED  BY <2>1, <2>2, <2>3 DEF CommitsAt
<1>. QED  BY <1>1, <1>2, <1>3, <1>4 DEF IInv

(* SendPrePrepare and SetPrepare.                                          *)
LEMMA PrePrepareKeeps ==
    ASSUME IInv, NEW q \in Node, SendPrePrepare(q)
    PROVE  IInv'
<1>1. q # Root
  BY DEF SendPrePrepare, IInv, Numbers
<1>2. Numbers' /\ Phases'
  BY <1>1, NodeAssumption DEF SendPrePrepare, IInv, Numbers, Phases, counts, temps
<1>3. \A n \in Node : PreparesAt(n)' = PreparesAt(n) /\ CommitsAt(n)' = CommitsAt(n)
  BY DEF SendPrePrepare, PreparesAt, CommitsAt, counts, temps
<1>4. CommitNeedsQuorum' /\ FinishNeedsQuorum' /\ prepared' = prepared /\ committed' = committed
  BY DEF SendPrePrepare, IInv, CommitNeedsQuorum, FinishNeedsQuorum
<1>. QED  BY <1>2, <1>3, <1>4 DEF IInv

(* The leader that pre-prepares its block keeps the invariant. *)
LEMMA SetPrepareKeeps == ASSUME IInv, SetPrepare PROVE IInv'
<1>. state' = [state EXCEPT ![Root] = statePrepare]
  BY DEF SetPrepare
<1>1. UNCHANGED <<unsent, net, counts, temps, onDoneCB, prepared, committed>>
  BY DEF SetPrepare
<1>2. Numbers'
  <2>1. state' \in [Node -> 0..3]
    <3>1. state \in [Node -> 0..3]
      BY DEF IInv, Numbers
    <3>. QED  BY <3>1, NodeAssumption DEF statePrepare
  <2>. QED  BY <1>1, <2>1 DEF IInv, Numbers, net, counts, temps
<1>3. Phases' /\ FinishNeedsQuorum'
  BY <1>1, NodeAssumption DEF IInv, Numbers, Phases, FinishNeedsQuorum, net,
     statePrePrepare, statePrepare, stateCommit, stateFinished
<1>4. \A n \in Node : PreparesAt(n)' = PreparesAt(n) /\ CommitsAt(n)' = CommitsAt(n)
  BY <1>1 DEF PreparesAt, CommitsAt, net, counts, temps
<1>. QED  BY <1>1, <1>2, <1>3, <1>4 DEF IInv, CommitNeedsQuorum

(* A node verifies the block and broadcasts its Prepare, which it has not  *)
(* done before.                                                            *)
LEMMA PrepareSent ==
    ASSUME IInv, NEW m \in Node, prePrepareChan[m], state[m] = statePrePrepare,
           prePrepareChan' = [prePrepareChan EXCEPT ![m] = FALSE],
           state' = [state EXCEPT ![m] = statePrepare],
           prepareChan' = broadcast(prepareChan, m),
           prepared' = prepared \cup {m},
           UNCHANGED <<unsent, commitChan, counts, tempPrepareMsg, tempCommitMsg,
                       onDoneCB, committed>>
    PROVE  IInv'
<1>1. m # Root /\ m \notin prepared /\ prepared \subseteq Node
  BY DEF IInv, Phases, Numbers
<1>2. Numbers'
  BY <1>1 DEF IInv, Numbers, broadcast, counts, statePrepare
<1>3. Phases'
  BY <1>1, NodeAssumption DEF IInv, Numbers, Phases, statePrePrepare, statePrepare,
     stateCommit, stateFinished
<1>4. ASSUME NEW n \in Node
      PROVE  PreparesAt(n)' <= Cardinality(prepared' \ {n})
  <2>1. Cardinality(prepared' \ {n}) =
          Cardinality(prepared \ {n}) + (IF n = m THEN 0 ELSE 1)
    BY <1>1, OneMore
  <2>. prepareChan[n] \in Nat /\ prepMsgCount[n] \in Nat /\ tempPrepareMsg[n] \in Nat
    BY Typed, Zenon
  <2>2. prepareChan'[n] = prepareChan[n] + (IF n = m THEN 0 ELSE 1)
    BY DEF broadcast
  <2>3. PreparesAt(n)' = PreparesAt(n) + (IF n = m THEN 0 ELSE 1) /\ PreparesAt(n) \in Nat
    BY <2>2, Quorums DEF PreparesAt, counts
  <2>4. PreparesAt(n) <= Cardinality(prepared \ {n})
    BY Zenon DEF IInv
  <2>5. Cardinality(prepared \ {n}) \in Nat
    BY Typed, Zenon
  <2>. QED  BY <2>1, <2>3, <2>4, <2>5
<1>5. \A n \in Node : CommitsAt(n)' = CommitsAt(n)
  BY DEF CommitsAt, counts
<1>6. CommitNeedsQuorum'
  <2>1. Cardinality(prepared') = Cardinality(prepared) + 1 /\ Cardinality(prepared) \in Nat
    BY <1>1, Counts, FS_AddElement
  <2>. QED  BY <2>1, Quorums DEF IInv, CommitNeedsQuorum
<1>7. FinishNeedsQuorum'
  BY DEF IInv, Numbers, FinishNeedsQuorum, statePrepare, stateFinished
<1>. QED  BY <1>2, <1>3, <1>4, <1>5, <1>6, <1>7, Zenon DEF IInv

(* A node broadcasts its Commit.  It has not before: another node than the *)
(* root has left statePrepare for good then, and the root, which may have  *)
(* been set back to it, has too few Prepares left.                         *)
LEMMA CommitSent ==
    ASSUME IInv, NEW m \in Node, prepareChan[m] > 0, state[m] = statePrepare,
           prepMsgCount[m] + 1 >= LocalThreshold(m),
           prepareChan' = [prepareChan EXCEPT ![m] = @ - 1],
           prepMsgCount' = [prepMsgCount EXCEPT ![m] = 0],
           state' = [state EXCEPT ![m] = stateCommit],
           commitChan' = broadcast(commitChan, m),
           committed' = committed \cup {m},
           UNCHANGED <<unsent, prePrepareChan, commitMsgCount, tempPrepareMsg,
                       tempCommitMsg, onDoneCB, prepared>>
    PROVE  IInv'
<1>. Root \in Node
  BY NodeAssumption
<1>1. /\ prepareChan[m] \in Nat /\ prepMsgCount[m] \in Nat /\ tempPrepareMsg[m] \in Nat
      /\ Cardinality(prepared \ {m}) \in Nat /\ Cardinality(prepared) \in Nat
  BY Typed, Zenon
<1>2. PreparesAt(m) <= Cardinality(prepared \ {m})
  BY Zenon DEF IInv
<1>3. m \notin committed
  <2>1. CASE m # Root
    BY <2>1 DEF IInv, Phases, statePrepare, stateCommit, stateFinished
  <2>2. CASE m = Root
    <3>1. PreparesAt(Root) <= Cardinality(Node) - 1
      BY RootPrepares
    <3>. QED  BY <1>1, <2>2, <3>1, Quorums DEF PreparesAt, LocalThreshold
  <2>. QED  BY <2>1, <2>2
<1>4. committed \subseteq Node /\ prepared \subseteq Node
  BY DEF IInv, Numbers
<1>5. Numbers'
  <2>1. prepareChan' \in [Node -> Nat] /\ prepMsgCount' \in [Node -> Nat]
    BY <1>1 DEF IInv, Numbers
  <2>2. commitChan' \in [Node -> Nat] /\ state' \in [Node -> 0..3]
    BY DEF IInv, Numbers, broadcast, stateCommit
  <2>. QED  BY <1>4, <2>1, <2>2 DEF IInv, Numbers
<1>6. Phases'
  <2>1. m = Root => onDoneCB = 0
    BY <1>3 DEF IInv, Phases
  <2>. QED
    BY <1>3, <2>1 DEF IInv, Numbers, Phases, statePrePrepare, statePrepare,
       stateCommit, stateFinished
<1>7. ASSUME NEW n \in Node
      PROVE  PreparesAt(n)' <= Cardinality(prepared' \ {n})
  <2>1. CASE n = m
    <3>1. prepareChan'[m] = prepareChan[m] - 1 /\ prepMsgCount'[m] = 0
      BY DEF IInv, Numbers
    <3>2. PreparesAt(m)' <= PreparesAt(m)
      BY <1>1, <1>3, <3>1, Quorums DEF PreparesAt, LocalThreshold
    <3>3. PreparesAt(m)' \in Int /\ PreparesAt(m) \in Int
      BY <1>1, <3>1, Quorums DEF PreparesAt
    <3>. QED  BY <1>1, <1>2, <2>1, <3>2, <3>3
  <2>2. CASE n # m
    <3>1. prepareChan'[n] = prepareChan[n] /\ prepMsgCount'[n] = prepMsgCount[n]
      BY <2>2 DEF IInv, Numbers
    <3>2. n = Root => (Root \in committed' <=> Root \in committed)
      BY <2>2
    <3>3. PreparesAt(n)' = PreparesAt(n)
      BY <3>1, <3>2 DEF PreparesAt
    <3>. QED  BY <3>3, Zenon DEF IInv
  <2>. QED  BY <2>1, <2>2
<1>8. ASSUME NEW n \in Node
      PROVE  /\ CommitsAt(n)' <= Cardinality(committed' \ {n})
             /\ Cardinality(committed' \ {n}) >= Cardinality(committed \ {n})
  <2>. /\ commitChan[n] \in Nat /\ commitMsgCount[n] \in Nat /\ tempCommitMsg[n] \in Nat
       /\ Cardinality(committed \ {n}) \in Nat
    BY Typed, Zenon
  <2>1. Cardinality(committed' \ {n}) =
          Cardinality(committed \ {n}) + (IF n = m THEN 0 ELSE 1)
    BY <1>3, <1>4, OneMore
  <2>2. commitChan'[n] = commitChan[n] + (IF n = m THEN 0 ELSE 1)
    BY DEF broadcast
  <2>3. CommitsAt(n)' = CommitsAt(n) + (IF n = m THEN 0 ELSE 1) /\ CommitsAt(n) \in Nat
    BY <2>2 DEF CommitsAt
  <2>4. CommitsAt(n) <= Cardinality(committed \ {n})
    BY Zenon DEF IInv
  <2>. QED  BY <2>1, <2>3, <2>4
<1>9. CommitNeedsQuorum'
  <2>1. CASE m = Root
    <3>1. prepared \ {Root} = prepared
      BY DEF IInv, Numbers
    <3>2. PreparesAt(m) >= Threshold
      BY <1>1, <1>3, <2>1, Quorums DEF PreparesAt, LocalThreshold
    <3>3. PreparesAt(m) \in Nat
      BY <1>1, Quorums DEF PreparesAt
    <3>4. Cardinality(prepared) >= Threshold
      BY <1>1, <1>2, <2>1, <3>1, <3>2, <3>3, Quorums, SMTT(20)
    <3>. QED  BY <3>4 DEF CommitNeedsQuorum
  <2>2. CASE m # Root
    <3>1. m \in prepared
      BY <2>2 DEF IInv, Phases, statePrePrepare, statePrepare
    <3>2. Cardinality(prepared) = Cardinality(prepared \ {m}) + 1
      BY <1>4, <3>1, Counts, Zenon
    <3>. QED  BY <1>1, <1>2, <2>2, <3>2, Quorums
              DEF PreparesAt, LocalThreshold, CommitNeedsQuorum
  <2>. QED  BY <2>1, <2>2
<1>10. FinishNeedsQuorum'
  <2>1. SUFFICES ASSUME NEW n \in Node, state'[n] = stateFinished
                 PROVE  Cardinality(committed' \ {n}) >= Threshold
    BY DEF FinishNeedsQuorum
  <2>2. state[n] = stateFinished
    BY <2>1 DEF IInv, Numbers, stateCommit, stateFinished
  <2>3. Cardinality(committed \ {n}) >= Threshold
    BY <2>2 DEF IInv, FinishNeedsQuorum
  <2>4. Cardinality(committed \ {n}) \in Nat
    BY <1>4, Counts, Zenon
  <2>5. Cardinality(committed' \ {n}) \in Nat
    <3>1. committed' \subseteq Node
      BY <1>4
    <3>. QED  BY <3>1, Counts, Zenon
  <2>6. Cardinality(committed' \ {n}) >= Cardinality(committed \ {n})
    BY <1>8, Zenon
  <2>7. \A a, b, c \in Nat : a >= b /\ b >= c => a >= c
    OBVIOUS
  <2>. QED  BY <2>3, <2>4, <2>5, <2>6, <2>7, Quorums, Zenon
<1>. QED  BY <1>5, <1>6, <1>7, <1>8, <1>9, <1>10, Zenon DEF IInv

(* handleCommit takes a node to stateFinished.  The root does so once: its *)
(* callback has not run while it is in stateCommit.                        *)
LEMMA Finishes ==
    ASSUME IInv, NEW m \in Node, commitChan[m] > 0, state[m] = stateCommit,
           commitMsgCount[m] + 1 >= Threshold,
           commitChan' = [commitChan EXCEPT ![m] = @ - 1],
           commitMsgCount' = [commitMsgCount EXCEPT ![m] = 0],
           state' = [state EXCEPT ![m] = stateFinished],
           onDoneCB' = (IF m = Root THEN onDoneCB + 1 ELSE onDoneCB),
           UNCHANGED <<unsent, prePrepareChan, prepareChan, prepMsgCount,
                       tempPrepareMsg, tempCommitMsg, prepared, committed>>
    PROVE  IInv'
<1>. Root \in Node
  BY NodeAssumption
<1>1. /\ commitChan[m] \in Nat /\ commitMsgCount[m] \in Nat /\ tempCommitMsg[m] \in Nat
      /\ Cardinality(committed \ {m}) \in Nat
  BY Typed, Zenon
<1>2. CommitsAt(m) <= Cardinality(committed \ {m})
  BY Zenon DEF IInv
<1>3. Numbers'
  <2>1. commitChan' \in [Node -> Nat] /\ commitMsgCount' \in [Node -> Nat]
    BY <1>1 DEF IInv, Numbers
  <2>2. state' \in [Node -> 0..3]
    BY DEF IInv, Numbers, stateFinished
  <2>. QED  BY <2>1, <2>2 DEF IInv, Numbers
<1>4. Phases'
  <2>1. m = Root => onDoneCB = 0 /\ Root \in committed
    BY DEF IInv, Phases
  <2>. QED
    BY <2>1 DEF IInv, Numbers, Phases, statePrePrepare, stateCommit, stateFinished
<1>5. \A n \in Node : PreparesAt(n)' = PreparesAt(n)
  BY DEF PreparesAt
<1>6. ASSUME NEW n \in Node
      PROVE  CommitsAt(n)' <= Cardinality(committed \ {n})
  <2>1. CASE n = m
    <3>1. commitChan'[m] = commitChan[m] - 1 /\ commitMsgCount'[m] = 0
      BY DEF IInv, Numbers
    <3>. QED  BY <1>1, <1>2, <2>1, <3>1 DEF CommitsAt
  <2>2. CASE n # m
    <3>1. commitChan'[n] = commitChan[n] /\ commitMsgCount'[n] = commitMsgCount[n]
      BY <2>2 DEF IInv, Numbers
    <3>. QED  BY <3>1, Zenon DEF IInv, CommitsAt
  <2>. QED  BY <2>1, <2>2
<1>7. CommitNeedsQuorum'
  BY DEF IInv, CommitNeedsQuorum
<1>8. FinishNeedsQuorum'
  <2>1. Cardinality(committed \ {m}) >= Threshold
    BY <1>1, <1>2, Quorums DEF CommitsAt
  <2>. QED  BY <2>1, Zenon DEF IInv, Numbers, FinishNeedsQuorum
<1>. QED  BY <1>3, <1>4, <1>5, <1>6, <1>7, <1>8, Zenon DEF IInv

(* The handlers of Dispatch.                                               *)
LEMMA HandlePrePrepareKeeps ==
    ASSUME IInv, NEW m \in Node, HandlePrePrepare(m)
    PROVE  IInv'
<1>1. CASE state[m] = statePrePrepare /\ valid
  <2>1. /\ prePrepareChan[m]
        /\ prePrepareChan' = [prePrepareChan EXCEPT ![m] = FALSE]
        /\ state' = [state EXCEPT ![m] = statePrepare]
        /\ prepareChan' = broadcast(prepareChan, m)
        /\ prepared' = prepared \cup {m}
        /\ UNCHANGED <<unsent, commitChan, counts, tempPrepareMsg, tempCommitMsg,
                       onDoneCB, committed>>
    BY <1>1 DEF HandlePrePrepare
  <2>. QED  BY <1>1, <2>1, PrepareSent, ZenonT(30)
<1>2. CASE ~(state[m] = statePrePrepare /\ valid)
  <2>1. /\ prePrepareChan' = [prePrepareChan EXCEPT ![m] = FALSE]
        /\ UNCHANGED <<unsent, prepareChan, commitChan, state, counts,
                       tempPrepareMsg, tempCommitMsg, onDoneCB, prepared, committed>>
    BY <1>2 DEF HandlePrePrepare
  <2>2. Numbers' /\ Phases'
    BY <2>1, NodeAssumption DEF IInv, Numbers, Phases, counts
  <2>3. \A n \in Node : PreparesAt(n)' = PreparesAt(n) /\ CommitsAt(n)' = CommitsAt(n)
    BY <2>1 DEF PreparesAt, CommitsAt, counts
  <2>. QED
    BY <2>1, <2>2, <2>3 DEF IInv, CommitNeedsQuorum, FinishNeedsQuorum
<1>. QED  BY <1>1, <1>2

(* A node that handles a prepare message keeps the invariant. *)
LEMMA HandlePrepareKeeps ==
    ASSUME IInv, NEW m \in Node, HandlePrepare(m)
    PROVE  IInv'
<1>1. /\ prepareChan[m] > 0 /\ prepareChan' = [prepareChan EXCEPT ![m] = @ - 1]
      /\ UNCHANGED <<unsent, prePrepareChan, commitMsgCount, tempCommitMsg,
                     onDoneCB, prepared>>
  BY DEF HandlePrepare
<1>2. \A n \in Node : /\ prepareChan[n] \in Nat /\ prepMsgCount[n] \in Nat
                      /\ tempPrepareMsg[n] \in Nat /\ commitChan[n] \in Nat
                      /\ commitMsgCount[n] \in Nat /\ tempCommitMsg[n] \in Nat
  BY Typed, Zenon
<1>3. /\ prepareChan \in [Node -> Nat] /\ prepMsgCount \in [Node -> Nat]
      /\ tempPrepareMsg \in [Node -> Nat] /\ commitChan \in [Node -> Nat]
      /\ commitMsgCount \in [Node -> Nat] /\ tempCommitMsg \in [Node -> Nat]
  BY DEF IInv, Numbers
<1>4. prepareChan' \in [Node -> Nat]
  BY <1>1, <1>2, <1>3
<1>5. CASE /\ state[m] # statePrepare /\ StorePrepare(m)
           /\ UNCHANGED <<state, prepMsgCount, commitChan, replayCommit, committed>>
  <2>1. tempPrepareMsg' \in [Node -> Nat]
    BY <1>3, <1>5 DEF StorePrepare
  <2>2. ASSUME NEW n \in Node
        PROVE  prepareChan'[n] + prepMsgCount'[n] + tempPrepareMsg'[n]
                 <= prepareChan[n] + prepMsgCount[n] + tempPrepareMsg[n]
    <3>1. prepareChan'[n] = IF n = m THEN prepareChan[n] - 1 ELSE prepareChan[n]
      BY <1>1, <1>3
    <3>2. /\ n # m => tempPrepareMsg'[n] = tempPrepareMsg[n]
          /\ tempPrepareMsg'[n] \in {tempPrepareMsg[n], tempPrepareMsg[n] + 1}
      BY <1>3, <1>5 DEF StorePrepare
    <3>3. prepMsgCount'[n] = prepMsgCount[n]
      BY <1>5
    <3>. QED  BY <1>2, <3>1, <3>2, <3>3
  <2>3. \A n \in Node : CommitsAt(n)' <= CommitsAt(n)
    BY <1>1, <1>2, <1>5 DEF CommitsAt
  <2>. QED  BY <1>1, <1>3, <1>4, <1>5, <2>1, <2>2, <2>3, MessagesMove
<1>6. CASE /\ prepMsgCount' = [prepMsgCount EXCEPT ![m] = @ + 1]
           /\ UNCHANGED <<state, commitChan, tempPrepareMsg, replayCommit, committed>>
  <2>1. prepMsgCount' \in [Node -> Nat]
    BY <1>3, <1>6
  <2>2. ASSUME NEW n \in Node
        PROVE  prepareChan'[n] + prepMsgCount'[n] + tempPrepareMsg'[n]
                 <= prepareChan[n] + prepMsgCount[n] + tempPrepareMsg[n]
    <3>1. prepareChan'[n] = IF n = m THEN prepareChan[n] - 1 ELSE prepareChan[n]
      BY <1>1, <1>3
    <3>2. prepMsgCount'[n] = IF n = m THEN prepMsgCount[n] + 1 ELSE prepMsgCount[n]
      BY <1>3, <1>6
    <3>3. tempPrepareMsg'[n] = tempPrepareMsg[n]
      BY <1>6
    <3>. QED  BY <1>2, <3>1, <3>2, <3>3
  <2>3. \A n \in Node : CommitsAt(n)' <= CommitsAt(n)
    BY <1>1, <1>2, <1>6 DEF CommitsAt
  <2>. QED  BY <1>1, <1>3, <1>4, <1>6, <2>1, <2>2, <2>3, MessagesMove
<1>7. CASE /\ state[m] = statePrepare
           /\ prepMsgCount[m] + 1 >= LocalThreshold(m)
           /\ prepMsgCount' = [prepMsgCount EXCEPT ![m] = 0]
           /\ state' = [state EXCEPT ![m] = stateCommit]
           /\ commitChan' = broadcast(commitChan, m)
           /\ committed' = committed \cup {m}
           /\ UNCHANGED tempPrepareMsg
  BY <1>1, <1>7, CommitSent, Zenon
<1>. QED  BY <1>5, <1>6, <1>7 DEF HandlePrepare

(* A node that handles a commit message keeps the invariant. *)
LEMMA HandleCommitKeeps ==
    ASSUME IInv, NEW m \in Node, HandleCommit(m)
    PROVE  IInv'
<1>1. /\ commitChan[m] > 0 /\ commitChan' = [commitChan EXCEPT ![m] = @ - 1]
      /\ UNCHANGED <<unsent, prePrepareChan, prepareChan, prepMsgCount,
                     tempPrepareMsg, prepared, committed>>
  BY DEF HandleCommit
<1>2. \A n \in Node : /\ prepareChan[n] \in Nat /\ prepMsgCount[n] \in Nat
                      /\ tempPrepareMsg[n] \in Nat /\ commitChan[n] \in Nat
                      /\ commitMsgCount[n] \in Nat /\ tempCommitMsg[n] \in Nat
  BY Typed, Zenon
<1>3. /\ prepareChan \in [Node -> Nat] /\ prepMsgCount \in [Node -> Nat]
      /\ tempPrepareMsg \in [Node -> Nat] /\ commitChan \in [Node -> Nat]
      /\ commitMsgCount \in [Node -> Nat] /\ tempCommitMsg \in [Node -> Nat]
  BY DEF IInv, Numbers
<1>4. commitChan' \in [Node -> Nat]
  BY <1>1, <1>2, <1>3
<1>5. \A n \in Node : prepareChan'[n] + prepMsgCount'[n] + tempPrepareMsg'[n]
                        <= prepareChan[n] + prepMsgCount[n] + tempPrepareMsg[n]
  BY <1>1, <1>2
<1>6. \A n \in Node :
        commitChan'[n] = IF n = m THEN commitChan[n] - 1 ELSE commitChan[n]
  BY <1>1, <1>3
<1>7. CASE /\ StoreCommit(m)
           /\ UNCHANGED <<state, commitMsgCount, onDoneCB, finishChan>>
  <2>1. tempCommitMsg' \in [Node -> Nat]
    BY <1>3, <1>7, SMTT(20) DEF StoreCommit
  <2>2. ASSUME NEW n \in Node PROVE CommitsAt(n)' <= CommitsAt(n)
    <3>1. /\ n # m => tempCommitMsg'[n] = tempCommitMsg[n]
          /\ tempCommitMsg'[n] \in {tempCommitMsg[n], tempCommitMsg[n] + 1}
      BY <1>3, <1>7 DEF StoreCommit
    <3>2. commitMsgCount'[n] = commitMsgCount[n]
      BY <1>7
    <3>. QED  BY <1>2, <1>6, <3>1, <3>2 DEF CommitsAt
  <2>. QED  BY <1>1, <1>3, <1>4, <1>5, <1>7, <2>1, <2>2, MessagesMove
<1>8. CASE /\ commitMsgCount' = [commitMsgCount EXCEPT ![m] = @ + 1]
           /\ UNCHANGED <<state, tempCommitMsg, onDoneCB, finishChan>>
  <2>1. commitMsgCount' \in [Node -> Nat]
    BY <1>3, <1>8
  <2>2. ASSUME NEW n \in Node PROVE CommitsAt(n)' <= CommitsAt(n)
    <3>1. commitMsgCount'[n] =
            IF n = m THEN commitMsgCount[n] + 1 ELSE commitMsgCount[n]
      BY <1>3, <1>8
    <3>2. tempCommitMsg'[n] = tempCommitMsg[n]
      BY <1>8
    <3>. QED  BY <1>2, <1>6, <3>1, <3>2 DEF CommitsAt
  <2>. QED  BY <1>1, <1>3, <1>4, <1>5, <1>8, <2>1, <2>2, MessagesMove
<1>9. CASE /\ state[m] = stateCommit
           /\ commitMsgCount[m] + 1 >= Threshold
           /\ commitMsgCount' = [commitMsgCount EXCEPT ![m] = 0]
           /\ state' = [state EXCEPT ![m] = stateFinished]
           /\ onDoneCB' = (IF m = Root THEN onDoneCB + 1 ELSE onDoneCB)
           /\ UNCHANGED tempCommitMsg
  BY <1>1, <1>9, Finishes, Zenon
<1>. QED  BY <1>7, <1>8, <1>9 DEF HandleCommit

(* Stored messages go back into the channel; a send fails.                 *)
LEMMA TransfersKeep ==
    ASSUME IInv, NEW m \in Node,
           ReplayPrepare(m) \/ ReplayCommit(m) \/ Lose(m)
    PROVE  IInv'
<1>1. \A n \in Node : /\ prepareChan[n] \in Nat /\ prepMsgCount[n] \in Nat
                      /\ tempPrepareMsg[n] \in Nat /\ commitChan[n] \in Nat
                      /\ commitMsgCount[n] \in Nat /\ tempCommitMsg[n] \in Nat
  BY Typed, Zenon
<1>2. /\ prepareChan \in [Node -> Nat] /\ prepMsgCount \in [Node -> Nat]
      /\ tempPrepareMsg \in [Node -> Nat] /\ commitChan \in [Node -> Nat]
      /\ commitMsgCount \in [Node -> Nat] /\ tempCommitMsg \in [Node -> Nat]
  BY DEF IInv, Numbers
<1>3. UNCHANGED <<unsent, prePrepareChan, state, prepMsgCount, commitMsgCount,
                  onDoneCB, prepared, committed>>
  BY DEF ReplayPrepare, ReplayCommit, Lose, counts
<1>4. CASE UNCHANGED <<commitChan, tempCommitMsg>> /\ (ReplayPrepare(m) \/ Lose(m))
  <2>1. prepareChan' \in [Node -> Nat] /\ tempPrepareMsg' \in [Node -> Nat]
    BY <1>1, <1>2, <1>4, SMTT(20) DEF ReplayPrepare, Lose, temps
  <2>2. ASSUME NEW n \in Node
        PROVE  prepareChan'[n] + prepMsgCount'[n] + tempPrepareMsg'[n]
                 <= prepareChan[n] + prepMsgCount[n] + tempPrepareMsg[n]
    <3>1. prepareChan'[n] + tempPrepareMsg'[n] <= prepareChan[n] + tempPrepareMsg[n]
      BY <1>1, <1>2, <1>4 DEF ReplayPrepare, Lose, temps
    <3>2. prepareChan'[n] \in Nat /\ tempPrepareMsg'[n] \in Nat
      BY <2>1, Zenon
    <3>3. /\ prepMsgCount'[n] = prepMsgCount[n]
          /\ prepareChan[n] \in Nat /\ prepMsgCount[n] \in Nat /\ tempPrepareMsg[n] \in Nat
      BY <1>1, <1>3, Zenon
    <3>. QED  BY <3>1, <3>2, <3>3
  <2>3. \A n \in Node : CommitsAt(n)' <= CommitsAt(n)
    BY <1>1, <1>3, <1>4 DEF CommitsAt
  <2>. QED  BY <1>2, <1>3, <1>4, <2>1, <2>2, <2>3, MessagesMove, SMTT(20)
<1>5. CASE UNCHANGED <<prepareChan, tempPrepareMsg>> /\ (ReplayCommit(m) \/ Lose(m))
  <2>1. commitChan' \in [Node -> Nat] /\ tempCommitMsg' \in [Node -> Nat]
    BY <1>1, <1>2, <1>5, SMTT(20) DEF ReplayCommit, Lose, temps
  <2>2. ASSUME NEW n \in Node PROVE CommitsAt(n)' <= CommitsAt(n)
    <3>1. commitChan'[n] + tempCommitMsg'[n] <= commitChan[n] + tempCommitMsg[n]
      BY <1>1, <1>2, <1>5 DEF ReplayCommit, Lose, temps
    <3>2. commitChan'[n] \in Nat /\ tempCommitMsg'[n] \in Nat
      BY <2>1, Zenon
    <3>3. /\ commitMsgCount'[n] = commitMsgCount[n]
          /\ commitChan[n] \in Nat /\ commitMsgCount[n] \in Nat /\ tempCommitMsg[n] \in Nat
      BY <1>1, <1>3, Zenon
    <3>. QED  BY <3>1, <3>2, <3>3 DEF CommitsAt
  <2>3. \A n \in Node : prepareChan'[n] + prepMsgCount'[n] + tempPrepareMsg'[n]
                          <= prepareChan[n] + prepMsgCount[n] + tempPrepareMsg[n]
    BY <1>1, <1>3, <1>5
  <2>. QED  BY <1>2, <1>3, <1>5, <2>1, <2>2, <2>3, MessagesMove, SMTT(20)
<1>. QED  BY <1>4, <1>5 DEF ReplayPrepare, ReplayCommit, Lose, temps

(* Every handler of PBFT keeps the invariant. *)
LEMMA NextKeeps == ASSUME IInv, [Next]_vars PROVE IInv'
<1>1. CASE SetPrepare
  BY <1>1, SetPrepareKeeps
<1>2. ASSUME NEW n \in Node, SendPrePrepare(n) PROVE IInv'
  BY <1>2, PrePrepareKeeps
<1>3. ASSUME NEW n \in Node, Dispatch(n) PROVE IInv'
  <2>1. CASE HandlePrePrepare(n)
    BY <2>1, HandlePrePrepareKeeps
  <2>2. CASE HandlePrepare(n)
    BY <2>2, HandlePrepareKeeps
  <2>3. CASE HandleCommit(n)
    BY <2>3, HandleCommitKeeps
  <2>4. CASE HandleFinish(n)
    BY <2>4, NothingMoves DEF HandleFinish, temps
  <2>. QED  BY <1>3, <2>1, <2>2, <2>3, <2>4 DEF Dispatch
<1>4. ASSUME NEW n \in Node, ReplayPrepare(n) \/ ReplayCommit(n) \/ Lose(n) PROVE IInv'
  BY <1>4, TransfersKeep
<1>5. ASSUME NEW n \in Node, Crash(n) PROVE IInv'
  BY <1>5, NothingMoves DEF Crash, net, temps
<1>6. CASE UNCHANGED vars
  BY <1>6, NothingMoves DEF vars, net, temps
<1>. QED  BY <1>1, <1>2, <1>3, <1>4, <1>5, <1>6 DEF Next

(* Every message a node receives, stores or counts comes from a node that  *)
(* sent it once, in every behaviour of Dispatch and of the goroutines that *)
(* broadcast, replay and set the root's state, whatever is lost or stops.  *)
THEOREM Invariance == Spec => []IInv
<1>1. Init => IInv
  BY InitHolds
<1>2. IInv /\ [Next]_vars => IInv'
  BY NextKeeps
<1>. QED  BY <1>1, <1>2, PTL DEF Spec

(* The local thresholds of handlePrepare let no node broadcast Commit      *)
(* before two thirds of the nodes have broadcast Prepare.                  *)
THEOREM CommitsHaveQuorum == Spec => []CommitNeedsQuorum
<1>1. IInv => CommitNeedsQuorum
  BY DEF IInv
<1>. QED  BY <1>1, Invariance, PTL

(* handleCommit finishes a node after Commits of two thirds of the nodes,  *)
(* all other than itself.                                                  *)
THEOREM FinishesHaveQuorum == Spec => []FinishNeedsQuorum
<1>1. IInv => FinishNeedsQuorum
  BY DEF IInv
<1>. QED  BY <1>1, Invariance, PTL

(* The goroutine of handlePrePrepare that replays stored Prepares makes    *)
(* handlePrepare count none of them twice.                                 *)
THEOREM NoPrepareTwice == Spec => []PreparesCountedOnce
<1>1. ASSUME IInv PROVE PreparesCountedOnce
  <2>1. SUFFICES ASSUME NEW n \in Node, n \notin committed
                 PROVE  prepareChan[n] + prepMsgCount[n] + tempPrepareMsg[n]
                          <= Cardinality(prepared \ {n})
    BY DEF PreparesCountedOnce
  <2>2. prepareChan[n] \in Nat /\ prepMsgCount[n] \in Nat /\ tempPrepareMsg[n] \in Nat
    BY <1>1, Typed, Zenon
  <2>3. PreparesAt(n) <= Cardinality(prepared \ {n})
    BY <1>1, Zenon DEF IInv
  <2>. QED  BY <2>1, <2>2, <2>3 DEF PreparesAt
<1>. QED  BY <1>1, Invariance, PTL
=============================================================================
