--------------------------- MODULE BFTCoSi_proofs ---------------------------
(***************************************************************************)
(* Theorems about BFTCoSi, for every tree and every set MayClose of        *)
(* servers that may be closed: the inductive invariant IInv, the safety    *)
(* properties that follow from it, and the promise of CollectiveSigning.   *)
(* First come the challenges and responses of the prepare and of the       *)
(* commit round.                                                           *)
(***************************************************************************)
EXTENDS BFTCoSiSteps_proofs

(* handleChallengePrepare: the verification starts, nothing is reported.   *)
LEMMA ChallengePrepareStep ==
    ASSUME IInv, TypeOK', NEW n \in Node, HandleChallengePrepare(n)
    PROVE  IInv'
<1> DEFINE k == IF IsLeaf(n) THEN 6 ELSE 5
<1> USE DEF IInv
<1>1. phase[n] = 4 /\ k \in 0..9 /\ phase' = [phase EXCEPT ![n] = k]
  BY DEF HandleChallengePrepare
<1>m. phase'[n] = k /\ \A q \in Node : q # n => phase'[q] = phase[q]
  <2> HIDE DEF k
  <2> QED
    BY <1>1, Moved, Zenon
<1>2. n # Root => phase[Parent[n]] = 5
  BY DEF Challenges, HandleChallengePrepare
<1>3. \A c \in Children(n) : phase[c] = 4
  <2> TAKE c \in Children(n)
  <2>1. c \in Node /\ c # Root /\ Parent[c] = n
    BY ChildFacts
  <2>2. Together(4, phase[c])
    BY <1>1, <2>1 DEF LockStep
  <2> QED
    BY <2>2 DEF Together
<1>4. IsLeaf(n) => Below(n) = {}
  BY SubtreeFacts, Zenon DEF IsLeaf
<1>5. /\ \A q \in Node : q # n => verification'[q] = verification[q]
      /\ verification[n] = "none" /\ verification'[n] = "running"
  BY <1>1 DEF HandleChallengePrepare, TypeOK, Verified
<1>6. Refusers' = Refusers
  BY <1>5 DEF Refusers
<1>7. \A m \in Node : HasVerified(m) => HasVerified(m)'
  BY <1>5 DEF HasVerified
<1>8. LockStep'
  <2>1. n # Root => Together(phase[Parent[n]], k)
    BY <1>2 DEF Together
  <2>2. \A c \in Children(n) : Together(k, phase[c])
    BY <1>3 DEF Together, IsLeaf
  <2> QED
    BY <1>1, <2>1, <2>2, MoveLockStep, Zenon
<1>9. Announcements' /\ RootAnnouncements' /\ Commitments'
  <2>1. UNCHANGED <<announced, announceChan, commitChan, closing>>
    BY DEF HandleChallengePrepare
  <2>2. phase[n] >= 4 /\ k >= 4
    BY <1>1
  <2>3. n # Root => phase[Parent[n]] # 3
    BY <1>2
  <2> QED
    BY <1>1, <2>1, <2>2, <2>3, EarlyMessages, Zenon
<1>12. Challenges'
  <2>1. ASSUME NEW c \in Node \ {Root}, challengePrepareChan'[c]
        PROVE  phase'[Parent[c]] = 5 /\ phase'[c] = 4
    <3>1. Parent[c] \in Node /\ Parent[c] # c /\ c \in Children(Parent[c])
      BY ChildFacts
    <3>2. challengePrepareChan'[c] =
            IF c \in Children(n) THEN TRUE
            ELSE [challengePrepareChan EXCEPT ![n] = FALSE][c]
      BY DEF HandleChallengePrepare, ToChildren
    <3>3. CASE c \in Children(n)
      <4>1. Parent[c] = n /\ c # n /\ ~IsLeaf(n)
        BY <3>3, ChildFacts DEF IsLeaf
      <4>2. phase'[n] = 5
        BY <1>m, <4>1
      <4>3. phase'[c] = 4
        BY <1>1, <1>3, <3>3, <4>1, Moved, ZenonT(30)
      <4> QED
        BY <4>1, <4>2, <4>3
    <3>4. CASE c \notin Children(n)
      <4>1. c # n /\ challengePrepareChan[c]
        BY <2>1, <3>2, <3>4, Zenon DEF TypeOK
      <4>2. phase[Parent[c]] = 5 /\ phase[c] = 4
        BY <4>1 DEF Challenges
      <4>3. Parent[c] # n
        BY <1>1, <4>2
      <4> QED
        BY <1>1, <3>1, <4>1, <4>2, <4>3, Moved, Zenon
    <3> QED
      BY <3>3, <3>4
  <2>2. ASSUME NEW q \in Node, NEW sig \in challengeCommitChan[q]
        PROVE  /\ sig = RootSig
               /\ phase'[q] = 7
               /\ q # Root => phase'[Parent[q]] = 8
    <3>1. sig = RootSig /\ phase[q] = 7 /\ (q # Root => phase[Parent[q]] = 8)
      BY <2>2 DEF Challenges
    <3>2. phase'[q] = 7
      BY <1>1, <1>m, <3>1
    <3>3. q # Root => Parent[q] \in Node /\ Parent[q] # n
      BY <1>1, <3>1, ChildFacts
    <3>4. q # Root => phase'[Parent[q]] = 8
      BY <1>1, <3>1, <3>3, Moved, ZenonT(30)
    <3> QED
      BY <3>1, <3>2, <3>4
  <2>3. challengeCommitChan' = challengeCommitChan /\ RootSig' = RootSig
    BY <1>6, SameReports DEF HandleChallengePrepare
  <2> QED
    BY <2>1, <2>2, <2>3 DEF Challenges
<1>13. Responses'
  <2>1. responseChan' = responseChan
    BY DEF HandleChallengePrepare
  <2>2. responseChan[n] = {}
    BY <1>1 DEF Responses
  <2>3. n # Root => \A m \in responseChan[Parent[n]] : m.from # n
    BY <1>1, ChildFacts DEF Responses
  <2> QED
    BY <1>1, <1>6, <2>1, <2>2, <2>3, MoveResponses, Zenon
<1>14. Verified'
  <2>1. phase[n] <= k /\ ~(k < 5) /\ ~(k >= 7) /\ ~(k >= 8)
    BY <1>1
  <2>2. k = 6 => \A m \in Below(n) : HasVerified(m)
    BY <1>4
  <2> QED
    BY <1>1, <1>5, <1>7, <2>1, <2>2, MoveVerified, Zenon
<1>15. Stored'
  <2>1. UNCHANGED <<tempPrepareResponse, tempCommitResponse, tempExceptions,
                    signRefusal>>
    BY Zenon DEF HandleChallengePrepare, temps
  <2>2. /\ tempPrepareResponse[n] = {} /\ tempCommitResponse[n] = {}
        /\ tempExceptions[n] = {} /\ signRefusal[n] = FALSE
    BY <1>1 DEF Stored
  <2>3. k < 8 /\ k < 9 /\ ~(k >= 8)
    OBVIOUS
  <2>4. k = 6 => Below(n) \ Refusers = {} /\ Below(n) \cap Refusers = {}
    BY <1>4
  <2>5. UNION {m.resp : m \in tempPrepareResponse[n]} = {}
    BY <2>2
  <2> HIDE DEF k
  <2> QED
    BY <1>1, <1>6, <2>1, <2>2, <2>3, <2>4, <2>5, MoveStored, Zenon
<1>16. Outcome'
  <2>1. signature' = signature
    BY DEF HandleChallengePrepare
  <2>2. phase[n] # 9
    BY <1>1
  <2> HIDE DEF k
  <2> QED
    BY <1>1, <1>6, <2>1, <2>2, MoveOutcome, ZenonT(30)
<1> QED
  BY <1>8, <1>9, <1>12, <1>13, <1>14, <1>15, <1>16

(* handleResponse in the prepare round: the batch is the reports of all    *)
(* children, so the exceptions are the refusers below n.                   *)
LEMMA ResponsePrepareStep ==
    ASSUME IInv, TypeOK', BatchesAreFull, NEW n \in Node, HandleResponsePrepare(n)
    PROVE  IInv'
<1> DEFINE k == 6
<1> USE DEF IInv
<1>0. Cardinality(Children(n)) \in Nat
  BY DEF BatchesAreFull
<1>1. phase[n] = 5
  BY DEF HandleResponsePrepare
<1>2. PICK B \in SUBSET responseChan[n] : HandleResponsePrepare(n)!3!(B)
  BY Zenon DEF HandleResponsePrepare
<1>3. \A m \in responseChan[n] : /\ m.from \in Children(n)
                                 /\ phase[m.from] = 7
                                 /\ m = PrepareReport(m.from)
  BY <1>1 DEF Responses
<1>4. \A c \in Children(n) : \E m \in B : m.from = c
  <2>1. \A m \in B : m.from \in Children(n)
    BY <1>3
  <2>2. \A m1, m2 \in B : m1.from = m2.from => m1 = m2
    BY <1>3
  <2>3. Cardinality(B) = Cardinality(Children(n))
    BY <1>2 DEF IsBatch
  <2> QED
    BY <2>1, <2>2, <2>3 DEF BatchesAreFull
<1>5. \A c \in Children(n) : phase[c] = 7
  BY <1>3, <1>4
<1>6. B = {PrepareReport(c) : c \in Children(n)}
  BY <1>3, <1>4
<1>7. responseChan[n] \ B = {}
  BY <1>3, <1>4
<1>8. tempPrepareResponse[n] \cup {b \in B : b.type = RoundPrepare} = B
  <2>1. tempPrepareResponse[n] = {}
    BY <1>1 DEF Stored
  <2>2. \A b \in B : b.type = RoundPrepare
    BY <1>6 DEF PrepareReport
  <2> QED
    BY <2>1, <2>2
<1>9. k \in 0..9 /\ phase' = [phase EXCEPT ![n] = k]
  <2>1. Cardinality(B) = Cardinality(Children(n))
    BY <1>2 DEF IsBatch
  <2>2. ~(Cardinality(B) < Cardinality(Children(n)))
    BY <1>0, <2>1
  <2>3. phase' = [phase EXCEPT ![n] =
                    IF Cardinality(B) < Cardinality(Children(n)) THEN 7 ELSE 6]
    BY <1>2, <1>8, Zenon
  <2> QED
    BY <2>2, <2>3
<1>k. k = 6
  OBVIOUS
<1> HIDE DEF k
<1>m. phase'[n] = k /\ \A q \in Node : q # n => phase'[q] = phase[q]
  BY <1>9, Moved, Zenon
<1>10. /\ tempPrepareResponse' = [tempPrepareResponse EXCEPT ![n] = B]
       /\ tempExceptions' = [tempExceptions EXCEPT
                               ![n] = @ \cup UNION {b.exc : b \in B}]
       /\ responseChan' = [responseChan EXCEPT ![n] = @ \ B]
  BY <1>2, <1>8, Zenon
<1>11. UNCHANGED <<announced, announceChan, commitChan, challengePrepareChan,
                   challengeCommitChan, verification, tempCommitResponse,
                   signRefusal, closing, signature>>
  BY DEF HandleResponsePrepare
<1>12. Refusers' = Refusers /\ \A m \in Node : HasVerified(m) => HasVerified(m)'
  BY <1>11, SameVotes
<1>13. n # Root => phase[Parent[n]] = 5
  <2>1. n # Root => Together(phase[Parent[n]], 5)
    BY <1>1 DEF LockStep
  <2> QED
    BY <2>1 DEF Together
<1>14. LockStep'
  <2>1. n # Root => Together(phase[Parent[n]], k)
    BY <1>k, <1>13 DEF Together
  <2>2. \A c \in Children(n) : Together(k, phase[c])
    BY <1>k, <1>5 DEF Together
  <2> QED
    BY <1>9, <2>1, <2>2, MoveLockStep, Zenon
<1>15. Announcements' /\ RootAnnouncements' /\ Commitments'
  <2>1. phase[n] >= 4 /\ phase[n] # 4 /\ k >= 4
    BY <1>1, <1>k
  <2> QED
    BY <1>9, <1>11, <2>1, EarlyMessages, Zenon
<1>18. Challenges'
  <2>1. /\ n # Root => ~challengePrepareChan[n]
        /\ challengeCommitChan[n] = {}
    BY <1>1 DEF Challenges
  <2>2. \A c \in Children(n) : ~challengePrepareChan[c] /\ challengeCommitChan[c] = {}
    BY <1>1, <1>5, ChildFacts DEF Challenges
  <2> QED
    BY <1>9, <1>11, <1>12, <2>1, <2>2, MoveChallenges, Zenon
<1>19. Responses'
  <2>a. responseChan \in [Node -> SUBSET Response]
    BY Zenon DEF TypeOK
  <2>b. responseChan'[n] = {}
    BY <1>7, <1>10, <2>a, Zenon
  <2>c. \A p \in Node : p # n => responseChan'[p] = responseChan[p]
    BY <1>10, <2>a, Zenon
  <2> SUFFICES ASSUME NEW q \in Node, NEW m \in responseChan'[q]
               PROVE  /\ m.from \in Children(q)
                      /\ \/ /\ phase'[q] = 5 /\ phase'[m.from] = 7
                            /\ m = PrepareReport(m.from)
                         \/ /\ phase'[q] = 8 /\ phase'[m.from] = 9
                            /\ m = CommitReport(m.from)
    BY <1>12, SameReports DEF Responses
  <2>1. q # n /\ m \in responseChan[q]
    BY <2>b, <2>c, Zenon
  <2>2. m.from \in Children(q) /\ m.from \in Node
    BY <2>1, ChildFacts, Zenon DEF Responses
  <2>3. m.from # n
    BY <1>1, <2>1 DEF Responses
  <2>4. phase'[q] = phase[q] /\ phase'[m.from] = phase[m.from]
    BY <1>m, <2>1, <2>2, <2>3
  <2> QED
    BY <2>1, <2>4 DEF Responses
<1>20. Verified'
  <2>1. \A m \in Below(n) : HasVerified(m)
    <3>1. \A c \in Children(n) : \A m \in Subtree[c] : HasVerified(m)
      BY <1>5, ChildFacts DEF Verified
    <3> QED
      BY <3>1, SubtreeFacts
  <2>2. /\ phase[n] <= k /\ ~(k < 5) /\ ~(k >= 7) /\ ~(k >= 8)
    BY <1>1, <1>k
  <2> QED
    BY <1>9, <1>11, <1>12, <2>1, <2>2, MoveVerified, Zenon
<1>21. Stored'
  <2>1. UNION {m.resp : m \in B} = Below(n) \ Refusers
    BY <1>6, ReportsBelow, Zenon
  <2>2. UNION {m.exc : m \in B} = Below(n) \cap Refusers
    BY <1>6, ReportsBelow, Zenon
  <2>3. /\ tempExceptions[n] = {} /\ tempCommitResponse[n] = {}
        /\ signRefusal[n] = FALSE
    BY <1>1 DEF Stored
  <2>4. /\ tempPrepareResponse'[n] = B
        /\ tempExceptions'[n] = UNION {m.exc : m \in B}
    <3>1. /\ tempPrepareResponse \in [Node -> SUBSET Response]
          /\ tempExceptions \in [Node -> SUBSET Node]
      BY Zenon DEF TypeOK
    <3>2. tempPrepareResponse'[n] = B
      BY <1>10, <3>1, Zenon
    <3>3. tempExceptions'[n] = tempExceptions[n] \cup UNION {m.exc : m \in B}
      BY <1>10, <3>1, Zenon
    <3> QED
      BY <2>3, <3>2, <3>3
  <2>5. \A q \in Node : q # n =>
          /\ tempPrepareResponse'[q] = tempPrepareResponse[q]
          /\ tempCommitResponse'[q] = tempCommitResponse[q]
          /\ tempExceptions'[q] = tempExceptions[q]
          /\ signRefusal'[q] = signRefusal[q]
    BY <1>10, <1>11, Zenon DEF TypeOK
  <2>6. k < 8 /\ k < 9 /\ ~(k < 6) /\ ~(k >= 8)
    BY <1>k
  <2>7. /\ UNION {m.resp : m \in tempPrepareResponse'[n]} = Below(n) \ Refusers
        /\ tempExceptions'[n] = Below(n) \cap Refusers
    BY <2>1, <2>2, <2>4
  <2>8. tempCommitResponse'[n] = {} /\ signRefusal'[n] = FALSE
    BY <1>11, <2>3, ZenonT(30)
  <2> QED
    BY <1>9, <1>12, <2>5, <2>6, <2>7, <2>8, MoveStored, ZenonT(30)
<1>22. Outcome'
  <2>1. phase[n] # 9
    BY <1>1
  <2> QED
    BY <1>9, <1>11, <1>12, <2>1, MoveOutcome, Zenon
<1> QED
  BY <1>14, <1>15, <1>18, <1>19, <1>20, <1>21, <1>22

(* handleResponsePrepare after the verification: n reports its subtree, or *)
(* at the root starts the commit challenge with the whole tree's report.   *)
LEMMA FinishPrepareStep ==
    ASSUME IInv, TypeOK', NEW n \in Node, FinishPrepare(n)
    PROVE  IInv'
<1> DEFINE k == 7
<1> USE DEF IInv
<1>1. phase[n] = 6 /\ k \in 0..9 /\ phase' = [phase EXCEPT ![n] = k]
  BY DEF FinishPrepare
<1>k. k = 7
  OBVIOUS
<1> HIDE DEF k
<1>m. phase'[n] = k /\ \A q \in Node : q # n => phase'[q] = phase[q]
  BY <1>1, Moved, Zenon
<1>2. UNCHANGED <<announced, announceChan, commitChan, challengePrepareChan,
                  verification, tempPrepareResponse, tempCommitResponse,
                  closing, signature>>
  BY DEF FinishPrepare
<1>3. Refusers' = Refusers /\ \A m \in Node : HasVerified(m) => HasVerified(m)'
  BY <1>2, SameVotes, Zenon
<1>4. HasVerified(n)
  BY DEF FinishPrepare, HasVerified
<1>5. n # Root => phase[Parent[n]] = 5
  <2>1. n # Root => Together(phase[Parent[n]], 6)
    BY <1>1 DEF LockStep
  <2> QED
    BY <2>1 DEF Together
<1>6. \A c \in Children(n) : phase[c] = 7
  <2> TAKE c \in Children(n)
  <2>1. c \in Node /\ c # Root /\ Parent[c] = n
    BY ChildFacts
  <2>2. Together(6, phase[c])
    BY <1>1, <2>1 DEF LockStep
  <2> QED
    BY <2>2 DEF Together
<1>7. PrepareResponses(n) = Subtree[n] \ Refusers
  <2>1. UNION {m.resp : m \in tempPrepareResponse[n]} = Below(n) \ Refusers
    BY <1>1 DEF Stored
  <2>2. (IF verification[n] = "accept" THEN {n} ELSE {}) = {n} \ Refusers
    BY <1>4 DEF HasVerified, Refusers
  <2>3. Subtree[n] = Below(n) \cup {n}
    BY SubtreeFacts DEF Below
  <2>4. PrepareResponses(n) = (Below(n) \ Refusers) \cup ({n} \ Refusers)
    BY <2>1, <2>2 DEF PrepareResponses
  <2> QED
    BY <2>3, <2>4
<1>8. PrepareExceptions(n) = Subtree[n] \cap Refusers
  <2>1. tempExceptions[n] = Below(n) \cap Refusers
    BY <1>1 DEF Stored
  <2>2. (IF verification[n] = "refuse" THEN {n} ELSE {}) = {n} \cap Refusers
    BY <1>4 DEF HasVerified, Refusers
  <2>3. Subtree[n] = Below(n) \cup {n}
    BY SubtreeFacts DEF Below
  <2>4. PrepareExceptions(n) = (Below(n) \cap Refusers) \cup ({n} \cap Refusers)
    BY <2>1, <2>2 DEF PrepareExceptions
  <2> QED
    BY <2>3, <2>4
<1>9. n = Root => [resp |-> PrepareResponses(n), exc |-> PrepareExceptions(n)]
                    = RootSig
  <2>1. n = Root => Subtree[n] = Node
    BY TreeAssumption
  <2>2. Refusers \subseteq Node
    BY Zenon DEF Refusers
  <2> QED
    BY <1>7, <1>8, <2>1, <2>2 DEF RootSig
<1>10. [from |-> n, type |-> RoundPrepare, resp |-> PrepareResponses(n),
        exc |-> PrepareExceptions(n)] = PrepareReport(n)
  BY <1>7, <1>8 DEF PrepareReport
<1>11. LockStep'
  <2>1. n # Root => Together(phase[Parent[n]], k)
    BY <1>5, <1>k DEF Together
  <2>2. \A c \in Children(n) : Together(k, phase[c])
    BY <1>6, <1>k DEF Together
  <2> QED
    BY <1>1, <2>1, <2>2, MoveLockStep, Zenon
<1>12. Announcements' /\ RootAnnouncements' /\ Commitments'
  <2>1. phase[n] >= 4 /\ phase[n] # 4 /\ k >= 4
    BY <1>1, <1>k
  <2> QED
    BY <1>1, <1>2, <2>1, EarlyMessages, Zenon
<1>15. Challenges'
  <2>1. ASSUME NEW c \in Node \ {Root}, challengePrepareChan[c]
        PROVE  phase'[Parent[c]] = 5 /\ phase'[c] = 4
    <3>1. phase[Parent[c]] = 5 /\ phase[c] = 4
      BY <2>1 DEF Challenges
    <3>2. Parent[c] \in Node /\ Parent[c] # n /\ c # n
      BY <1>1, <3>1, ChildFacts
    <3> QED
      BY <1>m, <3>1, <3>2
  <2>2. ASSUME NEW q \in Node, NEW sig \in challengeCommitChan'[q]
        PROVE  /\ sig = RootSig
               /\ phase'[q] = 7
               /\ q # Root => phase'[Parent[q]] = 8
    <3>1. \/ challengeCommitChan' = challengeCommitChan
          \/ n = Root /\ challengeCommitChan' =
                           [challengeCommitChan EXCEPT ![n] = {RootSig}]
      BY <1>9 DEF FinishPrepare, IsRoot
    <3>2. \/ sig \in challengeCommitChan[q]
          \/ n = Root /\ q = Root /\ sig = RootSig
      <4>1. challengeCommitChan \in [Node -> SUBSET PrepareSig]
        BY DEF TypeOK
      <4>2. CASE challengeCommitChan' = challengeCommitChan
        BY <2>2, <4>2
      <4>3. CASE n = Root /\ challengeCommitChan' =
                               [challengeCommitChan EXCEPT ![n] = {RootSig}]
        <5>1. q # n => challengeCommitChan'[q] = challengeCommitChan[q]
          BY <4>1, <4>3
        <5>2. q = n => challengeCommitChan'[q] = {RootSig}
          BY <4>1, <4>3
        <5> QED
          BY <2>2, <4>3, <5>1, <5>2
      <4> QED
        BY <3>1, <4>2, <4>3, Zenon
    <3>3. CASE n = Root /\ q = Root /\ sig = RootSig
      BY <1>m, <1>k, <3>3
    <3>4. CASE sig \in challengeCommitChan[q]
      <4>1. sig = RootSig /\ phase[q] = 7 /\ (q # Root => phase[Parent[q]] = 8)
        BY <3>4 DEF Challenges
      <4>2. phase'[q] = 7
        BY <1>1, <1>m, <4>1
      <4>3. q # Root => Parent[q] \in Node /\ Parent[q] # n
        BY <1>1, <4>1, ChildFacts
      <4>4. q # Root => phase'[Parent[q]] = 8
        BY <1>m, <4>1, <4>3
      <4> QED
        BY <4>1, <4>2, <4>4, Zenon
    <3> QED
      BY <3>2, <3>3, <3>4, Zenon
  <2>3. challengePrepareChan' = challengePrepareChan /\ RootSig' = RootSig
    BY <1>2, <1>3, SameReports, Zenon
  <2> QED
    BY <2>1, <2>2, <2>3 DEF Challenges
<1>16. Responses'
  <2> SUFFICES ASSUME NEW q \in Node, NEW m \in responseChan'[q]
               PROVE  /\ m.from \in Children(q)
                      /\ \/ /\ phase'[q] = 5 /\ phase'[m.from] = 7
                            /\ m = PrepareReport(m.from)
                         \/ /\ phase'[q] = 8 /\ phase'[m.from] = 9
                            /\ m = CommitReport(m.from)
    BY <1>3, SameReports DEF Responses
  <2>1. \/ responseChan' = responseChan
        \/ n # Root /\ responseChan' = SendToParent(responseChan, n, PrepareReport(n))
    BY <1>10, Zenon DEF FinishPrepare, IsRoot
  <2>2. \/ m \in responseChan[q]
        \/ n # Root /\ q = Parent[n] /\ m = PrepareReport(n)
    <3>1. DOMAIN responseChan = Node
      BY ChannelDomains, Zenon
    <3> QED
      BY <2>1, <3>1, SentToParent
  <2>3. CASE n # Root /\ q = Parent[n] /\ m = PrepareReport(n)
    <3>1. m.from = n
      BY <2>3 DEF PrepareReport
    <3>2. n \in Children(q) /\ q # n
      BY <2>3, ChildFacts
    <3>3. phase'[q] = 5 /\ phase'[n] = 7
      BY <1>5, <1>m, <1>k, <2>3, <3>2, Zenon
    <3> QED
      BY <2>3, <3>1, <3>2, <3>3, Zenon
  <2>4. CASE m \in responseChan[q]
    <3>1. m.from \in Children(q) /\ m.from \in Node
      BY <2>4, ChildFacts DEF Responses
    <3>2. m.from # n /\ q # n
      BY <1>1, <2>4 DEF Responses
    <3>3. phase'[q] = phase[q] /\ phase'[m.from] = phase[m.from]
      BY <1>m, <3>1, <3>2
    <3> QED
      BY <2>4, <3>3 DEF Responses
  <2> QED
    BY <2>2, <2>3, <2>4, Zenon
<1>17. Verified'
  <2>1. \A m \in Subtree[n] : HasVerified(m)
    <3>1. \A m \in Below(n) : HasVerified(m)
      BY <1>1 DEF Verified
    <3> QED
      BY <1>4, <3>1 DEF Below
  <2>2. phase[n] <= k /\ ~(k < 5) /\ k # 6 /\ ~(k >= 8)
    BY <1>1, <1>k
  <2> QED
    BY <1>1, <1>2, <1>3, <2>1, <2>2, MoveVerified, Zenon
<1>18. Stored'
  <2>1. tempCommitResponse[n] = {} /\ signRefusal[n] = FALSE
    BY <1>1 DEF Stored
  <2>2. Verify(RootSig)
    <3>1. Refusers \subseteq Node
      BY DEF Refusers
    <3> QED
      BY <3>1 DEF Verify, RootSig
  <2>3. signRefusal' = signRefusal
    <3>1. CASE n = Root
      <4>1. signRefusal' = [signRefusal EXCEPT ![n] = @ \/ ~Verify(RootSig)]
        BY <1>9, <3>1 DEF FinishPrepare, IsRoot
      <4>2. signRefusal' = [signRefusal EXCEPT ![n] = FALSE]
        BY <2>1, <2>2, <4>1, Zenon
      <4>3. signRefusal \in [Node -> BOOLEAN]
        BY Zenon DEF TypeOK
      <4> QED
        BY <2>1, <4>2, <4>3, Zenon
    <3>2. CASE n # Root
      BY <3>2, Zenon DEF FinishPrepare, IsRoot
    <3> QED
      BY <3>1, <3>2, Zenon
  <2>4. \A q \in Node : q # n =>
          /\ tempPrepareResponse'[q] = tempPrepareResponse[q]
          /\ tempCommitResponse'[q] = tempCommitResponse[q]
          /\ tempExceptions'[q] = tempExceptions[q]
          /\ signRefusal'[q] = signRefusal[q]
    <3>1. \A q \in Node : q # n => tempExceptions'[q] = tempExceptions[q]
      BY DEF FinishPrepare, TypeOK
    <3> QED
      BY <1>2, <2>3, <3>1, Zenon
  <2>5. tempCommitResponse'[n] = {} /\ signRefusal'[n] = FALSE
    BY <1>2, <2>1, <2>3
  <2>6. ~(k < 6) /\ k # 6 /\ ~(k >= 8)
    BY <1>k
  <2> QED
    BY <1>1, <1>3, <2>4, <2>5, <2>6, MoveStored, Zenon
<1>19. Outcome'
  <2>1. phase[n] # 9
    BY <1>1
  <2> QED
    BY <1>1, <1>2, <1>3, <2>1, MoveOutcome, Zenon
<1> QED
  BY <1>11, <1>12, <1>15, <1>16, <1>17, <1>18, <1>19, Zenon

(* handleChallengeCommit: n refuses exactly when too many nodes refused.   *)
LEMMA ChallengeCommitStep ==
    ASSUME IInv, TypeOK', NEW n \in Node, HandleChallengeCommit(n)
    PROVE  IInv'
<1> DEFINE k == IF IsLeaf(n) THEN 9 ELSE 8
<1> USE DEF IInv
<1>1. PICK sig \in challengeCommitChan[n] : HandleChallengeCommit(n)!3!(sig)
  BY Zenon DEF HandleChallengeCommit
<1>2. phase[n] = 7 /\ k \in 0..9 /\ phase' = [phase EXCEPT ![n] = k]
  <2>1. phase[n] = 7
    BY Zenon DEF HandleChallengeCommit
  <2>2. phase' = [phase EXCEPT ![n] = k]
    BY <1>1
  <2> QED
    BY <2>1, <2>2
<1>k. /\ IsLeaf(n) => k = 9
      /\ ~IsLeaf(n) => k = 8
      /\ k = 8 \/ k = 9
  OBVIOUS
<1> HIDE DEF k
<1>m. phase'[n] = k /\ \A q \in Node : q # n => phase'[q] = phase[q]
  BY <1>2, Moved, Zenon
<1>3. sig = RootSig /\ (n # Root => phase[Parent[n]] = 8)
  BY DEF Challenges
<1>4. Refuses(n, sig) = TooMany
  <2>1. signRefusal[n] = FALSE
    BY <1>2 DEF Stored
  <2>2. Refusers \subseteq Node
    BY Zenon DEF Refusers
  <2>3. Verify(RootSig)
    BY <2>2 DEF Verify, RootSig
  <2>4. RootSig.exc = Refusers
    BY DEF RootSig
  <2>5. ~signRefusal[n] /\ Verify(sig) /\ sig.exc = Refusers
    BY <1>3, <2>1, <2>3, <2>4
  <2>6. Refuses(n, sig) <=> TooMany
    BY <2>5 DEF Refuses, TooMany
  <2>7. Refuses(n, sig) \in BOOLEAN /\ TooMany \in BOOLEAN
    BY DEF Refuses, TooMany
  <2> QED
    BY <2>6, <2>7
<1>5. UNCHANGED <<announced, announceChan, commitChan, challengePrepareChan,
                  verification, tempPrepareResponse, tempCommitResponse,
                  signature>>
  BY DEF HandleChallengeCommit
<1>6. Refusers' = Refusers /\ \A m \in Node : HasVerified(m) => HasVerified(m)'
  BY <1>5, SameVotes
<1>7. \A c \in Children(n) : phase[c] = 7
  <2> TAKE c \in Children(n)
  <2>1. c \in Node /\ c # Root /\ Parent[c] = n
    BY ChildFacts, Zenon
  <2>2. Together(7, phase[c])
    BY <1>2, <2>1, Zenon DEF LockStep
  <2> QED
    BY <2>2 DEF Together
<1>8. IsLeaf(n) => CommitResponse(n, TooMany, {}) = CommitReport(n)
  <2> SUFFICES ASSUME IsLeaf(n)
               PROVE  CommitResponse(n, TooMany, {}) = CommitReport(n)
    OBVIOUS
  <2>1. Below(n) = {} /\ n \in Subtree[n]
    BY SubtreeFacts DEF IsLeaf
  <2>2. Subtree[n] = {n}
    BY <2>1 DEF Below
  <2>3. (UNION {m.resp : m \in {}}) \cup (IF TooMany THEN {} ELSE {n})
          = IF TooMany THEN {} ELSE Subtree[n]
    BY <2>2
  <2> QED
    BY <2>3 DEF CommitResponse, CommitReport
<1>9. LockStep'
  <2>1. n # Root => Together(phase[Parent[n]], k)
    BY <1>3, <1>k DEF Together
  <2>2. \A c \in Children(n) : Together(k, phase[c])
    BY <1>7, <1>k DEF Together, IsLeaf
  <2> QED
    BY <1>2, <2>1, <2>2, MoveLockStep, Zenon
<1>10. Announcements' /\ RootAnnouncements' /\ Commitments'
  <2>0. phase[n] = 7
    BY <1>2, Zenon
  <2>1. phase[n] >= 4 /\ phase[n] # 4 /\ k >= 4
    BY <1>k, <2>0
  <2>2. closing[Root] => closing'[Root]
    <3>1. closing' = [closing EXCEPT ![n] = TRUE] \/ closing' = closing
      BY <1>1
    <3> QED
      BY <3>1, TreeTypes, ZenonT(30) DEF TypeOK
  <2> QED
    BY <1>2, <1>5, <2>1, <2>2, EarlyMessages, Zenon
<1>13. Challenges'
  <2>1. ASSUME NEW c \in Node \ {Root}, challengePrepareChan[c]
        PROVE  phase'[Parent[c]] = 5 /\ phase'[c] = 4
    <3>1. phase[Parent[c]] = 5 /\ phase[c] = 4
      BY <2>1 DEF Challenges
    <3>2. Parent[c] \in Node /\ Parent[c] # n /\ c # n
      BY <1>2, <3>1, ChildFacts
    <3> QED
      BY <1>m, <3>1, <3>2
  <2>2. ASSUME NEW q \in Node, NEW s \in challengeCommitChan'[q]
        PROVE  /\ s = RootSig
               /\ phase'[q] = 7
               /\ q # Root => phase'[Parent[q]] = 8
    <3>1. challengeCommitChan'[q] =
            IF q \in Children(n) THEN {sig}
            ELSE [challengeCommitChan EXCEPT ![n] = {}][q]
      BY <1>1 DEF ToChildren
    <3>2. CASE q \in Children(n)
      <4>1. q # n /\ Parent[q] = n /\ ~IsLeaf(n)
        BY <3>2, ChildFacts DEF IsLeaf
      <4>2. phase'[q] = 7 /\ phase'[n] = 8
        BY <1>7, <1>m, <1>k, <3>2, <4>1
      <4>3. s = RootSig
        BY <1>3, <2>2, <3>1, <3>2
      <4> QED
        BY <4>1, <4>2, <4>3
    <3>3. CASE q \notin Children(n)
      <4>1. q # n /\ s \in challengeCommitChan[q]
        BY <2>2, <3>1, <3>3, Zenon DEF TypeOK
      <4>2. s = RootSig /\ phase[q] = 7 /\ (q # Root => phase[Parent[q]] = 8)
        BY <4>1, Zenon DEF Challenges
      <4>3. q # Root => Parent[q] \in Node /\ Parent[q] # n
        BY <3>3, ChildFacts
      <4>4. q # Root => phase'[Parent[q]] = 8
        BY <1>m, <4>2, <4>3
      <4> QED
        BY <1>m, <4>1, <4>2, <4>4
    <3> QED
      BY <3>2, <3>3
  <2>3. challengePrepareChan' = challengePrepareChan /\ RootSig' = RootSig
    BY <1>5, <1>6, SameReports, Zenon
  <2> QED
    BY <2>1, <2>2, <2>3 DEF Challenges
<1>14. Responses'
  <2> SUFFICES ASSUME NEW q \in Node, NEW m \in responseChan'[q]
               PROVE  /\ m.from \in Children(q)
                      /\ \/ /\ phase'[q] = 5 /\ phase'[m.from] = 7
                            /\ m = PrepareReport(m.from)
                         \/ /\ phase'[q] = 8 /\ phase'[m.from] = 9
                            /\ m = CommitReport(m.from)
    BY <1>6, SameReports DEF Responses
  <2>0. IsLeaf(n) => n # Root
    BY RootHasChild, Zenon
  <2>1. \/ responseChan' = responseChan
        \/ /\ n # Root /\ IsLeaf(n)
           /\ responseChan' = SendToParent(responseChan, n, CommitReport(n))
    BY <1>1, <1>4, <1>8, <2>0, Zenon
  <2>2. \/ m \in responseChan[q]
        \/ n # Root /\ IsLeaf(n) /\ q = Parent[n] /\ m = CommitReport(n)
    <3>1. DOMAIN responseChan = Node
      BY ChannelDomains, Zenon
    <3> QED
      BY <2>1, <3>1, SentToParent
  <2>3. CASE n # Root /\ IsLeaf(n) /\ q = Parent[n] /\ m = CommitReport(n)
    <3>1. m.from = n
      BY <2>3, Zenon DEF CommitReport
    <3>2. n \in Children(q) /\ q # n
      BY <2>3, ChildFacts
    <3>3. phase'[q] = 8 /\ phase'[n] = 9
      BY <1>3, <1>m, <1>k, <2>3, <3>2
    <3> QED
      BY <2>3, <3>1, <3>2, <3>3
  <2>4. CASE m \in responseChan[q]
    <3>1. m.from \in Children(q) /\ m.from \in Node /\ m.from # Root
          /\ Parent[m.from] = q
      BY <2>4, ChildFacts, Zenon DEF Responses
    <3>2. m.from # n /\ q # n
      BY <1>2, <1>3, <2>4, <3>1 DEF Responses
    <3>3. phase'[q] = phase[q] /\ phase'[m.from] = phase[m.from]
      BY <1>m, <3>1, <3>2
    <3> QED
      BY <2>4, <3>3, Zenon DEF Responses
  <2> QED
    BY <2>2, <2>3, <2>4, Zenon
<1>15. Verified'
  <2>1. \A m \in Subtree[n] : HasVerified(m)
    <3>1. phase[n] = 7
      BY <1>2, Zenon
    <3> QED
      BY <3>1 DEF Verified
  <2>2. n = Root \/ phase[Root] >= 8
    <3>1. n # Root => Parent[n] \in Node /\ phase[Parent[n]] >= 8
      BY <1>3, ChildFacts
    <3> QED
      BY <3>1 DEF Verified
  <2>3. phase[n] <= k /\ ~(k < 5) /\ k # 6
    BY <1>2, <1>k
  <2> QED
    BY <1>2, <1>5, <1>6, <2>1, <2>2, <2>3, MoveVerified, Zenon
<1>16. Stored'
  <2>1. tempCommitResponse[n] = {}
    BY <1>2 DEF Stored
  <2>2. /\ signRefusal' = [signRefusal EXCEPT ![n] = TooMany]
        /\ tempExceptions' = [tempExceptions EXCEPT ![n] = Refusers]
    BY <1>1, <1>3, <1>4, ZenonT(30) DEF RootSig
  <2>3. signRefusal'[n] = TooMany /\ tempExceptions'[n] = Refusers
    BY <2>2, Zenon DEF TypeOK
  <2>4. \A q \in Node : q # n =>
          /\ tempPrepareResponse'[q] = tempPrepareResponse[q]
          /\ tempCommitResponse'[q] = tempCommitResponse[q]
          /\ tempExceptions'[q] = tempExceptions[q]
          /\ signRefusal'[q] = signRefusal[q]
    BY <1>5, <2>2 DEF TypeOK
  <2>5. tempCommitResponse'[n] = {}
    BY <1>5, <2>1
  <2>6. ~(k < 6) /\ k # 6 /\ ~(k < 8)
    BY <1>k
  <2> QED
    BY <1>2, <1>6, <2>3, <2>4, <2>5, <2>6, MoveStored, Zenon
<1>17. Outcome'
  <2>1. phase[n] # 9
    BY <1>2
  <2> QED
    BY <1>2, <1>5, <1>6, <2>1, MoveOutcome, Zenon
<1> QED
  BY <1>9, <1>10, <1>13, <1>14, <1>15, <1>16, <1>17, Zenon

(* handleResponse in the commit round: with the reports of all children n  *)
(* is done; at the root this makes the signature.                          *)
LEMMA ResponseCommitStep ==
    ASSUME IInv, TypeOK', BatchesAreFull, NEW n \in Node, HandleResponseCommit(n)
    PROVE  IInv'
<1> DEFINE k == 9
           mine == CommitResponse(n, signRefusal[n], {CommitReport(c) : c \in Children(n)})
<1> USE DEF IInv
<1>0. Cardinality(Children(n)) \in Nat
  BY DEF BatchesAreFull
<1>r. Subtree[Root] = Node
  BY TreeAssumption, Zenon
<1>1. phase[n] = 8 /\ k \in 0..9 /\ phase' = [phase EXCEPT ![n] = k]
  BY DEF HandleResponseCommit
<1>k. k = 9
  OBVIOUS
<1> HIDE DEF k
<1>m. phase'[n] = k /\ \A q \in Node : q # n => phase'[q] = phase[q]
  BY <1>1, Moved, ZenonT(30)
<1>2. PICK B \in SUBSET responseChan[n] : HandleResponseCommit(n)!3!(B)
  BY Zenon DEF HandleResponseCommit
<1>3. \A m \in responseChan[n] : /\ m.from \in Children(n)
                                 /\ phase[m.from] = 9
                                 /\ m = CommitReport(m.from)
  BY <1>1 DEF Responses
<1>4. Cardinality(B) = Cardinality(Children(n))
  BY <1>2 DEF IsBatch
<1>5. \A c \in Children(n) : \E m \in B : m.from = c
  <2>1. \A m \in B : m.from \in Children(n)
    BY <1>3
  <2>2. \A m1, m2 \in B : m1.from = m2.from => m1 = m2
    BY <1>3
  <2> QED
    BY <1>4, <2>1, <2>2, Zenon DEF BatchesAreFull
<1>6. \A c \in Children(n) : phase[c] = 9
  BY <1>3, <1>5
<1>7. B = {CommitReport(c) : c \in Children(n)}
  BY <1>3, <1>5
<1>8. responseChan[n] \ B = {}
  BY <1>3, <1>5
<1>9. tempCommitResponse[n] \cup {b \in B : b.type = RoundCommit} = B
  <2>1. tempCommitResponse[n] = {}
    BY <1>1 DEF Stored
  <2>2. \A b \in B : b.type = RoundCommit
    BY <1>7 DEF CommitReport
  <2> QED
    BY <2>1, <2>2
<1>10. ~(Cardinality(B) < Cardinality(Children(n)))
  BY <1>0, <1>4
<1>11. LET rest == [responseChan EXCEPT ![n] = @ \ B] IN
       /\ tempCommitResponse' = [tempCommitResponse EXCEPT ![n] = B]
       /\ closing' = [closing EXCEPT ![n] = TRUE]
       /\ responseChan' = IF n = Root THEN rest ELSE SendToParent(rest, n, mine)
       /\ signature' = IF n = Root THEN Signature(mine.resp) ELSE signature
  BY <1>2, <1>7, <1>9, <1>10, Zenon DEF IsRoot
<1>12. UNCHANGED <<announced, announceChan, commitChan, challengePrepareChan,
                   challengeCommitChan, verification, tempPrepareResponse,
                   tempExceptions, signRefusal>>
  BY Zenon DEF HandleResponseCommit
<1>13. Refusers' = Refusers /\ \A m \in Node : HasVerified(m) => HasVerified(m)'
  BY <1>12, SameVotes
<1>14. n # Root => phase[Parent[n]] = 8
  <2>1. n # Root => Together(phase[Parent[n]], 8)
    BY <1>1, Zenon DEF LockStep
  <2> QED
    BY <2>1 DEF Together
<1>15. signRefusal[n] = TooMany /\ tempExceptions[n] = Refusers
  BY <1>1 DEF Stored
<1>16. mine = CommitReport(n)
  <2>1. Subtree[n] = {n} \cup UNION {Subtree[c] : c \in Children(n)}
    BY SubtreeFacts DEF Below
  <2>2. \A c : CommitReport(c).resp = IF TooMany THEN {} ELSE Subtree[c]
    BY DEF CommitReport
  <2> DEFINE C == {CommitReport(c) : c \in Children(n)}
  <2>3. {m.resp : m \in C} = {CommitReport(c).resp : c \in Children(n)}
    OBVIOUS
  <2>4. (UNION {m.resp : m \in C}) \cup (IF TooMany THEN {} ELSE {n})
          = IF TooMany THEN {} ELSE Subtree[n]
    <3>1. CASE TooMany
      BY <2>2, <2>3, <3>1
    <3>2. CASE ~TooMany
      <4>1. {m.resp : m \in C} = {Subtree[c] : c \in Children(n)}
        BY <2>2, <2>3, <3>2
      <4> HIDE DEF C
      <4> QED
        BY <2>1, <3>2, <4>1, Zenon
    <3> QED
      BY <3>1, <3>2
  <2> QED
    BY <1>15, <2>4, Zenon DEF CommitResponse, CommitReport
<1> HIDE DEF mine
<1>17. LockStep'
  <2>1. n # Root => Together(phase[Parent[n]], k)
    BY <1>14, <1>k DEF Together
  <2>2. \A c \in Children(n) : Together(k, phase[c])
    BY <1>6, <1>k DEF Together
  <2> QED
    BY <1>1, <2>1, <2>2, MoveLockStep, Zenon
<1>18. Announcements' /\ RootAnnouncements' /\ Commitments'
  <2>1. phase[n] >= 4 /\ phase[n] # 4 /\ k >= 4
    BY <1>1, <1>k
  <2>2. closing[Root] => closing'[Root]
    BY <1>11, TreeTypes, ZenonT(30) DEF TypeOK
  <2> QED
    BY <1>1, <1>12, <2>1, <2>2, EarlyMessages, ZenonT(30)
<1>21. Challenges'
  <2>1. /\ n # Root => ~challengePrepareChan[n]
        /\ challengeCommitChan[n] = {}
    BY <1>1 DEF Challenges
  <2>2. \A c \in Children(n) : ~challengePrepareChan[c] /\ challengeCommitChan[c] = {}
    BY <1>6, ChildFacts DEF Challenges
  <2> QED
    BY <1>1, <1>12, <1>13, <2>1, <2>2, MoveChallenges, Zenon
<1>22. Responses'
  <2> SUFFICES ASSUME NEW q \in Node, NEW m \in responseChan'[q]
               PROVE  /\ m.from \in Children(q)
                      /\ \/ /\ phase'[q] = 5 /\ phase'[m.from] = 7
                            /\ m = PrepareReport(m.from)
                         \/ /\ phase'[q] = 8 /\ phase'[m.from] = 9
                            /\ m = CommitReport(m.from)
    <3>1. \A c : PrepareReport(c)' = PrepareReport(c) /\ CommitReport(c)' = CommitReport(c)
      BY <1>13, SameReports, Zenon
    <3> QED
      BY <3>1, Zenon DEF Responses
  <2> DEFINE rest == [responseChan EXCEPT ![n] = @ \ B]
  <2>1. rest[n] = {} /\ \A x \in Node : x # n => rest[x] = responseChan[x]
    BY <1>8, Zenon DEF TypeOK
  <2>2. rest \in [Node -> SUBSET Response]
    BY DEF TypeOK
  <2>3. responseChan' = IF n = Root THEN rest ELSE SendToParent(rest, n, CommitReport(n))
    BY <1>11, <1>16
  <2> HIDE DEF rest
  <2>4. \/ m \in rest[q]
        \/ n # Root /\ q = Parent[n] /\ m = CommitReport(n)
    <3>1. DOMAIN rest = Node
      BY <2>2, Zenon
    <3> QED
      BY <2>3, <3>1, SentToParent
  <2>5. CASE n # Root /\ q = Parent[n] /\ m = CommitReport(n)
    <3>1. m.from = n
      BY <2>5, Zenon DEF CommitReport
    <3>2. n \in Children(q) /\ q # n
      BY <2>5, ChildFacts
    <3>3. phase'[q] = 8 /\ phase'[n] = 9
      BY <1>14, <1>m, <1>k, <2>5, <3>2, Zenon
    <3> QED
      BY <2>5, <3>1, <3>2, <3>3, Zenon
  <2>6. CASE m \in rest[q]
    <3>1. q # n /\ m \in responseChan[q]
      BY <2>1, <2>6
    <3>2. m.from \in Children(q) /\ m.from \in Node
      BY <3>1, ChildFacts, Zenon DEF Responses
    <3>3. m.from # n
      BY <1>1, <3>1 DEF Responses
    <3>4. phase'[q] = phase[q] /\ phase'[m.from] = phase[m.from]
      BY <1>m, <3>1, <3>2, <3>3
    <3> QED
      BY <3>1, <3>4 DEF Responses
  <2> QED
    BY <2>4, <2>5, <2>6, Zenon
<1>23. Verified'
  <2>1. (\A m \in Subtree[n] : HasVerified(m)) /\ phase[Root] >= 8
    BY <1>1 DEF Verified
  <2>2. phase[n] <= k /\ ~(k < 5) /\ k # 6
    BY <1>1, <1>k
  <2> QED
    BY <1>1, <1>12, <1>13, <2>1, <2>2, MoveVerified, Zenon
<1>24. Stored'
  <2>1. \A q \in Node : q # n =>
          /\ tempPrepareResponse'[q] = tempPrepareResponse[q]
          /\ tempCommitResponse'[q] = tempCommitResponse[q]
          /\ tempExceptions'[q] = tempExceptions[q]
          /\ signRefusal'[q] = signRefusal[q]
    BY <1>11, <1>12, Zenon DEF TypeOK
  <2>2. signRefusal'[n] = TooMany /\ tempExceptions'[n] = Refusers
    BY <1>12, <1>15
  <2>3. ~(k < 6) /\ k # 6 /\ ~(k < 8) /\ ~(k < 9)
    BY <1>k
  <2> QED
    BY <1>1, <1>13, <2>1, <2>2, <2>3, MoveStored, Zenon
<1>25. Outcome'
  <2>1. CASE n # Root
    <3>1. signature' = signature /\ phase[n] # 9
      BY <1>1, <1>11, <2>1
    <3> QED
      BY <1>1, <1>13, <3>1, MoveOutcome, Zenon
  <2>2. CASE n = Root
    <3>1. signature' = Signature(CommitReport(Root).resp)
      BY <1>11, <1>16, <2>2
    <3>2. CommitReport(Root).resp = IF TooMany THEN {} ELSE Node
      BY <1>r DEF CommitReport
    <3>3. /\ signature'.made = TRUE
          /\ signature'.sig = IF TooMany THEN {} ELSE Node
          /\ signature'.exceptions = IF TooMany THEN Refusers ELSE {}
      BY <1>15, <2>2, <3>1, <3>2 DEF Signature
    <3>4. phase'[Root] = 9
      BY <1>m, <1>k, <2>2
    <3> QED
      BY <1>13, <3>3, <3>4, SameReports DEF Outcome
  <2> QED
    BY <2>1, <2>2
<1> QED
  BY <1>17, <1>18, <1>21, <1>22, <1>23, <1>24, <1>25, Zenon

(* A verification that is still running belongs to a node whose subtree    *)
(* has not reported, so its result can change no message under way.        *)
LEMMA VerificationStep ==
    ASSUME IInv, TypeOK', NEW n \in Node, VerificationDone(n)
    PROVE  IInv'
<1> USE DEF IInv
<1>0. Root \in Node /\ Subtree[Root] = Node
  BY TreeTypes, TreeAssumption
<1>1. /\ UNCHANGED <<announced, phase, announceChan, commitChan,
                     challengePrepareChan, challengeCommitChan, responseChan,
                     tempPrepareResponse, tempCommitResponse, tempExceptions,
                     signRefusal, closing, signature>>
      /\ verification[n] = "running"
  BY Zenon DEF VerificationDone, chans, temps
<1>2. /\ \A q \in Node : q # n => verification'[q] = verification[q]
      /\ verification'[n] \in {"accept", "refuse"}
  BY Zenon DEF VerificationDone, TypeOK
<1>3. ~HasVerified(n) /\ verification[n] # "none"
  BY <1>1 DEF HasVerified
<1>4. \A q \in Node : HasVerified(q) => HasVerified(q)'
  BY <1>2 DEF HasVerified
<1>5. \A q \in Node : n \in Subtree[q] => ~(phase[q] >= 7)
  BY <1>3 DEF Verified
<1>6. \A q \in Node : phase[q] = 6 => n \notin Below(q)
  BY <1>3 DEF Verified
<1>7. ~(phase[n] < 5)
  BY <1>3 DEF Verified
<1>8. \A S : n \notin S => S \cap Refusers' = S \cap Refusers /\ S \ Refusers' = S \ Refusers
  <2>1. \A q : q # n => (q \in Refusers' <=> q \in Refusers)
    BY <1>2 DEF Refusers
  <2> QED
    BY <2>1
<1>9. ~(phase[Root] >= 7)
  BY <1>0, <1>5
<1>10. \A q \in Node : ~(phase[q] >= 8)
  <2>1. \A q \in Node : phase[q] >= 8 => phase[Root] >= 8
    BY DEF Verified
  <2>2. phase[Root] \in 0..9
    BY <1>0, Zenon DEF TypeOK
  <2> QED
    BY <1>9, <2>1, <2>2
<1>11. \A q \in Node : challengeCommitChan[q] = {}
  <2> SUFFICES ASSUME NEW q \in Node, NEW sig \in challengeCommitChan[q]
               PROVE  FALSE
    OBVIOUS
  <2>1. phase[q] = 7 /\ (q # Root => phase[Parent[q]] = 8)
    BY DEF Challenges
  <2>2. q # Root => Parent[q] \in Node
    BY ChildFacts
  <2> QED
    BY <1>9, <1>10, <2>1, <2>2
<1>12. LockStep' /\ Announcements' /\ RootAnnouncements' /\ Commitments'
  BY <1>1, ZenonT(30) DEF LockStep, Announcements, RootAnnouncements, Commitments
<1>13. Challenges'
  BY <1>1, <1>11, Zenon DEF Challenges
<1>14. Responses'
  <2> SUFFICES ASSUME NEW q \in Node, NEW m \in responseChan[q]
               PROVE  /\ m.from \in Children(q)
                      /\ phase[q] = 5 /\ phase[m.from] = 7
                      /\ m = PrepareReport(m.from)'
    BY <1>1 DEF Responses
  <2>1. m.from \in Children(q) /\ m.from \in Node
    BY ChildFacts DEF Responses
  <2>2. phase[q] = 5 /\ phase[m.from] = 7 /\ m = PrepareReport(m.from)
    BY <1>10 DEF Responses
  <2>3. n \notin Subtree[m.from]
    BY <1>5, <2>1, <2>2
  <2>4. PrepareReport(m.from)' = PrepareReport(m.from)
    BY <1>8, <2>3, Zenon DEF PrepareReport
  <2> QED
    BY <2>1, <2>2, <2>4, Zenon
<1>15. Verified'
  <2> SUFFICES ASSUME NEW q \in Node
               PROVE  /\ phase[q] < 5 => verification'[q] = "none"
                      /\ phase[q] = 6 => \A m \in Below(q) : HasVerified(m)'
                      /\ phase[q] >= 7 => \A m \in Subtree[q] : HasVerified(m)'
                      /\ phase[q] >= 8 => phase[Root] >= 8
    BY <1>1 DEF Verified
  <2>1. phase[q] < 5 => verification'[q] = "none"
    BY <1>2, <1>7, Zenon DEF Verified
  <2>2. Subtree[q] \subseteq Node
    BY SubtreeFacts
  <2>3. phase[q] = 6 => \A m \in Below(q) : HasVerified(m)'
    BY <1>4, <2>2, Zenon DEF Verified, Below
  <2>4. phase[q] >= 7 => \A m \in Subtree[q] : HasVerified(m)'
    BY <1>4, <2>2, Zenon DEF Verified
  <2> QED
    BY <2>1, <2>3, <2>4, <1>10, Zenon
<1>16. Stored'
  <2> SUFFICES ASSUME NEW q \in Node
               PROVE  /\ phase[q] < 6 => tempPrepareResponse[q] = {}
                      /\ phase[q] = 6 =>
                           UNION {m.resp : m \in tempPrepareResponse[q]}
                             = Below(q) \ Refusers'
                      /\ phase[q] < 9 => tempCommitResponse[q] = {}
                      /\ phase[q] < 6 => tempExceptions[q] = {}
                      /\ phase[q] = 6 => tempExceptions[q] = Below(q) \cap Refusers'
                      /\ phase[q] < 8 => signRefusal[q] = FALSE
    BY <1>1, <1>10, Zenon DEF Stored
  <2>1. phase[q] = 6 => Below(q) \ Refusers' = Below(q) \ Refusers
    BY <1>6, <1>8
  <2>2. phase[q] = 6 => Below(q) \cap Refusers' = Below(q) \cap Refusers
    BY <1>6, <1>8, Zenon
  <2> QED
    BY <2>1, <2>2 DEF Stored
<1>17. Outcome'
  <2>1. ~signature.made
    BY <1>9 DEF Outcome
  <2> QED
    BY <1>1, <2>1 DEF Outcome
<1> QED
  BY <1>12, <1>13, <1>14, <1>15, <1>16, <1>17, Zenon

-----------------------------------------------------------------------------
(* The instances as NewBFTCoSiProtocol makes them satisfy the invariant. *)
LEMMA InitialInv == Init => IInv
<1> SUFFICES ASSUME Init PROVE IInv
  OBVIOUS
<1>0. Root \in Node /\ \A n \in Node : n # Root => Parent[n] \in Node
  BY TreeTypes, Zenon
<1>1. TypeOK
  BY TreeAssumption DEF Init, TypeOK, RoundType
<1>2. LockStep
  BY <1>0, Zenon DEF Init, LockStep, Together
<1>3. Announcements
  BY Zenon DEF Init, Announcements
<1>4. RootAnnouncements
  <2>1. announced = 0 /\ phase[Root] = 0 /\ announceChan[Root] = <<>>
    BY <1>0, Zenon DEF Init
  <2> QED
    BY <2>1 DEF RootAnnouncements
<1>5. Commitments
  BY Zenon DEF Init, Commitments
<1>6. Challenges
  BY Zenon DEF Init, Challenges
<1>7. Responses
  BY Zenon DEF Init, Responses
<1>8. Verified
  <2>1. \A n \in Node : phase[n] = 0 /\ verification[n] = "none"
    BY Zenon DEF Init
  <2> QED
    BY <2>1 DEF Verified
<1>9. Stored
  <2>1. \A n \in Node :
           /\ phase[n] = 0 /\ signRefusal[n] = FALSE
           /\ tempPrepareResponse[n] = {} /\ tempCommitResponse[n] = {}
           /\ tempExceptions[n] = {}
    BY Zenon DEF Init
  <2> QED
    BY <2>1 DEF Stored
<1>10. Outcome
  BY DEF Init, Outcome
<1> QED
  BY <1>1, <1>2, <1>3, <1>4, <1>5, <1>6, <1>7, <1>8, <1>9, <1>10, Zenon DEF IInv

(* Every step of every handler keeps the invariant. *)
LEMMA InvStep ==
    ASSUME BatchesAreFull, IInv, [Next]_vars
    PROVE  IInv'
<1>1. TypeOK'
  BY TypeStep DEF IInv
<1>2. CASE Start
  BY <1>1, <1>2, StartStep
<1>3. CASE StartCommitRound
  BY <1>1, <1>3, StartCommitRoundStep, Zenon
<1>4. ASSUME NEW n \in Node, Dispatch(n) PROVE IInv'
  BY <1>1, <1>4, AnnouncementStep, CommitmentStep, ChallengePrepareStep,
     ResponsePrepareStep, FinishPrepareStep, ChallengeCommitStep,
     ResponseCommitStep, Zenon DEF Dispatch
<1>5. ASSUME NEW n \in Node, VerificationDone(n) PROVE IInv'
  BY <1>1, <1>5, VerificationStep
<1>6. ASSUME NEW n \in Node, Shutdown(n) PROVE IInv'
  BY <1>1, <1>6, ShutdownStep
<1>7. CASE ShutdownInChallenge
  BY <1>1, <1>7, ShutdownStep, TreeTypes, Zenon
<1>8. CASE UNCHANGED vars
  BY <1>8, StutterStep
<1> QED
  BY <1>2, <1>3, <1>4, <1>5, <1>6, <1>7, <1>8, Zenon DEF Next

-----------------------------------------------------------------------------
(* BFTCoSi implements CollectiveSigning. *)

(* The sets of nodes are counted with numbers. *)
NodesCounted == \A S \in SUBSET Node : Cardinality(S) \in Nat

(* The votes of the promise are the results of VerificationFunction. *)
LEMMA PromiseRefusers ==
    ASSUME NodesCounted
    PROVE  /\ Promise!Refusers = Refusers
           /\ Promise!Threshold = Threshold
           /\ Cardinality(Refusers) \in Nat /\ Threshold \in Nat
           /\ ~TooMany <=> Cardinality(Refusers) < Threshold
<1>1. Promise!Refusers = Refusers
  BY DEF Promise!Refusers, Refusers
<1>2. Promise!Threshold = Threshold
  BY DEF Promise!Threshold, Threshold, Promise!Cardinality, Cardinality
<1>4. Refusers \subseteq Node
  BY DEF Refusers
<1>5. Cardinality(Refusers) \in Nat
  BY <1>4, Zenon DEF NodesCounted
<1>6. Cardinality(Node) \in Nat
  BY Zenon DEF NodesCounted
<1>7. Threshold \in Nat
  BY <1>6 DEF Threshold
<1>8. ~TooMany <=> Cardinality(Refusers) < Threshold
  BY <1>5, <1>7 DEF TooMany
<1> QED
  BY <1>1, <1>2, <1>5, <1>7, <1>8, Zenon

(* The instance of the abstract specification counts as this module does. *)
LEMMA PromiseCardinality == \A S : Promise!Cardinality(S) = Cardinality(S)
BY DEF Promise!Cardinality, Cardinality

(* The initial instances map to an initial state of CollectiveSigning. *)
LEMMA PromiseInit == Init => Promise!CSInit
BY DEF Init, Promise!CSInit

(* Only VerificationDone and the root's last step show. *)
LEMMA PromiseStep ==
    ASSUME NodesCounted, IInv, IInv', [Next]_vars
    PROVE  [Promise!CSNext]_(Promise!csVars)
<1> DEFINE vote == [n \in Node |-> IF verification[n] \in {"accept", "refuse"}
                                   THEN verification[n] ELSE "none"]
           outcome == IF ~signature.made THEN "none"
                      ELSE IF signature.sig = {} THEN "refused" ELSE "signed"
<1>0. Root \in Node /\ Subtree[Root] = Node /\ TypeOK /\ TypeOK'
  BY TreeTypes, TreeAssumption, Zenon DEF IInv
<1>o. signature.made => phase[Root] # 8 /\ phase[Root] >= 7
  <2>1. signature.made => phase[Root] = 9
    BY Zenon DEF IInv, Outcome
  <2> QED
    BY <2>1
<1>s. ASSUME vote' = vote, signature' = signature
      PROVE  UNCHANGED Promise!csVars
  BY <1>s DEF Promise!csVars
<1>t. ASSUME verification' = verification, signature' = signature
      PROVE  UNCHANGED Promise!csVars
  BY <1>s, <1>t
<1>1. CASE Start \/ StartCommitRound \/ ShutdownInChallenge \/ UNCHANGED vars
  BY <1>1, <1>t, Zenon DEF Start, StartCommitRound, ShutdownInChallenge, vars
<1>2. ASSUME NEW n \in Node,
             \/ HandleAnnouncement(n) \/ HandleCommitment(n)
             \/ HandleResponsePrepare(n) \/ FinishPrepare(n)
             \/ HandleChallengeCommit(n) \/ Shutdown(n)
      PROVE  UNCHANGED Promise!csVars
  BY <1>2, <1>t, Zenon DEF HandleAnnouncement, HandleCommitment, HandleResponsePrepare,
     FinishPrepare, HandleChallengeCommit, Shutdown
<1>3. ASSUME NEW n \in Node, HandleChallengePrepare(n)
      PROVE  UNCHANGED Promise!csVars
  <2>1. verification[n] = "none"
    <3>1. phase[n] = 4
      BY <1>3, Zenon DEF HandleChallengePrepare
    <3>2. phase[n] < 5 => verification[n] = "none"
      BY Zenon DEF IInv, Verified
    <3> QED
      BY <3>1, <3>2
  <2>2. /\ verification'[n] = "running"
        /\ \A q \in Node : q # n => verification'[q] = verification[q]
    <3>1. verification' = [verification EXCEPT ![n] = "running"]
      BY <1>3, Zenon DEF HandleChallengePrepare
    <3>2. DOMAIN verification = Node
      BY <1>0, Zenon DEF TypeOK
    <3> QED
      BY <3>1, <3>2, Zenon
  <2>3. vote' = vote
    BY <2>1, <2>2, Zenon
  <2>4. signature' = signature
    BY <1>3 DEF HandleChallengePrepare
  <2> QED
    BY <2>3, <2>4, <1>s, Zenon
<1>4. ASSUME NEW n \in Node, VerificationDone(n)
      PROVE  Promise!Vote(n)
  <2>1. ~HasVerified(n)
    BY <1>4, Zenon DEF VerificationDone, HasVerified
  <2>2. ~(phase[Root] >= 7)
    BY <1>0, <2>1, Zenon DEF IInv, Verified
  <2>3. ~signature.made /\ signature' = signature
    <3>1. ~signature.made
      BY <1>o, <2>2, Zenon
    <3> QED
      BY <1>4, <3>1, Zenon DEF VerificationDone
  <2>4. vote[n] = "none"
    BY <2>1 DEF HasVerified
  <2>5. PICK v \in {"accept", "refuse"} :
          verification' = [verification EXCEPT ![n] = v]
    BY <1>4, Zenon DEF VerificationDone
  <2>6. \A q \in Node : vote'[q] = [vote EXCEPT ![n] = v][q]
    BY <1>0, <2>5, Zenon DEF TypeOK
  <2>7. vote' = [vote EXCEPT ![n] = v]
    BY <2>6, Zenon
  <2>8. outcome = "none" /\ outcome' = outcome
    BY <2>3, Zenon
  <2> QED
    BY <2>4, <2>7, <2>8, Zenon DEF Promise!Vote
<1>5. ASSUME NEW n \in Node, HandleResponseCommit(n)
      PROVE  Promise!Decide \/ UNCHANGED Promise!csVars
  <2>1. phase[n] = 8 /\ verification' = verification
    BY <1>5, Zenon DEF HandleResponseCommit
  <2>2. CASE signature' = signature
    BY <2>1, <2>2, <1>t, Zenon
  <2>3. CASE signature' # signature
    <3>1. n = Root /\ signature'.made = TRUE
      <4>1. n = Root /\ \E r : signature' = Signature(r)
        BY <1>5, <2>3, Zenon DEF HandleResponseCommit, IsRoot
      <4> QED
        BY <4>1 DEF Signature
    <3>2. ~signature.made
      BY <1>o, <2>1, <3>1, Zenon
    <3>3. \A q \in Node : HasVerified(q)
      BY <1>0, <2>1, <3>1 DEF IInv, Verified
    <3>4. \A q \in Node : vote[q] # "none"
      BY <3>3 DEF HasVerified
    <3>5. Refusers' = Refusers /\ TooMany' = TooMany
      BY <2>1, SameVotes, SameReports, Zenon
    <3>6. signature'.sig = IF TooMany THEN {} ELSE Node
      BY <3>1, <3>5, Zenon DEF IInv, Outcome
    <3>7. outcome = "none" /\ vote' = vote
      BY <2>1, <3>2, Zenon
    <3>8. outcome' = IF ~TooMany THEN "signed" ELSE "refused"
      BY <1>0, <3>1, <3>6, Zenon
    <3>9. ~TooMany <=> Promise!Cardinality(Promise!Refusers) < Promise!Threshold
      BY PromiseRefusers, PromiseCardinality
    <3> QED
      BY <3>4, <3>7, <3>8, <3>9, Zenon DEF Promise!Decide
  <2> QED
    BY <2>2, <2>3, Zenon
<1> QED
  BY <1>1, <1>2, <1>3, <1>4, <1>5, Zenon DEF Next, Dispatch, Promise!CSNext

-----------------------------------------------------------------------------
(* What follows counts messages and refusals. *)
Counting == INSTANCE FiniteSetTheorems

(* The counts of the library are those of the model. *)
LEMMA SameCounts ==
    /\ \A S : Counting!IsFiniteSet(S) <=> IsFiniteSet(S)
    /\ \A S : Counting!Cardinality(S) = Cardinality(S)
<1>1. ASSUME NEW S PROVE Counting!IsFiniteSet(S) <=> IsFiniteSet(S)
  BY Zenon DEF Counting!IsFiniteSet, IsFiniteSet
<1>2. ASSUME NEW S PROVE Counting!Cardinality(S) = Cardinality(S)
  BY Zenon DEF Counting!Cardinality, Cardinality, Counting!IsFiniteSet, IsFiniteSet
<1> QED
  BY <1>1, <1>2, Zenon

(* The subsets of a finite set are finite and have a size. *)
LEMMA FiniteSubsets ==
    ASSUME NEW S, IsFiniteSet(S), NEW T \in SUBSET S
    PROVE  IsFiniteSet(T) /\ Cardinality(T) \in Nat
<1>1. Counting!IsFiniteSet(S)
  BY SameCounts, Zenon
<1>2. Counting!IsFiniteSet(T)
  BY <1>1, Counting!FS_Subset
<1>3. Counting!Cardinality(T) \in Nat
  BY <1>2, Counting!FS_CardinalityType
<1> QED
  BY <1>2, <1>3, SameCounts, Zenon

(* A node has finitely many children. *)
LEMMA ChildrenFinite ==
    ASSUME NEW n \in Node
    PROVE  IsFiniteSet(Children(n)) /\ Cardinality(Children(n)) \in Nat
<1>1. Children(n) \in SUBSET Node
  BY DEF Children
<1> QED
  BY <1>1, TreeAssumption, FiniteSubsets, Zenon

(* A batch of len(Children()) messages with distinct senders holds a       *)
(* message of every child.                                                 *)
LEMMA FullBatch ==
    ASSUME NEW n \in Node, NEW B,
           \A m \in B : m.from \in Children(n),
           \A m1, m2 \in B : m1.from = m2.from => m1 = m2,
           Cardinality(B) = Cardinality(Children(n))
    PROVE  \A c \in Children(n) : \E m \in B : m.from = c
<1> DEFINE f == [m \in B |-> m.from]
<1>1. /\ Counting!IsFiniteSet(Children(n))
      /\ Counting!Cardinality(B) = Counting!Cardinality(Children(n))
  BY ChildrenFinite, SameCounts, Zenon
<1>2. f \in Counting!Injection(B, Children(n))
  BY DEF Counting!Injection, Counting!IsInjective
<1>3. f \in Counting!Surjection(B, Children(n))
  BY <1>1, <1>2, Counting!FS_Injection
<1> QED
  BY <1>3, Zenon DEF Counting!Surjection

(* What the lemmas on the handlers assume about batches. *)
LEMMA CountingBatches == BatchesAreFull
<1>1. \A n \in Node : Cardinality(Children(n)) \in Nat
  BY ChildrenFinite
<1> QED
  BY <1>1, FullBatch DEF BatchesAreFull

(* What the lemmas on the promise assume about sets of nodes. *)
LEMMA CountingNodes == NodesCounted
BY TreeAssumption, FiniteSubsets DEF NodesCounted

-----------------------------------------------------------------------------
(* The inductive invariant: the phases of neighbours stay in step, the     *)
(* messages under way are those the phases call for, and what is reported  *)
(* and stored accounts exactly for the nodes below.                        *)
THEOREM Invariance == Spec => []IInv
<1>1. IInv /\ [Next]_vars => IInv'
  BY CountingBatches, InvStep
<1> QED
  BY <1>1, InitialInv, PTL DEF Spec

(* onet's batches never mix the two rounds, on any tree and with any nodes *)
(* being closed.                                                           *)
THEOREM RoundsSeparate == Spec => []RoundsNeverMix
<1>1. IInv => RoundsNeverMix
  <2> SUFFICES ASSUME IInv, NEW n \in Node PROVE RoundsNeverMix!(n)
    BY DEF RoundsNeverMix
  <2>1. ASSUME NEW m \in commitChan[n]
        PROVE  \/ phase[n] = 1 /\ m.type = RoundPrepare
               \/ phase[n] = 3 /\ m.type = RoundCommit
    BY DEF IInv, Commitments
  <2>2. ASSUME NEW m \in responseChan[n]
        PROVE  \/ phase[n] = 5 /\ m.type = RoundPrepare
               \/ phase[n] = 8 /\ m.type = RoundCommit
    BY DEF IInv, Responses, PrepareReport, CommitReport
  <2> QED
    BY <2>1, <2>2, Zenon
<1> QED
  BY <1>1, Invariance, PTL

(* The root signs exactly when fewer than threshold nodes refused. *)
THEOREM SignsIffFewRefusals == Spec => []SignedIffFewRefusals
<1>1. IInv => SignedIffFewRefusals
  <2> SUFFICES ASSUME IInv, signature.made
               PROVE  signature.sig # {} <=>
                        Cardinality(Promise!Refusers) < Promise!Threshold
    BY DEF SignedIffFewRefusals
  <2>1. signature.sig = IF TooMany THEN {} ELSE Node
    BY DEF IInv, Outcome
  <2>2. Node # {}
    BY TreeTypes
  <2>3. signature.sig # {} <=> ~TooMany
    BY <2>1, <2>2
  <2> QED
    BY <2>3, CountingNodes, PromiseRefusers, Zenon
<1> QED
  BY <1>1, Invariance, PTL

(* A signature is complete, and a nil signature names the refusers. *)
THEOREM SignsCompletely == Spec => []SignatureComplete
<1>1. IInv => SignatureComplete
  <2> SUFFICES ASSUME IInv, signature.made
               PROVE  IF signature.sig # {}
                      THEN signature.sig = Node /\ signature.exceptions = {}
                      ELSE signature.exceptions = Promise!Refusers
    BY DEF SignatureComplete
  <2>1. /\ signature.sig = IF TooMany THEN {} ELSE Node
        /\ signature.exceptions = IF TooMany THEN Refusers ELSE {}
    BY DEF IInv, Outcome
  <2>2. Node # {}
    BY TreeTypes
  <2>3. CASE TooMany
    BY <2>1, <2>3, CountingNodes, PromiseRefusers, Zenon
  <2>4. CASE ~TooMany
    BY <2>1, <2>2, <2>4
  <2> QED
    BY <2>3, <2>4
<1> QED
  BY <1>1, Invariance, PTL

(* Nodes past the commit challenge agree on whether to sign. *)
THEOREM NodesAgree == Spec => []RefusalAgreement
<1>1. IInv => RefusalAgreement
  <2> SUFFICES ASSUME IInv, NEW n \in Node, NEW m \in Node,
                      phase[n] >= 8, phase[m] >= 8
               PROVE  signRefusal[n] = signRefusal[m]
    BY DEF RefusalAgreement
  <2>1. signRefusal[n] = TooMany
    BY DEF IInv, Stored
  <2>2. signRefusal[m] = TooMany
    BY DEF IInv, Stored
  <2> QED
    BY <2>1, <2>2, Zenon
<1> QED
  BY <1>1, Invariance, PTL

(* Whatever the tree, and whichever servers are closed, a run of BFTCoSi   *)
(* behaves as CollectiveSigning promises.                                  *)
THEOREM Refinement == Spec => KeepsPromise
<1>1. IInv /\ IInv' /\ [Next]_vars => [Promise!CSNext]_(Promise!csVars)
  BY CountingNodes, PromiseStep
<1> QED
  BY <1>1, PromiseInit, Invariance, PTL DEF Spec, KeepsPromise, Promise!CSSpec
=============================================================================
