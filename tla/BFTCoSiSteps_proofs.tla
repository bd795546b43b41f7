------------------------ MODULE BFTCoSiSteps_proofs -------------------------
(***************************************************************************)
(* Facts about the trees BFTCoSi runs on, its type correctness, lemmas     *)
(* for the proof of its inductive invariant (what a step of one node       *)
(* leaves alone), and the steps that begin a round at a node or take one   *)
(* away: announcements, commitments and shutdowns.                         *)
(***************************************************************************)
EXTENDS BFTCoSi, TLAPS

(* The root is a node and every other node has a parent. *)
LEMMA TreeTypes == /\ Root \in Node
                   /\ \A n \in Node : n # Root => Parent[n] \in Node
BY TreeAssumption

(* A child differs from its parent and is not the root. *)
LEMMA ChildFacts ==
    ASSUME NEW n \in Node
    PROVE  /\ \A c \in Children(n) : /\ c \in Node /\ c # Root /\ c # n
                                     /\ Parent[c] = n
           /\ n # Root => /\ Parent[n] \in Node /\ Parent[n] # n
                          /\ n \in Children(Parent[n])
<1>1. \A m \in Node : m \in Subtree[m]
  BY TreeAssumption
<1>2. \A m \in Node : \A c \in Children(m) : m \notin Subtree[c]
  BY TreeAssumption
<1>3. \A m \in Node : \A c \in Children(m) : c \in Node /\ c # Root /\ Parent[c] = m
  BY DEF Children
<1>4. n # Root => Parent[n] \in Node /\ n \in Children(Parent[n])
  BY TreeTypes DEF Children
<1> QED
  BY <1>1, <1>2, <1>3, <1>4

(* The nodes below n are those of the subtrees of its children. *)
LEMMA SubtreeFacts ==
    ASSUME NEW n \in Node
    PROVE  /\ Subtree[n] \subseteq Node
           /\ n \in Subtree[n]
           /\ Below(n) = UNION {Subtree[c] : c \in Children(n)}
           /\ \A c \in Children(n) : Subtree[c] \subseteq Below(n)
<1>1. Subtree[n] = {n} \cup UNION {Subtree[c] : c \in Children(n)}
  BY TreeAssumption
<1>2. \A c \in Children(n) : n \notin Subtree[c]
  BY TreeAssumption
<1>3. Subtree[n] \subseteq Node
  BY TreeAssumption
<1> QED
  BY <1>1, <1>2, <1>3 DEF Below

-----------------------------------------------------------------------------
(* The reports of the children account for the nodes below n. *)
LEMMA ReportsBelow ==
    ASSUME NEW n \in Node, NEW B,
           B = {PrepareReport(c) : c \in Children(n)}
    PROVE  /\ UNION {m.resp : m \in B} = Below(n) \ Refusers
           /\ UNION {m.exc : m \in B} = Below(n) \cap Refusers
<1>1. \A c : /\ PrepareReport(c).resp = Subtree[c] \ Refusers
             /\ PrepareReport(c).exc = Subtree[c] \cap Refusers
  BY DEF PrepareReport
<1>2. Below(n) = UNION {Subtree[c] : c \in Children(n)}
  BY SubtreeFacts
<1>3. {m.resp : m \in B} = {PrepareReport(c).resp : c \in Children(n)}
  OBVIOUS
<1>4. {m.exc : m \in B} = {PrepareReport(c).exc : c \in Children(n)}
  OBVIOUS
<1>5. UNION {Subtree[c] \ Refusers : c \in Children(n)} = Below(n) \ Refusers
  BY <1>2
<1>6. UNION {Subtree[c] \cap Refusers : c \in Children(n)}
        = Below(n) \cap Refusers
  BY <1>2
<1>7. UNION {m.resp : m \in B} = Below(n) \ Refusers
  BY <1>1, <1>3, <1>5
<1>8. UNION {m.exc : m \in B} = Below(n) \cap Refusers
  BY <1>1, <1>4, <1>6
<1> QED
  BY <1>7, <1>8

(* What the number of messages in a batch tells: len(Children()) messages   *)
(* with distinct senders hold a message of every child. This is a fact     *)
(* about finite sets; the lemmas on the handlers assume it, and FullBatch   *)
(* and ChildrenFinite in BFTCoSi_proofs establish it.                      *)
BatchesAreFull ==
    \A n \in Node :
      /\ Cardinality(Children(n)) \in Nat
      /\ \A B : /\ \A m \in B : m.from \in Children(n)
                /\ \A m1, m2 \in B : m1.from = m2.from => m1 = m2
                /\ Cardinality(B) = Cardinality(Children(n))
                => \A c \in Children(n) : \E m \in B : m.from = c

(* The sequences announceChan takes. *)
LEMMA AnnouncementSeqs ==
    /\ \A x \in RoundType : /\ Append(<<>>, x) = <<x>>
                            /\ Head(<<x>>) = x
                            /\ Tail(<<x>>) = <<>>
                            /\ <<x>> # <<>>
    /\ Append(<<RoundPrepare>>, RoundCommit) = <<RoundPrepare, RoundCommit>>
    /\ Head(<<RoundPrepare, RoundCommit>>) = RoundPrepare
    /\ Tail(<<RoundPrepare, RoundCommit>>) = <<RoundCommit>>
    /\ RoundPrepare # RoundCommit
    /\ RoundPrepare \in RoundType /\ RoundCommit \in RoundType
<1>1. \A x \in RoundType : Append(<<>>, x) = <<x>>
  BY DEF RoundType
<1>2. \A x \in RoundType : Head(<<x>>) = x
  BY DEF RoundType
<1>3. \A x \in RoundType : Tail(<<x>>) = <<>>
  BY DEF RoundType
<1>4. \A x \in RoundType : <<x>> # <<>>
  BY DEF RoundType
<1>5. Append(<<RoundPrepare>>, RoundCommit) = <<RoundPrepare, RoundCommit>>
  <2> DEFINE s == Append(<<RoundPrepare>>, RoundCommit)
             t == <<RoundPrepare, RoundCommit>>
  <2>1. RoundPrepare \in RoundType /\ RoundCommit \in RoundType
    BY DEF RoundType
  <2>2. /\ s \in Seq(RoundType) /\ Len(s) = 2
        /\ s[1] = RoundPrepare /\ s[2] = RoundCommit
    BY <2>1
  <2>3. /\ t \in Seq(RoundType) /\ Len(t) = 2
        /\ t[1] = RoundPrepare /\ t[2] = RoundCommit
    BY <2>1
  <2> HIDE DEF s, t
  <2>4. \A i \in 1..2 : s[i] = t[i]
    BY <2>2, <2>3
  <2>5. s = [i \in 1..2 |-> s[i]] /\ t = [i \in 1..2 |-> t[i]]
    BY <2>2, <2>3
  <2>6. s = t
    BY <2>4, <2>5
  <2> QED
    BY <2>6 DEF s, t
<1>6. Head(<<RoundPrepare, RoundCommit>>) = RoundPrepare
  OBVIOUS
<1>7. Tail(<<RoundPrepare, RoundCommit>>) = <<RoundCommit>>
  OBVIOUS
<1>8. RoundPrepare # RoundCommit
  BY DEF RoundPrepare, RoundCommit
<1>9. RoundPrepare \in RoundType /\ RoundCommit \in RoundType
  BY DEF RoundType
<1> QED
  BY <1>1, <1>2, <1>3, <1>4, <1>5, <1>6, <1>7, <1>8, <1>9

-----------------------------------------------------------------------------
(* Type correctness. *)

(* Sending to the parent keeps the type of a channel. *)
LEMMA SendToParentType ==
    ASSUME NEW S, NEW chan \in [Node -> SUBSET S],
           NEW n \in Node, n # Root, NEW m \in S
    PROVE  SendToParent(chan, n, m) \in [Node -> SUBSET S]
<1>1. Parent[n] \in Node
  BY TreeTypes
<1>2. chan[Parent[n]] \cup {m} \in SUBSET S
  BY <1>1
<1> QED
  BY <1>2, Zenon DEF SendToParent

(* A node's commit response names nodes only. *)
LEMMA CommitResponseType ==
    ASSUME NEW n \in Node, NEW refusal \in BOOLEAN,
           NEW below \in SUBSET Response
    PROVE  CommitResponse(n, refusal, below) \in Response
<1>1. UNION {m.resp : m \in below} \subseteq Node
  BY DEF Response
<1>2. (IF refusal THEN {} ELSE {n}) \subseteq Node
  OBVIOUS
<1>3. RoundCommit \in RoundType
  BY DEF RoundType
<1> QED
  BY <1>1, <1>2, <1>3 DEF CommitResponse, Response

(* A phase that moves stays a phase. *)
LEMMA PhaseMove ==
    ASSUME NEW f \in [Node -> 0..9], NEW n \in Node, NEW k \in 0..9
    PROVE  [f EXCEPT ![n] = k] \in [Node -> 0..9]
OBVIOUS

(* Every step of the protocol preserves the types of its state. *)
LEMMA TypeStep == TypeOK /\ [Next]_vars => TypeOK'
<1> SUFFICES ASSUME TypeOK, [Next]_vars PROVE TypeOK'
  OBVIOUS
<1> USE TreeTypes DEF TypeOK
<1>a. RoundPrepare \in RoundType /\ RoundCommit \in RoundType
  BY DEF RoundType
<1>b. ASSUME NEW t \in RoundType, StartAnnouncement(t)
      PROVE  announceChan' \in [Node -> Seq(RoundType)] /\ panicked' \subseteq Node
  <2>1. CASE closing[Root]
    BY <1>b, <2>1 DEF StartAnnouncement
  <2>2. CASE ~closing[Root]
    <3>1. /\ announceChan' = [announceChan EXCEPT ![Root] = Append(@, t)]
          /\ panicked' = panicked
      BY <1>b, <2>2 DEF StartAnnouncement
    <3> QED
      BY <3>1
  <2> QED
    BY <2>1, <2>2
<1>1. CASE Start
  <2>1. announceChan' \in [Node -> Seq(RoundType)] /\ panicked' \subseteq Node
    BY <1>1, <1>a, <1>b, Zenon DEF Start
  <2>2. announced' \in 0..2
    BY <1>1 DEF Start
  <2> QED
    BY <1>1, <2>1, <2>2, Zenon DEF Start, temps
<1>2. CASE StartCommitRound
  <2>1. announceChan' \in [Node -> Seq(RoundType)] /\ panicked' \subseteq Node
    BY <1>2, <1>a, <1>b, Zenon DEF StartCommitRound
  <2>2. announced' \in 0..2
    BY <1>2 DEF StartCommitRound
  <2> QED
    BY <1>2, <2>1, <2>2, Zenon DEF StartCommitRound, temps
<1>3. ASSUME NEW n \in Node, HandleAnnouncement(n) PROVE TypeOK'
  <2> DEFINE ann == Head(announceChan[n])
             rest == [announceChan EXCEPT ![n] = Tail(@)]
  <2>1. ann \in RoundType
    BY <1>3 DEF HandleAnnouncement
  <2>2. rest \in [Node -> Seq(RoundType)]
    BY <1>3 DEF HandleAnnouncement
  <2>3. IsLeaf(n) => n # Root
    BY RootHasChild
  <2>4. [from |-> n, type |-> ann] \in Commitment
    BY <2>1 DEF Commitment
  <2>5. commitChan' \in [Node -> SUBSET Commitment]
    <3>1. CASE IsLeaf(n)
      <4> DEFINE m == [from |-> n, type |-> ann]
      <4>1. commitChan' = SendToParent(commitChan, n, m)
        BY <1>3, <3>1 DEF HandleAnnouncement
      <4>2. SendToParent(commitChan, n, m) \in [Node -> SUBSET Commitment]
        BY <2>3, <2>4, <3>1, SendToParentType
      <4> QED
        BY <4>1, <4>2
    <3>2. CASE ~IsLeaf(n)
      BY <1>3, <3>2 DEF HandleAnnouncement
    <3> QED
      BY <3>1, <3>2
  <2>6. announceChan' \in [Node -> Seq(RoundType)]
    <3>1. CASE IsLeaf(n)
      BY <1>3, <2>2, <3>1, Zenon DEF HandleAnnouncement
    <3>2. CASE ~IsLeaf(n)
      <4> HIDE DEF ann, rest
      <4>1. announceChan' = [c \in Node |-> IF c \in Children(n)
                                  THEN Append(rest[c], ann) ELSE rest[c]]
        BY <1>3, <3>2, Zenon DEF HandleAnnouncement, ann, rest
      <4> QED
        BY <2>1, <2>2, <4>1
    <3> QED
      BY <3>1, <3>2
  <2>7. phase' \in [Node -> 0..9]
    <3>1. phase[n] \in {0, 2}
      BY <1>3 DEF HandleAnnouncement
    <3>2. phase[n] + 2 \in 0..9 /\ phase[n] + 1 \in 0..9
      BY <3>1
    <3>3. \/ phase' = [phase EXCEPT ![n] = phase[n] + 2]
          \/ phase' = [phase EXCEPT ![n] = phase[n] + 1]
      BY <1>3 DEF HandleAnnouncement
    <3>4. [phase EXCEPT ![n] = phase[n] + 2] \in [Node -> 0..9]
      BY <3>2, PhaseMove
    <3>5. [phase EXCEPT ![n] = phase[n] + 1] \in [Node -> 0..9]
      BY <3>2, PhaseMove, Zenon
    <3> QED
      BY <3>3, <3>4, <3>5, Zenon
  <2> QED
    BY <1>3, <2>5, <2>6, <2>7, Zenon DEF HandleAnnouncement, temps
<1>4. ASSUME NEW n \in Node, HandleCommitment(n) PROVE TypeOK'
  <2>1. tempPrepareCommit' \in [Node -> SUBSET Node]
    BY <1>4 DEF HandleCommitment, Commitment
  <2>2. tempCommitCommit' \in [Node -> SUBSET Node]
    BY <1>4 DEF HandleCommitment, Commitment
  <2>3. commitChan' \in [Node -> SUBSET Commitment]
    <3>1. PICK B \in SUBSET commitChan[n] : HandleCommitment(n)!3!(B)
      BY <1>4, Zenon DEF HandleCommitment
    <3> DEFINE up == [commitChan EXCEPT ![n] = @ \ B]
    <3>2. up \in [Node -> SUBSET Commitment]
      OBVIOUS
    <3>3. CASE IsRoot(n)
      BY <3>1, <3>2, <3>3, Zenon
    <3>4. CASE ~IsRoot(n)
      <4> HIDE DEF up
      <4>1. PICK T \in SUBSET {m.type : m \in B} :
              commitChan' = [up EXCEPT ![Parent[n]] =
                               @ \cup {[from |-> n, type |-> t] : t \in T}]
        BY <3>1, <3>4, Zenon DEF up
      <4>2. {[from |-> n, type |-> t] : t \in T} \subseteq Commitment
        BY DEF Commitment
      <4>3. Parent[n] \in Node
        BY <3>4 DEF IsRoot
      <4> QED
        BY <3>2, <4>1, <4>2, <4>3
    <3> QED
      BY <3>3, <3>4
  <2>4. challengePrepareChan' \in [Node -> BOOLEAN]
    BY <1>4, Zenon DEF HandleCommitment
  <2>5. phase' \in [Node -> 0..9]
    <3>1. phase' = [phase EXCEPT ![n] = phase[n] + 1] /\ phase[n] \in {1, 3}
      BY <1>4 DEF HandleCommitment
    <3>2. phase[n] + 1 \in 0..9
      BY <3>1
    <3>3. [phase EXCEPT ![n] = phase[n] + 1] \in [Node -> 0..9]
      BY <3>2, PhaseMove
    <3> QED
      BY <3>1, <3>3
  <2> QED
    BY <1>4, <2>1, <2>2, <2>3, <2>4, <2>5, Zenon DEF HandleCommitment
<1>5. ASSUME NEW n \in Node, HandleChallengePrepare(n) PROVE TypeOK'
  <2>1. challengePrepareChan' \in [Node -> BOOLEAN]
    BY <1>5, Zenon DEF HandleChallengePrepare, ToChildren
  <2>2. phase' \in [Node -> 0..9]
    BY <1>5 DEF HandleChallengePrepare
  <2>3. verification' \in [Node -> {"none", "running", "accept", "refuse"}]
    BY <1>5, Zenon DEF HandleChallengePrepare
  <2> QED
    BY <1>5, <2>1, <2>2, <2>3, Zenon DEF HandleChallengePrepare, temps
<1>6. ASSUME NEW n \in Node, HandleResponsePrepare(n) PROVE TypeOK'
  <2>1. responseChan' \in [Node -> SUBSET Response]
    BY <1>6 DEF HandleResponsePrepare
  <2>2. tempPrepareResponse' \in [Node -> SUBSET Response]
    BY <1>6 DEF HandleResponsePrepare
  <2>3. phase' \in [Node -> 0..9]
    BY <1>6 DEF HandleResponsePrepare
  <2>4. tempExceptions' \in [Node -> SUBSET Node]
    BY <1>6 DEF HandleResponsePrepare, Response
  <2> QED
    BY <1>6, <2>1, <2>2, <2>3, <2>4, Zenon DEF HandleResponsePrepare
<1>7. ASSUME NEW n \in Node, FinishPrepare(n) PROVE TypeOK'
  <2> DEFINE resp == PrepareResponses(n)
             exc == PrepareExceptions(n)
  <2>1. exc \subseteq Node
    BY DEF PrepareExceptions
  <2>2. resp \subseteq Node
    BY DEF PrepareResponses, Response
  <2>3. [from |-> n, type |-> RoundPrepare, resp |-> resp, exc |-> exc]
          \in Response
    BY <1>a, <2>1, <2>2, Zenon DEF Response
  <2>4. [resp |-> resp, exc |-> exc] \in PrepareSig
    BY <2>1, <2>2 DEF PrepareSig
  <2> HIDE DEF resp, exc
  <2>5. responseChan' \in [Node -> SUBSET Response]
    <3>1. CASE IsRoot(n)
      BY <1>7, <3>1 DEF FinishPrepare
    <3>2. CASE ~IsRoot(n)
      <4> DEFINE m == [from |-> n, type |-> RoundPrepare,
                       resp |-> resp, exc |-> exc]
      <4>1. \/ responseChan' = SendToParent(responseChan, n, m)
            \/ responseChan' = responseChan
        BY <1>7, <3>2 DEF FinishPrepare, resp, exc
      <4>2. SendToParent(responseChan, n, m) \in [Node -> SUBSET Response]
        BY <2>3, <3>2, SendToParentType DEF IsRoot
      <4> QED
        BY <4>1, <4>2, Zenon
    <3> QED
      BY <3>1, <3>2, Zenon
  <2>6. challengeCommitChan' \in [Node -> SUBSET PrepareSig]
    <3>1. \/ UNCHANGED challengeCommitChan
          \/ challengeCommitChan' = [challengeCommitChan EXCEPT
                                ![n] = {[resp |-> resp, exc |-> exc]}]
      BY <1>7, Zenon DEF FinishPrepare, resp, exc
    <3>2. [challengeCommitChan EXCEPT ![n] = {[resp |-> resp, exc |-> exc]}]
             \in [Node -> SUBSET PrepareSig]
      BY <2>4
    <3> QED
      BY <3>1, <3>2, Zenon
  <2>7. signRefusal' \in [Node -> BOOLEAN]
    BY <1>7, Zenon DEF FinishPrepare
  <2>8. panicked' \subseteq Node
    BY <1>7, SMTT(60) DEF FinishPrepare
  <2>9. tempExceptions' \in [Node -> SUBSET Node]
    BY <1>7, <2>1, Zenon DEF FinishPrepare, exc
  <2>10. phase' \in [Node -> 0..9]
    <3>1. phase' = [phase EXCEPT ![n] = 7]
      BY <1>7 DEF FinishPrepare
    <3>2. [phase EXCEPT ![n] = 7] \in [Node -> 0..9]
      BY PhaseMove
    <3> QED
      BY <3>1, <3>2, Zenon
  <2> QED
    BY <1>7, <2>5, <2>6, <2>7, <2>8, <2>9, <2>10 DEF FinishPrepare
<1>8. ASSUME NEW n \in Node, HandleChallengeCommit(n) PROVE TypeOK'
  <2>1. PICK sig \in challengeCommitChan[n] : HandleChallengeCommit(n)!3!(sig)
    BY <1>8, Zenon DEF HandleChallengeCommit
  <2> DEFINE mine == CommitResponse(n, Refuses(n, sig), {})
  <2>2. mine \in Response
    BY CommitResponseType, Zenon DEF Refuses
  <2> HIDE DEF mine
  <2>3. signRefusal' \in [Node -> BOOLEAN]
    BY <2>1, Zenon DEF Refuses
  <2>4. IsLeaf(n) => n # Root
    BY RootHasChild
  <2>5. responseChan' \in [Node -> SUBSET Response]
    <3>1. \/ n # Root /\ responseChan' = SendToParent(responseChan, n, mine)
          \/ responseChan' = responseChan
      BY <2>1, <2>4 DEF mine
    <3>2. n # Root =>
            SendToParent(responseChan, n, mine) \in [Node -> SUBSET Response]
      BY <2>2, SendToParentType, Zenon
    <3> QED
      BY <3>1, <3>2, Zenon
  <2>6. phase' \in [Node -> 0..9]
    <3>1. phase' = [phase EXCEPT ![n] = 9] \/ phase' = [phase EXCEPT ![n] = 8]
      BY <2>1
    <3>2. 8 \in 0..9 /\ 9 \in 0..9
      OBVIOUS
    <3> QED
      BY <3>1, <3>2, PhaseMove, Zenon
  <2>7. closing' \in [Node -> BOOLEAN]
    <3>1. closing' = [closing EXCEPT ![n] = TRUE] \/ closing' = closing
      BY <2>1
    <3> QED
      BY <3>1, Zenon
  <2>8. tempExceptions' \in [Node -> SUBSET Node]
    BY <2>1 DEF PrepareSig
  <2>9. challengeCommitChan' \in [Node -> SUBSET PrepareSig]
    BY <2>1 DEF ToChildren
  <2> QED
    BY <1>8, <2>3, <2>5, <2>6, <2>7, <2>8, <2>9, Zenon DEF HandleChallengeCommit
<1>9. ASSUME NEW n \in Node, HandleResponseCommit(n) PROVE TypeOK'
  <2>1. PICK B \in SUBSET responseChan[n] : HandleResponseCommit(n)!3!(B)
    BY <1>9, Zenon DEF HandleResponseCommit
  <2> DEFINE stored == tempCommitResponse[n] \cup {b \in B : b.type = RoundCommit}
             mine == CommitResponse(n, signRefusal[n], stored)
             Sig == [made : BOOLEAN, sig : SUBSET Node, exceptions : SUBSET Node]
             rest == [responseChan EXCEPT ![n] = @ \ B]
  <2>2. mine \in Response
    BY CommitResponseType
  <2>3. mine.resp \subseteq Node
    BY <2>2, Zenon DEF Response
  <2>4. Signature(mine.resp) \in Sig
    BY <2>3, Zenon DEF Signature
  <2>5. tempCommitResponse' \in [Node -> SUBSET Response]
    BY <2>1
  <2>6. closing' \in [Node -> BOOLEAN]
    BY <2>1, Zenon
  <2> HIDE DEF mine
  <2>7. signature' \in Sig
    BY <2>1, <2>4 DEF mine
  <2>8. responseChan' \in [Node -> SUBSET Response]
    <3>1. rest \in [Node -> SUBSET Response]
      OBVIOUS
    <3>2. \/ responseChan' = rest
          \/ ~IsRoot(n) /\ responseChan' = SendToParent(rest, n, mine)
      BY <2>1, Zenon DEF mine
    <3> HIDE DEF rest
    <3>3. n # Root => SendToParent(rest, n, mine) \in [Node -> SUBSET Response]
      BY <2>2, <3>1, SendToParentType
    <3> QED
      BY <3>1, <3>2, <3>3, Zenon DEF IsRoot
  <2>9. phase' \in [Node -> 0..9]
    <3>1. phase' = [phase EXCEPT ![n] = 9]
      BY <1>9, Zenon DEF HandleResponseCommit
    <3>2. [phase EXCEPT ![n] = 9] \in [Node -> 0..9]
      BY PhaseMove
    <3> QED
      BY <3>1, <3>2
  <2> QED
    BY <1>9, <2>5, <2>6, <2>7, <2>8, <2>9, ZenonT(30) DEF HandleResponseCommit
<1>10. ASSUME NEW n \in Node, VerificationDone(n) PROVE TypeOK'
  BY <1>10, SMTT(60) DEF VerificationDone, chans, temps
<1>11. ASSUME NEW n \in Node, Shutdown(n) PROVE TypeOK'
  BY <1>11, Zenon DEF Shutdown, chans, temps
<1>12. CASE ShutdownInChallenge
  <2>1. closing' \in [Node -> BOOLEAN] /\ panicked' \subseteq Node
    BY <1>12 DEF ShutdownInChallenge
  <2> QED
    BY <1>12, <2>1, Zenon DEF ShutdownInChallenge, chans, temps
<1>13. CASE UNCHANGED vars
  BY <1>13 DEF vars, chans, temps
<1> QED
  BY <1>1, <1>2, <1>3, <1>4, <1>5, <1>6, <1>7, <1>8, <1>9, <1>10, <1>11,
     <1>12, <1>13, Zenon DEF Next, Dispatch

(* The fields of every node keep their types, from NewBFTCoSiProtocol to   *)
(* the end of Dispatch.                                                    *)
THEOREM TypeCorrect == Spec => []TypeOK
<1>1. Init => TypeOK
  BY TreeAssumption DEF Init, TypeOK, RoundType
<1> QED
  BY <1>1, TypeStep, PTL DEF Spec

-----------------------------------------------------------------------------
(* What a step of one node leaves alone.  In each lemma only node n moves, *)
(* to phase k.                                                             *)

(* Every node has its channels. *)
LEMMA ChannelDomains ==
    ASSUME TypeOK
    PROVE  DOMAIN commitChan = Node /\ DOMAIN responseChan = Node
BY DEF TypeOK

(* What is in a channel after a message to the parent.                     *)
LEMMA SentToParent ==
    ASSUME NEW n \in Node, n # Root, NEW chan, DOMAIN chan = Node, NEW msg,
           NEW q \in Node, NEW m \in SendToParent(chan, n, msg)[q]
    PROVE  m \in chan[q] \/ (q = Parent[n] /\ m = msg)
<1>1. SendToParent(chan, n, msg)[q] =
        IF q = Parent[n] THEN chan[q] \cup {msg} ELSE chan[q]
  BY DEF SendToParent
<1> QED
  BY <1>1

(* What is reported depends on the refusals only.                          *)
LEMMA SameReports ==
    ASSUME Refusers' = Refusers
    PROVE  /\ TooMany' = TooMany
           /\ RootSig' = RootSig
           /\ \A c : PrepareReport(c)' = PrepareReport(c)
           /\ \A c : CommitReport(c)' = CommitReport(c)
<1>1. TooMany' = TooMany
  BY DEF TooMany
<1>2. RootSig' = RootSig
  BY DEF RootSig
<1>3. \A c : PrepareReport(c)' = PrepareReport(c)
  BY DEF PrepareReport
<1>4. \A c : CommitReport(c)' = CommitReport(c)
  BY <1>1 DEF CommitReport
<1> QED
  BY <1>1, <1>2, <1>3, <1>4

(* Who has verified, and who has refused, stays when no verification ends. *)
LEMMA SameVotes ==
    ASSUME verification' = verification
    PROVE  /\ Refusers' = Refusers
           /\ \A m \in Node : HasVerified(m) => HasVerified(m)'
BY DEF Refusers, HasVerified

(* The phase of a node after n moved to k. *)
LEMMA Moved ==
    ASSUME TypeOK, NEW n \in Node, NEW k \in 0..9,
           phase' = [phase EXCEPT ![n] = k]
    PROVE  /\ phase'[n] = k
           /\ \A m \in Node : m # n => phase'[m] = phase[m]
BY DEF TypeOK

(* n may move to k when k goes with its parent's and its children's phase. *)
LEMMA MoveLockStep ==
    ASSUME TypeOK, LockStep, NEW n \in Node, NEW k \in 0..9,
           phase' = [phase EXCEPT ![n] = k],
           n # Root => Together(phase[Parent[n]], k),
           \A c \in Children(n) : Together(k, phase[c])
    PROVE  LockStep'
<1> SUFFICES ASSUME NEW c \in Node \ {Root}
             PROVE  Together(phase'[Parent[c]], phase'[c])
  BY DEF LockStep, Together
<1>1. Parent[c] \in Node /\ Parent[c] # c /\ c \in Children(Parent[c])
  BY ChildFacts
<1>0. phase'[n] = k /\ \A m \in Node : m # n => phase'[m] = phase[m]
  BY Moved, Zenon
<1>2. CASE c = n
  <2>1. phase'[Parent[c]] = phase[Parent[c]] /\ phase'[c] = k
    BY <1>0, <1>1, <1>2
  <2> QED
    BY <1>2, <2>1
<1>3. CASE c # n /\ Parent[c] = n
  <2>1. phase'[Parent[c]] = k /\ phase'[c] = phase[c]
    BY <1>0, <1>3
  <2>2. Together(k, phase[c])
    BY <1>1, <1>3
  <2> QED
    BY <2>1, <2>2
<1>4. CASE c # n /\ Parent[c] # n
  BY <1>0, <1>1, <1>4 DEF LockStep
<1> QED
  BY <1>2, <1>3, <1>4, Zenon

(* Announcements stay as described when n and its children have none.      *)
LEMMA MoveAnnouncements ==
    ASSUME TypeOK, Announcements, NEW n \in Node, NEW k \in 0..9,
           phase' = [phase EXCEPT ![n] = k], announceChan' = announceChan,
           n # Root => announceChan[n] = <<>>,
           \A c \in Children(n) : announceChan[c] = <<>>
    PROVE  Announcements'
<1> SUFFICES ASSUME NEW c \in Node \ {Root}, announceChan[c] # <<>>
             PROVE  \/ /\ phase'[Parent[c]] = 1 /\ phase'[c] = 0
                       /\ announceChan[c] = <<RoundPrepare>>
                    \/ /\ phase'[Parent[c]] = 3 /\ phase'[c] = 2
                       /\ announceChan[c] = <<RoundCommit>>
  BY DEF Announcements
<1>1. Parent[c] \in Node /\ c \in Children(Parent[c])
  BY ChildFacts
<1>2. c # n /\ Parent[c] # n
  BY <1>1
<1>3. phase'[c] = phase[c] /\ phase'[Parent[c]] = phase[Parent[c]]
  BY <1>1, <1>2, Moved, ZenonT(30)
<1> QED
  BY <1>3 DEF Announcements

(* The root's announcements stay as described when it moves past one.      *)
LEMMA MoveRootAnnouncements ==
    ASSUME TypeOK, RootAnnouncements, NEW n \in Node, NEW k \in 0..9,
           phase' = [phase EXCEPT ![n] = k], announced' = announced,
           announceChan' = announceChan, closing[Root] => closing'[Root],
           (phase[n] = 1 /\ k = 2) \/ (phase[n] >= 3 /\ k >= 3)
    PROVE  RootAnnouncements'
<1>1. Root \in Node
  BY TreeTypes
<1>2. CASE n = Root
  <2>1. phase'[Root] = k
    BY <1>2, Moved, Zenon
  <2>2. announced = 1 => phase[Root] = 1 /\ k = 2
    BY <1>2 DEF RootAnnouncements
  <2>3. announced # 0
    BY <1>2 DEF RootAnnouncements
  <2>4. announced = 2 /\ ~closing'[Root] /\ phase[Root] = 1 =>
          announceChan[Root] = <<RoundCommit>>
    BY DEF RootAnnouncements
  <2>5. announced = 1 => announceChan[Root] = <<>>
    BY <2>2 DEF RootAnnouncements
  <2> QED
    BY <1>2, <2>1, <2>2, <2>3, <2>4, <2>5 DEF RootAnnouncements
<1>3. CASE n # Root
  <2>1. phase'[Root] = phase[Root]
    BY <1>1, <1>3, Moved, Zenon
  <2> QED
    BY <2>1 DEF RootAnnouncements
<1> QED
  BY <1>2, <1>3

(* Commitments stay as described when n has none waiting and has sent none *)
(* that its parent has not handled.                                        *)
LEMMA MoveCommitments ==
    ASSUME TypeOK, Commitments, NEW n \in Node, NEW k \in 0..9,
           phase' = [phase EXCEPT ![n] = k], commitChan' = commitChan,
           commitChan[n] = {},
           n # Root => \A m \in commitChan[Parent[n]] : m.from # n
    PROVE  Commitments'
<1> SUFFICES ASSUME NEW q \in Node, NEW m \in commitChan[q]
             PROVE  /\ m.from \in Children(q)
                    /\ \/ /\ phase'[q] = 1 /\ phase'[m.from] = 2
                          /\ m.type = RoundPrepare
                       \/ /\ phase'[q] = 3 /\ phase'[m.from] = 4
                          /\ m.type = RoundCommit
  BY DEF Commitments
<1>1. m.from \in Children(q)
  BY DEF Commitments
<1>2. m.from \in Node /\ m.from # Root /\ Parent[m.from] = q
  BY <1>1, ChildFacts
<1>3. q # n /\ m.from # n
  BY <1>2
<1>4. phase'[q] = phase[q] /\ phase'[m.from] = phase[m.from]
  BY <1>2, <1>3, Moved, Zenon
<1> QED
  BY <1>1, <1>4 DEF Commitments

(* Once n is past the commitments, its moves leave the announcements and   *)
(* the commitments as described.                                           *)
LEMMA EarlyMessages ==
    ASSUME TypeOK, Announcements, RootAnnouncements, Commitments,
           NEW n \in Node, NEW k \in 0..9, phase' = [phase EXCEPT ![n] = k],
           phase[n] >= 4, k >= 4,
           phase[n] = 4 /\ n # Root => phase[Parent[n]] # 3,
           UNCHANGED <<announced, announceChan, commitChan>>,
           closing[Root] => closing'[Root]
    PROVE  Announcements' /\ RootAnnouncements' /\ Commitments'
<1>0. phase[n] \notin {0, 1, 2, 3} /\ phase[n] >= 3 /\ k >= 3
  <2>1. phase[n] \in 0..9
    BY DEF TypeOK
  <2> QED
    BY <2>1
<1>1. Announcements'
  <2>1. n # Root => announceChan[n] = <<>>
    BY <1>0 DEF Announcements
  <2>2. \A c \in Children(n) : announceChan[c] = <<>>
    BY <1>0, ChildFacts DEF Announcements
  <2> QED
    BY <2>1, <2>2, MoveAnnouncements, Zenon
<1>2. RootAnnouncements'
  BY <1>0, MoveRootAnnouncements, Zenon
<1>3. Commitments'
  <2>1. commitChan[n] = {}
    BY <1>0 DEF Commitments
  <2>2. n # Root => \A m \in commitChan[Parent[n]] : m.from # n
    BY <1>0, ChildFacts DEF Commitments
  <2> QED
    BY <2>1, <2>2, MoveCommitments, Zenon
<1> QED
  BY <1>1, <1>2, <1>3

(* Responses stay as described when n has none waiting and has sent none   *)
(* that its parent has not handled.                                        *)
LEMMA MoveResponses ==
    ASSUME TypeOK, Responses, NEW n \in Node, NEW k \in 0..9,
           phase' = [phase EXCEPT ![n] = k], responseChan' = responseChan,
           Refusers' = Refusers,
           responseChan[n] = {},
           n # Root => \A m \in responseChan[Parent[n]] : m.from # n
    PROVE  Responses'
<1> SUFFICES ASSUME NEW q \in Node, NEW m \in responseChan[q]
             PROVE  /\ m.from \in Children(q)
                    /\ \/ /\ phase'[q] = 5 /\ phase'[m.from] = 7
                          /\ m = PrepareReport(m.from)
                       \/ /\ phase'[q] = 8 /\ phase'[m.from] = 9
                          /\ m = CommitReport(m.from)
  BY SameReports DEF Responses
<1>1. m.from \in Children(q)
  BY DEF Responses
<1>2. m.from \in Node /\ m.from # Root /\ Parent[m.from] = q
  BY <1>1, ChildFacts
<1>3. q # n /\ m.from # n
  BY <1>2
<1>4. phase'[q] = phase[q] /\ phase'[m.from] = phase[m.from]
  BY <1>2, <1>3, Moved, ZenonT(30)
<1> QED
  BY <1>1, <1>4, Zenon DEF Responses

(* Challenges stay as described when n and its children have none.         *)
LEMMA MoveChallenges ==
    ASSUME TypeOK, Challenges, NEW n \in Node, NEW k \in 0..9,
           phase' = [phase EXCEPT ![n] = k], Refusers' = Refusers,
           \A c \in Node \ {Root} :
             challengePrepareChan'[c] = challengePrepareChan[c],
           challengeCommitChan' = challengeCommitChan,
           n # Root => ~challengePrepareChan[n],
           \A c \in Children(n) : ~challengePrepareChan[c],
           challengeCommitChan[n] = {},
           \A c \in Children(n) : challengeCommitChan[c] = {}
    PROVE  Challenges'
<1>0. \A q \in Node : q # n => phase'[q] = phase[q]
  BY Moved, Zenon
<1>1. ASSUME NEW c \in Node \ {Root}, challengePrepareChan[c]
      PROVE  phase'[Parent[c]] = 5 /\ phase'[c] = 4
  <2>1. Parent[c] \in Node /\ c \in Children(Parent[c])
    BY ChildFacts
  <2>2. c # n /\ Parent[c] # n
    BY <1>1, <2>1
  <2>3. phase'[c] = phase[c]
    BY <1>0, <2>1, <2>2
  <2>4. phase'[Parent[c]] = phase[Parent[c]]
    BY <1>0, <2>1, <2>2
  <2> QED
    BY <1>1, <2>3, <2>4 DEF Challenges
<1>2. ASSUME NEW q \in Node, NEW sig \in challengeCommitChan[q]
      PROVE  /\ sig = RootSig
             /\ phase'[q] = 7
             /\ q # Root => phase'[Parent[q]] = 8
  <2>1. q # n
    BY <1>2
  <2>2. q # Root => Parent[q] \in Node /\ Parent[q] # n
    BY <1>2, ChildFacts
  <2>3. sig = RootSig /\ phase[q] = 7 /\ (q # Root => phase[Parent[q]] = 8)
    BY <1>2 DEF Challenges
  <2>4. phase'[q] = 7
    BY <1>0, <2>1, <2>3
  <2>5. q # Root => phase'[Parent[q]] = 8
    <3> SUFFICES ASSUME q # Root PROVE phase'[Parent[q]] = phase[Parent[q]]
      BY <2>3
    <3> QED
      BY <1>0, <2>2
  <2> QED
    BY <2>3, <2>4, <2>5
<1> QED
  BY <1>1, <1>2, SameReports DEF Challenges

(* Who has verified stays as described when it is so for n.                *)
LEMMA MoveVerified ==
    ASSUME TypeOK, Verified, NEW n \in Node, NEW k \in 0..9,
           phase' = [phase EXCEPT ![n] = k], phase[n] <= k,
           \A q \in Node : q # n => verification'[q] = verification[q],
           k < 5 => verification'[n] = verification[n],
           \A m \in Node : HasVerified(m) => HasVerified(m)',
           k = 6 => \A m \in Below(n) : HasVerified(m),
           k >= 7 => \A m \in Subtree[n] : HasVerified(m),
           k >= 8 => n = Root \/ phase[Root] >= 8
    PROVE  Verified'
<1>0. \A q \in Node : phase[q] \in 0..9
  BY DEF TypeOK
<1>1. phase'[Root] >= phase[Root] /\ phase'[Root] \in 0..9
  <2>1. CASE n = Root
    BY <1>0, <2>1, Moved, Zenon
  <2>2. CASE n # Root
    <3>1. Root \in Node
      BY TreeTypes
    <3>2. phase'[Root] = phase[Root]
      BY <2>2, <3>1, Moved, Zenon
    <3> QED
      BY <1>0, <3>1, <3>2
  <2> QED
    BY <2>1, <2>2
<1>s. \A q \in Node : Below(q) \subseteq Node /\ Subtree[q] \subseteq Node
  BY SubtreeFacts DEF Below
<1> SUFFICES ASSUME NEW q \in Node
             PROVE  /\ phase'[q] < 5 => verification'[q] = "none"
                    /\ phase'[q] = 6 => \A m \in Below(q) : HasVerified(m)
                    /\ phase'[q] >= 7 => \A m \in Subtree[q] : HasVerified(m)
                    /\ phase'[q] >= 8 => phase'[Root] >= 8
  BY <1>s DEF Verified, Below
<1>2. CASE q = n
  <2>1. phase'[q] = k
    BY <1>2, Moved, Zenon
  <2>2. k < 5 => verification'[q] = "none"
    BY <1>0, <1>2 DEF Verified
  <2>3. k >= 8 => phase'[Root] >= 8
    <3>1. CASE n = Root
      BY <3>1, Moved, Zenon
    <3>2. CASE n # Root
      BY <1>0, <1>1, <3>2, TreeTypes
    <3> QED
      BY <3>1, <3>2
  <2> QED
    BY <1>2, <2>1, <2>2, <2>3
<1>3. CASE q # n
  <2>1. phase'[q] = phase[q]
    BY <1>3, Moved, Zenon
  <2>2. phase[q] >= 8 => phase'[Root] >= 8
    BY <1>0, <1>1, TreeTypes, SMTT(20) DEF Verified
  <2> QED
    BY <1>3, <2>1, <2>2 DEF Verified
<1> QED
  BY <1>2, <1>3, Zenon

(* What is stored stays as described when it is so for n.                  *)
LEMMA MoveStored ==
    ASSUME TypeOK, Stored, NEW n \in Node, NEW k \in 0..9,
           phase' = [phase EXCEPT ![n] = k], Refusers' = Refusers,
           \A q \in Node : q # n =>
             /\ tempPrepareResponse'[q] = tempPrepareResponse[q]
             /\ tempCommitResponse'[q] = tempCommitResponse[q]
             /\ tempExceptions'[q] = tempExceptions[q]
             /\ signRefusal'[q] = signRefusal[q],
           k < 6 => tempPrepareResponse'[n] = {},
           k = 6 => UNION {m.resp : m \in tempPrepareResponse'[n]}
                      = Below(n) \ Refusers,
           k < 9 => tempCommitResponse'[n] = {},
           k < 6 => tempExceptions'[n] = {},
           k = 6 => tempExceptions'[n] = Below(n) \cap Refusers,
           k >= 8 => tempExceptions'[n] = Refusers,
           k < 8 => signRefusal'[n] = FALSE,
           k >= 8 => signRefusal'[n] = TooMany
    PROVE  Stored'
<1> DEFINE S(q) ==
      /\ phase'[q] < 6 => tempPrepareResponse'[q] = {}
      /\ phase'[q] = 6 => UNION {m.resp : m \in tempPrepareResponse'[q]}
                            = Below(q) \ Refusers
      /\ phase'[q] < 9 => tempCommitResponse'[q] = {}
      /\ phase'[q] < 6 => tempExceptions'[q] = {}
      /\ phase'[q] = 6 => tempExceptions'[q] = Below(q) \cap Refusers
      /\ phase'[q] >= 8 => tempExceptions'[q] = Refusers
      /\ phase'[q] < 8 => signRefusal'[q] = FALSE
      /\ phase'[q] >= 8 => signRefusal'[q] = TooMany
<1>0. phase'[n] = k /\ \A q \in Node : q # n => phase'[q] = phase[q]
  BY Moved, Zenon
<1>1. S(n)
  BY <1>0, Zenon
<1>2. ASSUME NEW q \in Node, q # n PROVE S(q)
  <2>1. phase'[q] = phase[q]
    BY <1>0, <1>2
  <2> QED
    BY <1>2, <2>1, SMTT(60) DEF Stored
<1>3. \A q \in Node : S(q)
  BY <1>1, <1>2, Zenon
<1> QED
  BY <1>3, SameReports DEF Stored, Below

(* The outcome stays as described unless the root, done, were to move.     *)
LEMMA MoveOutcome ==
    ASSUME TypeOK, Outcome, NEW n \in Node, NEW k \in 0..9,
           phase' = [phase EXCEPT ![n] = k], Refusers' = Refusers,
           signature' = signature, phase[n] # 9
    PROVE  Outcome'
<1>1. Root \in Node
  BY TreeTypes
<1>2. phase[Root] = 9 => phase'[Root] = 9
  BY <1>1, Moved, Zenon
<1> QED
  BY <1>2, SameReports DEF Outcome

-----------------------------------------------------------------------------
(* handleAnnouncement: the announcement is the one of the round n is in.   *)
LEMMA AnnouncementStep ==
    ASSUME IInv, TypeOK', NEW n \in Node, HandleAnnouncement(n)
    PROVE  IInv'
<1> DEFINE p == phase[n]
           t == IF p = 0 THEN RoundPrepare ELSE RoundCommit
           k == IF IsLeaf(n) THEN p + 2 ELSE p + 1
           rest == [announceChan EXCEPT ![n] = Tail(@)]
<1> USE DEF IInv
<1>1. p \in {0, 2} /\ k \in 0..9 /\ phase' = [phase EXCEPT ![n] = k]
  <2>1. p \in {0, 2}
    BY DEF HandleAnnouncement
  <2>2. phase' = [phase EXCEPT ![n] = k]
    BY DEF HandleAnnouncement
  <2> QED
    BY <2>1, <2>2
<1>t. \/ p = 0 /\ t = RoundPrepare
      \/ p = 2 /\ t = RoundCommit
  BY <1>1
<1>k. (IsLeaf(n) => k = p + 2) /\ (~IsLeaf(n) => k = p + 1)
  BY Zenon
<1> HIDE DEF k
<1>2. n # Root => /\ announceChan[n] = <<t>>
                  /\ phase[Parent[n]] = p + 1
  BY <1>1 DEF Announcements, HandleAnnouncement
<1>3. n = Root => /\ announced # 0
                  /\ announceChan[Root] =
                       IF announced = 1 \/ p = 2 THEN <<t>>
                       ELSE <<RoundPrepare, RoundCommit>>
                  /\ p = 2 => announced = 2
                  /\ ~closing[Root]
  <2> SUFFICES ASSUME n = Root
               PROVE  /\ announced # 0
                      /\ announceChan[Root] =
                           IF announced = 1 \/ p = 2 THEN <<t>>
                           ELSE <<RoundPrepare, RoundCommit>>
                      /\ p = 2 => announced = 2
                      /\ ~closing[Root]
    BY Zenon
  <2>1. ~closing[Root] /\ announceChan[Root] # <<>> /\ phase[Root] \in {0, 2}
    BY Zenon DEF HandleAnnouncement
  <2>2. announced # 0
    BY <2>1 DEF RootAnnouncements
  <2>3. CASE announced = 1
    BY <2>1, <2>3 DEF RootAnnouncements
  <2>4. CASE announced = 2
    BY <2>1, <2>4, Zenon DEF RootAnnouncements
  <2>5. announced \in 0..2
    BY DEF TypeOK
  <2> QED
    BY <2>2, <2>3, <2>4, <2>5
<1>4. /\ Head(announceChan[n]) = t
      /\ n # Root => Tail(announceChan[n]) = <<>>
      /\ n = Root => Tail(announceChan[n]) = IF announced = 1 \/ p = 2
                                             THEN <<>> ELSE <<RoundCommit>>
  BY <1>1, <1>2, <1>3, AnnouncementSeqs, Zenon
<1>5. IsLeaf(n) => n # Root
  BY RootHasChild, Zenon
<1>6. \A c \in Children(n) : phase[c] = p /\ announceChan[c] = <<>>
  <2> TAKE c \in Children(n)
  <2>1. c \in Node /\ c # Root /\ Parent[c] = n
    BY ChildFacts
  <2>2. Together(p, phase[c])
    BY <2>1 DEF LockStep
  <2>3. phase[c] = p
    BY <1>1, <2>2 DEF Together
  <2> QED
    BY <1>1, <2>1, <2>3 DEF Announcements
<1>7. LockStep'
  <2>1. n # Root => Together(phase[Parent[n]], k)
    BY <1>1, <1>2, <1>k DEF Together
  <2>2. \A c \in Children(n) : Together(k, phase[c])
    BY <1>1, <1>6, <1>k DEF Together, IsLeaf
  <2> QED
    BY <1>1, <2>1, <2>2, MoveLockStep, Zenon
<1>8. /\ announceChan'[n] = Tail(announceChan[n])
      /\ \A c \in Children(n) : announceChan'[c] = <<t>>
      /\ \A m \in Node : m # n /\ m \notin Children(n) =>
           announceChan'[m] = announceChan[m]
  <2>1. rest[n] = Tail(announceChan[n])
    BY Zenon DEF TypeOK
  <2>2. \A m \in Node : m # n => rest[m] = announceChan[m]
    BY Zenon DEF TypeOK
  <2> HIDE DEF rest
  <2>3. CASE IsLeaf(n)
    <3>1. announceChan' = rest
      BY <2>3 DEF HandleAnnouncement, rest
    <3> QED
      BY <2>1, <2>2, <2>3, <3>1, Zenon DEF IsLeaf
  <2>4. CASE ~IsLeaf(n)
    <3>1. announceChan' = [c \in Node |->
            IF c \in Children(n)
            THEN Append(rest[c], Head(announceChan[n])) ELSE rest[c]]
      BY <2>4 DEF HandleAnnouncement, rest
    <3>2. \A c \in Children(n) : c \in Node /\ rest[c] = <<>>
      BY <1>6, <2>2, ChildFacts
    <3>3. \A c \in Children(n) : announceChan'[c] = <<t>>
      BY <1>4, <3>1, <3>2, AnnouncementSeqs, Zenon
    <3> QED
      BY <2>1, <2>2, <3>1, <3>3, ChildFacts, Zenon
  <2> QED
    BY <2>3, <2>4, Zenon
<1> HIDE DEF t, rest
<1>9. Announcements'
  <2> SUFFICES ASSUME NEW c \in Node \ {Root}, announceChan'[c] # <<>>
               PROVE  \/ /\ phase'[Parent[c]] = 1 /\ phase'[c] = 0
                         /\ announceChan'[c] = <<RoundPrepare>>
                      \/ /\ phase'[Parent[c]] = 3 /\ phase'[c] = 2
                         /\ announceChan'[c] = <<RoundCommit>>
    BY DEF Announcements
  <2>1. Parent[c] \in Node /\ c \in Children(Parent[c]) /\ Parent[c] # c
    BY ChildFacts
  <2>2. c # n
    BY <1>4, <1>8, Zenon
  <2>3. CASE Parent[c] = n
    <3>1. ~IsLeaf(n)
      BY <2>1, <2>3, Zenon DEF IsLeaf
    <3>2. phase'[n] = p + 1
      BY <1>1, <1>k, <3>1, Moved, ZenonT(30)
    <3>3. phase'[c] = p
      BY <1>1, <1>6, <2>1, <2>2, <2>3, Moved, ZenonT(30)
    <3>4. announceChan'[c] = <<t>>
      BY <1>8, <2>1, <2>3
    <3> QED
      BY <1>t, <2>3, <3>2, <3>3, <3>4
  <2>4. CASE Parent[c] # n
    <3>1. announceChan'[c] = announceChan[c]
      BY <1>8, <2>2, <2>4, ChildFacts
    <3>2. phase'[c] = phase[c] /\ phase'[Parent[c]] = phase[Parent[c]]
      BY <1>1, <2>1, <2>2, <2>4, Moved, ZenonT(30)
    <3> QED
      BY <3>1, <3>2 DEF Announcements
  <2> QED
    BY <2>3, <2>4, Zenon
<1>10. RootAnnouncements'
  <2>1. UNCHANGED <<announced, closing>>
    BY DEF HandleAnnouncement
  <2>2. CASE n = Root
    <3>1. phase'[Root] = p + 1
      BY <1>1, <1>5, <1>k, <2>2, Moved, Zenon
    <3>2. announceChan'[Root] = IF announced = 1 \/ p = 2
                                THEN <<>> ELSE <<RoundCommit>>
      BY <1>4, <1>8, <2>2
    <3> QED
      BY <1>3, <1>t, <2>1, <2>2, <3>1, <3>2 DEF RootAnnouncements
  <2>3. CASE n # Root
    <3>1. Root \in Node /\ Root \notin Children(n)
      BY TreeTypes, ChildFacts
    <3>2. phase'[Root] = phase[Root]
      BY <1>1, <2>3, <3>1, Moved, Zenon
    <3>3. announceChan'[Root] = announceChan[Root]
      BY <1>8, <2>3, <3>1, Zenon
    <3> QED
      BY <2>1, <3>2, <3>3 DEF RootAnnouncements
  <2> QED
    BY <2>2, <2>3
<1>11. commitChan[n] = {} /\ (n # Root => \A m \in commitChan[Parent[n]] : m.from # n)
  <2>1. p # 1 /\ p # 3 /\ p # 4
    BY <1>1
  <2>2. n # Root => p + 1 = 1 \/ p + 1 = 3
    BY <1>1
  <2> QED
    BY <1>1, <1>2, <2>1, <2>2, ChildFacts DEF Commitments
<1>12. Commitments'
  <2>1. CASE ~IsLeaf(n)
    <3>1. commitChan' = commitChan
      BY <2>1, Zenon DEF HandleAnnouncement
    <3> QED
      BY <1>1, <1>11, <3>1, MoveCommitments, Zenon
  <2>2. CASE IsLeaf(n)
    <3> SUFFICES ASSUME NEW q \in Node, NEW m \in commitChan'[q]
                 PROVE  /\ m.from \in Children(q)
                        /\ \/ /\ phase'[q] = 1 /\ phase'[m.from] = 2
                              /\ m.type = RoundPrepare
                           \/ /\ phase'[q] = 3 /\ phase'[m.from] = 4
                              /\ m.type = RoundCommit
      BY DEF Commitments
    <3> DEFINE mine == [from |-> n, type |-> t]
    <3>0. Parent[n] \in Node /\ Parent[n] # n /\ n \in Children(Parent[n])
      BY <1>5, <2>2, ChildFacts, Zenon
    <3>1. commitChan' = SendToParent(commitChan, n, mine)
      BY <1>4, <2>2, Zenon DEF HandleAnnouncement
    <3>2. m \in commitChan[q] \/ (q = Parent[n] /\ m = mine)
      <4>1. DOMAIN commitChan = Node
        BY ChannelDomains
      <4>2. n # Root /\ m \in SendToParent(commitChan, n, mine)[q]
        BY <1>5, <2>2, <3>1, Zenon
      <4> QED
        BY <3>0, <4>1, <4>2, SentToParent
    <3>3. CASE q = Parent[n] /\ m = mine
      <4>1. phase'[q] = p + 1 /\ phase'[n] = p + 2
        BY <1>1, <1>2, <1>5, <1>k, <2>2, <3>0, <3>3, Moved, ZenonT(30)
      <4>2. m.from = n /\ m.type = t
        BY <3>3
      <4>3. \/ p + 1 = 1 /\ p + 2 = 2 /\ t = RoundPrepare
            \/ p + 1 = 3 /\ p + 2 = 4 /\ t = RoundCommit
        BY <1>t
      <4> QED
        BY <3>0, <3>3, <4>1, <4>2, <4>3, Zenon
    <3>4. CASE m \in commitChan[q]
      <4>1. m.from \in Children(q)
        BY <3>4 DEF Commitments
      <4>2. m.from \in Node /\ m.from # Root /\ Parent[m.from] = q
        BY <4>1, ChildFacts
      <4>3. q # n /\ m.from # n
        BY <1>11, <3>4, <4>2
      <4>4. phase'[q] = phase[q] /\ phase'[m.from] = phase[m.from]
        BY <1>1, <4>2, <4>3, Moved, ZenonT(30)
      <4> QED
        BY <3>4, <4>4 DEF Commitments
    <3> QED
      BY <3>2, <3>3, <3>4, Zenon
  <2> QED
    BY <2>1, <2>2
<1>13. Challenges'
  <2>1. UNCHANGED <<challengePrepareChan, challengeCommitChan, verification>>
    BY DEF HandleAnnouncement
  <2>2. /\ n # Root => ~challengePrepareChan[n]
        /\ challengeCommitChan[n] = {}
    BY <1>1, SMTT(20) DEF Challenges
  <2>3. \A c \in Children(n) : ~challengePrepareChan[c] /\ challengeCommitChan[c] = {}
    BY <1>1, <1>6, ChildFacts DEF Challenges
  <2> QED
    BY <1>1, <2>1, <2>2, <2>3, MoveChallenges, SameVotes, Zenon
<1>14. Responses'
  <2>1. UNCHANGED <<responseChan, verification>>
    BY DEF HandleAnnouncement
  <2>2. responseChan[n] = {}
    BY <1>1 DEF Responses
  <2>3. n # Root => \A m \in responseChan[Parent[n]] : m.from # n
    BY <1>1, ChildFacts DEF Responses
  <2> QED
    BY <1>1, <2>1, <2>2, <2>3, MoveResponses, SameVotes, Zenon
<1>15. /\ phase[n] <= k /\ k < 6 /\ k < 8 /\ k < 9 
       /\ k # 6 /\ ~(k >= 7) /\ ~(k >= 8)
  BY <1>1, <1>k
<1> HIDE DEF p
<1>16. Verified'
  <2>1. UNCHANGED verification
    BY DEF HandleAnnouncement
  <2> QED
    BY <1>1, <1>15, <2>1, MoveVerified, SameVotes, Zenon
<1>17. Stored'
  <2>1. UNCHANGED <<verification, temps>>
    BY Zenon DEF HandleAnnouncement
  <2>2. /\ tempPrepareResponse[n] = {} /\ tempCommitResponse[n] = {}
        /\ tempExceptions[n] = {} /\ signRefusal[n] = FALSE
    BY <1>1 DEF Stored, p
  <2>3. UNCHANGED <<tempPrepareResponse, tempCommitResponse, tempExceptions,
                    signRefusal>>
    BY <2>1 DEF temps
  <2> QED
    BY <1>1, <1>15, <2>1, <2>2, <2>3, MoveStored, SameVotes, Zenon
<1>18. Outcome'
  <2>1. UNCHANGED <<signature, verification>>
    BY DEF HandleAnnouncement
  <2>2. phase[n] # 9
    BY <1>1 DEF p
  <2> QED
    BY <1>1, <2>1, <2>2, MoveOutcome, SameVotes, ZenonT(30)
<1> QED
  BY <1>7, <1>9, <1>10, <1>12, <1>13, <1>14, <1>16, <1>17, <1>18

(* Steps that change only announcements or closing keep all the rest. *)
LEMMA KeepsRest ==
    ASSUME IInv,
           UNCHANGED <<phase, commitChan, challengePrepareChan,
                       challengeCommitChan, responseChan, verification,
                       tempPrepareResponse, tempCommitResponse,
                       tempExceptions, signRefusal, signature>>
    PROVE  /\ LockStep' /\ Commitments' /\ Challenges' /\ Responses'
           /\ Verified' /\ Stored' /\ Outcome'
<1> USE DEF IInv
<1>1. Refusers' = Refusers
  BY DEF Refusers
<1>2. LockStep'
  BY DEF LockStep
<1>3. Commitments'
  BY DEF Commitments
<1>4. Challenges'
  BY <1>1, SameReports, Zenon DEF Challenges
<1>5. Responses'
  BY <1>1, SameReports DEF Responses
<1>6. Verified'
  BY DEF Verified, HasVerified
<1>7. Stored'
  BY <1>1, SameReports, Zenon DEF Stored
<1>8. Outcome'
  BY <1>1, SameReports DEF Outcome
<1> QED
  BY <1>2, <1>3, <1>4, <1>5, <1>6, <1>7, <1>8, Zenon

(* Start, which begins the prepare round at the root, keeps the invariant. *)
LEMMA StartStep ==
    ASSUME IInv, TypeOK', Start
    PROVE  IInv'
<1> USE DEF IInv
<1>0. Root \in Node
  BY TreeTypes
<1>1. /\ LockStep' /\ Commitments' /\ Challenges' /\ Responses'
      /\ Verified' /\ Stored' /\ Outcome'
  BY KeepsRest DEF Start, temps
<1>2. phase' = phase /\ closing' = closing /\ announced = 0
  BY Zenon DEF Start
<1>3. \A c \in Node \ {Root} : announceChan'[c] = announceChan[c]
  BY <1>0, Zenon DEF Start, StartAnnouncement, TypeOK
<1>4. Announcements'
  BY <1>2, <1>3, Zenon DEF Announcements
<1>5. RootAnnouncements'
  <2>1. phase[Root] = 0 /\ announceChan[Root] = <<>>
    BY <1>2 DEF RootAnnouncements
  <2>2. CASE closing[Root]
    <3>1. announced' = 2 /\ closing'[Root]
      BY <1>2, <2>2 DEF Start
    <3> QED
      BY <3>1 DEF RootAnnouncements
  <2>3. CASE ~closing[Root]
    <3>1. announced' = 1
      BY <2>3 DEF Start
    <3>2. announceChan'[Root] = Append(announceChan[Root], RoundPrepare)
      BY <1>0, <2>3, Zenon DEF Start, StartAnnouncement, TypeOK
    <3>3. announceChan'[Root] = <<RoundPrepare>>
      BY <2>1, <3>2
    <3> QED
      BY <1>2, <2>1, <3>1, <3>3 DEF RootAnnouncements
  <2> QED
    BY <2>2, <2>3
<1> QED
  BY <1>1, <1>4, <1>5

(* The start of the commit round at the root keeps the invariant. *)
LEMMA StartCommitRoundStep ==
    ASSUME IInv, TypeOK', StartCommitRound
    PROVE  IInv'
<1> USE DEF IInv
<1>0. Root \in Node
  BY TreeTypes
<1>1. /\ LockStep' /\ Commitments' /\ Challenges' /\ Responses'
      /\ Verified' /\ Stored' /\ Outcome'
  BY KeepsRest DEF StartCommitRound, temps
<1>2. phase' = phase /\ closing' = closing /\ announced = 1 /\ announced' = 2
  BY Zenon DEF StartCommitRound
<1>3. /\ ~closing[Root] =>
           announceChan'[Root] = Append(announceChan[Root], RoundCommit)
      /\ \A c \in Node \ {Root} : announceChan'[c] = announceChan[c]
  BY <1>0, Zenon DEF StartCommitRound, StartAnnouncement, TypeOK
<1>4. Announcements'
  BY <1>2, <1>3, Zenon DEF Announcements
<1>5. RootAnnouncements'
  <2>1. /\ phase[Root] \in {0, 1, 2}
        /\ phase[Root] = 0 => announceChan[Root] = <<RoundPrepare>>
        /\ phase[Root] # 0 => announceChan[Root] = <<>>
    BY <1>2 DEF RootAnnouncements
  <2>2. ~closing[Root] /\ phase[Root] = 0 =>
          announceChan'[Root] = <<RoundPrepare, RoundCommit>>
    <3>1. Append(<<RoundPrepare>>, RoundCommit) = <<RoundPrepare, RoundCommit>>
      BY AnnouncementSeqs, Zenon
    <3> QED
      BY <1>3, <2>1, <3>1, Zenon
  <2>3. ~closing[Root] /\ phase[Root] # 0 => announceChan'[Root] = <<RoundCommit>>
    BY <1>3, <2>1
  <2>4. announced' # 0 /\ announced' # 1
    BY <1>2
  <2>5. phase[Root] \in {1, 2} => phase[Root] # 0
    OBVIOUS
  <2> QED
    BY <1>2, <2>2, <2>3, <2>4, <2>5, Zenon DEF RootAnnouncements
<1> QED
  BY <1>1, <1>4, <1>5

(* A node that shuts down (Shutdown closes its channels) keeps it, also if *)
(* the root is about to send the prepare challenge.                        *)
LEMMA ShutdownStep ==
    ASSUME IInv, TypeOK', NEW n \in Node,
           Shutdown(n) \/ (n = Root /\ ShutdownInChallenge)
    PROVE  IInv'
<1> USE DEF IInv
<1>1. /\ LockStep' /\ Commitments' /\ Challenges' /\ Responses'
      /\ Verified' /\ Stored' /\ Outcome'
  BY KeepsRest DEF Shutdown, ShutdownInChallenge, temps, chans
<1>2. phase' = phase /\ announced' = announced /\ announceChan' = announceChan
  BY DEF Shutdown, ShutdownInChallenge, chans
<1>3. closing[Root] => closing'[Root]
  BY TreeTypes, Zenon DEF Shutdown, ShutdownInChallenge, TypeOK
<1>4. Announcements'
  BY <1>2 DEF Announcements
<1>5. RootAnnouncements'
  BY <1>2, <1>3 DEF RootAnnouncements
<1> QED
  BY <1>1, <1>4, <1>5, Zenon

(* Steps that change nothing keep it. *)
LEMMA StutterStep ==
    ASSUME IInv, UNCHANGED vars
    PROVE  IInv'
<1> USE DEF IInv
<1>1. /\ LockStep' /\ Commitments' /\ Challenges' /\ Responses'
      /\ Verified' /\ Stored' /\ Outcome'
  BY KeepsRest DEF vars, temps, chans
<1>2. Announcements'
  BY Zenon DEF Announcements, vars, chans
<1>3. RootAnnouncements'
  BY Zenon DEF RootAnnouncements, vars, chans
<1>4. TypeOK'
  BY DEF TypeOK, vars, temps, chans
<1> QED
  BY <1>1, <1>2, <1>3, <1>4, Zenon

(* handleCommitment: the batch is the commitments of all children, of the  *)
(* round n is in, and nothing is left over.                                *)
LEMMA CommitmentStep ==
    ASSUME IInv, TypeOK', BatchesAreFull, NEW n \in Node, HandleCommitment(n)
    PROVE  IInv'
<1> DEFINE p == phase[n]
           t == IF p = 1 THEN RoundPrepare ELSE RoundCommit
           k == p + 1
<1> USE DEF IInv
<1>0. p \in {1, 3} /\ phase' = [phase EXCEPT ![n] = k]
  BY Zenon DEF HandleCommitment
<1>1. p \in {1, 3} /\ k \in 0..9 /\ phase' = [phase EXCEPT ![n] = k]
  BY <1>0
<1>r. \/ p = 1 /\ k = 2 /\ t = RoundPrepare
      \/ p = 3 /\ k = 4 /\ t = RoundCommit
  <2>1. p = 1 \/ p = 3
    BY <1>1
  <2>2. p = 1 => k = 2 /\ t = RoundPrepare
    OBVIOUS
  <2>3. p = 3 => k = 4 /\ t = RoundCommit
    OBVIOUS
  <2> HIDE DEF p, t, k
  <2> QED
    BY <2>1, <2>2, <2>3, Zenon
<1>2. PICK B \in SUBSET commitChan[n] : HandleCommitment(n)!3!(B)
  BY Zenon DEF HandleCommitment
<1>3. \A m \in commitChan[n] : /\ m.from \in Children(n)
                               /\ phase[m.from] = k
                               /\ m = [from |-> m.from, type |-> t]
  <2> TAKE m \in commitChan[n]
  <2>1. m.from \in Children(n) /\ phase[m.from] = k /\ m.type = t
    BY <1>1 DEF Commitments
  <2>2. m \in Commitment
    BY Zenon DEF TypeOK
  <2>3. m = [from |-> m.from, type |-> m.type]
    BY <2>2 DEF Commitment
  <2> QED
    BY <2>1, <2>3
<1>4. \A c \in Children(n) : \E m \in B : m.from = c
  <2>1. \A m \in B : m.from \in Children(n)
    BY <1>3
  <2>2. \A m1, m2 \in B : m1.from = m2.from => m1 = m2
    BY <1>3, Zenon
  <2>3. Cardinality(B) = Cardinality(Children(n))
    BY <1>2, Zenon DEF IsBatch
  <2> QED
    BY <2>1, <2>2, <2>3 DEF BatchesAreFull
<1>5. \A c \in Children(n) : phase[c] = k
  BY <1>3, <1>4
<1>6. commitChan[n] \ B = {}
  BY <1>3, <1>4
<1>7. n # Root => phase[Parent[n]] = p
  <2>1. n # Root => Together(phase[Parent[n]], p)
    BY DEF LockStep
  <2> QED
    BY <1>1, <2>1 DEF Together
<1>8. LockStep'
  <2>1. n # Root => Together(phase[Parent[n]], k)
    BY <1>1, <1>7, SMTT(20) DEF Together
  <2>2. \A c \in Children(n) : Together(k, phase[c])
    BY <1>1, <1>5 DEF Together
  <2> QED
    BY <1>1, <2>1, <2>2, MoveLockStep, Zenon
<1>9. Announcements'
  <2>1. announceChan' = announceChan
    BY Zenon DEF HandleCommitment
  <2>2. n # Root => announceChan[n] = <<>>
    BY <1>1, SMTT(20) DEF Announcements
  <2>3. \A c \in Children(n) : announceChan[c] = <<>>
    BY <1>1, <1>5, ChildFacts DEF Announcements
  <2> QED
    BY <1>1, <2>1, <2>2, <2>3, MoveAnnouncements, Zenon
<1>10. RootAnnouncements'
  <2>1. UNCHANGED <<announced, announceChan, closing>>
    BY Zenon DEF HandleCommitment
  <2>2. (phase[n] = 1 /\ k = 2) \/ (phase[n] >= 3 /\ k >= 3)
    <3> HIDE DEF p, t, k
    <3>1. (p = 1 /\ k = 2) \/ (p >= 3 /\ k >= 3)
      BY <1>r
    <3> QED
      BY <3>1, Zenon DEF p
  <2> QED
    BY <1>1, <2>1, <2>2, MoveRootAnnouncements, Zenon
<1>11. Commitments'
  <2> SUFFICES ASSUME NEW q \in Node, NEW m \in commitChan'[q]
               PROVE  /\ m.from \in Children(q)
                      /\ \/ /\ phase'[q] = 1 /\ phase'[m.from] = 2
                            /\ m.type = RoundPrepare
                         \/ /\ phase'[q] = 3 /\ phase'[m.from] = 4
                            /\ m.type = RoundCommit
    BY Zenon DEF Commitments
  <2> DEFINE mine == [from |-> n, type |-> t]
             up == [commitChan EXCEPT ![n] = @ \ B]
  <2>1. up[n] = {} /\ \A x \in Node : x # n => up[x] = commitChan[x]
    BY <1>6 DEF TypeOK
  <2>2. \A x \in B : x.type = t
    BY <1>3
  <2>3. up \in [Node -> SUBSET Commitment]
    BY Zenon DEF TypeOK
  <2>4. \/ commitChan' = up
        \/ /\ n # Root
           /\ \E T \in SUBSET {x.type : x \in B} :
                commitChan' = [up EXCEPT ![Parent[n]] =
                                 @ \cup {[from |-> n, type |-> y] : y \in T}]
    BY <1>2, Zenon DEF IsRoot
  <2> HIDE DEF up
  <2>5. \/ m \in up[q]
        \/ n # Root /\ q = Parent[n] /\ m = mine
    <3>1. CASE commitChan' = up
      BY <3>1, Zenon
    <3>2. CASE /\ n # Root
               /\ \E T \in SUBSET {x.type : x \in B} :
                    commitChan' = [up EXCEPT ![Parent[n]] =
                                     @ \cup {[from |-> n, type |-> y] : y \in T}]
      <4>1. PICK T \in SUBSET {x.type : x \in B} :
              commitChan' = [up EXCEPT ![Parent[n]] =
                               @ \cup {[from |-> n, type |-> y] : y \in T}]
        BY <3>2, Zenon
      <4>2. \A y \in T : y = t
        BY <2>2, Zenon
      <4> HIDE DEF t, mine
      <4>3. \/ m \in up[q]
            \/ q = Parent[n] /\ \E y \in T : m = [from |-> n, type |-> y]
        BY <2>3, <4>1, Zenon
      <4> QED
        BY <3>2, <4>2, <4>3, Zenon DEF mine
    <3> QED
      BY <2>4, <3>1, <3>2, Zenon
  <2>6. CASE n # Root /\ q = Parent[n] /\ m = mine
    <3>1. n \in Children(q) /\ q # n
      BY <2>6, ChildFacts, Zenon
    <3>2. phase'[q] = p /\ phase'[n] = k
      BY <1>1, <1>7, <2>6, <3>1, Moved, ZenonT(30)
    <3>3. m.from = n /\ m.type = t
      BY <2>6
    <3> HIDE DEF p, t, k
    <3> QED
      BY <1>r, <3>1, <3>2, <3>3, Zenon
  <2>7. CASE m \in up[q]
    <3>1. q # n /\ m \in commitChan[q]
      BY <2>1, <2>7, Zenon
    <3>2. m.from \in Children(q)
      BY <3>1 DEF Commitments
    <3>3. m.from \in Node /\ m.from # Root /\ Parent[m.from] = q
      BY <3>2, ChildFacts, Zenon
    <3>4. m.from # n
      BY <1>1, <1>7, <3>1, <3>3 DEF Commitments
    <3>5. phase'[q] = phase[q] /\ phase'[m.from] = phase[m.from]
      BY <1>1, <3>1, <3>3, <3>4, Moved, ZenonT(30)
    <3> QED
      BY <3>1, <3>5 DEF Commitments
  <2> QED
    BY <2>5, <2>6, <2>7, Zenon
<1>12. Challenges'
  <2>1. UNCHANGED <<challengeCommitChan, verification>>
    BY Zenon DEF HandleCommitment
  <2>2. \A c \in Node \ {Root} :
          challengePrepareChan'[c] = challengePrepareChan[c]
    <3>1. \/ challengePrepareChan' = challengePrepareChan
          \/ \E x : challengePrepareChan' = [challengePrepareChan EXCEPT ![Root] = x]
      BY <1>2, Zenon DEF IsRoot
    <3>2. DOMAIN challengePrepareChan = Node
      BY Zenon DEF TypeOK
    <3> QED
      BY <3>1, <3>2, Zenon
  <2>3. /\ n # Root => ~challengePrepareChan[n]
        /\ challengeCommitChan[n] = {}
    BY <1>1, SMTT(20) DEF Challenges
  <2>4. \A c \in Children(n) : ~challengePrepareChan[c] /\ challengeCommitChan[c] = {}
    BY <1>1, <1>5, ChildFacts DEF Challenges
  <2> QED
    BY <1>1, <2>1, <2>2, <2>3, <2>4, MoveChallenges, SameVotes, ZenonT(30)
<1>13. Responses'
  <2>1. UNCHANGED <<responseChan, verification>>
    BY ZenonT(30) DEF HandleCommitment
  <2>2. responseChan[n] = {}
    BY <1>1, SMTT(20) DEF Responses
  <2>3. n # Root => \A m \in responseChan[Parent[n]] : m.from # n
    BY <1>1, ChildFacts DEF Responses
  <2> QED
    BY <1>1, <2>1, <2>2, <2>3, MoveResponses, SameVotes, Zenon
<1>14. /\ phase[n] <= k /\ k < 6 /\ k < 8 /\ k < 9
       /\ k # 6 /\ ~(k >= 7) /\ ~(k >= 8) /\ phase[n] # 9
  <2> HIDE DEF p, t, k
  <2> QED
    BY <1>r DEF p
<1> HIDE DEF p, t, k
<1>15. UNCHANGED <<verification, signature, tempPrepareResponse,
                   tempCommitResponse, tempExceptions, signRefusal>>
  BY Zenon DEF HandleCommitment
<1>16. Verified'
  BY <1>1, <1>14, <1>15, MoveVerified, SameVotes, ZenonT(30)
<1>17. Stored'
  <2>1. /\ tempPrepareResponse[n] = {} /\ tempCommitResponse[n] = {}
        /\ tempExceptions[n] = {} /\ signRefusal[n] = FALSE
    BY <1>1 DEF Stored, p
  <2> QED
    BY <1>1, <1>14, <1>15, <2>1, MoveStored, SameVotes, Zenon
<1>18. Outcome'
  BY <1>1, <1>14, <1>15, MoveOutcome, SameVotes, Zenon
<1> QED
  BY <1>8, <1>9, <1>10, <1>11, <1>12, <1>13, <1>16, <1>17, <1>18, Zenon
=============================================================================
