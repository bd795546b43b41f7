-------------------------- MODULE Broadcast_proofs --------------------------
(***************************************************************************)
(* Broadcast for any number of nodes from two on, with any failing sends:  *)
(* the root's callback confirms a complete mesh.                           *)
(***************************************************************************)
EXTENDS Broadcast, FiniteSetTheorems, TLAPS

(* A pair of nodes is known by its smaller and its larger one.             *)
LEMMA PairOf ==
    ASSUME NEW i \in Node, NEW j \in Node, NEW k \in Node, NEW l \in Node,
           i < j, k < l
    PROVE  {i, j} = {k, l} <=> i = k /\ j = l
BY NAssumption DEF Node

(* N - tnIndex - 1 is the number of nodes after tnIndex.                   *)
LEMMA LaterCount ==
    ASSUME NEW i \in Node
    PROVE  IsFiniteSet(Later(i)) /\ Cardinality(Later(i)) = N - i - 1
<1>1. Later(i) = (i + 1)..(N - 1)
  BY NAssumption DEF Later, Node
<1>2. i + 1 \in Int /\ N - 1 \in Int /\ i \in Int /\ N \in Int /\ i + 1 <= N
  BY NAssumption DEF Node
<1>3. /\ IsFiniteSet((i + 1)..(N - 1))
      /\ Cardinality((i + 1)..(N - 1)) =
           IF i + 1 > N - 1 THEN 0 ELSE (N - 1) - (i + 1) + 1
  BY <1>2, FS_Interval
<1>. QED  BY <1>1, <1>2, <1>3

(* The done messages still to come are of finitely many nodes. *)
LEMMA LeftFinite ==
    ASSUME NEW i \in Node
    PROVE  IsFiniteSet(Left(i)) /\ Left(i) \subseteq Later(i)
<1>1. Left(i) \in SUBSET Later(i)
  BY DEF Left
<1>. QED  BY <1>1, LaterCount, FS_Subset

(* The protocol instances before Start satisfy the invariant. *)
LEMMA InitHolds == ASSUME N > 1, Init PROVE IInv
<1>1. N * (N - 1) \in Nat /\ (N * (N - 1)) \div 2 \in Nat
  BY NAssumption
<1>2. Messages
  BY <1>1, NAssumption DEF Init, Messages, Node, Root
<1>3. Exchanges
  BY DEF Init, Exchanges, Root, Node
<1>4. Counters
  BY DEF Init, Counters, Started, Root, Node
<1>. QED  BY <1>2, <1>3, <1>4 DEF IInv

(* A contact of the root by itself, which Start sends.                     *)
LEMMA RootContact ==
    ASSUME N > 1, IInv, NEW i \in Node, HandleContactNodes(i),
           <<Root, Root>> \in contacts
    PROVE  IInv'
<1>1. contacts = {<<Root, Root>>} /\ dones = {} /\ connected = {}
  BY DEF IInv, Messages
<1>2. Root \in Node /\ N - Root - 1 # 0 /\ N - Root - 1 \in Nat
  BY NAssumption DEF Root, Node
<1>3. PICK m \in contacts :
        /\ m[2] = i
        /\ connected' = connected \cup {{m[1], i}}
        /\ \/ /\ m[1] = Root
              /\ repliesLeft' = [repliesLeft EXCEPT ![i] = N - i - 1]
              /\ \/ /\ N - i - 1 = 0
                    /\ dones' = dones \cup {<<i, Root>>}
                    /\ contacts' = contacts \ {m}
                    /\ UNCHANGED failed
                 \/ /\ N - i - 1 # 0
                    /\ \E R \in Reached(i) :
                         /\ contacts' = (contacts \ {m}) \cup {<<i, j>> : j \in R}
                         /\ failed' = (failed \/ R # Later(i))
                    /\ UNCHANGED dones
           \/ /\ m[1] # Root
              /\ dones' = dones \cup {<<i, m[1]>>}
              /\ contacts' = contacts \ {m}
              /\ UNCHANGED <<repliesLeft, failed>>
        /\ UNCHANGED onDoneCb
  BY DEF HandleContactNodes
<1>4. m = <<Root, Root>> /\ i = Root
  BY <1>1, <1>3
<1>5. PICK R \in Reached(Root) : contacts' = {<<Root, j>> : j \in R}
  BY <1>1, <1>2, <1>3, <1>4
<1>6. R \subseteq Later(Root)
  BY <1>5 DEF Reached
<1>7. /\ connected' = {{Root, Root}} /\ dones' = {} /\ onDoneCb' = onDoneCb
      /\ repliesLeft' = [repliesLeft EXCEPT ![Root] = N - Root - 1]
  BY <1>1, <1>2, <1>3, <1>4
<1>8. \A k, l \in Node : k < l => {k, l} \notin connected'
  BY <1>7, <1>2, NAssumption DEF Node, Root
<1>9. Messages'
  <2>1. \A j \in R : j \in Node /\ Root < j
    BY <1>6 DEF Later
  <2>. QED  BY <2>1, <1>2, <1>5, <1>7 DEF IInv, Messages, Root, Node
<1>10. Exchanges'
  BY <1>5, <1>6, <1>7, <1>8, <1>2 DEF Exchanges, Started, Later, Node, Root
<1>11. Counters'
  <2>1. Left(Root)' = Later(Root)
    BY <1>8, <1>2 DEF Left, Later
  <2>2. \A k \in Node : Started(k)' => k = Root
    BY <1>8, <1>2, NAssumption DEF Started, Node, Root
  <2>3. repliesLeft'[Root] = Cardinality(Left(Root)')
    BY <1>2, <1>7, <2>1, LaterCount DEF IInv, Messages
  <2>4. \A k \in Node : onDoneCb[k] = 0
    BY <1>1 DEF IInv, Counters, Started, Root
  <2>. QED  BY <2>2, <2>3, <2>4, <1>7 DEF Counters
<1>. QED  BY <1>9, <1>10, <1>11 DEF IInv

(* A contact of node i by the root.                                        *)
LEMMA ContactByRoot ==
    ASSUME N > 1, IInv, NEW i \in Node, i # Root, <<Root, Root>> \notin contacts,
           <<Root, i>> \in contacts,
           connected' = connected \cup {{Root, i}},
           repliesLeft' = [repliesLeft EXCEPT ![i] = N - i - 1],
           onDoneCb' = onDoneCb,
           \/ /\ N - i - 1 = 0
              /\ dones' = dones \cup {<<i, Root>>}
              /\ contacts' = contacts \ {<<Root, i>>}
           \/ /\ N - i - 1 # 0
              /\ dones' = dones
              /\ \E R \in Reached(i) :
                   contacts' = (contacts \ {<<Root, i>>}) \cup {<<i, j>> : j \in R}
    PROVE  IInv'
<1>1. Root \in Node /\ Root < i /\ N - i - 1 \in Nat
  BY NAssumption DEF Root, Node
<1>2. /\ {Root, i} \notin connected /\ <<i, Root>> \notin dones
      /\ \A j \in Node : i < j => {i, j} \notin connected /\ <<j, i>> \notin dones
  BY <1>1, Zenon DEF IInv, Exchanges, Started
<1>3. \A k, l \in Node : k < l =>
        ({k, l} \in connected' <=> {k, l} \in connected \/ (k = Root /\ l = i))
  BY <1>1, PairOf
<1>4. \A k, l \in Node :
        /\ <<k, l>> \in contacts' =>
             \/ <<k, l>> \in contacts /\ <<k, l>> # <<Root, i>>
             \/ k = i /\ l \in Later(i)
        /\ <<k, l>> \in dones' <=>
             <<k, l>> \in dones \/ (N - i - 1 = 0 /\ k = i /\ l = Root)
  BY DEF Reached
<1>5. \A k \in Node : Started(k)' <=> Started(k) \/ k = i
  BY <1>1, <1>3, NAssumption DEF Started, Reached, Later, Root, Node
<1>6. repliesLeft'[i] = N - i - 1 /\ \A k \in Node : k # i => repliesLeft'[k] = repliesLeft[k]
  BY DEF IInv, Messages
<1>7. Messages'
  <2>1. contacts' \subseteq {m \in Node \X Node : m[1] < m[2] \/ m = <<Root, Root>>}
    BY <1>1 DEF IInv, Messages, Reached, Later
  <2>2. dones' \subseteq {m \in Node \X Node : m[2] < m[1]}
    BY <1>1 DEF IInv, Messages
  <2>3. <<Root, Root>> \notin contacts'
    BY <1>1, <1>4
  <2>4. repliesLeft' \in [Node -> Nat] /\ onDoneCb' \in [Node -> 0..1]
    BY <1>1 DEF IInv, Messages
  <2>. QED  BY <2>1, <2>2, <2>3, <2>4 DEF Messages
<1>8. Exchanges'
  <2>1. SUFFICES ASSUME NEW k \in Node, NEW l \in Node, k < l
                 PROVE  /\ <<k, l>> \in contacts' =>
                             Started(k)' /\ {k, l} \notin connected' /\ <<l, k>> \notin dones'
                        /\ <<l, k>> \in dones' => {k, l} \in connected'
                        /\ <<l, k>> \in dones' /\ k = Root => repliesLeft'[l] = 0
                        /\ {k, l} \in connected' => Started(k)'
    BY Zenon DEF Exchanges
  <2>2. /\ <<k, l>> \in contacts =>
             Started(k) /\ {k, l} \notin connected /\ <<l, k>> \notin dones
        /\ <<l, k>> \in dones => {k, l} \in connected
        /\ <<l, k>> \in dones /\ k = Root => repliesLeft[l] = 0
        /\ {k, l} \in connected => Started(k)
    BY <2>1 DEF IInv, Exchanges
  <2>3. Started(Root)
    BY DEF Started
  <2>4. <<k, l>> \in contacts' =>
          Started(k)' /\ {k, l} \notin connected' /\ <<l, k>> \notin dones'
    BY <2>1, <2>2, <1>1, <1>2, <1>3, <1>4, <1>5, NAssumption DEF Later, Node, Root
  <2>5. <<l, k>> \in dones' => {k, l} \in connected'
    BY <2>1, <2>2, <1>3, <1>4
  <2>6. <<l, k>> \in dones' /\ k = Root => repliesLeft'[l] = 0
    BY <2>1, <2>2, <1>2, <1>4, <1>6
  <2>7. {k, l} \in connected' => Started(k)'
    BY <2>1, <2>2, <2>3, <1>3, <1>5
  <2>. QED  BY <2>4, <2>5, <2>6, <2>7
<1>9. Counters'
  <2>1. Left(i)' = Later(i)
    BY <1>1, <1>2, <1>3 DEF Left, Later
  <2>2. \A k \in Node : k # i => Left(k)' = Left(k)
    <3>1. \A k, l \in Node : k # i /\ k < l =>
            ((\/ {k, l} \notin connected'
              \/ k = Root /\ repliesLeft'[l] # 0
              \/ <<l, k>> \in dones')
             <=>
             (\/ {k, l} \notin connected
              \/ k = Root /\ repliesLeft[l] # 0
              \/ <<l, k>> \in dones))
      BY <1>1, <1>2, <1>3, <1>4, <1>6, Zenon
    <3>. QED  BY <3>1 DEF Left, Later
  <2>3. Cardinality(Later(i)) = N - i - 1
    BY LaterCount
  <2>4. ~Started(i)
    BY <1>2 DEF Started
  <2>. QED  BY <2>1, <2>2, <2>3, <2>4, <1>5, <1>6 DEF IInv, Counters
<1>. QED  BY <1>7, <1>8, <1>9 DEF IInv

(* A contact of node i by another node, which it answers at once.          *)
LEMMA ContactByOther ==
    ASSUME N > 1, IInv, NEW i \in Node, NEW a \in Node, a # Root,
           <<a, i>> \in contacts,
           connected' = connected \cup {{a, i}},
           contacts' = contacts \ {<<a, i>>},
           dones' = dones \cup {<<i, a>>},
           UNCHANGED <<repliesLeft, onDoneCb>>
    PROVE  IInv'
<1>1. a < i /\ Root \in Node /\ <<Root, Root>> \notin contacts
  BY NAssumption DEF IInv, Messages, Root, Node
<1>2. Started(a) /\ {a, i} \notin connected /\ <<i, a>> \notin dones
  BY <1>1 DEF IInv, Exchanges
<1>3. \A k, l \in Node : k < l =>
        ({k, l} \in connected' <=> {k, l} \in connected \/ (k = a /\ l = i))
  BY <1>1, PairOf
<1>4. \A k \in Node : Started(k)' <=> Started(k)
  BY <1>1, <1>3, NAssumption DEF Started, Root, Node
<1>5. Messages'
  BY <1>1 DEF IInv, Messages
<1>6. Exchanges'
  <2>1. \A k, l \in Node : k < l =>
          /\ <<k, l>> \in contacts' <=> <<k, l>> \in contacts /\ ~(k = a /\ l = i)
          /\ <<l, k>> \in dones' <=> <<l, k>> \in dones \/ (k = a /\ l = i)
    OBVIOUS
  <2>. QED  BY <2>1, <1>2, <1>3, <1>4 DEF IInv, Exchanges
<1>7. Counters'
  <2>1. \A k \in Node : Left(k)' = Left(k)
    BY <1>2, <1>3, Zenon DEF Left, Later
  <2>. QED  BY <2>1, <1>4 DEF IInv, Counters
<1>. QED  BY <1>5, <1>6, <1>7 DEF IInv

(* A Done that j sends to i: one answer fewer is missing.  The last one    *)
(* makes i report to the root, or the root call its callback.              *)
LEMMA DoneHandled ==
    ASSUME N > 1, IInv, NEW i \in Node, NEW j \in Node, <<j, i>> \in dones,
           connected' = connected \cup {{j, i}},
           repliesLeft' = [repliesLeft EXCEPT ![i] = @ - 1],
           contacts' = contacts,
           IF repliesLeft[i] = 1
           THEN /\ onDoneCb' = [onDoneCb EXCEPT ![i] = @ + 1]
                /\ dones' = (dones \ {<<j, i>>}) \cup
                              (IF i = Root THEN {} ELSE {<<i, Root>>})
           ELSE dones' = dones \ {<<j, i>>} /\ UNCHANGED onDoneCb
    PROVE  IInv'
<1>1. i < j /\ j # i /\ Root \in Node /\ <<Root, Root>> \notin contacts
  BY NAssumption DEF IInv, Messages, Root, Node
<1>2. {i, j} \in connected /\ Started(i) /\ (i = Root => repliesLeft[j] = 0)
  BY <1>1, Zenon DEF IInv, Exchanges
<1>3. connected' = connected
  <2>1. {j, i} = {i, j}
    OBVIOUS
  <2>. QED  BY <1>2, <2>1, Zenon
<1>4. \A k \in Node : Started(k)' <=> Started(k)
  BY <1>3 DEF Started
<1>5. j \in Left(i) /\ IsFiniteSet(Left(i)) /\ repliesLeft[i] = Cardinality(Left(i))
  BY <1>1, <1>2, LeftFinite, Zenon DEF Left, Later, IInv, Counters
<1>6. repliesLeft[i] # 0 /\ repliesLeft[i] \in Nat /\ onDoneCb[i] = 0
  BY <1>5, FS_EmptySet DEF IInv, Messages, Counters
<1>7. /\ repliesLeft'[i] = repliesLeft[i] - 1 /\ repliesLeft'[i] \in Nat
      /\ \A k \in Node : k # i => repliesLeft'[k] = repliesLeft[k]
  BY <1>6 DEF IInv, Messages
<1>8. \A k, l \in Node :
        <<l, k>> \in dones' <=>
          \/ <<l, k>> \in dones /\ ~(l = j /\ k = i)
          \/ l = i /\ k = Root /\ i # Root /\ repliesLeft[i] = 1
  BY <1>1
<1>9. Messages'
  <2>1. dones' \subseteq {m \in Node \X Node : m[2] < m[1]}
    <3>1. i # Root => Root < i
      BY NAssumption DEF Root, Node
    <3>. QED  BY <3>1, <1>1 DEF IInv, Messages
  <2>2. repliesLeft' \in [Node -> Nat]
    BY <1>6 DEF IInv, Messages
  <2>3. onDoneCb' \in [Node -> 0..1]
    BY <1>6 DEF IInv, Messages
  <2>. QED  BY <2>1, <2>2, <2>3, <1>1 DEF IInv, Messages
<1>10. Exchanges'
  <2>1. SUFFICES ASSUME NEW k \in Node, NEW l \in Node, k < l
                 PROVE  /\ <<k, l>> \in contacts' =>
                             Started(k)' /\ {k, l} \notin connected' /\ <<l, k>> \notin dones'
                        /\ <<l, k>> \in dones' => {k, l} \in connected'
                        /\ <<l, k>> \in dones' /\ k = Root => repliesLeft'[l] = 0
                        /\ {k, l} \in connected' => Started(k)'
    BY Zenon DEF Exchanges
  <2>2. /\ <<k, l>> \in contacts =>
             Started(k) /\ {k, l} \notin connected /\ <<l, k>> \notin dones
        /\ <<l, k>> \in dones => {k, l} \in connected
        /\ <<l, k>> \in dones /\ k = Root => repliesLeft[l] = 0
        /\ {k, l} \in connected => Started(k)
    BY <2>1 DEF IInv, Exchanges
  <2>3. i # Root => {Root, i} \in connected
    BY <1>2 DEF Started
  <2>4. <<k, l>> \in contacts' => Started(k)' /\ {k, l} \notin connected'
    BY <2>2, <1>3, <1>4
  <2>5. <<k, l>> \in contacts' => <<l, k>> \notin dones'
    BY <2>2, <2>3, <1>8, Zenon
  <2>6. <<l, k>> \in dones' => {k, l} \in connected'
    BY <2>2, <2>3, <1>3, <1>8, Zenon
  <2>7. <<l, k>> \in dones' /\ k = Root => repliesLeft'[l] = 0
    BY <2>2, <1>6, <1>7, <1>8
  <2>. QED  BY <2>2, <2>4, <2>5, <2>6, <2>7, <1>3, <1>4
<1>11. Counters'
  <2>1. Left(i)' = Left(i) \ {j}
    <3>1. \A l \in Node : i < l =>
            ((\/ {i, l} \notin connected'
              \/ i = Root /\ repliesLeft'[l] # 0
              \/ <<l, i>> \in dones')
             <=>
             /\ \/ {i, l} \notin connected
                \/ i = Root /\ repliesLeft[l] # 0
                \/ <<l, i>> \in dones
             /\ l # j)
      BY <1>1, <1>2, <1>3, <1>7, <1>8, NAssumption DEF Root, Node
    <3>. QED  BY <3>1 DEF Left, Later
  <2>2. \A k \in Node : k # i => Left(k)' = Left(k)
    <3>1. \A k, l \in Node : k # i /\ k < l =>
            ((\/ {k, l} \notin connected'
              \/ k = Root /\ repliesLeft'[l] # 0
              \/ <<l, k>> \in dones')
             <=>
             (\/ {k, l} \notin connected
              \/ k = Root /\ repliesLeft[l] # 0
              \/ <<l, k>> \in dones))
      BY <1>1, <1>2, <1>3, <1>6, <1>7, <1>8
    <3>. QED  BY <3>1 DEF Left, Later
  <2>3. Cardinality(Left(i)') = Cardinality(Left(i)) - 1
    BY <2>1, <1>5, FS_RemoveElement, Zenon
  <2>4. \A k \in Node : onDoneCb'[k] # 0 =>
          \/ k # i /\ onDoneCb[k] # 0
          \/ k = i /\ repliesLeft[i] = 1
    BY <1>6 DEF IInv, Messages
  <2>. QED  BY <2>2, <2>3, <2>4, <1>2, <1>4, <1>5, <1>6, <1>7 DEF IInv, Counters
<1>. QED  BY <1>9, <1>10, <1>11 DEF IInv

(* Every handler of Broadcast keeps the invariant. *)
LEMMA NextKeeps == ASSUME N > 1, IInv, [Next]_vars PROVE IInv'
<1>1. CASE UNCHANGED vars
  <2>1. /\ contacts' = contacts /\ dones' = dones /\ repliesLeft' = repliesLeft
        /\ onDoneCb' = onDoneCb /\ connected' = connected
    BY <1>1 DEF vars
  <2>2. \A i \in Node : (Started(i)' <=> Started(i)) /\ Left(i)' = Left(i)
    BY <2>1 DEF Started, Left
  <2>3. Messages' /\ Exchanges'
    BY <2>1, <2>2 DEF IInv, Messages, Exchanges
  <2>4. Counters'
    BY <2>1, <2>2 DEF IInv, Counters
  <2>. QED  BY <2>3, <2>4 DEF IInv
<1>2. ASSUME NEW i \in Node, HandleContactNodes(i), <<Root, Root>> \notin contacts
      PROVE  IInv'
  <2>1. PICK m \in contacts :
          /\ m[2] = i
          /\ connected' = connected \cup {{m[1], i}}
          /\ \/ /\ m[1] = Root
                /\ repliesLeft' = [repliesLeft EXCEPT ![i] = N - i - 1]
                /\ \/ /\ N - i - 1 = 0
                      /\ dones' = dones \cup {<<i, Root>>}
                      /\ contacts' = contacts \ {m}
                   \/ /\ N - i - 1 # 0
                      /\ \E R \in Reached(i) :
                           contacts' = (contacts \ {m}) \cup {<<i, j>> : j \in R}
                      /\ UNCHANGED dones
             \/ /\ m[1] # Root
                /\ dones' = dones \cup {<<i, m[1]>>}
                /\ contacts' = contacts \ {m}
                /\ UNCHANGED repliesLeft
          /\ UNCHANGED onDoneCb
    BY <1>2 DEF HandleContactNodes
  <2>2. m[1] \in Node /\ m = <<m[1], i>> /\ (m[1] = Root => i # Root)
    BY <2>1, <1>2 DEF IInv, Messages
  <2>3. CASE m[1] = Root
    BY <1>2, <2>1, <2>2, <2>3, ContactByRoot
  <2>4. CASE m[1] # Root
    BY <2>1, <2>2, <2>4, ContactByOther
  <2>. QED  BY <2>3, <2>4
<1>3. ASSUME NEW i \in Node, HandleDone(i)
      PROVE  IInv'
  <2>1. PICK m \in dones :
          /\ m[2] = i
          /\ connected' = connected \cup {{m[1], i}}
          /\ repliesLeft' = [repliesLeft EXCEPT ![i] = @ - 1]
          /\ IF repliesLeft[i] = 1
             THEN /\ onDoneCb' = [onDoneCb EXCEPT ![i] = @ + 1]
                  /\ dones' = (dones \ {m}) \cup
                                (IF i = Root THEN {} ELSE {<<i, Root>>})
             ELSE dones' = dones \ {m} /\ UNCHANGED onDoneCb
          /\ UNCHANGED contacts
    BY <1>3, Zenon DEF HandleDone
  <2>2. m[1] \in Node /\ m = <<m[1], i>>
    BY <2>1 DEF IInv, Messages
  <2>. QED  BY <2>1, <2>2, DoneHandled, ZenonT(30)
<1>. QED  BY <1>1, <1>2, <1>3, RootContact DEF Next

(* For any number of nodes from two on, whichever sends fail and in which  *)
(* order contacts and Dones are handled, a started node's repliesLeft is   *)
(* the number of answers that are missing.                                 *)
THEOREM Invariance == ASSUME N > 1 PROVE Spec => []IInv
BY InitHolds, NextKeeps, PTL DEF Spec

(* What the invariant says once the root's counter is at 0.                *)
LEMMA NoneLeft ==
    ASSUME IInv, onDoneCb[Root] > 0
    PROVE  \A i \in Node : Started(i) /\ Left(i) = {}
<1>1. Root \in Node /\ onDoneCb[Root] # 0
  BY NAssumption DEF Root, Node
<1>2. Started(Root) /\ Cardinality(Left(Root)) = 0
  BY <1>1 DEF IInv, Counters
<1>3. Left(Root) = {}
  BY <1>1, <1>2, LeftFinite, FS_EmptySet
<1>4. \A i \in Node : i # Root => Root < i
  BY NAssumption DEF Root, Node
<1>5. \A i \in Node : i # Root => {Root, i} \in connected /\ repliesLeft[i] = 0
  BY <1>3, <1>4, Zenon DEF Left, Later
<1>6. \A i \in Node : i # Root => Started(i) /\ Cardinality(Left(i)) = 0
  BY <1>5 DEF IInv, Counters, Started
<1>. QED  BY <1>2, <1>3, <1>6, LeftFinite, FS_EmptySet

(* The callback registered with RegisterOnDone runs at the root only when  *)
(* every two nodes have exchanged a message.                               *)
THEOREM ConfirmsMesh == ASSUME N > 1 PROVE Spec => []ConnectedWhenDone
<1>1. IInv => ConnectedWhenDone
  <2>1. SUFFICES ASSUME IInv, onDoneCb[Root] > 0, NEW i \in Node, NEW j \in Node, i # j
                 PROVE  {i, j} \in connected
    BY DEF ConnectedWhenDone
  <2>2. i < j \/ j < i
    BY <2>1, NAssumption DEF Node
  <2>3. \A k, l \in Node : k < l => {k, l} \in connected
    BY <2>1, NoneLeft, Zenon DEF Left, Later
  <2>4. {i, j} = {j, i}
    OBVIOUS
  <2>. QED  BY <2>2, <2>3, <2>4
<1>. QED  BY <1>1, Invariance, PTL

(* Nothing is under way when the root's callback runs.                     *)
THEOREM QuietAtEnd == ASSUME N > 1 PROVE Spec => []QuietWhenDone
<1>1. IInv => QuietWhenDone
  <2>1. SUFFICES ASSUME IInv, onDoneCb[Root] > 0
                 PROVE  contacts = {} /\ dones = {}
    BY DEF QuietWhenDone
  <2>2. <<Root, Root>> \notin contacts
    <3>1. Root \in Node
      BY NAssumption DEF Root, Node
    <3>2. Started(Root)
      BY <2>1, <3>1, NoneLeft
    <3>. QED  BY <3>2 DEF Started
  <2>3. \A k, l \in Node : k < l => <<k, l>> \notin contacts /\ <<l, k>> \notin dones
    BY <2>1, NoneLeft, Zenon DEF Left, Later, IInv, Exchanges
  <2>4. \A m \in contacts : m = <<m[1], m[2]>> /\ m[1] \in Node /\ m[2] \in Node /\ m[1] < m[2]
    BY <2>1, <2>2 DEF IInv, Messages
  <2>5. \A m \in dones : m = <<m[1], m[2]>> /\ m[1] \in Node /\ m[2] \in Node /\ m[2] < m[1]
    BY <2>1 DEF IInv, Messages
  <2>. QED  BY <2>3, <2>4, <2>5, Zenon
<1>. QED  BY <1>1, Invariance, PTL
=============================================================================
