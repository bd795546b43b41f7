------------------------------- MODULE Gossip -------------------------------
(***************************************************************************)
(* gossip/gossip.go: nodes gossip the lowest value they know, the root     *)
(* counts what reaches it until one value has more than two thirds of the  *)
(* tree's size, then sends that value down the tree and waits for Finished *)
(* messages to come up.                                                    *)
(*                                                                         *)
(* A node has a handler goroutine and Dispatch; channels between them that *)
(* Dispatch always drains only delay a message and are part of its way     *)
(* (newValue, valueFoundCh).  newRootValue is kept: it is short, so that   *)
(* the root's handler waits for Dispatch.  The value of a node is the node,*)
(* ordered by Rank (the comparison of Sum); Verify holds for all of them.  *)
(***************************************************************************)
EXTENDS Tree, Sequences

CONSTANTS Rank,      \* the order of the nodes' values, no two alike
          NbNode,    \* how many nodes gossip picks
          MaxRound   \* bound on the timeouts of all nodes together

None == "none"

ASSUME GossipAssumption ==
    /\ Rank \in [Node -> Nat]
    /\ \A m, n \in Node : Rank[m] = Rank[n] => m = n
    /\ None \notin Node
    /\ NbNode \in Nat /\ MaxRound \in Nat
    /\ ~IsLeaf(Root)

VARIABLES
    dispatch,      \* "new", "running", "stopping" (p.stop is closed), "stopped"
    lowest,        \* Dispatch's lowest
    incoming,      \* [Node -> values on their way to lowest]
    toRoot,        \* [Node -> number of copies of the value sent to the root]
    newRootValue,  \* the channel, with what the handler waits to put on it
    counter, max,  \* rootValues; max.value is None after a reset
    rounds,        \* timeouts so far, and one for Start
    found,         \* what the root handed to doneCb, one entry per call
    valueFound,    \* [Node -> the ValueFound on its way to the node, or None]
    told,          \* [Node -> the value it was told, or None]
    sentFinished,  \* nodes whose Finished is on its way to the parent
    finished,      \* Finished messages each node has counted
    waitCh         \* whether waitCh is closed: WaitFinish returns

vars == <<dispatch, lowest, incoming, toRoot, newRootValue, counter, max,
          rounds, found, valueFound, told, sentFinished, finished, waitCh>>
gossipVars == <<lowest, incoming, toRoot, rounds>>
rootVars == <<newRootValue, counter, max, found>>
endVars == <<valueFound, told, sentFinished, finished, waitCh>>

(* n.Tree().Size() * 2.0 / 3.0, in integers *)
Threshold == (Cardinality(Node) * 2) \div 3

(* Value.Less compares the sums.                                           *)
Less(v, w) == Rank[v] < Rank[w]

NoMax == [value |-> None, count |-> 0]
NoCount == [n \in Node |-> 0]

Init ==
    /\ dispatch = [n \in Node |-> IF IsRoot(n) THEN "running" ELSE "new"]
    /\ lowest = [n \in Node |-> n]
    /\ incoming = [n \in Node |-> {}]
    /\ toRoot = NoCount
    /\ newRootValue = <<>>
    /\ counter = NoCount /\ max = NoMax
    /\ rounds = 0
    /\ found = <<>>
    /\ valueFound = [n \in Node |-> None]
    /\ told = [n \in Node |-> None]
    /\ sentFinished = {}
    /\ finished = NoCount
    /\ waitCh = FALSE

(* Dispatch still serves its channels.                                     *)
Serves(n) == dispatch[n] \in {"running", "stopping"}
(* The overlay still delivers to the node: Done has not been called.       *)
Delivers(n) == dispatch[n] \in {"new", "running"}
(* A message makes the node's instance if it is the first.                 *)
Created(n) == IF dispatch[n] = "new" THEN "running" ELSE dispatch[n]
(* The root's handler is not waiting to put a value on newRootValue, whose *)
(* capacity is the number of its children.                                 *)
HandlerFree == Len(newRootValue) <= Cardinality(Children(Root))

(* gossip: NbNode picks, in which only the node itself comes up more than  *)
(* once, and one message to the root.  A node's own lowest does not change *)
(* its lowest; at the root every copy counts.                              *)
SendGossip(n, v) ==
    \E others \in SUBSET (Node \ {n}) :
        /\ Cardinality(others) <= NbNode
        /\ LET self == NbNode - Cardinality(others)
               copies == 1 + (IF IsRoot(n) THEN self
                              ELSE IF Root \in others THEN 1 ELSE 0)
           IN /\ incoming' = [m \in Node |->
                    IF m \in (others \cup {Root}) \ {n} /\ Delivers(m)
                    THEN incoming[m] \cup {v} ELSE incoming[m]]
              /\ toRoot' = IF Delivers(Root)
                           THEN [toRoot EXCEPT ![v] = @ + copies] ELSE toRoot

----------------------------------------------------------------------------
(* Start, at the root, and the timeout case of Dispatch, in which the root *)
(* forgets what it has counted.                                            *)
Start ==
    /\ rounds = 0
    /\ rounds' = 1
    /\ SendGossip(Root, Root)
    /\ UNCHANGED <<dispatch, lowest, rootVars, endVars>>

Timeout(n) ==
    /\ Serves(n) /\ rounds \in 1..MaxRound
    /\ rounds' = rounds + 1
    /\ SendGossip(n, lowest[n])
    /\ IF IsRoot(n) THEN counter' = NoCount /\ max' = NoMax
       ELSE UNCHANGED <<counter, max>>
    /\ UNCHANGED <<dispatch, lowest, newRootValue, found, endVars>>

(* ReceiveValue and the newValue case of Dispatch.                         *)
ReceiveValue(n) ==
    /\ Delivers(n)
    /\ \E v \in incoming[n] :
         /\ incoming' = [incoming EXCEPT ![n] = @ \ {v}]
         /\ lowest' = [lowest EXCEPT ![n] = IF Less(v, @) THEN v ELSE @]
    /\ dispatch' = [dispatch EXCEPT ![n] = Created(n)]
    /\ UNCHANGED <<toRoot, rounds, rootVars, endVars>>

(* The rest of ReceiveValue at the root: newRootValue <- val.              *)
ReceiveRootValue ==
    /\ Delivers(Root) /\ HandlerFree
    /\ \E v \in {w \in Node : toRoot[w] > 0} :
         /\ toRoot' = [toRoot EXCEPT ![v] = @ - 1]
         /\ newRootValue' = Append(newRootValue, v)
    /\ UNCHANGED <<dispatch, lowest, incoming, rounds, counter, max, found,
                   endVars>>

(* valueCounter.Put *)
Put(v) ==
    /\ counter' = [counter EXCEPT ![v] = @ + 1]
    /\ max' = IF counter'[v] > max.count
              THEN [value |-> v, count |-> counter'[v]] ELSE max

(* The newRootValue case of Dispatch: once a value was found the others    *)
(* are dropped; the message that passes the threshold makes foundAll send  *)
(* the value down and call doneCb.                                         *)
TakeRootValue(drains, Decided) ==
    /\ Serves(Root) /\ newRootValue # <<>>
    /\ drains
    /\ newRootValue' = Tail(newRootValue)
    /\ IF Decided
       THEN UNCHANGED <<counter, max, found, valueFound, told>>
       ELSE /\ Put(Head(newRootValue))
            /\ IF max'.count > Threshold
               THEN /\ found' = Append(found, max'.value)
                    /\ valueFound' = [n \in Node |->
                         IF n \in Children(Root) THEN max'.value ELSE valueFound[n]]
                    /\ told' = [told EXCEPT ![Root] = max'.value]
               ELSE UNCHANGED <<found, valueFound, told>>
    /\ UNCHANGED <<dispatch, gossipVars, sentFinished, finished, waitCh>>

DispatchRootValueAgain == TakeRootValue(TRUE, FALSE)
DispatchRootValueUntilFound == TakeRootValue(found = <<>>, found # <<>>)
DispatchRootValue == TakeRootValue(TRUE, found # <<>>)

(* ReceiveValueFound and sendValueFound: a leaf answers and is done.       *)
ReceiveValueFound(n) ==
    /\ Delivers(n) /\ valueFound[n] # None
    /\ told' = [told EXCEPT ![n] = valueFound[n]]
    /\ valueFound' = [c \in Node |-> IF c = n THEN None
                                     ELSE IF c \in Children(n) THEN valueFound[n]
                                     ELSE valueFound[c]]
    /\ IF IsLeaf(n)
       THEN /\ sentFinished' = sentFinished \cup {n}
            /\ dispatch' = [dispatch EXCEPT ![n] = "stopping"]
       ELSE /\ dispatch' = [dispatch EXCEPT ![n] = Created(n)]
            /\ UNCHANGED sentFinished
    /\ UNCHANGED <<gossipVars, rootVars, finished, waitCh>>

(* The Finished of all children is passed on, or ends WaitFinish at the    *)
(* root, and the node is done.                                             *)
FinishAt(n, Enough(_)) ==
    /\ Delivers(n)
    /\ IsRoot(n) => HandlerFree
    /\ \E c \in Children(n) \cap sentFinished :
         /\ finished' = [finished EXCEPT ![n] = @ + 1]
         /\ IF Enough(finished'[n])
            THEN /\ sentFinished' = (sentFinished \ {c}) \cup ({n} \ {Root})
                 /\ waitCh' = (waitCh \/ IsRoot(n))
                 /\ dispatch' = [dispatch EXCEPT ![n] = "stopping"]
            ELSE /\ sentFinished' = sentFinished \ {c}
                 /\ UNCHANGED <<waitCh, dispatch>>
    /\ UNCHANGED <<gossipVars, rootVars, valueFound, told>>

ReceiveFinishedAny(n) == FinishAt(n, LAMBDA k : TRUE)
ReceiveFinished(n) == FinishAt(n, LAMBDA k : k >= Cardinality(Children(n)))

(* Dispatch sees that p.stop is closed.                                    *)
StopDispatch(n) ==
    /\ dispatch[n] = "stopping"
    /\ dispatch' = [dispatch EXCEPT ![n] = "stopped"]
    /\ UNCHANGED <<gossipVars, rootVars, endVars>>

Next ==
    \/ Start \/ ReceiveRootValue \/ DispatchRootValue
    \/ \E n \in Node : \/ Timeout(n) \/ ReceiveValue(n) \/ ReceiveValueFound(n)
                       \/ ReceiveFinished(n) \/ StopDispatch(n)

Spec == Init /\ [][Next]_vars

(* Messages arrive, handlers and Dispatch run; timeouts are not needed for *)
(* what is promised once a value is found.                                 *)
FairSpec ==
    /\ Spec
    /\ WF_vars(Start) /\ WF_vars(ReceiveRootValue) /\ WF_vars(DispatchRootValue)
    /\ \A n \in Node : /\ WF_vars(ReceiveValue(n))
                       /\ WF_vars(ReceiveValueFound(n))
                       /\ WF_vars(ReceiveFinished(n))
                       /\ WF_vars(StopDispatch(n))
----------------------------------------------------------------------------
(* Values come from nodes; the root's channel holds at most its capacity   *)
(* and the value the handler waits with.                                   *)
TypeOK ==
    /\ dispatch \in [Node -> {"new", "running", "stopping", "stopped"}]
    /\ lowest \in [Node -> Node]
    /\ told \in [Node -> Node \cup {None}]
    /\ Len(newRootValue) <= Cardinality(Children(Root)) + 1
    /\ finished \in [Node -> 0..Cardinality(Node)]

(* The root decides once, and every node that is told a value is told what *)
(* the root's callback got; newRootValue holds no more than its capacity   *)
(* and the value with which the handler waits.                             *)
OneElected ==
    /\ TypeOK
    /\ Len(found) <= 1
    /\ \A n \in Node : told[n] # None => found # <<>> /\ told[n] = found[1]

(* WaitFinish returns, and a node calls Done, only when everybody below    *)
(* has been told the value and is done.                                    *)
DoneBottomUp ==
    \A n \in Node : dispatch[n] \in {"stopping", "stopped"} =>
        \A m \in Subtree[n] : /\ dispatch[m] \in {"stopping", "stopped"}
                              /\ told[m] # None

(* After the callback WaitFinish returns and every Dispatch ends, although *)
(* values keep arriving at the root until then.                            *)
FoundThenFinished ==
    found # <<>> ~> waitCh /\ \A n \in Node : dispatch[n] = "stopped"
----------------------------------------------------------------------------
(* The inductive invariant behind OneElected and DoneBottomUp.             *)
Ended(n) == dispatch[n] \in {"stopping", "stopped"}

Types ==
    /\ dispatch \in [Node -> {"new", "running", "stopping", "stopped"}]
    /\ lowest \in [Node -> Node]
    /\ incoming \in [Node -> SUBSET Node]
    /\ newRootValue \in Seq(Node)
    /\ Len(newRootValue) <= Cardinality(Children(Root)) + 1
    /\ counter \in [Node -> Nat]
    /\ max \in [value : Node \cup {None}, count : Nat]
    /\ found \in Seq(Node)
    /\ valueFound \in [Node -> Node \cup {None}]
    /\ told \in [Node -> Node \cup {None}]
    /\ sentFinished \subseteq Node
    /\ finished \in [Node -> Nat]

(* A ValueFound, on its way or received, carries what the root decided.    *)
Elected ==
    /\ max.count > 0 => max.value # None
    /\ Len(found) <= 1
    /\ \A n \in Node : \A v \in {told[n], valueFound[n]} \ {None} :
         found # <<>> /\ v = found[1]

(* A ValueFound comes from a parent that has it.                           *)
ToldDownward ==
    \A n \in Node \ {Root} :
        told[n] # None \/ valueFound[n] # None => told[Parent[n]] # None

(* A node has counted the children that are done and whose Finished is no  *)
(* longer on its way.                                                      *)
Reported(n) == {c \in Children(n) : Ended(c) /\ c \notin sentFinished}

CountedOnce ==
    /\ \A n \in sentFinished : Ended(n)
    /\ \A n \in Node : finished[n] = Cardinality(Reported(n))

IInv == Types /\ Elected /\ ToldDownward /\ CountedOnce /\ DoneBottomUp
=============================================================================
