------------------------------ MODULE Broadcast ------------------------------
(***************************************************************************)
(* omniledger/messaging/broadcast.go: a full mesh of connections among the *)
(* nodes of a tree.  The root contacts all others; a node contacted by the *)
(* root contacts the nodes after it in the tree list, and reports Done to  *)
(* the root when all of those have answered.                               *)
(*                                                                         *)
(* Nodes are their positions tnIndex in Tree().List(); the root is first.  *)
(***************************************************************************)
EXTENDS Integers, FiniteSets

CONSTANTS N,        \* len(Tree().List())
          MayFail   \* SendTo may return an error

Node == 0..(N - 1)
Root == 0

ASSUME NAssumption == N \in Nat \ {0} /\ MayFail \in BOOLEAN

VARIABLES
    contacts,     \* ContactNodes under way, as <<from, to>>
    dones,        \* Done under way, as <<from, to>>
    repliesLeft,  \* the counter of each node
    onDoneCb,     \* how often each node found that all is done
    connected,    \* pairs of which one handled a message of the other
    failed        \* whether a SendTo has failed

vars == <<contacts, dones, repliesLeft, onDoneCb, connected, failed>>

(* Start: the root contacts itself. *)
Init ==
    /\ contacts = {<<Root, Root>>}
    /\ dones = {}
    /\ repliesLeft = [i \in Node |-> IF i = Root THEN (N * (N - 1)) \div 2 ELSE 0]
    /\ onDoneCb = [i \in Node |-> 0]
    /\ connected = {}
    /\ failed = FALSE

(* Tree().List()[b.tnIndex+1:] *)
Later(i) == {j \in Node : j > i}

(* The loop over the later nodes ends at the first failure of SendTo.      *)
Reached(i) ==
    {Later(i)} \cup
    (IF MayFail THEN {{k \in Later(i) : k < j} : j \in Later(i)} ELSE {})

(* mutant: answer every contact at once, the root's too *)
HandleContactEager(i) ==
    \E m \in contacts :
      /\ m[2] = i
      /\ connected' = connected \cup {{m[1], i}}
      /\ \/ /\ m[1] = Root
            /\ repliesLeft' = [repliesLeft EXCEPT ![i] = N - i - 1]
            /\ \E R \in Reached(i) :
                 /\ contacts' = (contacts \ {m}) \cup {<<i, j>> : j \in R}
                 /\ failed' = (failed \/ R # Later(i))
            /\ dones' = IF i = Root THEN dones ELSE dones \cup {<<i, Root>>}
         \/ /\ m[1] # Root
            /\ dones' = dones \cup {<<i, m[1]>>}
            /\ contacts' = contacts \ {m}
            /\ UNCHANGED <<repliesLeft, failed>>
      /\ UNCHANGED onDoneCb

(* A contact from the root: contact the later nodes, or report if there    *)
(* are none.  A contact from another node is answered.                     *)
HandleContactNodes(i) ==
    \E m \in contacts :
      /\ m[2] = i
      /\ connected' = connected \cup {{m[1], i}}
      /\ \/ /\ m[1] = Root
            /\ repliesLeft' = [repliesLeft EXCEPT ![i] = N - i - 1]
            /\ \/ /\ N - i - 1 = 0
                  /\ dones' = dones \cup {<<i, Root>>}
                  /\ contacts' = contacts \ {m}
                  /\ UNCHANGED failed
               \/ /\ N - i - 1 # 0
                  /\ \E R \in Reached(i) :
                       /\ contacts' = (contacts \ {m}) \cup {<<i, j>> : j \in R}
                       /\ failed' = (failed \/ R # Later(i))
                  /\ UNCHANGED dones
         \/ /\ m[1] # Root
            /\ dones' = dones \cup {<<i, m[1]>>}
            /\ contacts' = contacts \ {m}
            /\ UNCHANGED <<repliesLeft, failed>>
      /\ UNCHANGED onDoneCb

(* mutant: do not report to the root *)
HandleDoneSilent(i) ==
    \E m \in dones :
      /\ m[2] = i
      /\ connected' = connected \cup {{m[1], i}}
      /\ repliesLeft' = [repliesLeft EXCEPT ![i] = @ - 1]
      /\ onDoneCb' = [onDoneCb EXCEPT
                        ![i] = IF repliesLeft[i] = 1 THEN @ + 1 ELSE @]
      /\ dones' = dones \ {m}
      /\ UNCHANGED <<contacts, failed>>

(* Count an answer; the last one makes the node report to the root, and    *)
(* the root call its callback.                                             *)
HandleDone(i) ==
    \E m \in dones :
      /\ m[2] = i
      /\ connected' = connected \cup {{m[1], i}}
      /\ repliesLeft' = [repliesLeft EXCEPT ![i] = @ - 1]
      /\ IF repliesLeft[i] = 1
         THEN /\ onDoneCb' = [onDoneCb EXCEPT ![i] = @ + 1]
              /\ dones' = (dones \ {m}) \cup
                            (IF i = Root THEN {} ELSE {<<i, Root>>})
         ELSE /\ dones' = dones \ {m}
              /\ UNCHANGED onDoneCb
      /\ UNCHANGED <<contacts, failed>>

Next == \E i \in Node : HandleContactNodes(i) \/ HandleDone(i)

Spec == Init /\ [][Next]_vars

(* Messages are delivered and handled. *)
FairSpec == Spec /\ WF_vars(Next)

-----------------------------------------------------------------------------
(* "Broadcast ensures that all nodes are connected to each other": when    *)
(* the root's callback runs, every two nodes have exchanged a message.     *)
ConnectedWhenDone ==
    onDoneCb[Root] > 0 =>
      \A i, j \in Node : i # j => {i, j} \in connected

(* Nothing is under way when the root's callback runs, so nothing can make *)
(* a counter move or a callback run afterwards.                            *)
QuietWhenDone == onDoneCb[Root] > 0 => contacts = {} /\ dones = {}

(* A node sends its contacts when the root's own contact reaches it.       *)
Started(i) == IF i = Root THEN <<Root, Root>> \notin contacts
                          ELSE {Root, i} \in connected

(* The nodes whose Done a started node still counts on: for the root those *)
(* that have not started, still wait themselves or whose Done is under way.*)
Left(i) ==
    {j \in Later(i) : \/ {i, j} \notin connected
                      \/ i = Root /\ repliesLeft[j] # 0
                      \/ <<j, i>> \in dones}

Messages ==
    /\ repliesLeft \in [Node -> Nat] /\ onDoneCb \in [Node -> 0..1]
    /\ contacts \subseteq {m \in Node \X Node : m[1] < m[2] \/ m = <<Root, Root>>}
    /\ dones \subseteq {m \in Node \X Node : m[2] < m[1]}
    /\ <<Root, Root>> \in contacts =>
         contacts = {<<Root, Root>>} /\ dones = {} /\ connected = {}

Exchanges == \A i, j \in Node : i < j =>
    /\ <<i, j>> \in contacts =>
         Started(i) /\ {i, j} \notin connected /\ <<j, i>> \notin dones
    /\ <<j, i>> \in dones => {i, j} \in connected
    /\ <<j, i>> \in dones /\ i = Root => repliesLeft[j] = 0
    /\ {i, j} \in connected => Started(i)

Counters == \A i \in Node :
    /\ Started(i) => repliesLeft[i] = Cardinality(Left(i))
    /\ onDoneCb[i] # 0 => Started(i) /\ repliesLeft[i] = 0

(* The counters of handleContactNodes and handleDone always say how many   *)
(* answers are missing, and messages go between the right nodes only: the  *)
(* invariant from which the others follow.                                 *)
IInv == Messages /\ Exchanges /\ Counters

(* Of two or more nodes, unless a SendTo fails, the root's callback comes   *)
(* (broadcast.go lines 18-20: "If you need a confirmation once everything  *)
(* is set up, you can register a callback-function").                      *)
Confirmed == <>(failed \/ onDoneCb[Root] = 1)
=============================================================================
