------------------------------ MODULE Propagate ------------------------------
(***************************************************************************)
(* omniledger/messaging/propagate.go: the root sends data down the tree,   *)
(* every node stores it and replies, and the replies are relayed one by    *)
(* one to the root, which returns how many came in.                        *)
(*                                                                         *)
(* A PropagateReply carries no name.  The model keeps the node each reply  *)
(* stands for, so channelReply and received are sets and the field         *)
(* received is the cardinality (CountedOnce: no two replies coincide).     *)
(***************************************************************************)
EXTENDS Tree

CONSTANTS MayCrash,    \* servers that may go down
          MayTimeout,  \* servers on which msec may pass without a message
          MayReject    \* servers on which storing the data may fail

VARIABLES
    process,       \* "running" until Dispatch's loop ends, "exited": os.Exit
    channelSD,     \* data received and not handled
    channelReply,  \* replies received and not handled
    received,      \* replies counted
    onData,        \* outcome of the storing function
    result         \* what PropagationFunc returns (0: still blocked)

vars == <<process, channelSD, channelReply, received, onData, result>>

Init ==
    /\ process = [n \in Node |-> "running"]
    /\ channelSD = [n \in Node |-> n = Root]      \* Start
    /\ channelReply = [n \in Node |-> {}]
    /\ received = [n \in Node |-> {}]
    /\ onData = [n \in Node |-> "none"]
    /\ result = 0

Down == {n \in Node : process[n] = "exited"}

(* mutant: wait for the replies of the children only *)
OnlyChildren(n) == Cardinality(Children(n))

(* TreeNode.SubtreeCount: the nodes below n *)
SubtreeCount(n) == Cardinality(Subtree[n]) - 1

(* SendToParent(&PropagateReply{}) *)
ReplyToParent(n, replies, origin) ==
    IF IsRoot(n) THEN replies
    ELSE [replies EXCEPT ![Parent[n]] = @ \cup {origin}]

(* SendToChildren stops at the first child it cannot reach, and a crashed  *)
(* child may or may not be noticed.                                        *)
Reached(n) ==
    IF Children(n) \cap Down = {} THEN {Children(n)} ELSE SUBSET Children(n)

(* What follows the loop once process is false. *)
Finish(n, count) ==
    /\ process' = [process EXCEPT ![n] = "returned"]
    /\ result' = IF IsRoot(n) THEN count + 1 ELSE result

(* Data: store it, reply whether or not that worked, send it on.  A leaf   *)
(* is done.                                                                *)
HandleData(n) ==
    /\ process[n] = "running"
    /\ channelSD[n]
    /\ \E res \in {"stored"} \cup (IF n \in MayReject THEN {"rejected"} ELSE {}) :
         onData' = [onData EXCEPT ![n] = res]
    /\ channelReply' = ReplyToParent(n, channelReply, n)
    /\ \/ /\ IsLeaf(n)
          /\ channelSD' = [channelSD EXCEPT ![n] = FALSE]
          /\ Finish(n, 0)
       \/ /\ ~IsLeaf(n)
          /\ \E R \in Reached(n) :
               channelSD' = [c \in Node |-> IF c = n THEN FALSE
                                            ELSE c \in R \/ channelSD[c]]
          /\ UNCHANGED <<process, result>>
    /\ UNCHANGED received

(* mutant: a reply stays in the channel after it was relayed *)
ReplyKept(n) ==
    /\ process[n] = "running"
    /\ \E origin \in channelReply[n] :
         LET count == received[n] \cup {origin}
         IN /\ received' = [received EXCEPT ![n] = count]
            /\ channelReply' = ReplyToParent(n, channelReply, origin)
            /\ IF Cardinality(count) = SubtreeCount(n)
               THEN Finish(n, Cardinality(count))
               ELSE UNCHANGED <<process, result>>
    /\ UNCHANGED <<channelSD, onData>>

(* mutant: only the root looks at the count *)
ReplyRootCounts(n) ==
    /\ process[n] = "running"
    /\ \E origin \in channelReply[n] :
         LET count == received[n] \cup {origin}
             rest == [channelReply EXCEPT ![n] = @ \ {origin}]
         IN /\ received' = [received EXCEPT ![n] = count]
            /\ channelReply' = ReplyToParent(n, rest, origin)
            /\ IF IsRoot(n) /\ Cardinality(count) = SubtreeCount(n)
               THEN Finish(n, Cardinality(count))
               ELSE UNCHANGED <<process, result>>
    /\ UNCHANGED <<channelSD, onData>>

(* A reply is counted and relayed; with all of them in, n is done.         *)
HandleReply(n) ==
    /\ process[n] = "running"
    /\ \E origin \in channelReply[n] :
         LET count == received[n] \cup {origin}
         IN /\ received' = [received EXCEPT ![n] = count]
            /\ channelReply' =
                 ReplyToParent(n, [channelReply EXCEPT ![n] = @ \ {origin}], origin)
            /\ IF Cardinality(count) = SubtreeCount(n)
               THEN Finish(n, Cardinality(count))
               ELSE UNCHANGED <<process, result>>
    /\ UNCHANGED <<channelSD, onData>>

(* No message for msec: log.Fatalf ends the server's process.  A node's    *)
(* protocol instance exists once data was sent to it.                      *)
Timeout(n) ==
    /\ n \in MayTimeout
    /\ process[n] = "running"
    /\ channelSD[n] \/ onData[n] # "none"
    /\ process' = [process EXCEPT ![n] = "exited"]
    /\ UNCHANGED <<channelSD, channelReply, received, onData, result>>

(* The server goes down for another reason. *)
Crash(n) ==
    /\ n \in MayCrash
    /\ process[n] = "running"
    /\ process' = [process EXCEPT ![n] = "exited"]
    /\ UNCHANGED <<channelSD, channelReply, received, onData, result>>

Dispatch(n) == HandleData(n) \/ HandleReply(n) \/ Timeout(n)

Next == \E n \in Node : Dispatch(n) \/ Crash(n)

Spec == Init /\ [][Next]_vars

(* Dispatch's goroutine is scheduled and time passes; crashes need not     *)
(* happen.                                                                 *)
FairSpec == Spec /\ \A n \in Node : WF_vars(Dispatch(n))

-----------------------------------------------------------------------------
(* The fields of a Propagate instance have their types. *)
TypeOK ==
    /\ process \in [Node -> {"running", "returned", "exited"}]
    /\ channelSD \in [Node -> BOOLEAN]
    /\ channelReply \in [Node -> SUBSET Node]
    /\ received \in [Node -> SUBSET Node]
    /\ onData \in [Node -> {"none", "stored", "rejected"}]
    /\ result \in Nat

(* PropagationFunc returns only the full count, and only after every node  *)
(* ran its storing function, whatever the order of data and replies.       *)
ReturnsWhenAllHandled ==
    result # 0 => /\ result = Cardinality(Node)
                  /\ \A n \in Node : onData[n] # "none"

(* Every reply is counted once on its way: what waits at a node or was     *)
(* counted there stands for different nodes below it that handled the      *)
(* data, and a child passed on exactly its own reply and those it counted. *)
CountedOnce ==
    \A n \in Node :
      /\ channelReply[n] \cap received[n] = {}
      /\ \A c \in Children(n) :
           Subtree[c] \cap (channelReply[n] \cup received[n]) =
             received[c] \cup (IF onData[c] = "none" THEN {} ELSE {c})

(* Unless a process exits, the root returns and every Dispatch ends. *)
Completes ==
    <>(\/ \E n \in Node : process[n] = "exited"
       \/ result # 0 /\ \A n \in Node : process[n] = "returned")

-----------------------------------------------------------------------------
(* The inductive invariant.  Data reaches a node once, after its parent;   *)
(* replies come from nodes below that handled the data.                    *)
Handled(n) == onData[n] # "none"

DataDown ==
    /\ \A n \in Node : channelSD[n] => ~Handled(n)
    /\ \A c \in Node \ {Root} :
         channelSD[c] \/ Handled(c) => Handled(Parent[c])

RepliesUp ==
    \A n \in Node : \A m \in channelReply[n] \cup received[n] :
      m \in Below(n) /\ Handled(m) /\ Handled(n)

Result ==
    result # 0 => /\ result = Cardinality(Node)
                  /\ Handled(Root)
                  /\ received[Root] = Node \ {Root}

IInv == TypeOK /\ DataDown /\ RepliesUp /\ CountedOnce /\ Result
=============================================================================
